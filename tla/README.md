# TLA+ development of the csqtt / qWDTT module

This directory models the connection core of the repository: the Rust engine
`examples/modulecsqtt/native/csqtt-engine` (many TURN paths bundled into one IP
tunnel) and the Go helper `examples/moduledual/native/dual` that hosts it. The
modules are model-checked with TLC on small instances and the most important
invariants are proved with TLAPS for every value of the constants.
`PROJECT.json` maps every definition to the lines it models and lists the runs,
the hazards and the finding.

## 1. Inventory

Paths are relative to `examples/modulecsqtt/native/csqtt-engine` (engine) and
`examples/moduledual/native/dual` (helper).

| Component | State it keeps | Operations | What is hard, what makes it correct |
|---|---|---|---|
| `shared/flow_frame.rs` | sender: flow table, numbers; receiver: per-flow expected number and held-back packets, one shared counter | `next`, `push` | frames arrive over many paths in any order, lost or twice; packets of a flow must leave in order, once; buffers stay bounded |
| `dispatcher.rs`, packet channel | ring, epoch/open word, sender count, a Notify | `try_send`, `force_send`, `recv`, `resume`, drops | lock-free; no lost wake-up, no packet from before a resume |
| `dispatcher.rs`, dispatcher; `shared/striped_scheduler.rs`, `shared/selective_fec.rs` | worker registry, scheduler snapshot, stripe cursors, duplicate tracker | register, unregister, dispatch, redispatch | stale snapshots, packets of a dead worker, a queue closed between look and push; no packet multiplied or left behind |
| `idle.rs` | process-wide atomics: limit, active flag, declared count, epoch offset, announcement counter, joined table; traffic windows | `enter`, `exit`, `note_path_joined`, `note_path_lost`, `note_uplink`, `monitor`, waiters | written by the monitor, the bridge and every session without a lock; a registration must carry the values in force |
| `rebind.rs` | epoch, stall samples | `request`, `requested`, stall monitor | sessions half-way through set-up; a stall is neither missed nor probed twice |
| `session.rs` | one TURN path: connect, ChannelBind, GETCONF, READY, writer and reader tasks, replay window, farewell | `run_session` | retries, late answers, five things to wait for at once |
| `worker.rs` | pause gate, retry ladder, start pacer, credential cache, groups | `worker_loop`, `run_groups` | a cache locked across awaits; verdicts about credentials that have been replaced |
| `repair.rs`, `wake.rs` | per-stream repair slots; clocks | apply, changed; detect | requests that arrive several times and late |
| `turn_core.rs`, `turn.rs` | transactions, allocation and channel with their deadlines, control and event rings; what the driver publishes | allocate, bind, refresh, resync after a suspend, shutdown | timeouts, late answers and cancellation; an allocation in use is kept alive, its end is told and the server is left without it |
| `turn_stream.rs` | read buffer | `read_frame` | bytes arrive in pieces of any size |
| `turn_endpoint.rs`, `stun_codec.rs`, `udp_batch.rs` | little | parsing, batches | byte-level |
| `packet*.rs`, `tun.rs` | buffer pool, bridge slots | get, put, inject | hand-over at restart |
| `protocol.rs`, `obfs.rs`, `wrap.rs` | counters, replay windows | seal, open | wrap-around |
| `auth.rs`, `captcha*.rs`, `vk_js_calls.rs`, `turn_seed.rs` | captcha lockout, issued credentials, WebView channel | a ladder of ways to be let in | a foreign service; cancellation in the middle; answers to an earlier question |
| `lib.rs`, `ffi.rs` | process-wide slots | start, stop, pause | restart while the old engine ends |
| `events.rs`, `stats.rs`, `logging.rs`, `dns.rs`, `protect.rs`, `namegen.rs`, `profiles.rs` | little | | I/O |
| helper `cmd/helper/csqtt_datapath.go` | one mutex around the offline hold, restart budget, rebind and resume generations | host events, heal, rebind, recycle, watchdogs | many goroutines; engine calls outside the lock; nothing may be forgotten |
| helper `cmd/helper/*` (rest), `tunnel/` | SOCKS front end, netstack | serve | admission during recovery |
| helper `internal/qwdtt/*` | a second transport: worker groups, credential cache, health watch, relay watchdog | run | the same kinds of races |
| `shared/*` (Go canons) | host protocol, resolver, socket protection | | action waiters, resolver race |

How they interact. A packet from the helper's netstack enters the engine through
the in-process bridge, is framed (`flow_frame`), given to a worker's packet
channel by the scheduler and written by that worker's session to its TURN path;
the answer takes the same way back through the reassembler. A session is started
by its worker with TURN credentials from the cache of its cohort, which are
fetched from VK; how the session ends decides what happens to them. Sessions
register at the server with GETCONF, which carries the epoch and the number of
workers declared by `idle.rs`. `idle`, `rebind`, `repair`, `wake` and the pause
gate tell sessions what to do only through atomics and `tokio::sync::Notify`. The
helper's guard drives the engine through C calls: pause, rebind, nudge, stop,
start.

## 2. Plan

Done: `FlowFrame`, `PacketQueue`, `DataPathGuard` and `TurnClient`, each with
proofs; `Fleet` (worker, session, idle mode, rebind and pause composed), with proofs;
`Dispatch`, with proofs; `Engine`, with proofs; `Credentials`, with proofs, `VkAuth` and their composition
`CredentialSupply`, which is shown to implement `Credentials`; the functions
`ReplayWindow`, `TurnStream`, `TrafficWatch` and `StreamRepair`.

Next, in this order:

1. The return path of the dispatcher (downlink queue, TUN writer) and the
   composition of `Dispatch` with `PacketQueue`, whose queues it takes as atomic.
2. The qWDTT side: worker groups, the credential cache, the deaf-worker watch and
   the relay watchdog.
3. The resolver race and the action waiters of the Go canons.
4. Abstract specifications: an ordered lossy pipe for `FlowFrame`, a FIFO with
   bounded loss for `PacketQueue`.

## 3. Modules

### FlowFrame
State: the sender's table (`sequences`, `senderId`), the frames on the way
(`net`), the receiver's table (`flows`) and counter (`pendingTotal`), and a clock
for the gap timeout. `Send` is `FlowSequencer::next`, `Push` is
`FlowReassembler::push` with its whole body: table clear, expiry, release, both
limits. Payloads are the sequence positions themselves, so order and duplication
are visible. `WrapAdd` and `Distance` keep the wrap-around of `u32`.

### PacketQueue
One step per atomic access of `PacketSender`, `PacketReceiver` and their drops.
`permit` is the stored permit of `notify_one`, `broadcast` says whether
`notify_waiters` was called since the receiver armed itself.

### Fleet
One step per access to an atomic of `idle.rs`. `mon` and `bridge` are the program
counters of `enter` (monitor task) and `exit` (packet bridge), `pc[w]` that of a
worker, from the gate through connect, ChannelBind and GETCONF to the select loop
and `note_path_lost`. A Notify is a Boolean per waiter: notified since it
registered. The writer and reader tasks
are one event, `PathDies`. Cancellation of the engine is not part of it. When to
enter and leave idle mode is the environment's choice: the traffic windows only
decide the moment, and they are the functions of `TrafficWatch`. The bounds (`MaxGen`, `MaxAnnounce`, `MaxRebind`) are kept by
not starting a call that would need a larger number, so no call is cut short.

### DataPathGuard
One step per section under `g.mu` and per call into the engine. `task` holds a
goroutine's step and locals: the host event reader, the two monitors and a pool of
anonymous goroutines (a `go` statement needs a free one; `Pool` is the bound).
Generation counters are only compared for equality with their current value, so
a task remembers whether the one it captured is still current; this keeps the
state finite without a bound on the number of events. Durations are windows that
may end at any moment, except two facts that the constants guarantee: the rebind
watchdog (16 s) outlives the dedupe gap of its own rebind (3 s), and
`engineWaitReady` (90 s) outlives the recycle gap (45 s). A stopped engine is
taken as gone. The branch for a missing `rebuildTunFn` is left out because
`csqtt_run.go` always sets it. After the decision to exit only running goroutines
go on.

### TurnClient
One TURN allocation. Every method of `NativeCore` takes one mutex for its whole
body, so each is an operator on the record `core` (`Inner`); `armed` is the set of
deadlines that are set, and a poll may find any of them passed. The driver is a
program counter `dpc` with one step per part of a loop iteration: the top with the
wake epoch and the cleanup, poll, the control sends, the events, the select. The
owner (`own`) goes through `connect`, `prepare_channel` and `deallocate` or the
drop, and may be cancelled at every step. `shared` is what the driver publishes.
The server is external: it holds the allocation or not, may forget it, and
answers with any of the kinds that `input_stun` tells apart. What goes wrong
without being the server's decision (a loss, a timeout, a passed expiry, a failed
send, a suspend, an answer that makes no sense) is counted in `faults`
and bounded by `MaxFaults`.

Reductions: the controls of one pump are sent in one step and so are its events
handled, since only the driver takes them out; two transactions due in the same
poll are two polls; the environment and the owner's own decisions wait until the
driver is in its select (`Quiet`), except the calls that take the core's mutex.
Transaction ids are fresh, so what belongs to a finished transaction is dropped,
except a late Allocate or Deallocate, which still changes the server.

### Dispatch
The uplink: `Inject` is `inject_uplink` of the bridge, `ReaderTake` one turn of
`read_bridge` (pop, classify, stripe, duplicate). A search for a
queue takes one step per worker it looks at (`Look`, then `Push`; `ScanVictim` per
worker compared for `min_by_key`, then `ChooseVictim` and `ForcePush`), taken by the
reader or by a dying session that hands its packets on, with other actors in between. `sched` is the reader's
snapshot with a cursor per class; `registry` is the published vector, ordered by
`interleave_turn_paths`. A session (`chan[i]`) goes through live, ending (marked
unhealthy), handing (writer aborted, queues stolen) and gone; another
incarnation of the same worker may be registered afterwards. Queues are atomic
FIFOs here; `PacketQueue` is their inside.

### Engine
One process, its statics (`ENGINE_CANCEL`, `ENGINE_PAUSE`, the bridge,
`ACTIVE_PATHS`, the stop flags) and every engine ever started in it, each with its
stage, token, sessions and `ShutdownCoordinator`. Actions are the exported C
functions, the parts of `run` between its awaits, the coming and going of
sessions, and the turns of the leader of the goodbye. A session that is aborted
while it leads takes the goodbye with it. `csqtt_engine_wait_ready` only reads, and what
it reads may stem from the engine before, so the helper may give up on an engine at any
moment; the monitors of the parent process may cancel one from its set-up on.

### Credentials
`worker_loop` around `GroupCredentials`: the mutex of the cache stays locked from
the first look until the fetch, its delay included, is over; `credential_pacer`
serialises fetches of all cohorts. `cache[c]` keeps the generation, attempts and
mismatches of the current credentials and the value blocked after a quota answer.
A session reports by its result, from which `Verdict` follows. `SortHeldBack` is
the early `continue` of a worker found paused or parked. The two calls of
`wait_until_allowed` are gates at which a worker may be held (`"gate"` at the top of the
loop, `"held"` with a lease before its session; `HeldBack`, `Released`): what holds it, pause
and parking, is the subject of `Fleet`. There only the engine's token is watched. The fetch answers
anything in `Outcome`.

### VkAuth and CredentialSupply
`VkAuth` is one `get_credentials`: seed, Auto JS broker, calls path, legacy path
with captchas, the captcha ladder with solver and WebView, and what outlives a
fetch (lockout, issued credentials, WebView channel). Each request is what VK may
reply to it; VK and the WebView are external. `CredentialSupply` puts it in place of
the abstract fetch: `Cred == INSTANCE Credentials WITH ...` maps the cache, the locks
and the workers to themselves and hides the fetch, and
`ImplementsCredentials == Cred!FairSpec` says that the composition is a
`Credentials`, with the promise that fetches end.

### ReplayWindow, TurnStream, TrafficWatch, StreamRepair
Functions, each compared with a definition that does not mention its
representation: the replay window with the set of accepted counters, the stream
reader with the list of frames that was cut into pieces, the stall detector and the idle
windows with conditions over a whole run of polls or packets, a repair slot with
the history of requests applied to it. They have no behaviour of their own, so
TLC evaluates them in the initial states of the run of the module they serve
(`Init => ...` in `MCFlowFrame`, `MCTurnClient` and `MCFleetTraffic`), and TLAPS proves
them for every length of the list, run or history.

### Mutants
Each module holds, next to an operation, variants that a slip in that code would
produce (`release` has `releaseAny`, `Begin` has `BeginRegardless`, ...). Nothing in
the specifications uses them: `PROJECT.json` pairs each with the property that
fails when the operation is replaced by it.

## 4. Runs

One run per question. Passing runs:

| Run | Instance | Properties and what they show |
|---|---|---|
| `flow` | three flows, two table entries, both limits and the gap timeout reached; every order, loss and duplication; replay window of 4 over two laps | `OrderedDelivery`: order and at most once per flow. `PendingTotalBounded`, `Consistent`: exact shared counter, bounded tables. `ReplayWindowExact`: a packet is accepted exactly when it is new |
| `queue` | two producers that may both use `try_send` and `force_send`, two sends and one, started running or paused, one resume; fair | `NoLostWakeup`: only crossed `try_send`s lose a wake-up. `ReceiverServed`: what is queued wakes the receiver unless two have crossed, and the end is seen. `NoReplay` across a resume, `SenderOrder` |
| `fleet` | two workers, two epochs, two announcements, one rebind; runs of up to seven polls, five packets, five repair events | `RegistrationsCurrent`: a re-registration carries the values in force. `NobodySleepsThroughNews`. `StallIsProbed`, `IdleTracksTraffic`, `RepairsCounted`: the decisions agree with their definition over whole runs |
| `fleet_parking` | one parkable worker with pause and two GETCONF attempts; fair | `GateFollowsLimit`: parked workers stop, allowed workers start |
| `guard_goroutines` | host reader, two goroutines, one restart; the wake monitor with one other task at a time | `OneRecycle`, `InFlightHasOwner`, `NeverFatalOffline`; `PauseHasProbe`: whenever the guard is paused somebody is there to end it |
| `guard_live` | host reader and one goroutine; fair | `HandoverPerformed`, `RecoveryEnds`: restarts and pauses end, a remembered handover happens |
| `turn` | both transports, two transmissions, one fresh nonce per operation, two channel failures, rings of 4 and 8, one fault; streams of up to three frames cut at every byte, pools of up to two packets | `ReadyIsMaintained`: an allocation in use keeps its timers. `OwnerIsInformed`: data only over a channel the core has, its end is told. `ReleasedAtEnd`, `NeverReopens`, `FramesIntact` |
| `dispatch` | two workers, three sessions, two packets of two kinds (one gets a spare, the other has a stripe of two), queues of one and two | `ScheduleConsistent`: cursors, registry and order of the paths; a stale snapshot lasts less than a stripe. `NoDuplicates`. `StrandedBounded`: only a push already aimed at a dead session is left behind |
| `engine` | two engines of two workers, two sessions, one stop event; fair | `StaticsOwned`, `PathsExact`: what a restart may find wrong, and when. `CancelledEnds`, `GoodbyeSaid` |
| `credentials` | two workers of one cohort, two sets of credentials, two generations, held at either gate; fair | `HoldingsCovered`: leases and the configuration flight are accounted for. `RejectedNotReused`, `StaleLeaseHarmless`. `NobodyStuck`: no cache stays locked, and the workers of a dead call return unless a gate holds them |
| `supply` | two cohorts of one hash in three configurations; fair | `ImplementsCredentials`. `FetchIsOwn`, `LockoutRespected`, `GoneIsNoticed` |

A name such as `Consistent` or `StaticsOwned` is the conjunction of the named parts
above it in its module, its type invariant among them.

One run shows a disagreement between the code and what it says of itself (the
quoted line is in `findings`): in `fleet_socket` a rebind between connect and READY
is skipped, and the session stays on a socket of the old network.

Four more configurations are kept as counterexamples; TLC refutes their property:

| Configuration | What TLC finds |
|---|---|
| `PacketQueue_twotry.cfg` (`WakesUp`) | the dispatcher and a redispatch push to one queue with `try_send`; with both packets queued each reads a length of two and takes the receiver for awake, neither notifies, and it sleeps on both until a `force_send` or another branch of the writer's select. The test `receiver_notification_race_has_no_lost_wakeup` uses one handle and `force_send` |
| `Fleet_stall.cfg` (`TrickleIsProbed`) | a stall with less than `STALL_MIN_UPLINK_DELTA` (4096 bytes) of uplink per poll is not probed. Two tests of `rebind.rs` disagree: `stall_ignores_tiny_uplink_ticks` wants this, `downlink_or_silence_resets_the_streak` (`rebind.rs:163`) a probe at 100 bytes per poll; `StallIsProbed` states what the code does |
| `Fleet_unpark.cfg` (`ActiveTrafficUnparks`) | `exit` inside `enter` leaves workers parked with idle mode off |
| `DataPathGuard_dead.cfg` (`DeadPathEscalates`, `BusySpec`) | under steady traffic rebinds repeat and the watchdog never escalates to a restart |

Bounds. Two workers are the smallest fleet with a keeper and a parkable one, and
workers do not talk to each other except through the shared atomics. Two epochs
and two announcements let `enter`, `exit` and a lost path overlap. Two
goroutines beside the host let an old and a new watchdog, or a watchdog and a
heal, overlap, the wake monitor with one of them at a time (`WakerWithOne`); the network detector and an engine library without rebind are in
no run but within the proofs, which hold for every set of monitors and either value of
`CanRebind`. `FailThreshold` is 1 instead of 3 and `MaxRecycles` 1 instead of 8:
only reaching the limit matters. In `turn`, both rings overflow at their small
capacities, a request is retransmitted once before it is given up, and one fault
anywhere is enough for each of the error paths; answers that refuse, challenge or
report a mismatch are not faults and are unlimited. In `dispatch`, three sessions
of two workers include a restart beside a live neighbour, and queues of one and
two packets are full, congested and evicted from. Two engines are an old one and
its successor. Two generations of credentials make a lease stale; in `supply` one
value and one generation are enough because the cache is the subject of
`credentials`, and a second cohort lets a lockout and the pacer reach across.
`VIEW` in `Fleet.cfg` leaves out values that are overwritten before they are read.
Deadlock is not checked where the system may legitimately come to rest (an ended
queue, an exhausted bound, a helper that has decided to exit, workers that have returned).

Fairness. Liveness runs assume that a task that can run does run (tokio's and
Go's schedulers), that a started call finishes, that timers fire and that the
wait for an answer ends. Nothing forces the environment to send traffic, lose a
path, change network, pause or stop. `guard_live` also assumes that a probe made
while the network is usable succeeds; `BusySpec` adds that applications keep
connecting, since without connections nothing would notice a dead path. In
`Engine` the tasks of every engine progress, each wait of the goodbye having a
timeout. Nothing forces a worker in `Credentials` to be released from a gate, nor the helper
to give up on an engine. In `Credentials` a worker's ready steps run (`WorkerRuns`) and a fetch
ends (`FetchEnds`); the second is an assumption there and a consequence in
`CredentialSupply`, where only single steps of the fetch are fair: every request
and WebView has a timeout, and no ladder is endless.

## 5. Proofs

All proofs are checked by TLAPS with no omitted step and hold for every value of
the constants allowed by the named assumptions.

* `FlowFrameProofs`: `TypeCorrect`, `OrderedDeliveryHolds`,
  `PendingTotalBoundedHolds`, `ConsistentHolds` and `ReplayWindowExactHolds`. The inductive invariant relates what was released
  of a flow to its `expected` number and bounds every held-back key; it is needed
  because order alone says nothing of the packets still waiting. The assumption
  `NoWrapAssumption` keeps a flow below half of the number space. For the exact
  counter each part of `push_at` is shown to change it by as much as what the
  flow itself holds back (`Counts`, whatever the others hold), which also shows that
  `saturating_sub` never saturates; `PushBooks` then separates the block of the flow
  from the rest of the set that is counted. `ReplayWindowExactHolds` is about a function: that
  the low bits of a counter near `highest` name it (`ExtendedIsExact`) and that the ring
  has one bit for every counter of the window (`BitsOfWindow`), for all sizes.
* `DispatcherProofs`, about `PacketQueue`: `TypeCorrect`, `NoLostWakeupHolds`,
  `NoReplayHolds` and `SenderOrderHolds`, for any number of handles, all of which may use
  `try_send`. The invariant says for each step of a
  sender which of permit, sender on its way to notify, or non-empty check of the
  receiver is responsible for the wake-up, unless two `try_send`s have crossed (`Crossed`:
  the two oldest packets come from different handles that may use `try_send`). `SenderOrder` is not inductive: `Order`
  adds that the ring is sorted per handle, that all of a handle in it is newer than
  what was delivered of it, and that both are older than the send about to push.

  About `Dispatch`: `ScheduleConsistentHolds`, `StrandedBoundedHolds` and
  `NoDuplicatesHolds`, for any workers, paths, sessions, packets, capacities and stripe
  lengths. `ConstantsAssumption` asks for at least one worker, as `lib.rs` does by
  rounding the requested number up. Each has its own inductive invariant on top of the types, `Typed`:
  - `Typed` gives the cursors more than a range: `LagOK` says that the packets already
    sent to an outdated vector and those left of the stripe are together less than a
    stripe, which only a reload resets, and `SchedOK` that every cursor points into
    the snapshot and that nothing is left of a stripe without one. What
    `interleave_turn_paths` returns names every worker exactly once, in the
    order of its rounds, for any set of workers (`Interleaved`); that it alternates
    between the paths is shown for all sets of four (`SpreadsHere`).
  - `StrandInv` adds to what a dead session's queues hold those who may still push to
    it; the sum is bounded by the actors that were aiming at it when it was drained,
    and nobody can choose it afterwards.
  - `CopiesOK` counts the copies of a packet wherever they are: on the bridge, in every queue
    of every session, among those stolen, in the hands of whoever looks for a
    queue, in the spare, and sent. `NoDuplicates` leaves the hands out and is not
    inductive: the packet a reader has taken and not yet pushed would be free
    to appear twice. Every step moves one copy from one place to another, drops one, or makes
    the one spare `KindsOK` allows. The queues are counted as a set of positions, so
    a push and a pop change the number of one set by one (`Slots`).
* `DataPathGuardProofs`: `TypeCorrect`, `OneRecycleHolds`, `InFlightHasOwnerHolds`
  and `NeverFatalOfflineHolds`, for any number of goroutines, any set of monitors
  and any limits. `OneRecycle` is inductive: the flag is raised by the goroutine
  that enters the restart and lowered by the same one. Ownership of the in-flight
  flag is inductive because a goroutine gives up a current generation only in the
  step that lowers the flag or raises it for a newer one. The inductive
  invariant `IInv` is the conjunction of the types, `OneRecycle` and
  `InFlightHasOwner`; `NeverFatalOffline` is an action property that follows from
  the guard under the same lock section. `PauseHasProbeHolds`: whoever is to end the
  pause hands that duty on. The duty is a place and a pause generation; a step either
  leaves it with its goroutine or gives it to the one it starts (`Moves`), or lifts
  the pause, or begins a pause whose duty is its own.
* `TurnClientProofs`: `ReadyIsMaintainedHolds`, `NeverReopensHolds`,
  `OwnerIsInformedHolds`, `ReleasedAtEndHolds` and `FramesIntactHolds`, for every limit,
  capacity and number of faults. None is inductive alone. The invariant
  `Good` of the core adds that credentials are known before a request or a deadline
  needs them, that Deallocate is only pending in a core that was shut down, that a
  destroyed core has nothing pending, and that no ChannelBind is pending before the
  allocation exists or after the shutdown; without the last one the answer to an old
  ChannelBind could open a channel in a closed core. One lemma per helper says which
  fields it changes, one per method that it preserves `Good`; the steps of the
  driver and the owner then only run whole methods or take out of the queues.
  `OwnerIsInformed` relates the core to what its driver publishes, with a bounded
  queue of events in between that drops the oldest. The invariant `Informed` says
  that, unless the session is over, the events waiting are `Frank`: either one of
  them is fatal, as every overflow is, or the gate they will leave open stands for a
  channel the core has, and a core that was destroyed has said so. Each method
  `Follows`: it keeps the capacities, the states in which requests belong (a
  late ChannelBind must not open a channel in a core that is not ready), and
  frankness. The loop over the events in `HandleEvents` and the filter of
  `remove_queued_transaction` are recursive functions; what they do for every
  queue is shown by induction (`Induction`, from the pigeon-hole principle of the
  library, since its own induction theorems take an operator).
  `ReleasedAtEnd` speaks of the end only; `Accounted` says what must be true on the way there
  while there was no fault and the ChannelBind failures are not exhausted: the one
  Allocate is in the queue, on the wire or answered, never in two of these places, so
  that no forgotten copy can make the server allocate later (`OneAllocate`); what the
  server holds is in use, being given back, or granted by an answer still to be read
  (`Traceable`); a Deallocate is only under way for a core that closes, and once
  granted nothing is held (`Released`); who has sent nothing has nothing (`Silent`);
  and the driver leaves its loop only when the core has given up (`Ended`, which
  needs that the events waiting tell of no end that has not come: `News` in `Orderly`).
  Each method leaves an orderly core orderly: those the driver and the owner call
  are `Gentle` to an Allocate under way, and `Answered` says what an answer does.
  Faults are never forgotten (`FaultsCount`), and a core that is exhausted stays so until
  the end of the driver (`AnswerKeepsExhausted` and the failure counts of the other
  methods), which carries the condition back along each step. All of it is shown on top of `Informed`.
  `FramesIntactHolds` is about the stream reader, from `StreamAssumption` (the frames are
  legal and the read buffer holds the largest). `DecodeIs`: a legal frame is waited for
  until its last byte, padding included, is there, and is then taken whole. Hence
  `Between`, which each call of `read_frame` preserves (`CallReadsNext`): as many bytes are
  gone as the returned frames had, and as many packets as there were ChannelData frames,
  or all of them. `ReaderReads` is the induction over the calls; after as many as there are frames
  the reader has read what had arrived.
* `EngineProofs`: `StaticsOwnedHolds`. The inductive invariant has three parts:
  every engine's record is sound (its goodbye has a leader exactly while it is under
  way, who still exists and turns to registered streams only), the statics are
  owned as long as no two engines overlap, and the token of every engine past its
  prologue is the published one unless a stop has missed a prologue. `StaticsOwned`
  alone is not inductive: ownership must already hold for an engine in set-up,
  and a missed stop is only visible through the place of the helper. Most actions
  change one record within limits (`Touches`), so one lemma covers them.
  `PathsExactHolds` needs no more than the types: `SessionsUp` is a finite set of
  pairs, and each action adds one pair, removes one or those of an aborted
  engine, or none, while the counter moves by as many (`CountUp`, `CountDown`,
  `CountSame`); a reset notes in `forgotten` how many it hides.
  `GoodbyeOnceHolds`, the safety half of `GoodbyeSaid`, compares the record of each engine
  before and after a step (`SaidOnce`): dropping a session can end a leadership but
  not pass it on, and `request_disconnect` leaves a goodbye that has begun alone.
* `CredentialsProofs`: `HoldingsCoveredHolds`, `RejectedNotReusedHolds` and
  `StaleLeaseHarmlessHolds`. `LeasesCovered` counts leases in use; the inductive
  `Counted` also counts those whose session has ended and that `Clear` or `Sort` may still
  give back, otherwise a late release could take an attempt that belongs to somebody
  else. It needs that no lease is younger than the newest generation, and
  `RejectedNotReused` that the blocked value is the one rejected last. Every action
  concerns one worker and its cohort, so one lemma (`StepPreserves`) turns the few facts
  each action shows about its own worker into the invariant.
* `CredentialSupplyProofs`: `SupplyRefinesCredentials`, `Spec => Cred!Spec`. Every
  step of the composition is a step of `Credentials` or leaves its variables
  unchanged, so what `CredentialsProofs` shows carries over. The fairness half
  of `ImplementsCredentials` is left to TLC. `FetchIsOwnHolds`, `LockoutRespectedHolds`
  and `GoneIsNoticedHolds` share one inductive invariant: what the record of
  the fetch may be at each place (`FetchInv`: how many tries are behind it, which
  WebView it waits for, what it will say if the call is gone, that a lockout ends
  it), what a worker may be waiting for (`Shaped`), and that a fetch runs exactly
  while its holder of the pacer waits (`Owned`). The middle part is needed because
  only the place of the worker tells a pacer held for a fetch from one held after it.
* `FleetProofs`: `RegistrationsCurrentHolds` and `NobodySleepsThroughNewsHolds`, for
  any number of workers, keepers and attempts. Every writer changes the state
  before it counts up the announcement, and every session looks at the count, or
  registers its watch, before it reads the state. The invariant says what a
  session knows at each of its places unless a write still owes its announcement
  (`Built` of the registration it puts together, `Watched` of the Notify it has armed).
  The bounds of the types need `Room`: calls in progress count against the bounds
  already, since several `note_path_lost` overlap.

  About the functions that `MCFleetTraffic` adds: `StallIsProbedHolds`,
  `IdleTracksTrafficHolds` and `RepairsCountedHolds`, for all thresholds and for
  runs of any length. `TrafficAssumption` gives the runs their types, orders the times of the
  packets and keeps the limits and `QuietPolls` positive, as the constants of `idle.rs` are;
  `RepairAssumption` only types its bounds. Each state after a prefix of the run is
  that of a recursive function, shown to exist by an induction of the same kind (`Recursion`);
  the induction over the prefixes needs more than the property says:
  - `Remembers`, of a slot: `last` is the newest request heard, and `ready` has caught up
    with it if the request was resolved, and only if a report or READY covers it. What the property
    says of one event follows from what the slot remembers of all before it.
  - `Detects`, of the stall detector: which counters it saw last (those of the last poll
    with a READY path), its last probe, and that `stalled` is the length of the streak since.
  - `Counts`, of a window: what it counts, that the window before it stayed below the limit,
    and that everything older is out of reach of the packets to come. The last two
    are why a flood of twice the limit less one cannot be missed.
  - `Watches`, of the idle monitor: the last noisy poll.

Every invariant and every action property of a passing run is stated by one of these
theorems. Only model-checked: the liveness properties (`ReceiverServed`, `GateFollowsLimit`,
`HandoverPerformed`, `RecoveryEnds`, `CancelledEnds`, `NobodyStuck` and the half
`StopAnswered` of `GoodbyeSaid`) and the fairness half of `ImplementsCredentials`; fairness
and ENABLED are out of the prover's reach. The run that
expects a violation, `fleet_socket`, stays with TLC.

## 6. Known weaknesses without a property

Met while modelling; they contradict no documented promise, or lie below the grain of
the models.

* `shared/flow_frame.rs:241`: the gap timeout is only looked at when another frame
  of the flow arrives, so the tail of a flow can wait behind a gap for good.
* `session.rs:912`, `:914`: the repair generation and the announcement epoch are read
  after the request they should describe; what happens in between is missed.
* `repair.rs:68`: `changed` looks first and registers afterwards.
* `idle.rs:20`: a GETCONF in flight when idle mode is entered joins the epoch that
  was meant to drop it.
* `session.rs:510`: counters below the first one received have no place in the
  replay window's first lap.
* `dispatcher.rs:694`: replacing the TUN restarts the sequencer; `dispatcher.rs:1001`:
  the spare copy can land on the worker that has the first one.
* `packet_bridge.rs:129`: two host threads that push at once can both read a length
  of two, and neither wakes the reader.
* `worker.rs:168`: a worker held at a gate hears of the end of the engine, not of its
  call; while it is paused or parked it outlives a call that is gone, and `run_groups`
  waits for it.
* `worker.rs:784`: a verdict about credentials is forgotten when the worker is found
  parked; `worker.rs:794`: a rebind does not give its lease back.
* `turn_seed.rs:45`: seeded credentials are handed out again after a quota rejection.
* `ffi.rs:252`: a TUNCONF of the previous engine can make the next one look ready.
* `turn.rs:203`: `fail` publishes the snapshot before the flag that `recv` looks at;
  `turn.rs:891`: while closing, a datagram can overwrite the need for a pump;
  `turn_core.rs:1071`: `next_deadline` leaves out the expiry of the allocation;
  `turn_stream.rs:129`: the writer can miss the last control frame.
* `csqtt_datapath.go:231`, `:602` (helper): engine calls outside the lock that orders the
  decisions, and restart requests dropped in the 45 s gap.

## 7. Not modelled

* The qWDTT transport and the helper's SOCKS front end, netstack and IPv4 map:
  planned above.
* The Go canons under `shared/`: the resolver race and the action waiters are
  planned; the rest is platform I/O.
* The TUN and UDP loops of the dispatcher and its return path; keepalives, batching
  and pacing of a session's writer; the incoming packet queue, the stream writer and
  the batched sockets of the TURN client.
* Ciphers, header bytes, the STUN codec and packet parsing: they work on bytes.
* The contents of HTTP requests, captcha images, browser profiles and names; DNS,
  logging, statistics, configuration forms, bindings and build scripts: I/O against
  foreign services, wrappers or one-shot code with little state.
