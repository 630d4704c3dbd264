------------------------------- MODULE Dispatch -------------------------------
(***************************************************************************)
(* The uplink of the engine: the in-process bridge (packet_bridge.rs), the *)
(* striping dispatcher (dispatcher.rs, shared/striped_scheduler.rs), the   *)
(* registry of worker sessions and the end of a session, which hands its   *)
(* queued packets to the others (session.rs).                              *)
(*                                                                         *)
(* Actors on different threads: the host that injects IP packets, the      *)
(* bridge reader that dispatches them, and for every session a writer task *)
(* and the session task that tears it down.  The dispatcher looks at a     *)
(* session's flags and pushes to its queue in two separate steps.          *)
(*                                                                         *)
(* A packet is a number with a kind; the kind stands for the header fields *)
(* the classifiers look at.                                                *)
(***************************************************************************)
EXTENDS Integers, Sequences, FiniteSets, Functions

CONSTANTS Id,           \* worker ids
          PathOf,       \* worker id -> its TURN path (host:port), an ordered set
          Kind,         \* kinds of packets the host sends, a subset of AllKinds
          Chunk,        \* class -> stream_chunk: packets per stripe
          Cap,          \* class -> capacity of a worker's queue
          Batch,        \* class -> limit of a writer batch
          LatencyCap,   \* UPLINK_LATENCY_CAPACITY
          UplinkCap,    \* UPLINK_CAPACITY
          QuicPerFlow,  \* QUIC_SPARE_PER_FLOW
          QuicFlowCap,  \* QUIC_SPARE_FLOW_CAP
          PoolLimit,    \* allocation_limit of the packet pool
          MaxInc,       \* bound: sessions ever started
          MaxPackets    \* bound: packets ever injected

Class == {"small", "medium", "bulk"}
AllKinds == {"dns", "quic1", "quic2", "udp", "tcp", "syn"}

\* There is always a worker: lib.rs rounds the requested number up.
ASSUME ConstantsAssumption ==
    /\ Id \subseteq Nat /\ Id # {} /\ PathOf \in [Id -> Nat] /\ Kind \subseteq AllKinds
    /\ Chunk \in [Class -> Nat \ {0}] /\ Cap \in [Class -> Nat \ {0}]
    /\ Batch \in [Class -> Nat \ {0}]
    /\ LatencyCap \in Nat \ {0} /\ UplinkCap \in Nat \ {0} /\ PoolLimit \in Nat
    /\ QuicPerFlow \in Nat /\ QuicFlowCap \in Nat
    /\ MaxInc \in Nat /\ MaxPackets \in Nat

Inc == 1 .. MaxInc
NoInc == 0

VARIABLES chan,      \* session incarnation -> its WorkerChannels and its stage
          registry,  \* Dispatcher.workers: the published vector
          sched,     \* the bridge reader's FastPathScheduler
          uplink,    \* UplinkBridge: its two queues
          search,    \* enqueue_selected_worker in progress, per actor
          spare,     \* the reader's second copy, waiting for its own search
          tracker,   \* quic_spare_tracker: flow -> spares sent
          sent,      \* packet -> copies handed to a TURN path
          injected,  \* kinds of the packets injected so far
          lag        \* class -> packets in a row begun on an outdated snapshot

vars == <<chan, registry, sched, uplink, search, spare, tracker, sent, injected, lag>>

-----------------------------------------------------------------------------
(* Classification of a packet.                                             *)

\* packet_class: DNS, ICMP and TCP control are small whatever their size; UDP
\* never falls into the bulk class.
packet_class(k) ==
    CASE k \in {"dns", "syn"} -> "small"
      [] k \in {"quic1", "quic2", "udp"} -> "medium"
      [] k = "tcp" -> "bulk"

keep_under_pressure(k) == packet_class(k) = "small" \/ k \in {"dns", "quic1", "quic2", "udp"}

\* should_duplicate after udp_spare's own test for IPv4 UDP: a framed TCP
\* packet never gets as far.
should_duplicate(k) == k = "dns"

is_quic_initial_sized(k) == k \in {"quic1", "quic2"}

\* quic_initial_spare_allow: TRUE and the tracker after it.
AllowedByTracker(k) == k \notin DOMAIN tracker \/ tracker[k] < QuicPerFlow

TrackerAfter(k) ==
    LET n == IF k \in DOMAIN tracker THEN tracker[k] ELSE 0
        t == [f \in DOMAIN tracker \cup {k} |->
                 IF f # k THEN tracker[f] ELSE IF n < QuicPerFlow THEN n + 1 ELSE n]
        young == {f \in DOMAIN t : t[f] < QuicPerFlow}
    IN  IF n >= QuicPerFlow \/ Cardinality(DOMAIN t) <= QuicFlowCap THEN t
        ELSE IF Cardinality(young) <= QuicFlowCap THEN [f \in young |-> t[f]]
        ELSE [f \in {k} |-> 1]

-----------------------------------------------------------------------------
(* The registry of sessions.                                               *)

Rank(ch, i, S) == Cardinality({j \in S : ch[j].path = ch[i].path /\ ch[j].id < ch[i].id})

\* A worker of an earlier round, or one of the same round with a smaller path.
Before(ch, S, i, j) ==
    \/ Rank(ch, i, S) < Rank(ch, j, S)
    \/ Rank(ch, i, S) = Rank(ch, j, S) /\ ch[i].path < ch[j].path

\* interleave_turn_paths: one worker of every path in turn, so that the
\* stripes next to each other use different TURN paths.
interleave_turn_paths(ch, S) ==
    [m \in 1 .. Cardinality(S) |->
        CHOOSE i \in S : Cardinality({j \in S : Before(ch, S, j, i)}) = m - 1]

Idle == [on |-> FALSE]
Queued(i, c) == Len(chan[i].q[c])
Ended(i) == chan[i].stage \in {"none", "gone"}

NewChannels(id) ==
    [id |-> id, path |-> PathOf[id], racers |-> 0,
     healthy |-> TRUE, open |-> TRUE,
     q |-> [c \in Class |-> <<>>], stage |-> "live", drained |-> <<>>]

\* run_allocated_session up to its select loop: queues, register, writer.  A
\* worker runs one session at a time.
StartSession(id) ==
    LET new == {i \in Inc : chan[i].stage = "none"}
        i == CHOOSE n \in new : \A m \in new : n <= m
        kept == {j \in Range(registry) : chan[j].id # id}
    IN  /\ new # {}
        /\ \A j \in Inc : chan[j].id = id => Ended(j)
        /\ chan' = [chan EXCEPT ![i] = NewChannels(id)]
        /\ registry' = interleave_turn_paths(chan', kept \cup {i})
        /\ UNCHANGED <<sched, uplink, search, spare, tracker, sent, injected, lag>>

-----------------------------------------------------------------------------
(* The host side of the bridge.                                            *)

\* A finished session's queues live on while some vector still names them.
Reachable(i) ==
    \/ ~Ended(i)
    \/ i \in Range(sched.workers)
    \/ \E a \in DOMAIN search : search[a].on /\ i \in Range(search[a].workers)

QueueCopies ==
    UNION {{<<i, c, n>> : n \in 1 .. Queued(i, c)} : i \in {j \in Inc : Reachable(j)}, c \in Class}

\* Packet buffers taken from the pool.
BuffersInUse ==
    Cardinality(QueueCopies) + Len(uplink.latency) + Len(uplink.queue)
        + Cardinality({a \in DOMAIN search : search[a].on})
        + Len(spare)
        + Cardinality(UNION {{<<i, n>> : n \in 1 .. Len(chan[i].drained)} : i \in Inc})

\* enqueue_uplink: a packet worth keeping replaces the oldest of its queue.
enqueue_uplink(p) ==
    IF keep_under_pressure(p.kind)
    THEN [uplink EXCEPT !.latency = Append(IF Len(@) = LatencyCap THEN Tail(@) ELSE @, p)]
    ELSE [uplink EXCEPT !.queue = IF Len(@) = UplinkCap THEN @ ELSE Append(@, p)]

\* inject_packet: copy into a pool buffer, queue it, wake the reader.
Inject(k) ==
    /\ Len(injected) < MaxPackets
    /\ injected' = Append(injected, k)
    /\ uplink' = IF BuffersInUse < PoolLimit
                 THEN enqueue_uplink([n |-> Len(injected) + 1, kind |-> k])
                 ELSE uplink
    /\ UNCHANGED <<chan, registry, sched, search, spare, tracker, sent, lag>>

-----------------------------------------------------------------------------
(* FastPathScheduler.                                                      *)

Zero == [c \in Class |-> 0]

\* sync_worker_count on a scheduler that has just loaded ws.
LoadedKeepsCursors(s, ws) == [s EXCEPT !.workers = ws, !.count = Len(ws)]

Loaded(s, ws) ==
    [workers |-> ws, count |-> Len(ws),
     current |-> IF Len(ws) # s.count THEN Zero ELSE s.current,
     remaining |-> IF Len(ws) # s.count THEN Zero ELSE s.remaining]

\* begin_for_class on a scheduler with workers.
Advanced(s, c) ==
    LET left == (IF s.remaining[c] = 0 THEN Chunk[c] ELSE s.remaining[c]) - 1
        next == IF s.current[c] + 1 = s.count THEN 0 ELSE s.current[c] + 1
    IN  [s EXCEPT !.remaining[c] = left, !.current[c] = IF left = 0 THEN next ELSE @]

\* The scheduler begin works with: the published vector is loaded again only
\* at the start of a stripe of the packet's class.
Reloaded(c) == IF sched.remaining[c] = 0 THEN Loaded(sched, registry) ELSE sched

-----------------------------------------------------------------------------
(* enqueue_selected_worker and replace_oldest_in_selected_queue, one look  *)
(* and one push at a time, other actors in between.  An actor is the       *)
(* reader or a dying session.                                              *)

Reader == 0
Actor == {Reader} \cup Inc

\* A search from a ticket's slot.  The whole ring is tried when the primary is
\* down, the primary and two neighbours when it is only full; the first pass
\* skips congested queues, the second does not.
StartSearch(p, ws, slot, evict) ==
    [on |-> TRUE, pkt |-> p, workers |-> ws, slot |-> slot, evict |-> evict,
     width |-> IF slot + 1 \in DOMAIN ws /\ chan[ws[slot + 1]].healthy /\ Len(ws) > 3
               THEN 3 ELSE Len(ws),
     pos |-> 0, at |-> "look", target |-> NoInc, least |-> 0]

Candidate(s, pos) == s.workers[((s.slot + (pos % s.width)) % Len(s.workers)) + 1]

Congested(i, c) == 2 * Queued(i, c) >= Cap[c]

\* is_healthy, is_congested and the flag try_send looks at first.
EligibleUnlessCongested(s, pos) ==
    ~(pos < s.width /\ Congested(Candidate(s, pos), packet_class(s.pkt.kind)))

Eligible(s, pos) ==
    LET i == Candidate(s, pos)
    IN  /\ chan[i].healthy /\ chan[i].open
        /\ ~(pos < s.width /\ Congested(i, packet_class(s.pkt.kind)))

\* Actor a's search becomes x, and nothing else changes.
SearchTo(a, x) ==
    /\ search' = [search EXCEPT ![a] = x]
    /\ UNCHANGED <<chan, registry, sched, uplink, spare, tracker, sent, injected, lag>>

\* The search after a candidate that did not take the packet.  After the last
\* of the second round the packet replaces the oldest of a queue, or is dropped
\* if it is a spare.
Onward(s) ==
    IF s.pos + 1 < 2 * s.width THEN [s EXCEPT !.at = "look", !.pos = @ + 1, !.target = NoInc]
    ELSE IF s.evict THEN [s EXCEPT !.at = "evict", !.pos = 0, !.target = NoInc]
    ELSE Idle

\* One candidate: a push is tried if it looks worth it at this moment.
Look(a) ==
    LET s == search[a]
    IN  /\ s.on /\ s.at = "look"
        /\ \/ /\ Eligible(s, s.pos)
              /\ SearchTo(a, [s EXCEPT !.at = "push", !.target = Candidate(s, s.pos)])
           \/ ~Eligible(s, s.pos) /\ SearchTo(a, Onward(s))

\* ArrayQueue::push: fails on a full queue, whose owner may be gone by now.
Push(a) ==
    LET s == search[a]
        i == s.target
        c == packet_class(s.pkt.kind)
    IN  /\ s.on /\ s.at = "push"
        /\ IF Queued(i, c) < Cap[c]
           THEN /\ chan' = [chan EXCEPT ![i].q[c] = Append(@, s.pkt)]
                /\ search' = [search EXCEPT ![a] = Idle]
           ELSE search' = [search EXCEPT ![a] = Onward(s)] /\ UNCHANGED chan
        /\ UNCHANGED <<registry, sched, uplink, spare, tracker, sent, injected, lag>>

\* One worker of min_by_key over the healthy ones: the shortest queue so far,
\* as long as it was when it was looked at.
ScanVictim(a) ==
    LET s == search[a]
        i == s.workers[s.pos + 1]
        queued == Queued(i, packet_class(s.pkt.kind))
        better == chan[i].healthy /\ (s.target = NoInc \/ queued < s.least)
    IN  /\ s.on /\ s.at = "evict" /\ s.pos < Len(s.workers)
        /\ \/ /\ better
              /\ SearchTo(a, [s EXCEPT !.pos = @ + 1, !.target = i, !.least = queued])
           \/ /\ ~better
              /\ SearchTo(a, [s EXCEPT !.pos = @ + 1])

\* After the last worker: the flag force_send looks at, if any was healthy.
ChooseVictim(a) ==
    LET s == search[a]
        standing == s.target # NoInc /\ chan[s.target].open
    IN  /\ s.on /\ s.at = "evict" /\ s.pos >= Len(s.workers)
        /\ \/ /\ standing
              /\ SearchTo(a, [s EXCEPT !.at = "force", !.least = 0])
           \/ /\ ~standing
              /\ SearchTo(a, Idle)

\* ArrayQueue::force_push: the oldest packet of a full queue is dropped.
ForcePush(a) ==
    LET s == search[a]
        c == packet_class(s.pkt.kind)
    IN  /\ s.on /\ s.at = "force"
        /\ chan' = [chan EXCEPT ![s.target].q[c] =
                        Append(IF Len(@) = Cap[c] THEN Tail(@) ELSE @, s.pkt)]
        /\ search' = [search EXCEPT ![a] = Idle]
        /\ UNCHANGED <<registry, sched, uplink, spare, tracker, sent, injected, lag>>

SearchStep(a) == Look(a) \/ Push(a) \/ ScanVictim(a) \/ ChooseVictim(a) \/ ForcePush(a)

-----------------------------------------------------------------------------
(* read_bridge and dispatch_now.                                           *)

\* udp_spare: whether the packet also goes to a second worker.
WantsSpare(k) == should_duplicate(k) \/ (is_quic_initial_sized(k) /\ AllowedByTracker(k))

\* One turn of read_bridge: pop, frame, begin, duplicate.
ReaderTake ==
    LET fromLatency == uplink.latency # <<>>
        p == IF fromLatency THEN Head(uplink.latency) ELSE Head(uplink.queue)
        c == packet_class(p.kind)
        s == Reloaded(c)
        copy == WantsSpare(p.kind) /\ BuffersInUse < PoolLimit /\ s.count > 1
    IN  /\ ~search[Reader].on /\ spare = <<>>
        /\ uplink.latency # <<>> \/ uplink.queue # <<>>
        /\ uplink' = IF fromLatency THEN [uplink EXCEPT !.latency = Tail(@)]
                                    ELSE [uplink EXCEPT !.queue = Tail(@)]
        /\ IF s.count = 0
           THEN sched' = s /\ UNCHANGED <<search, spare, tracker>>
           ELSE /\ sched' = Advanced(s, c)
                /\ search' = [search EXCEPT ![Reader] =
                                  StartSearch(p, s.workers, s.current[c], TRUE)]
                /\ spare' = IF copy
                            THEN <<[pkt |-> p, slot |-> (s.current[c] + s.count \div 2) % s.count]>>
                            ELSE <<>>
                /\ tracker' = IF is_quic_initial_sized(p.kind) THEN TrackerAfter(p.kind) ELSE tracker
        /\ lag' = [lag EXCEPT ![c] = IF s.workers # registry THEN @ + 1 ELSE 0]
        /\ UNCHANGED <<chan, registry, sent, injected>>

\* The second copy never evicts a packet.
SpareSearch ==
    /\ spare # <<>> /\ ~search[Reader].on
    /\ search' = [search EXCEPT ![Reader] =
                      StartSearch(spare[1].pkt, sched.workers, spare[1].slot, FALSE)]
    /\ spare' = <<>>
    /\ UNCHANGED <<chan, registry, sched, uplink, tracker, sent, injected, lag>>

-----------------------------------------------------------------------------
(* A session's writer.                                                     *)

\* next_writer_packet: the first nonempty queue in this order.
FirstClass(i) ==
    IF chan[i].q["small"] # <<>> THEN "small"
    ELSE IF chan[i].q["medium"] # <<>> THEN "medium" ELSE "bulk"

WriterRuns(i) == chan[i].stage \in {"live", "ending"} /\ chan[i].open

\* send_writer_batch: the packets of one class it takes, up to the limit.
BatchSize(i) ==
    LET c == FirstClass(i) IN IF Queued(i, c) < Batch[c] THEN Queued(i, c) ELSE Batch[c]

TakenBatch(i) == SubSeq(chan[i].q[FirstClass(i)], 1, BatchSize(i))

\* The queues of i once the writer has taken a batch.
QueuesAfterBatch(i) == [chan[i].q EXCEPT ![FirstClass(i)] = SubSeq(@, BatchSize(i) + 1, Len(@))]

Occurrences(s, n) == Cardinality({m \in DOMAIN s : s[m].n = n})

WriterSendsAndKeeps(i) ==
    /\ WriterRuns(i) /\ BatchSize(i) > 0
    /\ sent' = [n \in DOMAIN sent |-> sent[n] + Occurrences(TakenBatch(i), n)]
    /\ UNCHANGED <<chan, registry, sched, uplink, search, spare, tracker, injected, lag>>

\* flush_queued_data succeeds.
WriterSends(i) ==
    /\ WriterRuns(i) /\ BatchSize(i) > 0
    /\ sent' = [n \in DOMAIN sent |-> sent[n] + Occurrences(TakenBatch(i), n)]
    /\ chan' = [chan EXCEPT ![i].q = QueuesAfterBatch(i)]
    /\ UNCHANGED <<registry, sched, uplink, search, spare, tracker, injected, lag>>

\* flush_queued_data fails: the writer returns, its batch and its receivers
\* are dropped while the session still looks healthy.
WriterFails(i) ==
    /\ WriterRuns(i) /\ BatchSize(i) > 0
    /\ chan' = [chan EXCEPT ![i].q = QueuesAfterBatch(i), ![i].open = FALSE]
    /\ UNCHANGED <<registry, sched, uplink, search, spare, tracker, sent, injected, lag>>

-----------------------------------------------------------------------------
(* The end of a session.                                                   *)

\* The select loop breaks, for any of its reasons: mark_unhealthy.
MarkUnhealthy(i) ==
    /\ chan[i].stage = "live"
    /\ chan' = [chan EXCEPT ![i].healthy = FALSE, ![i].stage = "ending"]
    /\ UNCHANGED <<registry, sched, uplink, search, spare, tracker, sent, injected, lag>>

\* Actor a has looked at session i and is about to push to it.
Aiming(a, i) == search[a].on /\ search[a].at \in {"push", "force"} /\ search[a].target = i

\* stop_session_tasks and drain_uplink: the aborted writer drops its receivers
\* and the batch it may be sending; what is still queued is stolen, small
\* packets first.
StopAndDrain(i) ==
    /\ chan[i].stage = "ending"
    /\ \E q \in {chan[i].q} \cup (IF chan[i].open THEN {QueuesAfterBatch(i)} ELSE {}) :
          chan' = [chan EXCEPT ![i].open = FALSE, ![i].stage = "handing",
                               ![i].drained = q["small"] \o q["medium"] \o q["bulk"],
                               ![i].q = [c \in Class |-> <<>>],
                               ![i].racers = Cardinality({a \in Actor : Aiming(a, i)})]
    /\ UNCHANGED <<registry, sched, uplink, search, spare, tracker, sent, injected, lag>>

\* redispatch of one stolen packet: always from slot 0 of the current vector.
Redispatch(i) ==
    /\ chan[i].stage = "handing" /\ chan[i].drained # <<>> /\ ~search[i].on
    /\ search' = [search EXCEPT ![i] = StartSearch(Head(chan[i].drained), registry, 0, TRUE)]
    /\ chan' = [chan EXCEPT ![i].drained = Tail(@)]
    /\ UNCHANGED <<registry, sched, uplink, spare, tracker, sent, injected, lag>>

\* Drop of WorkerRegistration: unregister(id, incarnation).
Unregister(i) ==
    /\ chan[i].stage = "handing" /\ chan[i].drained = <<>> /\ ~search[i].on
    /\ registry' = interleave_turn_paths(chan, Range(registry) \ {i})
    /\ chan' = [chan EXCEPT ![i].stage = "gone"]
    /\ UNCHANGED <<sched, uplink, search, spare, tracker, sent, injected, lag>>

-----------------------------------------------------------------------------
InitialChannels ==
    [i \in Inc |-> [NewChannels(CHOOSE id \in Id : TRUE)
                       EXCEPT !.healthy = FALSE, !.open = FALSE, !.stage = "none"]]

Init ==
    /\ chan = InitialChannels
    /\ registry = <<>>
    /\ sched = [workers |-> <<>>, count |-> 0, current |-> Zero, remaining |-> Zero]
    /\ uplink = [latency |-> <<>>, queue |-> <<>>]
    /\ search = [a \in Actor |-> Idle]
    /\ spare = <<>>
    /\ tracker = <<>>
    /\ sent = [n \in 1 .. MaxPackets |-> 0]
    /\ injected = <<>>
    /\ lag = Zero

ReaderStep == ReaderTake \/ SpareSearch \/ SearchStep(Reader)

\* What a session's tasks do once its end has begun.
Teardown(i) ==
    StopAndDrain(i) \/ Redispatch(i) \/ SearchStep(i) \/ Unregister(i)

Next ==
    \/ \E id \in Id : StartSession(id)
    \/ \E k \in Kind : Inject(k)
    \/ ReaderStep
    \/ \E i \in Inc : WriterSends(i) \/ WriterFails(i) \/ MarkUnhealthy(i) \/ Teardown(i)

Spec == Init /\ [][Next]_vars

-----------------------------------------------------------------------------
(* Properties.                                                             *)

Packet == [n : 1 .. MaxPackets, kind : Kind]

\* Queues hold packets and stay within their capacities, and every other
\* variable has the shape of its Rust type.
TypeOK ==
    /\ \A i \in Inc : /\ chan[i].id \in Id
                       /\ chan[i].healthy \in BOOLEAN /\ chan[i].open \in BOOLEAN
                       /\ \A c \in Class : /\ Range(chan[i].q[c]) \subseteq Packet
                                            /\ Queued(i, c) <= Cap[c]
                       /\ Range(chan[i].drained) \subseteq Packet
                       /\ chan[i].stage \in {"none", "live", "ending", "handing", "gone"}
    /\ Range(registry) \cup Range(sched.workers) \subseteq Inc
    /\ Len(uplink.latency) <= LatencyCap /\ Len(uplink.queue) <= UplinkCap
    /\ DOMAIN tracker \subseteq Kind
    /\ sent \in [1 .. MaxPackets -> Nat]

\* The stripe cursors always name a slot of the vector the scheduler holds,
\* whichever class reloaded it and however the number of workers changed.
CursorInRange ==
    /\ sched.count = Len(sched.workers)
    /\ \A c \in Class : sched.count > 0 => sched.current[c] < sched.count
    /\ \A a \in Actor : search[a].on => search[a].slot < Len(search[a].workers)

\* The published vector names exactly the sessions between register and
\* unregister, one per worker.
RegistryExact ==
    /\ Range(registry) = {i \in Inc : ~Ended(i)}
    /\ \A m, n \in DOMAIN registry : m # n => chan[registry[m]].id # chan[registry[n]].id

\* Between two workers of one TURN path interleave_turn_paths puts a worker of
\* every other path that still has one further on, so a stripe that moves to
\* the next slot changes the path whenever it can.  Checked for every
\* assignment of paths to up to four workers (in the initial state: it is a
\* fact about the operator).
InterleaveSpreads ==
    chan = InitialChannels =>
        \A path \in [1 .. 4 -> 1 .. 3], S \in SUBSET (1 .. 4) :
            LET r == interleave_turn_paths([i \in 1 .. 4 |-> [id |-> 5 - i, path |-> path[i]]], S)
            IN  /\ Range(r) = S /\ Len(r) = Cardinality(S)
                /\ \A m, n, l \in DOMAIN r :
                      (m < n /\ n < l /\ path[r[m]] = path[r[n]] /\ path[r[l]] # path[r[n]])
                      => \E k \in m + 1 .. n - 1 : path[r[k]] = path[r[l]]

CopiesQueued(n) ==
    Cardinality({t \in QueueCopies : chan[t[1]].q[t[2]][t[3]].n = n})
        + Occurrences(uplink.latency, n) + Occurrences(uplink.queue, n)
        + Cardinality({a \in Actor : search[a].on /\ search[a].pkt.n = n})
        + Cardinality({m \in DOMAIN spare : spare[m].pkt.n = n})

CopiesInSessions(n) ==
    Cardinality(UNION {{<<i, m>> : m \in {l \in DOMAIN chan[i].drained : chan[i].drained[l].n = n}}
                       : i \in Inc})

\* However a packet is striped, stolen from a dying session and dispatched
\* again, at most one copy of it exists or has been sent, two for the kinds
\* that are given a spare.
NoDuplicates ==
    \A n \in DOMAIN injected :
        sent[n] + CopiesQueued(n) + CopiesInSessions(n)
            <= IF injected[n] \in {"dns", "quic1", "quic2"} THEN 2 ELSE 1

\* Once a session's queues have been stolen only an actor that was already
\* about to push can still leave a packet behind in them, and only one.
StrandedBounded ==
    \A i \in Inc : chan[i].stage \in {"handing", "gone"} =>
        Queued(i, "small") + Queued(i, "medium") + Queued(i, "bulk") <= chan[i].racers

\* The scheduler may miss a change of the workers for the rest of a stripe,
\* never longer: fewer than stream_chunk packets of a class in a row are
\* dispatched to an outdated vector.
StaleWithinStripe == \A c \in Class : lag[c] < Chunk[c]

\* The scheduler works on a legal view of the workers: well typed, registered
\* exactly while their sessions are, never indexed past its end, stale for at
\* most one stripe and alternating between the TURN paths.
ScheduleConsistent ==
    TypeOK /\ CursorInRange /\ RegistryExact /\ StaleWithinStripe /\ InterleaveSpreads
=============================================================================
