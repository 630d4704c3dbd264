------------------------------ MODULE Credentials ------------------------------
(***************************************************************************)
(* TURN credentials and the worker loop that consumes them (worker.rs).    *)
(*                                                                         *)
(* The workers of a cohort share one GroupCredentials: a cache behind an   *)
(* async mutex that stays locked while its owner fetches.  Fetches of all  *)
(* cohorts are serialised by credential_pacer.  A worker takes a lease,    *)
(* runs a session with it and reports how the session ended, by then       *)
(* perhaps about credentials that have been replaced.                      *)
(*                                                                         *)
(* The fetch itself is abstract here: it takes some time and answers       *)
(* anything.  VkAuth is the fetch in detail.  Delays are steps that happen *)
(* sooner or later.  A pause or the idle mode (module Fleet) may hold a    *)
(* worker back at the two gates of the loop, for as long as it likes.      *)
(***************************************************************************)
EXTENDS Integers, FiniteSets

CONSTANTS Worker, Cohort,
          CohortOf,     \* worker -> its cohort
          Hash, HashOf, \* cohort -> the VK hash it fetches for
          PerCred,      \* WORKERS_PER_CREDENTIAL
          Value,        \* TURN credentials VK may hand out
          MaxGen        \* bound: credentials stored per cohort

Nobody == 0
NoValue == 0
Everything == 0

ASSUME ConstantsAssumption ==
    /\ Worker \subseteq Nat \ {Nobody} /\ IsFiniteSet(Worker)
    /\ Hash \subseteq Nat \ {Everything}
    /\ CohortOf \in [Worker -> Cohort] /\ HashOf \in [Cohort -> Hash]
    /\ PerCred \in Nat \ {0} /\ Value \subseteq Nat \ {NoValue} /\ MaxGen \in Nat

VARIABLES cache,    \* cohort -> CredentialCache
          lock,     \* cohort -> the worker that holds its mutex over an await
          pacer,    \* the worker that holds credential_pacer
          worker,   \* worker -> its place in worker_loop, its lease and session
          dead,     \* hashes marked unavailable; Everything once the engine is cancelled
          config,   \* config_sent and config_in_flight
          history   \* what the properties remember

vars == <<cache, lock, pacer, worker, dead, config, history>>

\* What a fetch may answer.
Ok(v) == [kind |-> "ok", value |-> v]
Unavailable == [kind |-> "unavailable", value |-> NoValue]
Failed == [kind |-> "error", value |-> NoValue]
Outcome == {Ok(v) : v \in Value} \cup {Unavailable, Failed}

-----------------------------------------------------------------------------
(* CredentialCache.  Generation 0 stands for None.                         *)

NoCred == [value |-> NoValue, gen |-> 0, attempts |-> 0, mismatches |-> 0]
NoLease == [value |-> NoValue, gen |-> 0]

\* reserve, first half: used-up credentials are forgotten.
Usable(k) == IF k.current.attempts >= PerCred THEN [k EXCEPT !.current = NoCred] ELSE k

\* reserve, second half, when there are credentials.
reserve(k) == [k EXCEPT !.current.attempts = @ + 1]
Lease(k) == [value |-> k.current.value, gen |-> k.current.gen]

store(k, v) ==
    [k EXCEPT !.blocked = NoValue, !.next = @ + 1,
              !.current = [value |-> v, gen |-> k.next + 1, attempts |-> 0, mismatches |-> 0]]

\* The lease is of the credentials the cache still holds.
Current(k, l) == k.current.gen # 0 /\ k.current.gen = l.gen /\ k.current.value = l.value

record_allocation(k, l) == IF Current(k, l) THEN [k EXCEPT !.current.mismatches = 0] ELSE k

releaseAny(k, l) ==
    IF k.current.attempts > 0 THEN [k EXCEPT !.current.attempts = @ - 1] ELSE k

release(k, l) ==
    IF Current(k, l) /\ k.current.attempts > 0 THEN [k EXCEPT !.current.attempts = @ - 1] ELSE k

invalidateAny(k, l) == [k EXCEPT !.current = NoCred]

invalidate(k, l) == IF Current(k, l) THEN [k EXCEPT !.current = NoCred] ELSE k

rotate_after_quota(k, l) ==
    IF Current(k, l) THEN [k EXCEPT !.current = NoCred, !.blocked = k.current.value] ELSE k

retry_after_mismatch(k, l) ==
    IF ~Current(k, l) THEN k
    ELSE IF k.current.mismatches = 0 THEN [k EXCEPT !.current.mismatches = 1]
    ELSE [k EXCEPT !.current = NoCred]

-----------------------------------------------------------------------------
(* GroupCredentials::get.                                                  *)

is_unavailable(w) == HashOf[CohortOf[w]] \in dead
Cancelled == Everything \in dead

\* The token of a hash is a child of the engine's.
Dead(w) == is_unavailable(w) \/ Cancelled
Free(w) == lock[CohortOf[w]] = Nobody
At(w, places) == worker[w].at \in places

Moved(w, place) == [worker EXCEPT ![w].at = place]

\* The mutex and the pacer guard are dropped with the future of get.
Unlocked(w) == [c \in Cohort |-> IF lock[c] = w THEN Nobody ELSE lock[c]]
Unpaced(w) == IF pacer = w THEN Nobody ELSE pacer

\* The mutex is awaited without a look at the token; there is a lease at once,
\* or the mutex is kept for a fetch.
Get(w) ==
    LET c == CohortOf[w]
        k == Usable(cache[c])
    IN  /\ At(w, {"want"}) /\ ~is_unavailable(w) /\ Free(w)
        /\ IF k.current.gen # 0
           THEN /\ cache' = [cache EXCEPT ![c] = reserve(k)]
                /\ worker' = [worker EXCEPT ![w].at = "leased", ![w].lease = Lease(k)]
                /\ UNCHANGED lock
           ELSE /\ k.next < MaxGen
                /\ cache' = [cache EXCEPT ![c] = k]
                /\ lock' = [lock EXCEPT ![c] = w]
                /\ worker' = Moved(w, "pacing")
        /\ UNCHANGED <<pacer, dead, config, history>>

\* Its turn in credential_pacer: get_credentials begins.
BeginFetch(w) ==
    /\ At(w, {"pacing"}) /\ pacer = Nobody /\ ~Dead(w)
    /\ pacer' = w
    /\ worker' = Moved(w, "fetch")
    /\ UNCHANGED <<cache, lock, dead, config, history>>

FetchedUnchecked(w, v) ==
    LET c == CohortOf[w]
    IN  /\ cache' = [cache EXCEPT ![c] = store(@, v)]
        /\ worker' = Moved(w, "settling")
        /\ history' = [history EXCEPT !.rejected[c] = IF v # @ THEN NoValue ELSE @]
        /\ UNCHANGED lock

\* store accepts the answer, which stays locked for CREDENTIAL_POST_DELAY, or
\* finds the credentials that were just rejected for quota.
Fetched(w, v) ==
    LET c == CohortOf[w]
    IN  IF v = cache[c].blocked
        THEN /\ lock' = Unlocked(w)
             /\ worker' = Moved(w, "refused")
             /\ UNCHANGED <<cache, history>>
        ELSE /\ cache' = [cache EXCEPT ![c] = store(@, v)]
             /\ worker' = Moved(w, "settling")
             /\ history' = [history EXCEPT !.rejected[c] = IF v # @ THEN NoValue ELSE @]
             /\ UNCHANGED lock

\* The call is gone for good: mark_unavailable, and the worker returns.
MarkUnavailable(w) ==
    /\ dead' = dead \cup {HashOf[CohortOf[w]]}
    /\ lock' = Unlocked(w) /\ pacer' = Unpaced(w)
    /\ worker' = Moved(w, "gone")

\* The answer of get_credentials; after an error the mutex and the pacer stay
\* taken for the back-off.
Answer(w, r) ==
    /\ At(w, {"fetch"}) /\ ~Dead(w)
    /\ \/ r.kind = "ok" /\ Fetched(w, r.value) /\ UNCHANGED <<pacer, dead>>
       \/ r.kind = "unavailable" /\ MarkUnavailable(w) /\ UNCHANGED <<cache, history>>
       \/ /\ r.kind = "error" /\ worker' = Moved(w, "backoff")
          /\ UNCHANGED <<cache, lock, pacer, dead, history>>
    /\ UNCHANGED config

\* CREDENTIAL_POST_DELAY is over: the lease.
Settled(w) ==
    LET c == CohortOf[w]
        k == Usable(cache[c])
    IN  /\ At(w, {"settling"}) /\ ~Dead(w)
        /\ cache' = [cache EXCEPT ![c] = reserve(k)]
        /\ worker' = [worker EXCEPT ![w].at = "leased", ![w].lease = Lease(k)]
        /\ lock' = Unlocked(w) /\ pacer' = Unpaced(w)
        /\ UNCHANGED <<dead, config, history>>

\* The delay after an error or a refused answer is over: get returns None.
DelayOver(w) ==
    /\ At(w, {"backoff", "refused"})
    /\ lock' = Unlocked(w) /\ pacer' = Unpaced(w)
    /\ worker' = Moved(w, "want")
    /\ UNCHANGED <<cache, dead, config, history>>

\* Every wait of get also watches the hash, and so does the inner loop of
\* worker_loop around it.
GivesUp(w) ==
    /\ At(w, {"want", "pacing", "fetch", "settling"}) /\ Dead(w)
    /\ lock' = Unlocked(w) /\ pacer' = Unpaced(w)
    /\ worker' = Moved(w, "gone")
    /\ UNCHANGED <<cache, dead, config, history>>

-----------------------------------------------------------------------------
(* wait_until_allowed: the gates at the top of worker_loop and before a     *)
(* session.  A worker found paused or parked there watches the engine's     *)
(* token, but not that of its hash.                                        *)

HeldBack(w) ==
    /\ At(w, {"leased"})
    /\ worker' = Moved(w, "held")
    /\ UNCHANGED <<cache, lock, pacer, dead, config, history>>

\* Resumed and unparked.
Released(w) ==
    /\ \/ At(w, {"gate"}) /\ worker' = Moved(w, "want")
       \/ At(w, {"held"}) /\ worker' = Moved(w, "leased")
    /\ UNCHANGED <<cache, lock, pacer, dead, config, history>>

\* The first gate sees the cancellation.
StopsAtGate(w) ==
    /\ At(w, {"gate"}) /\ Cancelled
    /\ worker' = Moved(w, "gone")
    /\ UNCHANGED <<cache, lock, pacer, dead, config, history>>

-----------------------------------------------------------------------------
(* worker_loop: the session.                                               *)

\* start_pacer and the second gate, ConfigFlightGuard::acquire, run_session.
StartSession(w) ==
    LET flight == ~config.sent /\ ~config.in_flight
    IN  /\ At(w, {"leased"})
        /\ worker' = [worker EXCEPT ![w].at = "connecting", ![w].flight = flight]
        /\ config' = [config EXCEPT !.in_flight = @ \/ flight]
        /\ UNCHANGED <<cache, lock, pacer, dead, history>>

\* start_pacer and the second gate see the cancellation: the lease goes back.
LeaseReturned(w) ==
    LET c == CohortOf[w]
    IN  /\ At(w, {"leased", "held"}) /\ Cancelled /\ Free(w)
        /\ cache' = [cache EXCEPT ![c] = release(@, worker[w].lease)]
        /\ worker' = Moved(w, "gone")
        /\ UNCHANGED <<lock, pacer, dead, config, history>>

\* allocation_started is sent just before the Allocate request.
BeginAllocation(w) ==
    /\ At(w, {"connecting"}) /\ ~Dead(w)
    /\ worker' = [worker EXCEPT ![w].at = "allocating", ![w].started = TRUE]
    /\ UNCHANGED <<cache, lock, pacer, dead, config, history>>

Allocated(w) ==
    /\ At(w, {"allocating"}) /\ ~Dead(w)
    /\ worker' = [worker EXCEPT ![w].at = "allocated", ![w].unrecorded = TRUE]
    /\ UNCHANGED <<cache, lock, pacer, dead, config, history>>

\* The loop hears of the allocation: record_allocation.
RecordAllocation(w) ==
    LET c == CohortOf[w]
    IN  /\ At(w, {"allocated", "ready"}) /\ worker[w].unrecorded /\ Free(w)
        /\ cache' = [cache EXCEPT ![c] = record_allocation(@, worker[w].lease)]
        /\ worker' = [worker EXCEPT ![w].unrecorded = FALSE]
        /\ UNCHANGED <<lock, pacer, dead, config, history>>

\* ConfigDeliveryState::complete, for the session that asks for the config.
Completed(w, delivered) ==
    IF worker[w].flight
    THEN [sent |-> config.sent \/ delivered, in_flight |-> FALSE] ELSE config

\* request_configuration has its answer: the session is ready.
ConfigAnswered(w) ==
    /\ At(w, {"allocated"}) /\ ~Dead(w)
    /\ \E delivered \in BOOLEAN : config' = Completed(w, delivered)
    /\ worker' = Moved(w, "ready")
    /\ UNCHANGED <<cache, lock, pacer, dead, history>>

\* How a session may end, by how far it has come.
Results(place) ==
    CASE place = "connecting" -> {"other", "park"}
      [] place = "allocating" -> {"other", "park", "invalid", "quota", "mismatch"}
      [] place = "allocated" -> {"other", "park", "invalid", "mismatch"}
      [] place = "ready" -> {"other", "park", "rebind", "repair", "reset", "invalid", "mismatch"}

InSession == {"connecting", "allocating", "allocated", "ready"}

SessionEnds(w, r) ==
    /\ worker' = [worker EXCEPT ![w].at = "ended", ![w].result = r, ![w].unrecorded = FALSE,
                                ![w].ready = At(w, {"ready"})]
    /\ config' = IF At(w, {"allocated"}) THEN Completed(w, FALSE) ELSE config
    /\ UNCHANGED <<cache, lock, pacer, dead, history>>

SessionFails(w) ==
    At(w, InSession) /\ ~Dead(w) /\ \E r \in Results(worker[w].at) : SessionEnds(w, r)

CancelledOnceReady(w) == At(w, {"ready"}) /\ Dead(w) /\ SessionEnds(w, "cancelled")

\* The session's token is the one mark_unavailable cancels.
SessionCancelled(w) == At(w, InSession) /\ Dead(w) /\ SessionEnds(w, "cancelled")

\* The drop of ConfigFlightGuard.
FlightDropped(w) == IF worker[w].flight THEN [config EXCEPT !.in_flight = FALSE] ELSE config

\* A ready session that fails when no other is ready reopens the config.
Reopened(w, g) ==
    IF /\ worker[w].ready /\ worker[w].result # "cancelled" /\ ~Cancelled
       /\ \A o \in Worker \ {w} : worker[o].at # "ready"
    THEN [g EXCEPT !.sent = FALSE] ELSE g

\* The loop sees the end: an unused lease goes back, the guard is dropped.
Clear(w) ==
    LET c == CohortOf[w]
    IN  /\ At(w, {"ended"})
        /\ IF worker[w].started THEN UNCHANGED cache
           ELSE Free(w) /\ cache' = [cache EXCEPT ![c] = release(@, worker[w].lease)]
        /\ worker' = [worker EXCEPT ![w].at = IF Dead(w) THEN "gone" ELSE "sort",
                                    ![w].flight = FALSE, ![w].ready = FALSE]
        /\ config' = Reopened(w, FlightDropped(w))
        /\ UNCHANGED <<lock, pacer, dead, history>>

\* What the result of the session does to the cache.
Verdict(k, w) ==
    LET r == worker[w].result
        l == worker[w].lease
    IN  CASE r = "park" /\ worker[w].started -> release(k, l)
          [] r \in {"reset", "invalid"} -> invalidate(k, l)
          [] r = "quota" -> rotate_after_quota(k, l)
          [] r = "mismatch" -> retry_after_mismatch(k, l)
          [] OTHER -> k

\* A worker at the top of the loop: let through by the gate, or held back.
TopAt(place) ==
    [at |-> place, lease |-> NoLease, flight |-> FALSE, started |-> FALSE,
     unrecorded |-> FALSE, ready |-> FALSE, result |-> "none"]

Top == {TopAt("want"), TopAt("gate")}

StartsOver(w) == \E t \in Top : worker' = [worker EXCEPT ![w] = t]

\* The loop acts on the result and starts over after a delay.
Sort(w) ==
    LET c == CohortOf[w]
        quota == worker[w].result = "quota" /\ Current(cache[c], worker[w].lease)
    IN  /\ At(w, {"sort"}) /\ Free(w)
        /\ cache' = [cache EXCEPT ![c] = Verdict(@, w)]
        /\ StartsOver(w)
        /\ history' = [history EXCEPT !.rejected[c] = IF quota THEN worker[w].lease.value ELSE @]
        /\ UNCHANGED <<lock, pacer, dead, config>>

\* Paused or parked by now: whatever the result was, it is not acted upon.
SortHeldBack(w) ==
    /\ At(w, {"sort"}) /\ worker[w].result # "park"
    /\ StartsOver(w)
    /\ UNCHANGED <<cache, lock, pacer, dead, config, history>>

\* The engine is stopped (module Engine).
CancelEngine ==
    /\ ~Cancelled
    /\ dead' = dead \cup {Everything}
    /\ UNCHANGED <<cache, lock, pacer, worker, config, history>>

-----------------------------------------------------------------------------
EmptyCache == [current |-> NoCred, blocked |-> NoValue, next |-> 0]

Init ==
    /\ cache = [c \in Cohort |-> EmptyCache]
    /\ lock = [c \in Cohort |-> Nobody] /\ pacer = Nobody
    /\ worker \in [Worker -> Top]
    /\ dead = {}
    /\ config = [sent |-> FALSE, in_flight |-> FALSE]
    /\ history = [rejected |-> [c \in Cohort |-> NoValue]]

GateStep(w) == HeldBack(w) \/ Released(w) \/ StopsAtGate(w)

\* The rest of get once the fetch has answered, and the waits that end it.
GetStep(w) == Get(w) \/ Settled(w) \/ DelayOver(w)

SessionStep(w) ==
    \/ StartSession(w) \/ LeaseReturned(w) \/ BeginAllocation(w) \/ Allocated(w) \/ RecordAllocation(w)
    \/ ConfigAnswered(w) \/ SessionFails(w) \/ SessionCancelled(w)
    \/ Clear(w) \/ Sort(w) \/ SortHeldBack(w)

Next ==
    \/ CancelEngine
    \/ \E w \in Worker : \/ GateStep(w) \/ GetStep(w) \/ BeginFetch(w) \/ GivesUp(w)
                         \/ SessionStep(w)
                         \/ \E r \in Outcome : Answer(w, r)

Spec == Init /\ [][Next]_vars

\* A fetch that has begun comes to an end: what this module asks of VkAuth.
FetchEnds(w) == GivesUp(w) \/ \E r \in Outcome : Answer(w, r)

\* The executor runs ready tasks and timers run out.  Whether a worker that is
\* held back is ever released is up to the network and the traffic.
WorkerRuns(w) ==
    \/ StopsAtGate(w) \/ GetStep(w) \/ BeginFetch(w) \/ StartSession(w) \/ LeaseReturned(w)
    \/ SessionCancelled(w) \/ Clear(w) \/ Sort(w) \/ SortHeldBack(w)

FairSpec == Spec /\ \A w \in Worker : WF_vars(WorkerRuns(w)) /\ WF_vars(FetchEnds(w))

-----------------------------------------------------------------------------
(* Properties.                                                             *)

TypeOK ==
    /\ \A c \in Cohort :
          /\ cache[c].current.value \in Value \cup {NoValue}
          /\ cache[c].current.gen <= cache[c].next
          /\ cache[c].current.attempts \in 0 .. PerCred
          /\ cache[c].current.mismatches \in 0 .. 1
          /\ cache[c].blocked \in Value \cup {NoValue}
          /\ lock[c] # Nobody => worker[lock[c]].at \in {"pacing", "fetch", "settling", "backoff"}
    /\ pacer # Nobody =>
          worker[pacer].at \in {"fetch", "settling", "backoff", "refused"}
    /\ \A w \in Worker : worker[w].lease.gen <= cache[CohortOf[w]].next
    /\ dead \subseteq Hash \cup {Everything}

\* The lease is still in use by a session, or about to be.
Holds(w) == worker[w].at \in {"leased", "held"} \cup InSession

\* The attempts counted against the current credentials cover every lease of
\* them that is in use, so no more than WORKERS_PER_CREDENTIAL sessions share
\* one set of credentials, whoever gives leases back and in which order.
LeasesCovered ==
    \A c \in Cohort : cache[c].current.gen # 0 =>
        Cardinality({w \in Worker : /\ CohortOf[w] = c /\ Holds(w)
                                    /\ worker[w].lease.gen = cache[c].current.gen})
            <= cache[c].current.attempts

\* Credentials rejected for quota are not used again until VK has handed out
\* others.
RejectedNotReused ==
    \A c \in Cohort : cache[c].current.gen # 0 => cache[c].current.value # history.rejected[c]

\* A worker whose session ran on credentials that have been replaced since
\* leaves the new ones alone, whatever its session ended with.
StaleLeaseHarmless ==
    [][\A w \in Worker :
          /\ worker[w].at \in {"ended", "sort"}
          /\ worker[w].lease.gen # cache[CohortOf[w]].current.gen
          /\ worker'[w].at # worker[w].at
          => cache'[CohortOf[w]] = cache[CohortOf[w]]]_vars

\* config_in_flight never stays set without a worker whose guard will clear it:
\* the configuration can always be asked for again.
FlightIsHeld == config.in_flight => \E w \in Worker : worker[w].flight

\* A fetch does not keep a cohort's cache locked for ever.
CacheFreed == []<>(\A c \in Cohort : lock[c] = Nobody \/ pacer # lock[c])

\* At a gate, paused or parked, where only the end of the engine is watched.
WaitsAtGate(w) == worker[w].at \in {"gate", "held"} /\ ~Cancelled

\* Once the call of a hash is gone, or the engine cancelled, every worker
\* concerned returns, wherever in the loop it finds it; a dead hash alone does
\* not get a worker out of a gate that holds it back.
DeadHashEnds ==
    \A w \in Worker : []<>(Dead(w) => worker[w].at = "gone" \/ WaitsAtGate(w))

\* What workers hold is accounted for: the types, the leases in the attempts of
\* the cache, and the flight of the configuration in some worker's guard.
HoldingsCovered == TypeOK /\ LeasesCovered /\ FlightIsHeld

\* No worker is stuck: no cache stays locked by a fetch, and the workers of a
\* dead hash return unless a gate holds them back.
NobodyStuck == CacheFreed /\ DeadHashEnds
=============================================================================
