----------------------------- MODULE TurnClient -----------------------------
(***************************************************************************)
(* One TURN allocation of the engine: the protocol core (NativeCore), the  *)
(* driver task that pumps it and the session that owns the allocation,     *)
(* against a server over a lossy or a stream transport.                    *)
(*                                                                         *)
(* Every method of the core runs under its mutex and is an operator on the *)
(* record core.  Deadlines are the set core.armed: an armed deadline may   *)
(* be found passed by any poll.  Two transactions due at once are two      *)
(* polls in a row.  Transaction ids are fresh, so what belongs to a        *)
(* finished transaction is dropped, except a late Allocate or Deallocate,  *)
(* which still changes the server.  Ciphers and attributes are abstracted  *)
(* to the kinds of answer the code tells apart.                            *)
(***************************************************************************)
EXTENDS Naturals, Sequences, FiniteSets

CONSTANTS
    MaxTransmissions,       \* transmissions of a datagram request
    MaxNonceRetries,        \* fresh nonces accepted for one operation
    MaxChannelFailures,     \* ChannelBind failures before the core gives up
    ControlCapacity,        \* packets waiting to be sent
    EventCapacity,          \* events waiting for the driver
    Streams,                \* the transports considered: stream or not
    MaxFaults               \* losses, timeouts and wake-ups per behaviour

ASSUME TurnAssumption ==
    /\ MaxTransmissions \in Nat \ {0}
    /\ MaxNonceRetries \in Nat
    /\ MaxChannelFailures \in Nat \ {0}
    /\ ControlCapacity \in Nat \ {0}
    /\ EventCapacity \in Nat \ {0}
    /\ Streams \subseteq BOOLEAN
    /\ MaxFaults \in Nat

Operation == {"Allocate", "Refresh", "Deallocate", "Permission", "Channel"}

\* Operations whose failure does not end a live allocation.
Maintenance == {"Refresh", "Permission", "Channel"}

Timer == {"refresh", "expires", "maintenance", "permission", "channel", "keepalive"}

CoreState == {"null", "allocating", "ready", "deallocating", "deallocated", "destroying"}

\* Answers that fail the integrity check: without an error code, with one,
\* and with 437 or 400 but no fingerprint.
Unsigned == {"unsigned", "unsignedError", "unsignedMismatch"}

\* What an answer to a request can be: accepted, accepted with attributes
\* that make no sense, 401 or 438 with a nonce, 437, 400, any other error,
\* an error without a code, and an unsigned one.
Kind == {"ok", "bad", "challenge", "mismatch", "badRequest", "refused", "garbled"}
        \cup Unsigned

VARIABLES
    core,           \* Inner
    shared,         \* DriverShared, CoreSnapshot included
    dpc, local,     \* step and locals of the driver task
    own,            \* step of the owner: connect, prepare_channel, deallocate
    wake,           \* the wake epoch moved: "none", or the last gap
    wire,           \* requests on the way to the server
    replies,        \* answers on the way back
    held,           \* the server holds the allocation
    faults          \* how often something was lost, late or refused without reason

vars == <<core, shared, dpc, local, own, wake, wire, replies, held, faults>>

-----------------------------------------------------------------------------
(* NativeCore: queues.                                                     *)

Event(kind, what, result) == [kind |-> kind, what |-> what, result |-> result]

PushEvent(c, e) ==
    [c EXCEPT !.events = IF Len(@) = EventCapacity
                         THEN Append(Tail(@), Event("eventOverflow", "none", "failed"))
                         ELSE Append(@, e)]

QueuePacket(c, p) ==
    LET full == Len(c.controls) = ControlCapacity
        room == IF full
                THEN PushEvent([c EXCEPT !.controls = Tail(@)],
                               Event("controlOverflow", "none", "failed"))
                ELSE c
    IN  [room EXCEPT !.controls = Append(@, p)]

SetState(c, s) ==
    IF c.state = s THEN c
    ELSE PushEvent([c EXCEPT !.state = s], Event("state", s, "ok"))

Method(op) == IF op = "Deallocate" THEN "Refresh" ELSE op

Complete(c, op, result) == PushEvent(c, Event("complete", Method(op), result))

-----------------------------------------------------------------------------
(* NativeCore: transactions.                                               *)

Idle == [sent |-> 0, retries |-> 0, authed |-> FALSE]

HasOperation(c, op) == c.pending[op].sent > 0

StartOperation(c, op, authed, retries) ==
    IF HasOperation(c, op)
    THEN IF op = "Channel" THEN QueuePacket(c, op) ELSE c
    ELSE [QueuePacket(c, op) EXCEPT
            !.pending[op] = [sent |-> 1, retries |-> retries, authed |-> authed]]

\* The packets of q that are not of op, in their order.
Without(q, op) ==
    LET kept[i \in 0 .. Len(q)] ==
            IF i = 0 THEN <<>>
            ELSE IF q[i] = op THEN kept[i - 1] ELSE Append(kept[i - 1], q[i])
    IN  kept[Len(q)]

\* The transaction leaves pending and its packets the queue.
RemoveTransaction(c, op) ==
    [c EXCEPT !.pending[op] = Idle, !.controls = Without(@, op)]

DestroyAllocation(c, op, result) ==
    SetState([Complete(c, op, result) EXCEPT
                !.controls = <<>>, !.pending = [o \in Operation |-> Idle],
                !.channel = FALSE, !.relay = FALSE, !.armed = {}],
             IF op = "Deallocate" THEN "deallocated" ELSE "destroying")

\* Mutant: the core gives up without saying so.
GiveUpSilently(c) ==
    [c EXCEPT !.controls = <<>>, !.pending = [o \in Operation |-> Idle],
              !.channel = FALSE, !.armed = @ \cap {"refresh", "expires"},
              !.state = "destroying"]

\* The allocation is given up but still known: its expiry stays armed.
DestroyAfterChannelRebindExhausted(c) ==
    SetState(PushEvent([c EXCEPT
                !.controls = <<>>, !.pending = [o \in Operation |-> Idle],
                !.channel = FALSE, !.armed = @ \cap {"refresh", "expires"}],
                       Event("exhausted", "none", "failed")),
             "destroying")

RetryTimer(op) ==
    CASE op = "Refresh" -> "refresh"
      [] op = "Permission" -> "permission"
      [] OTHER -> "channel"

\* Mutant: a failed maintenance request is not scheduled again.
CompleteFailureWithoutRetry(c, op, result, alive) ==
    IF op \in Maintenance /\ c.state = "ready" /\ "expires" \in c.armed /\ alive
    THEN Complete(c, op, result)
    ELSE DestroyAllocation(c, op, result)

\* alive: the expiry of the allocation, if armed, has not passed.
CompleteFailure(c, op, result, alive) ==
    IF op \in Maintenance /\ c.state = "ready" /\ "expires" \in c.armed /\ alive
    THEN LET n == IF op = "Channel" THEN c.failures + 1 ELSE c.failures
             counted == [Complete(c, op, result) EXCEPT !.failures = n]
         IN  IF op = "Channel" /\ n >= MaxChannelFailures
             THEN DestroyAfterChannelRebindExhausted(counted)
             ELSE [counted EXCEPT !.armed = @ \cup {RetryTimer(op)}]
    ELSE DestroyAllocation(c, op, result)

\* Mutant: the late answer to Allocate opens a core that was shut down.
CompleteAllocateAlways(c) ==
    Complete(SetState([c EXCEPT !.relay = TRUE,
                !.armed = @ \cup {"refresh", "expires", "maintenance", "keepalive"}], "ready"),
             "Allocate", "ok")

CompleteAllocate(c) ==
    LET known == PushEvent([c EXCEPT !.relay = TRUE,
                    !.armed = @ \cup {"refresh", "expires", "maintenance", "keepalive"}],
                           Event("relay", "none", "ok"))
    IN  IF c.shutdown
        THEN StartOperation(SetState(known, "deallocating"), "Deallocate", TRUE, 0)
        ELSE Complete(SetState(known, "ready"), "Allocate", "ok")

CompleteSuccess(c, op) ==
    CASE op = "Allocate" -> CompleteAllocate(c)
      [] op = "Refresh" ->
            Complete([c EXCEPT !.armed = @ \cup {"refresh", "expires"}], op, "ok")
      [] op = "Deallocate" ->
            SetState(Complete([c EXCEPT !.relay = FALSE,
                                        !.armed = @ \ {"refresh", "expires"}], op, "ok"),
                     "deallocated")
      [] op = "Permission" -> Complete(c, op, "ok")
      [] op = "Channel" ->
            Complete(PushEvent([c EXCEPT !.channel = TRUE, !.failures = 0],
                               Event("bound", "none", "ok")), op, "ok")

-----------------------------------------------------------------------------
(* NativeCore: methods.                                                    *)

\* input_stun for a pending transaction of op.
InputStun(c, op, kind, alive) ==
    LET p == c.pending[op]
        rest == RemoveTransaction(c, op)
        Noted(result) == PushEvent(rest, Event("stunError", Method(op), result))
    IN  CASE kind = "unsigned" -> c
          [] kind = "unsignedError" ->
                PushEvent(c, Event("stunError", Method(op), "failed"))
          [] kind = "unsignedMismatch" ->
                PushEvent(c, Event("stunError", Method(op), "mismatch"))
          [] kind = "ok" /\ p.authed -> CompleteSuccess(rest, op)
          [] kind = "bad" \/ (kind = "ok" /\ ~p.authed) ->
                CompleteFailure(rest, op, "failed", alive)
          [] kind = "mismatch" \/ (kind = "badRequest" /\ op = "Channel") ->
                DestroyAllocation(Noted("mismatch"), op, "mismatch")
          [] kind = "challenge" /\ p.retries < MaxNonceRetries ->
                StartOperation([rest EXCEPT !.auth = TRUE], op, TRUE, p.retries + 1)
          [] OTHER -> CompleteFailure(Noted("failed"), op, "failed", alive)

\* expire_transactions for one transaction that is due.
Expire(c, op, alive) ==
    IF c.stream \/ c.pending[op].sent >= MaxTransmissions
    THEN CompleteFailure(RemoveTransaction(c, op), op, "failed", alive)
    ELSE [QueuePacket(c, op) EXCEPT !.pending[op].sent = @ + 1]

\* The deadlines that poll looks at in a ready allocation.
Restart(c, due, timers, op) ==
    IF due \cap timers # {} /\ ~HasOperation(c, op)
    THEN StartOperation([c EXCEPT !.armed = @ \ {RetryTimer(op)}], op, TRUE, 0)
    ELSE c

Maintain(c, due) ==
    LET refreshed == Restart(c, due, {"refresh"}, "Refresh")
        permitted == Restart(refreshed, due, {"maintenance", "permission"}, "Permission")
        rebound == Restart(permitted, due, {"maintenance", "channel"}, "Channel")
    IN  IF "keepalive" \in due /\ c.channel
        THEN QueuePacket(rebound, "keepalive")
        ELSE rebound

\* ops: no transaction, or the one that is due.
Poll(c, ops, due) ==
    LET alive == "expires" \notin due
        expired == IF ops = {} THEN c ELSE Expire(c, CHOOSE o \in ops : TRUE, alive)
        Ready(x) == ~x.shutdown /\ x.state = "ready"
        checked == IF Ready(expired) /\ "expires" \in expired.armed /\ ~alive
                   THEN DestroyAllocation(expired, "Refresh", "failed")
                   ELSE expired
    IN  IF c.destroyed THEN c
        ELSE IF Ready(checked) THEN Maintain(checked, due) ELSE checked

\* lost: the time slept is longer than what was left of the allocation.
ResyncAfterSuspend(c, lost) ==
    IF c.destroyed \/ c.shutdown \/ c.state # "ready" THEN c
    ELSE IF "expires" \in c.armed /\ lost
         THEN DestroyAllocation(c, "Refresh", "failed")
         ELSE [c EXCEPT !.armed = @ \cup {"refresh", "maintenance", "keepalive"}]

GracefulShutdown(c) ==
    LET closed == [c EXCEPT !.shutdown = TRUE, !.channel = FALSE, !.controls = <<>>,
                            !.armed = @ \cap {"refresh", "expires"}]
        none == [o \in Operation |-> Idle]
    IN  IF c.destroyed \/ c.shutdown THEN c
        ELSE IF c.state = "ready" \/ (c.state = "destroying" /\ "expires" \in c.armed)
        THEN StartOperation(SetState([closed EXCEPT !.pending = none], "deallocating"),
                            "Deallocate", TRUE, 0)
        ELSE IF c.state = "allocating" THEN closed
        ELSE [closed EXCEPT !.pending = none]

ForceDestroy(c) ==
    IF c.destroyed THEN c
    ELSE PushEvent(SetState([c EXCEPT !.destroyed = TRUE, !.controls = <<>>,
                                !.pending = [o \in Operation |-> Idle]], "destroying"),
                   Event("forced", "none", "ok"))

-----------------------------------------------------------------------------
(* DriverShared.                                                           *)

Fail(s, reason) ==
    IF s.closing \/ s.terminal # "none" THEN s ELSE [s EXCEPT !.terminal = reason]

RequestCleanup(s) == [s EXCEPT !.closing = TRUE, !.gate = FALSE]

\* One event of the core, as pump_native handles it.
OnState(s, state) ==
    [s EXCEPT !.state = state,
              !.gate = @ /\ state = "ready",
              !.channel = @ /\ state = "ready",
              !.relay = @ /\ state \notin {"deallocated", "destroying"}]

\* A completion matters to the wait that took its baseline before it.
OnComplete(s, method, result) ==
    LET awaited == \/ own = "allocating" /\ method = "Allocate"
                   \/ own \in {"permitted", "binding"} /\ method = "Channel"
        noted == IF awaited THEN [s EXCEPT !.done = result] ELSE s
    IN  IF result # "ok" /\ (method \notin Maintenance \/ result = "mismatch")
        THEN Fail(noted, result)
        ELSE noted

OnEvent(s, e) ==
    CASE e.kind = "state" -> OnState(s, e.what)
      [] e.kind = "complete" -> OnComplete(s, e.what, e.result)
      [] e.kind = "stunError" -> IF e.result = "mismatch" THEN Fail(s, "mismatch") ELSE s
      [] e.kind = "bound" -> [s EXCEPT !.gate = TRUE, !.channel = TRUE]
      [] e.kind = "relay" -> [s EXCEPT !.relay = TRUE]
      [] e.kind \in {"controlOverflow", "eventOverflow", "forced"} -> Fail(s, "failed")
      [] e.kind = "exhausted" -> s

-----------------------------------------------------------------------------
(* The network.  A request that changes what the server holds is on the    *)
(* wire until the server takes it; of the others only the answer counts.   *)
(* It forgets a finished transaction: see the head of the module.          *)

Request == [op : {"Allocate", "Deallocate"}, authed : BOOLEAN, live : BOOLEAN]

Reply == [op : Operation, accepted : BOOLEAN]

Forget(w, ops) ==
    {r \in w : r.op \notin ops}
    \cup {[r EXCEPT !.live = FALSE] : r \in {x \in w : x.op \in ops /\ x.authed}}

\* A step of the core; the transactions of ended are over, and so are all
\* that are no longer pending.
CoreStep(c, ended) ==
    LET over == ended \cup {o \in Operation : ~HasOperation(c, o)}
    IN  /\ core' = c
        /\ wire' = Forget(wire, over)
        /\ replies' = {r \in replies : r.op \notin over}

\* The requests among the first n controls reach the network.
SendFirst(n) ==
    LET sent == {core.controls[i] : i \in 1..n} \cap Operation
    IN  /\ wire' = wire \cup {[op |-> o, authed |-> core.pending[o].authed, live |-> TRUE] :
                              o \in sent \ Maintenance}
        /\ replies' = replies \cup {[op |-> o, accepted |-> FALSE] : o \in sent \cap Maintenance}

\* The bound on what goes wrong.
Fault(occurs) ==
    /\ occurs => faults < MaxFaults
    /\ faults' = IF occurs THEN faults + 1 ELSE faults

\* The network, the server, the wake detector and the owner's own decisions
\* commute with the steps of the driver until it waits, so they are taken
\* only then or after its end.
Quiet == dpc \in {"wait", "end"}

Init ==
    /\ core \in [state : {"null"}, auth : {FALSE}, relay : {FALSE}, channel : {FALSE},
                 controls : {<<>>}, events : {<<>>},
                 pending : {[o \in Operation |-> Idle]}, armed : {{}}, failures : {0},
                 shutdown : {FALSE}, destroyed : {FALSE}, stream : Streams]
    /\ shared = [state |-> "null", relay |-> FALSE, channel |-> FALSE, gate |-> FALSE,
                 closing |-> FALSE, terminal |-> "none", sent |-> FALSE,
                 done |-> "none"]
    /\ dpc = "top"
    /\ local = [pump |-> TRUE, cleaning |-> FALSE]
    /\ own = "start"
    /\ wake = "none"
    /\ wire = {} /\ replies = {}
    /\ held = FALSE /\ faults = 0

-----------------------------------------------------------------------------
(* The driver task.                                                        *)

\* A short sleep may still be longer than what was left of the allocation.
ObserveWake ==
    /\ dpc = "top" /\ wake # "none"
    /\ \E lost \in {TRUE, wake = "long"} :
          /\ CoreStep(ResyncAfterSuspend(core, lost), {})
          /\ Fault(wake = "short" /\ lost)
    /\ wake' = "none"
    /\ local' = [local EXCEPT !.pump = TRUE]
    /\ UNCHANGED <<shared, dpc, own, held>>

\* Top of the loop while the allocation is in use.
GoOn ==
    /\ dpc = "top" /\ wake = "none" /\ ~shared.closing
    /\ dpc' = IF local.pump THEN "pump" ELSE "wait"
    /\ UNCHANGED <<core, shared, local, own, wake, wire, replies, held, faults>>

\* Mutant: the driver stops as soon as the deallocation is under way.
CleanUpEarly ==
    /\ dpc = "top" /\ wake = "none" /\ shared.closing /\ shared.sent
    /\ CoreStep(IF local.cleaning THEN core ELSE GracefulShutdown(core), {})
    /\ local' = [local EXCEPT !.cleaning = TRUE, !.pump = @ \/ ~local.cleaning]
    /\ dpc' = IF shared.state \in {"deallocating", "deallocated", "destroying"} THEN "break"
              ELSE IF local'.pump THEN "pump" ELSE "wait"
    /\ UNCHANGED <<shared, own, wake, held, faults>>

\* Top of the loop while closing: start_driver_cleanup, and the reasons to
\* stop.  Only a cleanup that was already under way can be late.
CleanUp ==
    /\ dpc = "top" /\ wake = "none" /\ shared.closing /\ shared.sent
    /\ CoreStep(IF local.cleaning THEN core ELSE GracefulShutdown(core), {})
    /\ local' = [local EXCEPT !.cleaning = TRUE, !.pump = @ \/ ~local.cleaning]
    /\ \E late \in {FALSE, local.cleaning} :
          /\ dpc' = IF late \/ shared.state \in {"deallocated", "destroying"} THEN "break"
                    ELSE IF local'.pump THEN "pump" ELSE "wait"
          /\ Fault(late)
    /\ UNCHANGED <<shared, own, wake, held>>

\* Nothing was ever sent, or too many cleanups run already.
SkipCleanUp ==
    /\ dpc = "top" /\ wake = "none" /\ shared.closing
    /\ \/ ~shared.sent /\ Fault(FALSE)
       \/ shared.sent /\ ~local.cleaning /\ Fault(TRUE)
    /\ dpc' = "break"
    /\ UNCHANGED <<core, shared, local, own, wake, wire, replies, held>>

DriverEnds ==
    /\ dpc = "break"
    /\ CoreStep(ForceDestroy(core), {})
    /\ dpc' = "end"
    /\ UNCHANGED <<shared, local, own, wake, held, faults>>

\* pump_native, first part: poll.  A transaction timeout or a passed expiry
\* is something the network or the server did not do in time.
Pump ==
    /\ dpc = "pump"
    /\ \E ops \in {{}} \cup {{o} : o \in {x \in Operation : HasOperation(core, x)}},
          due \in SUBSET core.armed :
          /\ CoreStep(Poll(core, ops, due),
                      {o \in ops : core.stream \/ core.pending[o].sent >= MaxTransmissions})
          /\ Fault(ops # {} \/ "expires" \in due)
    /\ dpc' = "controls"
    /\ UNCHANGED <<shared, local, own, wake, held>>

\* pump_native, second part: all controls are sent.
SendControls ==
    /\ dpc = "controls"
    /\ core' = [core EXCEPT !.controls = <<>>]
    /\ SendFirst(Len(core.controls))
    /\ shared' = [shared EXCEPT !.sent = @ \/ core.controls # <<>>]
    /\ dpc' = "events"
    /\ UNCHANGED <<local, own, wake, held, faults>>

\* pump_native returns an error.  While a cleanup runs its deadline may have
\* passed as well.
PumpError(s) ==
    /\ shared' = RequestCleanup(Fail(s, "failed"))
    /\ local' = [local EXCEPT !.pump = TRUE]
    /\ dpc' \in (IF s.sent THEN {"top"} ELSE {"break"})
               \cup (IF local.cleaning THEN {"break"} ELSE {})
    /\ Fault(TRUE)

SendFails ==
    /\ dpc = "controls" /\ core.controls # <<>>
    /\ \E n \in 0..Len(core.controls) - 1 :
          /\ core' = [core EXCEPT !.controls = SubSeq(@, n + 2, Len(@))]
          /\ SendFirst(n)
          /\ PumpError([shared EXCEPT !.sent = @ \/ n > 0])
    /\ UNCHANGED <<own, wake, held>>

\* pump_native, third part: the events, up to one whose relay address the
\* core no longer has.
HandleEvents ==
    LET es == core.events
        gone == {i \in DOMAIN es : es[i].kind = "relay" /\ ~core.relay}
        n == IF gone = {} THEN Len(es) ELSE (CHOOSE i \in gone : \A j \in gone : i <= j) - 1
        after[i \in 0..n] == IF i = 0 THEN shared ELSE OnEvent(after[i - 1], es[i])
        Met(kind, what) == \E i \in 1..n : es[i].kind = kind /\ es[i].what = what
    IN  /\ dpc = "events"
        /\ IF gone # {}
           THEN /\ core' = [core EXCEPT !.events = SubSeq(@, n + 2, Len(@))]
                /\ PumpError(after[n])
           ELSE /\ core' = [core EXCEPT !.events = <<>>]
                /\ shared' = IF Met("state", "destroying")
                             THEN Fail(after[n], IF Met("exhausted", "none")
                                                 THEN "exhausted" ELSE "failed")
                             ELSE after[n]
                /\ local' = [local EXCEPT !.pump = FALSE]
                /\ dpc' = "top"
                /\ UNCHANGED faults
        /\ UNCHANGED <<own, wake, wire, replies, held>>

\* A notification or the timer ends the select.
Wake ==
    /\ dpc = "wait"
    /\ dpc' = "top"
    /\ local' = [local EXCEPT !.pump = TRUE]
    /\ UNCHANGED <<core, shared, own, wake, wire, replies, held, faults>>

\* What the server answers when nothing is wrong: it asks for credentials
\* once, may have no room, may refuse a channel, and has no allocation to
\* offer once it forgot it.
Honest(r, kind) ==
    \/ kind = "ok" /\ core.pending[r.op].authed
    \/ kind = "challenge" /\ ~core.pending[r.op].authed
    \/ kind = "mismatch" /\ core.pending[r.op].authed /\ (held <=> r.op = "Allocate")
    \/ kind = "badRequest" /\ r.op = "Channel" /\ ~held
    \/ kind = "refused" /\ r.op \in {"Allocate", "Channel"}

\* The kinds that the answer to a request can be of.
Possible(r, kind) ==
    /\ kind \in Unsigned => core.pending[r.op].authed
    /\ r.accepted => kind \in {"ok", "bad", "unsigned"}
    /\ kind = "ok" => r.accepted \/ r.op \in Maintenance \/ ~core.pending[r.op].authed

\* A datagram or frame of the server; a burst is handled before the pump.
Receive ==
    /\ dpc = "wait"
    /\ \E r \in replies, kind \in Kind, alive \in BOOLEAN :
          /\ HasOperation(core, r.op) /\ Possible(r, kind)
          /\ CoreStep(InputStun(core, r.op, kind, alive), {r.op})
          /\ Fault(~alive \/ ~Honest(r, kind))
    /\ local' = [local EXCEPT !.pump = TRUE]
    /\ UNCHANGED <<shared, dpc, own, wake, held>>

\* The socket or the stream fails.
ReceiveFails ==
    /\ dpc = "wait"
    /\ shared' = RequestCleanup(Fail(shared, "failed"))
    /\ local' = [local EXCEPT !.pump = TRUE]
    /\ dpc' = "top" /\ Fault(TRUE)
    /\ UNCHANGED <<core, own, wake, wire, replies, held>>

\* The session dropped its receiver.
OwnerClosed ==
    /\ dpc = "wait" /\ own = "dropped"
    /\ shared' = RequestCleanup(shared)
    /\ dpc' = "top"
    /\ UNCHANGED <<core, local, own, wake, wire, replies, held, faults>>

Driver ==
    \/ ObserveWake \/ GoOn \/ CleanUp \/ SkipCleanUp \/ DriverEnds
    \/ Pump \/ SendControls \/ HandleEvents \/ Wake

-----------------------------------------------------------------------------
(* The owner: connect, prepare_channel, and the end of the session.        *)

\* connect reads its baseline and starts the allocation.
StartAllocation ==
    /\ own = "start"
    /\ IF core.destroyed \/ core.shutdown \/ core.state # "null"
       THEN /\ shared' = Fail(shared, "failed") /\ own' = "dropped"
            /\ UNCHANGED <<core, wire, replies>>
       ELSE /\ shared' = [shared EXCEPT !.done = "none"]
            /\ CoreStep(StartOperation(SetState(core, "allocating"), "Allocate", FALSE, 0), {})
            /\ own' = "allocating"
    /\ UNCHANGED <<dpc, local, wake, held, faults>>

Connected ==
    /\ Quiet /\ own = "allocating"
    /\ shared.done = "ok" /\ shared.terminal = "none"
    /\ shared.state = "ready" /\ shared.relay
    /\ own' = "connected"
    /\ shared' = [shared EXCEPT !.done = "none"]
    /\ UNCHANGED <<core, dpc, local, wake, wire, replies, held, faults>>

CoreReady == ~core.destroyed /\ ~core.shutdown /\ core.state = "ready"

\* prepare_channel: CreatePermission and ChannelBind, one lock section each.
StartBinding(from, op, to) ==
    /\ own = from
    /\ IF CoreReady
       THEN /\ CoreStep(StartOperation(core, op, TRUE, 0), {})
            /\ shared' = IF from = "connected"
                         THEN [shared EXCEPT !.done = "none"] ELSE shared
            /\ own' = to
       ELSE /\ shared' = Fail(shared, "failed") /\ own' = "dropped"
            /\ UNCHANGED <<core, wire, replies>>
    /\ UNCHANGED <<dpc, local, wake, held, faults>>

PrepareChannel ==
    /\ ~shared.closing /\ shared.terminal = "none" /\ ~shared.gate
    /\ StartBinding("connected", "Permission", "permitted")

StartChannel == StartBinding("permitted", "Channel", "binding")

Bound ==
    /\ \/ own = "binding" /\ shared.done = "ok" /\ shared.channel
       \/ own = "connected" /\ shared.gate
    /\ Quiet /\ ~shared.closing /\ shared.terminal = "none"
    /\ own' = "bound"
    /\ shared' = [shared EXCEPT !.done = "none"]
    /\ UNCHANGED <<core, dpc, local, wake, wire, replies, held, faults>>

InUse == {"allocating", "connected", "permitted", "binding", "bound"}

\* A wait of connect or prepare_channel ends with an error, or the session
\* notices that the allocation is over.
SeesFailure ==
    /\ Quiet /\ own \in InUse
    /\ \/ shared.terminal # "none" \/ shared.closing
       \/ own \in {"allocating", "binding"} /\ shared.done \notin {"none", "ok"}
    /\ own' = "dropped"
    /\ shared' = [shared EXCEPT !.done = "none"]
    /\ UNCHANGED <<core, dpc, local, wake, wire, replies, held, faults>>

\* connect exceeds its deadline.
ConnectTimesOut ==
    /\ Quiet /\ own = "allocating"
    /\ shared' = Fail(shared, "failed") /\ own' = "dropped" /\ Fault(TRUE)
    /\ UNCHANGED <<core, dpc, local, wake, wire, replies, held>>

\* The future is cancelled or the session ends for its own reasons.
Cancel ==
    /\ Quiet /\ own \in InUse
    /\ own' = "dropped"
    /\ shared' = [shared EXCEPT !.done = "none"]
    /\ UNCHANGED <<core, dpc, local, wake, wire, replies, held, faults>>

\* deallocate, or the drop of the allocation.
RequestClose ==
    /\ own = "dropped"
    /\ shared' = RequestCleanup(shared) /\ own' = "closing"
    /\ UNCHANGED <<core, dpc, local, wake, wire, replies, held, faults>>

OwnerShutdown ==
    /\ own = "closing"
    /\ CoreStep(GracefulShutdown(core), {}) /\ own' = "closed"
    /\ UNCHANGED <<shared, dpc, local, wake, held, faults>>

\* deallocate waited longer than any cleanup may take.
AbortDriver ==
    /\ own = "closed" /\ dpc # "end"
    /\ CoreStep(ForceDestroy(core), {})
    /\ dpc' = "end" /\ Fault(TRUE)
    /\ UNCHANGED <<shared, local, own, wake, held>>

Owner ==
    \/ StartAllocation \/ Connected \/ PrepareChannel \/ StartChannel \/ Bound
    \/ SeesFailure \/ RequestClose \/ OwnerShutdown

-----------------------------------------------------------------------------
(* Network, server and the wake detector.                                  *)

\* The server takes a request; the answer to a late one finds nobody.
ServerTakes ==
    Quiet /\ \E r \in wire, accepted \in BOOLEAN :
        /\ accepted => r.authed
        /\ wire' = wire \ {r}
        /\ replies' = IF r.live THEN replies \cup {[op |-> r.op, accepted |-> accepted]}
                     ELSE replies
        /\ held' = IF accepted THEN r.op = "Allocate" ELSE held
        /\ UNCHANGED <<core, shared, dpc, local, own, wake, faults>>

ServerForgets ==
    /\ Quiet /\ held /\ held' = FALSE
    /\ UNCHANGED <<core, shared, dpc, local, own, wake, wire, replies, faults>>

Lose ==
    /\ Quiet /\ ~core.stream
    /\ \/ \E r \in wire : wire' = wire \ {r} /\ replies' = replies
       \/ \E r \in replies : replies' = replies \ {r} /\ wire' = wire
    /\ Fault(TRUE)
    /\ UNCHANGED <<core, shared, dpc, local, own, wake, held>>

\* The detector or the host publishes a wake; the gap of an earlier one that
\* the driver has not looked at is overwritten.
WakeSignal ==
    /\ dpc = "wait"
    /\ \/ wake' = "short" /\ held' = held
       \/ wake' = "long" /\ held' = FALSE
    /\ Fault(TRUE)
    /\ UNCHANGED <<core, shared, dpc, local, own, wire, replies>>

Next ==
    \/ Driver \/ Receive \/ SendFails \/ ReceiveFails \/ OwnerClosed
    \/ Owner \/ ConnectTimesOut \/ Cancel \/ AbortDriver
    \/ ServerTakes \/ ServerForgets \/ Lose \/ WakeSignal

Spec == Init /\ [][Next]_vars

-----------------------------------------------------------------------------

\* The queues keep their capacities and every field its values.
TypeOK ==
    /\ core.state \in CoreState
    /\ core.pending \in [Operation -> [sent : 0..MaxTransmissions,
                                       retries : 0..MaxNonceRetries, authed : BOOLEAN]]
    /\ core.armed \subseteq Timer
    /\ core.failures \in 0..MaxChannelFailures
    /\ Len(core.controls) <= ControlCapacity /\ Len(core.events) <= EventCapacity
    /\ shared.state \in CoreState
    /\ shared.terminal \in {"none", "failed", "mismatch", "exhausted"}
    /\ dpc \in {"top", "pump", "controls", "events", "wait", "break", "end"}
    /\ own \in InUse \cup {"start", "dropped", "closing", "closed"}
    /\ wire \subseteq Request /\ replies \subseteq Reply

\* An allocation in use never loses the timers that keep it alive: the expiry
\* is watched, the keepalive and the maintenance recur, and the next Refresh
\* is scheduled or under way, whatever was lost, refused or slept through.
\* (poll clears allocation_refresh before it starts the Refresh.)
ReadyIsMaintained ==
    core.state = "ready" =>
        /\ core.auth /\ core.relay /\ ~core.shutdown /\ ~core.destroyed
        /\ {"expires", "maintenance", "keepalive"} \subseteq core.armed
        /\ "refresh" \in core.armed \/ HasOperation(core, "Refresh")

\* A core that was shut down never becomes usable again, not even when the
\* answer to its Allocate arrives afterwards.
NeverReopens ==
    [][core.shutdown => core'.shutdown /\ ~core'.channel /\ core'.state # "ready"]_vars

\* The driver has handled everything the core told it.
Settled == dpc = "wait" /\ ~local.pump /\ core.events = <<>>

\* What send_with_duplicate and send_data_batch check.
MaySend == shared.gate /\ ~shared.closing /\ shared.terminal = "none"

\* Data is only sent over a channel that the core has: no order of a bind, a
\* teardown, a wake-up and a shutdown leaves the published channel behind.
SendsOnlyWhenBound == Settled /\ MaySend => core.channel

\* A core that gave up its allocation has told the session so, or is being
\* closed: a worker never keeps a dead path without noticing.
EndIsTold ==
    Settled /\ core.state = "destroying" => shared.closing \/ shared.terminal # "none"

Exhausted == core.failures = MaxChannelFailures

\* When nothing was lost or late, the server holds no allocation after the
\* driver has ended: also when connect was cancelled before the answer to its
\* Allocate.  Exhausted ChannelBind retries are the exception: the driver
\* stops before it sends the Deallocate that graceful_shutdown has queued.
ReleasedAtEnd == dpc = "end" /\ faults = 0 /\ ~Exhausted => ~held

\* What the owner of an allocation acts upon is true: it sends data only over a
\* channel the core has, hears of the end, and the state is well typed.
OwnerIsInformed == TypeOK /\ SendsOnlyWhenBound /\ EndIsTold
=============================================================================
