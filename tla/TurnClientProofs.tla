-------------------------- MODULE TurnClientProofs --------------------------
(***************************************************************************)
(* ReadyIsMaintained, NeverReopens, OwnerIsInformed, ReleasedAtEnd and     *)
(* FramesIntact for every value of the constants.                          *)
(*                                                                         *)
(* The first two follow from an inductive invariant Good of the core       *)
(* alone.  Its proof has one lemma per helper of the core, saying which    *)
(* fields the helper changes, and one per method, saying that it preserves *)
(* Good.  The third needs Informed, which relates the core, the events it  *)
(* has not handed over yet and what the driver publishes: again one lemma  *)
(* per helper and per method, and an induction over the events handled.    *)
(* ReleasedAtEnd needs Accounted: while nothing goes wrong, books are kept *)
(* of where the Allocate and the Deallocate are (queue, wire or answer)    *)
(* and of what the server holds.  There each helper and method shows what  *)
(* it leaves of an orderly core, and each action that the books balance.   *)
(* FramesIntact is about the stream reader: after every call of read_frame *)
(* it is Between two frames.                                               *)
(***************************************************************************)
EXTENDS MCTurnClient, FiniteSetTheorems, TLAPS

Fields == {"state", "auth", "relay", "channel", "controls", "events", "pending",
           "armed", "failures", "shutdown", "destroyed", "stream"}

Pendings == [Operation -> [sent : Nat, retries : Nat, authed : BOOLEAN]]

NonePending == [o \in Operation |-> Idle]

\* The core is a record with the fields of Inner.
Shape(c) ==
    /\ c = [f \in Fields |-> c[f]]
    /\ c.pending \in Pendings
    /\ c.auth \in BOOLEAN /\ c.channel \in BOOLEAN
    /\ c.shutdown \in BOOLEAN /\ c.destroyed \in BOOLEAN /\ c.relay \in BOOLEAN

\* d differs from c at most in state, pending, armed, relay and channel, and
\* in the queues and counters.
SameFlags(c, d) ==
    /\ d.auth = c.auth /\ d.shutdown = c.shutdown /\ d.destroyed = c.destroyed

\* d differs from c at most in the queues and counters.
Keeps(c, d) ==
    /\ Shape(d) /\ SameFlags(c, d)
    /\ d.state = c.state /\ d.relay = c.relay /\ d.channel = c.channel
    /\ d.pending = c.pending /\ d.armed = c.armed

-----------------------------------------------------------------------------

\* Changing the event queue (push_event, pull_event) changes nothing else.
LEMMA EventsKeep == ASSUME NEW c, Shape(c), NEW x PROVE Keeps(c, [c EXCEPT !.events = x])
  BY DEF Shape, Keeps, SameFlags, Fields

\* Changing the control queue (queue_packet, pull_control) changes nothing else.
LEMMA ControlsKeep == ASSUME NEW c, Shape(c), NEW x PROVE Keeps(c, [c EXCEPT !.controls = x])
  BY DEF Shape, Keeps, SameFlags, Fields

\* Keeping the fields is transitive.
LEMMA KeepsTwice ==
    ASSUME NEW c, NEW d, NEW e, Keeps(c, d), Keeps(d, e) PROVE Keeps(c, e)
  BY DEF Keeps, SameFlags

\* push_event only changes the event queue.
LEMMA PushEventKeeps == ASSUME NEW c, Shape(c), NEW e PROVE Keeps(c, PushEvent(c, e))
  BY EventsKeep DEF PushEvent

\* queue_packet only changes the two queues.
LEMMA QueuePacketKeeps == ASSUME NEW c, Shape(c), NEW p PROVE Keeps(c, QueuePacket(c, p))
<1> DEFINE e == Event("controlOverflow", "none", "failed")
           a == [c EXCEPT !.controls = Tail(@)]
           room == IF Len(c.controls) = ControlCapacity THEN PushEvent(a, e) ELSE c
<1>1. Keeps(c, c)
  BY DEF Keeps, SameFlags
<1>2. Keeps(c, a)
  BY ControlsKeep
<1>3. Keeps(a, PushEvent(a, e))
  BY <1>2, PushEventKeeps DEF Keeps
<1>4. Keeps(c, room)
  <2> HIDE DEF a, e
  <2> QED BY <1>1, <1>2, <1>3, KeepsTwice
<1>5. Keeps(room, [room EXCEPT !.controls = Append(@, p)])
  <2> HIDE DEF room
  <2> QED BY <1>4, ControlsKeep DEF Keeps
<1>6. QueuePacket(c, p) = [room EXCEPT !.controls = Append(@, p)]
  BY DEF QueuePacket
<1> HIDE DEF room
<1> QED BY <1>4, <1>5, <1>6, KeepsTwice

\* set_state only changes the state and the event queue.
LEMMA SetStateChanges ==
    ASSUME NEW c, Shape(c), NEW s
    PROVE  LET d == SetState(c, s)
           IN  /\ Shape(d) /\ SameFlags(c, d) /\ d.state = s
               /\ d.relay = c.relay /\ d.channel = c.channel
               /\ d.pending = c.pending /\ d.armed = c.armed
<1> DEFINE a == [c EXCEPT !.state = s]
           e == Event("state", s, "ok")
<1>1. CASE c.state = s
  BY <1>1 DEF SetState, SameFlags
<1>2. CASE c.state # s
  <2>1. /\ Shape(a) /\ SameFlags(c, a) /\ a.state = s
        /\ a.relay = c.relay /\ a.channel = c.channel
        /\ a.pending = c.pending /\ a.armed = c.armed
    BY DEF Shape, SameFlags, Fields
  <2>2. SetState(c, s) = PushEvent(a, e)
    BY <1>2 DEF SetState
  <2> HIDE DEF a, e
  <2>3. Keeps(a, PushEvent(a, e))
    BY <2>1, PushEventKeeps
  <2> QED BY <2>1, <2>2, <2>3 DEF Keeps, SameFlags
<1> QED BY <1>1, <1>2

\* complete only changes the event queue.
LEMMA CompleteKeeps ==
    ASSUME NEW c, Shape(c), NEW op, NEW r PROVE Keeps(c, Complete(c, op, r))
  BY PushEventKeeps DEF Complete

\* Taking a transaction out only changes pending and the control queue.
LEMMA RemoveTransactionChanges ==
    ASSUME NEW c, Shape(c), NEW op \in Operation
    PROVE  LET d == RemoveTransaction(c, op)
           IN  /\ Shape(d) /\ SameFlags(c, d) /\ d.state = c.state
               /\ d.relay = c.relay /\ d.channel = c.channel /\ d.armed = c.armed
               /\ d.pending = [c.pending EXCEPT ![op] = Idle]
<1> DEFINE q == Without(c.controls, op)
           x == [c.pending EXCEPT ![op] = Idle]
<1>1. RemoveTransaction(c, op) = [c EXCEPT !.pending = x, !.controls = q]
  BY DEF RemoveTransaction, Shape, Fields
<1>2. x \in Pendings
  BY DEF Shape, Pendings, Idle
<1> HIDE DEF q, x
<1>3. LET d == [c EXCEPT !.pending = x, !.controls = q]
      IN  /\ Shape(d) /\ SameFlags(c, d) /\ d.state = c.state
          /\ d.relay = c.relay /\ d.channel = c.channel /\ d.armed = c.armed
          /\ d.pending = x
  BY <1>2 DEF Shape, SameFlags, Fields
<1> QED BY <1>1, <1>3 DEF x

\* start_operation only adds a transaction, unless there is one already.
LEMMA StartOperationChanges ==
    ASSUME NEW c, Shape(c), NEW op \in Operation, NEW authed \in BOOLEAN, NEW n \in Nat
    PROVE  LET d == StartOperation(c, op, authed, n)
           IN  /\ Shape(d) /\ SameFlags(c, d) /\ d.state = c.state
               /\ d.relay = c.relay /\ d.channel = c.channel /\ d.armed = c.armed
               /\ d.pending = IF HasOperation(c, op) THEN c.pending
                              ELSE [c.pending EXCEPT ![op] =
                                       [sent |-> 1, retries |-> n, authed |-> authed]]
<1> DEFINE q == QueuePacket(c, op)
           t == [sent |-> 1, retries |-> n, authed |-> authed]
           x == [q.pending EXCEPT ![op] = t]
<1>1. Keeps(c, q) /\ Keeps(c, c)
  BY QueuePacketKeeps DEF Keeps, SameFlags
<1>2. CASE HasOperation(c, op)
  <2>1. StartOperation(c, op, authed, n) \in {q, c}
    BY <1>2 DEF StartOperation
  <2> HIDE DEF q
  <2> QED BY <1>1, <1>2, <2>1 DEF Keeps
<1>3. CASE ~HasOperation(c, op)
  <2>1. StartOperation(c, op, authed, n) = [q EXCEPT !.pending = x]
    BY <1>1, <1>3 DEF StartOperation, Keeps, Shape, Fields
  <2>2. x \in Pendings
    <3> HIDE DEF q
    <3> QED BY <1>1 DEF Keeps, Shape, Pendings
  <2> HIDE DEF q, x
  <2>3. LET d == [q EXCEPT !.pending = x]
        IN  /\ Shape(d) /\ SameFlags(q, d) /\ d.state = q.state
            /\ d.relay = q.relay /\ d.channel = q.channel /\ d.armed = q.armed
            /\ d.pending = x
    BY <1>1, <2>2 DEF Keeps, Shape, Fields, SameFlags
  <2>4. x = [c.pending EXCEPT ![op] = t]
    BY <1>1 DEF x, Keeps
  <2> QED BY <1>1, <1>3, <2>1, <2>3, <2>4 DEF Keeps, SameFlags
<1> QED BY <1>2, <1>3

-----------------------------------------------------------------------------
(* The inductive invariant of the core.                                    *)

\* Credentials are known before a request uses them, and before any deadline
\* is armed.
AuthFirst(c) ==
    /\ \A o \in Operation : c.pending[o].authed => c.auth
    /\ c.armed # {} => c.auth

\* Who may have a request under way.
PendingOwner(c) ==
    /\ HasOperation(c, "Deallocate") => c.shutdown
    /\ c.destroyed => \A o \in Operation : ~HasOperation(c, o)
    /\ c.shutdown \/ c.state \in {"null", "allocating"} => ~HasOperation(c, "Channel")

\* A core that was shut down offers nothing.
ShutIsShut(c) == c.shutdown => c.state # "ready" /\ ~c.channel

\* ReadyIsMaintained, for a core.
Maintained(c) ==
    c.state = "ready" =>
        /\ c.auth /\ c.relay /\ ~c.shutdown /\ ~c.destroyed
        /\ {"expires", "maintenance", "keepalive"} \subseteq c.armed
        /\ "refresh" \in c.armed \/ HasOperation(c, "Refresh")

Good(c) == Shape(c) /\ AuthFirst(c) /\ PendingOwner(c) /\ ShutIsShut(c) /\ Maintained(c)

\* What a method does to a good core: it stays good, and shut if it was.
Preserves(c, d) == Good(d) /\ (c.shutdown => d.shutdown)

\* A cleared pending list has no transaction.
LEMMA NothingPending ==
    /\ NonePending \in Pendings
    /\ \A o \in Operation : NonePending[o].sent = 0 /\ ~NonePending[o].authed
    /\ \A c : c.pending = NonePending => \A o \in Operation : ~HasOperation(c, o)
  BY DEF NonePending, Pendings, Idle, HasOperation

\* destroy_allocation leaves a good core, whatever state it is called in.
LEMMA DestroyAllocationIsGood ==
    ASSUME NEW c, Shape(c), NEW op, NEW r
    PROVE  /\ Good(DestroyAllocation(c, op, r))
           /\ SameFlags(c, DestroyAllocation(c, op, r))
<1> DEFINE m == Complete(c, op, r)
           a == [m EXCEPT !.controls = <<>>, !.pending = NonePending,
                          !.channel = FALSE, !.relay = FALSE, !.armed = {}]
           s == IF op = "Deallocate" THEN "deallocated" ELSE "destroying"
           d == SetState(a, s)
<1>1. d = DestroyAllocation(c, op, r)
  BY DEF DestroyAllocation, NonePending
<1>2. Keeps(c, m)
  BY CompleteKeeps
<1> HIDE DEF m
<1>3. /\ Shape(a) /\ SameFlags(m, a)
      /\ a.channel = FALSE /\ a.pending = NonePending /\ a.armed = {}
  BY <1>2, NothingPending DEF Keeps, Shape, SameFlags, Fields
<1> HIDE DEF a
<1>4. /\ Shape(d) /\ SameFlags(a, d) /\ d.state = s
      /\ d.channel = FALSE /\ d.pending = NonePending /\ d.armed = {}
  BY <1>3, SetStateChanges
<1>5. s \notin {"ready", "null", "allocating"}
  OBVIOUS
<1> HIDE DEF d, s
<1>6. \A o \in Operation : ~HasOperation(d, o)
  BY <1>4, NothingPending
<1>7. AuthFirst(d)
  BY <1>4, NothingPending DEF AuthFirst
<1>8. PendingOwner(d)
  BY <1>6 DEF PendingOwner, Operation
<1>9. ShutIsShut(d) /\ Maintained(d)
  BY <1>4, <1>5 DEF ShutIsShut, Maintained
<1> QED BY <1>1, <1>2, <1>3, <1>4, <1>7, <1>8, <1>9 DEF Good, SameFlags, Keeps

\* destroy_after_channel_rebind_exhausted leaves a good core; the expiry it keeps
\* armed needs the credentials to be known.
LEMMA ExhaustedIsGood ==
    ASSUME NEW c, Shape(c), c.auth
    PROVE  /\ Good(DestroyAfterChannelRebindExhausted(c))
           /\ SameFlags(c, DestroyAfterChannelRebindExhausted(c))
<1> DEFINE a == [c EXCEPT !.controls = <<>>, !.pending = NonePending,
                          !.channel = FALSE, !.armed = c.armed \cap {"refresh", "expires"}]
           e == Event("exhausted", "none", "failed")
           b == PushEvent(a, e)
           d == SetState(b, "destroying")
<1>1. d = DestroyAfterChannelRebindExhausted(c)
  BY DEF DestroyAfterChannelRebindExhausted, NonePending, Shape, Fields
<1>2. Shape(a) /\ SameFlags(c, a) /\ a.channel = FALSE /\ a.pending = NonePending
  BY NothingPending DEF Shape, SameFlags, Fields
<1> HIDE DEF a, e
<1>3. Keeps(a, b)
  BY <1>2, PushEventKeeps
<1> HIDE DEF b
<1>4. /\ Shape(d) /\ SameFlags(b, d) /\ d.state = "destroying"
      /\ d.channel = FALSE /\ d.pending = NonePending
  BY <1>2, <1>3, SetStateChanges DEF Keeps
<1> HIDE DEF d
<1>5. SameFlags(c, d)
  BY <1>2, <1>3, <1>4 DEF Keeps, SameFlags
<1>6. \A o \in Operation : ~HasOperation(d, o)
  BY <1>4, NothingPending
<1>7. AuthFirst(d)
  BY <1>4, <1>5, NothingPending DEF AuthFirst, SameFlags
<1>8. PendingOwner(d)
  BY <1>6 DEF PendingOwner, Operation
<1>9. ShutIsShut(d) /\ Maintained(d)
  BY <1>4 DEF ShutIsShut, Maintained
<1> QED BY <1>1, <1>4, <1>5, <1>7, <1>8, <1>9 DEF Good

\* A core in which a request of op may be started; without one, a Refresh may
\* be all that is missing to be good.
Startable(c, op) ==
    /\ Shape(c) /\ AuthFirst(c) /\ PendingOwner(c) /\ ShutIsShut(c)
    /\ op # "Refresh" => Maintained(c)
    /\ c.state = "ready" =>
          /\ c.auth /\ c.relay /\ ~c.shutdown /\ ~c.destroyed
          /\ {"expires", "maintenance", "keepalive"} \subseteq c.armed
    /\ ~c.destroyed
    /\ op = "Deallocate" => c.shutdown
    /\ op = "Channel" => ~c.shutdown /\ c.state \notin {"null", "allocating"}

\* A core from which the transaction of op has just been taken.
Removed(c, op) == Startable(c, op) /\ ~HasOperation(c, op)

\* Events and control packets do not matter to a core with a removed transaction.
LEMMA RemovedKeeps ==
    ASSUME NEW c, NEW d, NEW op \in Operation, Removed(c, op), Keeps(c, d)
    PROVE  Removed(d, op)
<1>1. \A o : HasOperation(d, o) <=> HasOperation(c, o)
  BY DEF HasOperation, Keeps
<1>2. AuthFirst(d) /\ PendingOwner(d) /\ ShutIsShut(d)
  BY <1>1 DEF Removed, Startable, Keeps, SameFlags, AuthFirst, PendingOwner, ShutIsShut
<1>3. op # "Refresh" => Maintained(d)
  BY <1>1 DEF Removed, Startable, Keeps, SameFlags, Maintained
<1> QED BY <1>1, <1>2, <1>3 DEF Removed, Startable, Keeps, SameFlags

\* input_stun and expire_transactions take a transaction out of a good core.
LEMMA RemoveTransactionLeaves ==
    ASSUME NEW c, NEW op \in Operation, Good(c), HasOperation(c, op)
    PROVE  /\ Removed(RemoveTransaction(c, op), op)
           /\ SameFlags(c, RemoveTransaction(c, op))
<1> DEFINE d == RemoveTransaction(c, op)
<1>1. /\ Shape(d) /\ SameFlags(c, d) /\ d.state = c.state
      /\ d.relay = c.relay /\ d.channel = c.channel /\ d.armed = c.armed
      /\ d.pending = [c.pending EXCEPT ![op] = Idle]
  BY RemoveTransactionChanges DEF Good
<1> HIDE DEF d
<1>2. /\ d.pending[op] = Idle
      /\ \A o \in Operation : o # op => d.pending[o] = c.pending[o]
  BY <1>1 DEF Good, Shape, Pendings
<1>3. /\ ~HasOperation(d, op)
      /\ \A o \in Operation : o # op => (HasOperation(d, o) <=> HasOperation(c, o))
  BY <1>2 DEF HasOperation, Idle
<1>4. \A o \in Operation : HasOperation(d, o) => HasOperation(c, o)
  BY <1>3
<1>5. AuthFirst(d)
  <2>1. \A o \in Operation : d.pending[o].authed => c.pending[o].authed
    BY <1>2 DEF Idle
  <2> QED BY <1>1, <2>1 DEF AuthFirst, Good, SameFlags
<1>6. PendingOwner(d)
  BY <1>1, <1>4 DEF PendingOwner, Good, SameFlags, Operation
<1>7. ShutIsShut(d)
  BY <1>1 DEF ShutIsShut, Good, SameFlags
<1>8. op # "Refresh" => Maintained(d)
  BY <1>1, <1>3 DEF Maintained, Good, SameFlags, Operation
<1>9. /\ d.state = "ready" =>
          /\ d.auth /\ d.relay /\ ~d.shutdown /\ ~d.destroyed
          /\ {"expires", "maintenance", "keepalive"} \subseteq d.armed
      /\ ~d.destroyed
      /\ op = "Deallocate" => d.shutdown
      /\ op = "Channel" => ~d.shutdown /\ d.state \notin {"null", "allocating"}
  BY <1>1 DEF Good, Maintained, PendingOwner, SameFlags
<1> QED BY <1>1, <1>3, <1>5, <1>6, <1>7, <1>8, <1>9 DEF Removed, Startable, d

\* complete_failure schedules a retry, gives up the channel or ends the
\* allocation; each makes the core good again.
LEMMA CompleteFailurePreserves ==
    ASSUME NEW c, NEW op \in Operation, Removed(c, op), NEW r, NEW alive
    PROVE  Preserves(c, CompleteFailure(c, op, r, alive))
<1> DEFINE retry == op \in Maintenance /\ c.state = "ready" /\ "expires" \in c.armed /\ alive
           n == IF op = "Channel" THEN c.failures + 1 ELSE c.failures
           m == Complete(c, op, r)
           k == [m EXCEPT !.failures = n]
           x == k.armed \cup {RetryTimer(op)}
           d == [k EXCEPT !.armed = x]
<1>1. CASE ~retry
  <2>1. CompleteFailure(c, op, r, alive) = DestroyAllocation(c, op, r)
    BY <1>1 DEF CompleteFailure
  <2> QED BY <2>1, DestroyAllocationIsGood DEF Preserves, Removed, Startable, SameFlags
<1>2. CASE retry
  <2>0. Shape(c)
    BY DEF Removed, Startable
  <2>1. CompleteFailure(c, op, r, alive)
          \in {DestroyAfterChannelRebindExhausted(k), d}
    BY <1>2 DEF CompleteFailure
  <2>2. Keeps(c, m)
    BY <2>0, CompleteKeeps
  <2> HIDE DEF m, n
  <2>3. Keeps(m, k)
    BY <2>2 DEF Keeps, Shape, SameFlags, Fields
  <2> HIDE DEF k
  <2>4. Keeps(c, k)
    BY <2>2, <2>3, KeepsTwice
  <2>5. Removed(k, op) /\ k.state = "ready" /\ SameFlags(c, k)
    BY <1>2, <2>4, RemovedKeeps DEF Keeps
  <2>6. Shape(k) /\ k.auth
    BY <2>5 DEF Removed, Startable
  <2>7. CASE CompleteFailure(c, op, r, alive) = DestroyAfterChannelRebindExhausted(k)
    BY <2>5, <2>6, <2>7, ExhaustedIsGood DEF Preserves, SameFlags
  <2>8. CASE CompleteFailure(c, op, r, alive) = d
    <3>1. /\ Shape(d) /\ SameFlags(k, d) /\ d.state = k.state
          /\ d.relay = k.relay /\ d.channel = k.channel /\ d.pending = k.pending
          /\ d.armed = x
      <4> HIDE DEF x
      <4> QED BY <2>6 DEF Shape, SameFlags, Fields
    <3> HIDE DEF d
    <3>2. \A o : HasOperation(d, o) <=> HasOperation(k, o)
      BY <3>1 DEF HasOperation
    <3>3. AuthFirst(d) /\ PendingOwner(d) /\ ShutIsShut(d)
      BY <2>5, <2>6, <3>1, <3>2 DEF Removed, Startable, SameFlags, AuthFirst, PendingOwner, ShutIsShut
    <3>4. op = "Refresh" => "refresh" \in x
      BY DEF RetryTimer
    <3>5. op # "Refresh" => "refresh" \in x \/ HasOperation(d, "Refresh")
      BY <2>5, <3>2 DEF Removed, Startable, Maintained
    <3>6. k.armed \subseteq x
      OBVIOUS
    <3> HIDE DEF x
    <3>7. Maintained(d)
      BY <2>5, <3>1, <3>4, <3>5, <3>6 DEF Removed, Startable, SameFlags, Maintained
    <3> QED BY <2>5, <2>8, <3>1, <3>3, <3>7 DEF Preserves, Good, SameFlags
  <2> QED BY <2>1, <2>7, <2>8
<1> QED BY <1>1, <1>2

\* start_operation makes a core good in which it may be called.
LEMMA StartOperationIsGood ==
    ASSUME NEW c, NEW op \in Operation, Startable(c, op),
           NEW authed \in BOOLEAN, authed => c.auth, NEW n \in Nat
    PROVE  /\ Good(StartOperation(c, op, authed, n))
           /\ SameFlags(c, StartOperation(c, op, authed, n))
           /\ StartOperation(c, op, authed, n).state = c.state
<1> DEFINE d == StartOperation(c, op, authed, n)
           t == [sent |-> 1, retries |-> n, authed |-> authed]
<1>1. /\ Shape(d) /\ SameFlags(c, d) /\ d.state = c.state
      /\ d.relay = c.relay /\ d.channel = c.channel /\ d.armed = c.armed
      /\ d.pending = IF HasOperation(c, op) THEN c.pending ELSE [c.pending EXCEPT ![op] = t]
  BY StartOperationChanges DEF Startable
<1> HIDE DEF d
<1>2. /\ \A o \in Operation : o # op => d.pending[o] = c.pending[o]
      /\ d.pending[op] \in {c.pending[op], t}
      /\ HasOperation(c, op) => d.pending[op] = c.pending[op]
      /\ ~HasOperation(c, op) => d.pending[op] = t
  <2> HIDE DEF t
  <2> QED BY <1>1 DEF Startable, Shape, Pendings
<1>3. /\ HasOperation(d, op)
      /\ \A o \in Operation : o # op => (HasOperation(d, o) <=> HasOperation(c, o))
  BY <1>2 DEF HasOperation
<1>4. AuthFirst(d)
  <2>1. d.pending[op].authed => c.auth
    BY <1>2 DEF Startable, AuthFirst
  <2>2. \A o \in Operation : o # op => (d.pending[o].authed => c.auth)
    BY <1>2 DEF Startable, AuthFirst
  <2> QED BY <1>1, <2>1, <2>2 DEF AuthFirst, Startable, SameFlags
<1>5. PendingOwner(d)
  BY <1>1, <1>3 DEF PendingOwner, Startable, SameFlags, Operation
<1>6. ShutIsShut(d)
  BY <1>1 DEF ShutIsShut, Startable, SameFlags
<1>7. Maintained(d)
  <2>1. CASE op = "Refresh"
    BY <1>1, <1>3, <2>1 DEF Maintained, Startable, SameFlags
  <2>2. CASE op # "Refresh"
    BY <1>1, <1>3, <2>2 DEF Maintained, Startable, SameFlags, Operation
  <2> QED BY <2>1, <2>2
<1> QED BY <1>1, <1>4, <1>5, <1>6, <1>7 DEF Good, d

\* The success of Allocate opens the core, or starts the Deallocate of one that
\* was shut down meanwhile.
LEMMA CompleteAllocatePreserves ==
    ASSUME NEW c, Removed(c, "Allocate"), c.auth
    PROVE  Preserves(c, CompleteAllocate(c))
<1> DEFINE x == c.armed \cup {"refresh", "expires", "maintenance", "keepalive"}
           a == [c EXCEPT !.relay = TRUE, !.armed = x]
           e == Event("relay", "none", "ok")
           k == PushEvent(a, e)
           s == SetState(k, "deallocating")
           y == SetState(k, "ready")
<1>1. CompleteAllocate(c) = IF c.shutdown THEN StartOperation(s, "Deallocate", TRUE, 0)
                            ELSE Complete(y, "Allocate", "ok")
  BY DEF CompleteAllocate, Removed, Startable, Shape, Fields
<1>2. /\ Shape(a) /\ SameFlags(c, a) /\ a.relay = TRUE /\ a.channel = c.channel
      /\ a.pending = c.pending /\ a.armed = x /\ a.state = c.state
  <2> HIDE DEF x
  <2> QED BY DEF Removed, Startable, Shape, SameFlags, Fields
<1> HIDE DEF a, e
<1>3. /\ Shape(k) /\ SameFlags(c, k) /\ k.relay = TRUE /\ k.channel = c.channel
      /\ k.pending = c.pending /\ k.armed = x
  BY <1>2, PushEventKeeps DEF Keeps, SameFlags
<1> HIDE DEF k
<1>4. ASSUME NEW d, Shape(d), SameFlags(c, d), d.channel = c.channel,
             d.pending = c.pending, d.state \in {"deallocating", "ready"}
      PROVE  AuthFirst(d) /\ PendingOwner(d)
  <2>1. \A o \in Operation : HasOperation(d, o) <=> HasOperation(c, o)
    BY <1>4 DEF HasOperation
  <2> QED BY <1>4, <2>1
          DEF AuthFirst, PendingOwner, SameFlags, Removed, Startable, Operation
<1>5. CASE c.shutdown
  <2>1. /\ Shape(s) /\ SameFlags(c, s) /\ s.channel = c.channel
        /\ s.pending = c.pending /\ s.state = "deallocating"
    <3>1. /\ Shape(s) /\ SameFlags(k, s) /\ s.state = "deallocating"
          /\ s.channel = k.channel /\ s.pending = k.pending
      BY <1>3, SetStateChanges
    <3> HIDE DEF s
    <3> QED BY <1>3, <3>1 DEF SameFlags
  <2> HIDE DEF s
  <2>2. Startable(s, "Deallocate")
    BY <1>4, <1>5, <2>1
       DEF Startable, Removed, SameFlags, ShutIsShut, Maintained
  <2>3. s.auth
    BY <2>1 DEF SameFlags
  <2>4. Good(StartOperation(s, "Deallocate", TRUE, 0))
        /\ SameFlags(s, StartOperation(s, "Deallocate", TRUE, 0))
    BY <2>2, <2>3, StartOperationIsGood DEF Operation
  <2> QED BY <1>1, <1>5, <2>1, <2>4 DEF Preserves, SameFlags
<1>6. CASE ~c.shutdown
  <2> DEFINE d == Complete(y, "Allocate", "ok")
  <2>1. /\ Shape(y) /\ SameFlags(c, y) /\ y.channel = c.channel /\ y.relay = TRUE
        /\ y.pending = c.pending /\ y.state = "ready" /\ y.armed = x
    <3>1. /\ Shape(y) /\ SameFlags(k, y) /\ y.state = "ready" /\ y.relay = k.relay
          /\ y.channel = k.channel /\ y.pending = k.pending /\ y.armed = k.armed
      BY <1>3, SetStateChanges
    <3> HIDE DEF y
    <3> QED BY <1>3, <3>1 DEF SameFlags
  <2> HIDE DEF y
  <2>2. /\ Shape(d) /\ SameFlags(c, d) /\ d.channel = c.channel /\ d.relay = TRUE
        /\ d.pending = c.pending /\ d.state = "ready" /\ d.armed = x
    BY <2>1, CompleteKeeps DEF Keeps, SameFlags
  <2> HIDE DEF d
  <2>3. AuthFirst(d) /\ PendingOwner(d)
    BY <1>4, <2>2
  <2>4. {"refresh", "expires", "maintenance", "keepalive"} \subseteq d.armed
    BY <2>2
  <2>5. ShutIsShut(d) /\ Maintained(d)
    BY <1>6, <2>2, <2>4 DEF ShutIsShut, Maintained, SameFlags, Removed, Startable
  <2> QED BY <1>1, <1>6, <2>2, <2>3, <2>5 DEF Preserves, Good, d
<1> QED BY <1>5, <1>6

\* complete_success makes the core good again for every operation.
LEMMA CompleteSuccessPreserves ==
    ASSUME NEW c, NEW op \in Operation, Removed(c, op), c.auth
    PROVE  Preserves(c, CompleteSuccess(c, op))
<1>0. Shape(c)
  BY DEF Removed, Startable
<1>1. CASE op = "Allocate"
  BY <1>1, CompleteAllocatePreserves DEF CompleteSuccess
<1>2. CASE op = "Refresh"
  <2> DEFINE x == c.armed \cup {"refresh", "expires"}
             a == [c EXCEPT !.armed = x]
             d == Complete(a, op, "ok")
  <2>1. d = CompleteSuccess(c, op)
    BY <1>0, <1>2 DEF CompleteSuccess, Shape, Fields
  <2>2. Shape(a) /\ SameFlags(c, a) /\ a.state = c.state /\ a.relay = c.relay
        /\ a.channel = c.channel /\ a.pending = c.pending /\ a.armed = x
    <3> HIDE DEF x
    <3> QED BY <1>0 DEF Shape, SameFlags, Fields
  <2> HIDE DEF a
  <2>3. Shape(d) /\ SameFlags(c, d) /\ d.state = c.state /\ d.relay = c.relay
        /\ d.channel = c.channel /\ d.pending = c.pending /\ d.armed = x
    BY <2>2, CompleteKeeps DEF Keeps, SameFlags
  <2> HIDE DEF d
  <2>4. \A o : HasOperation(d, o) <=> HasOperation(c, o)
    BY <2>3 DEF HasOperation
  <2>5. AuthFirst(d) /\ PendingOwner(d) /\ ShutIsShut(d)
    BY <2>3, <2>4
       DEF Removed, Startable, SameFlags, AuthFirst, PendingOwner, ShutIsShut
  <2>6. c.armed \subseteq d.armed /\ "refresh" \in d.armed
    BY <2>3
  <2> HIDE DEF x
  <2>7. Maintained(d)
    BY <2>3, <2>6 DEF Removed, Startable, SameFlags, Maintained
  <2> QED BY <2>1, <2>3, <2>5, <2>7 DEF Preserves, Good, SameFlags
<1>3. CASE op = "Deallocate"
  <2> DEFINE x == c.armed \ {"refresh", "expires"}
             a == [c EXCEPT !.relay = FALSE, !.armed = x]
             b == Complete(a, op, "ok")
             d == SetState(b, "deallocated")
  <2>1. d = CompleteSuccess(c, op)
    BY <1>0, <1>3 DEF CompleteSuccess, Shape, Fields
  <2>2. Shape(a) /\ SameFlags(c, a) /\ a.channel = c.channel /\ a.pending = c.pending
    <3> HIDE DEF x
    <3> QED BY <1>0 DEF Shape, SameFlags, Fields
  <2> HIDE DEF a
  <2>3. Shape(b) /\ SameFlags(c, b) /\ b.channel = c.channel /\ b.pending = c.pending
    BY <2>2, CompleteKeeps DEF Keeps, SameFlags
  <2> HIDE DEF b
  <2>4. Shape(d) /\ SameFlags(c, d) /\ d.channel = c.channel /\ d.pending = c.pending
        /\ d.state = "deallocated"
    BY <2>3, SetStateChanges DEF SameFlags
  <2> HIDE DEF d
  <2>5. \A o : HasOperation(d, o) <=> HasOperation(c, o)
    BY <2>4 DEF HasOperation
  <2>6. AuthFirst(d) /\ PendingOwner(d) /\ ShutIsShut(d) /\ Maintained(d)
    BY <2>4, <2>5
       DEF Removed, Startable, SameFlags, AuthFirst, PendingOwner, ShutIsShut, Maintained
  <2> QED BY <2>1, <2>4, <2>6 DEF Preserves, Good, SameFlags
<1>4. CASE op = "Permission"
  <2>1. CompleteSuccess(c, op) = Complete(c, op, "ok")
    BY <1>4 DEF CompleteSuccess
  <2>2. Keeps(c, Complete(c, op, "ok"))
    BY <1>0, CompleteKeeps
  <2>3. Removed(Complete(c, op, "ok"), op)
    BY <2>2, RemovedKeeps
  <2> QED BY <1>4, <2>1, <2>2, <2>3
          DEF Preserves, Good, Removed, Startable, Keeps, SameFlags
<1>5. CASE op = "Channel"
  <2> DEFINE a == [c EXCEPT !.channel = TRUE, !.failures = 0]
             e == Event("bound", "none", "ok")
             b == PushEvent(a, e)
             d == Complete(b, op, "ok")
  <2>1. d = CompleteSuccess(c, op)
    BY <1>5 DEF CompleteSuccess
  <2>2. Shape(a) /\ SameFlags(c, a) /\ a.state = c.state /\ a.relay = c.relay
        /\ a.pending = c.pending /\ a.armed = c.armed
    BY <1>0 DEF Shape, SameFlags, Fields
  <2> HIDE DEF a, e
  <2>3. Shape(b) /\ SameFlags(c, b) /\ b.state = c.state /\ b.relay = c.relay
        /\ b.pending = c.pending /\ b.armed = c.armed
    BY <2>2, PushEventKeeps DEF Keeps, SameFlags
  <2> HIDE DEF b
  <2>4. Shape(d) /\ SameFlags(c, d) /\ d.state = c.state /\ d.relay = c.relay
        /\ d.pending = c.pending /\ d.armed = c.armed
    BY <2>3, CompleteKeeps DEF Keeps, SameFlags
  <2> HIDE DEF d
  <2>5. \A o : HasOperation(d, o) <=> HasOperation(c, o)
    BY <2>4 DEF HasOperation
  <2>6. AuthFirst(d) /\ PendingOwner(d)
    BY <2>4, <2>5 DEF Removed, Startable, SameFlags, AuthFirst, PendingOwner
  <2>7. ShutIsShut(d) /\ Maintained(d)
    BY <1>5, <2>4, <2>5 DEF Removed, Startable, SameFlags, ShutIsShut, Maintained
  <2> QED BY <2>1, <2>4, <2>6, <2>7 DEF Preserves, Good, SameFlags
<1> QED BY <1>1, <1>2, <1>3, <1>4, <1>5 DEF Operation

-----------------------------------------------------------------------------
(* The methods of the core.                                                *)

\* Events and control packets do not matter to a good core.
LEMMA GoodKeeps ==
    ASSUME NEW c, NEW d, Good(c), Keeps(c, d) PROVE Preserves(c, d)
<1>1. \A o : HasOperation(d, o) <=> HasOperation(c, o)
  BY DEF HasOperation, Keeps
<1>2. AuthFirst(d) /\ PendingOwner(d) /\ ShutIsShut(d)
  BY <1>1 DEF Good, Keeps, SameFlags, AuthFirst, PendingOwner, ShutIsShut
<1>3. Maintained(d)
  BY <1>1 DEF Good, Keeps, SameFlags, Maintained
<1> QED BY <1>2, <1>3 DEF Preserves, Good, Keeps, SameFlags

\* input_stun preserves the invariant for every kind of answer.
LEMMA InputStunPreserves ==
    ASSUME NEW c, Good(c), NEW op \in Operation, HasOperation(c, op),
           NEW kind, NEW alive
    PROVE  Preserves(c, InputStun(c, op, kind, alive))
<1> DEFINE p == c.pending[op]
           rest == RemoveTransaction(c, op)
           Noted(r) == PushEvent(rest, Event("stunError", Method(op), r))
           new == [rest EXCEPT !.auth = TRUE]
           d == InputStun(c, op, kind, alive)
<1>1. Removed(rest, op) /\ SameFlags(c, rest)
  BY RemoveTransactionLeaves
<1>2. \/ d = c
      \/ \E r : d = PushEvent(c, Event("stunError", Method(op), r))
      \/ p.authed /\ d = CompleteSuccess(rest, op)
      \/ d = CompleteFailure(rest, op, "failed", alive)
      \/ d = DestroyAllocation(Noted("mismatch"), op, "mismatch")
      \/ d = StartOperation(new, op, TRUE, p.retries + 1)
      \/ d = CompleteFailure(Noted("failed"), op, "failed", alive)
  BY DEF InputStun
<1> SUFFICES Preserves(c, d)
  OBVIOUS
<1> HIDE DEF rest, d
<1>3. \A r : Keeps(rest, Noted(r)) /\ Removed(Noted(r), op)
  BY <1>1, PushEventKeeps, RemovedKeeps DEF Removed, Startable
<1>4. p.authed => rest.auth
  BY <1>1 DEF Good, AuthFirst, SameFlags
<1>5. CASE d = c
  BY <1>5 DEF Preserves
<1>6. CASE \E r : d = PushEvent(c, Event("stunError", Method(op), r))
  BY <1>6, PushEventKeeps, GoodKeeps DEF Good
<1>7. CASE p.authed /\ d = CompleteSuccess(rest, op)
  BY <1>1, <1>4, <1>7, CompleteSuccessPreserves DEF Preserves, SameFlags
<1>8. CASE d = CompleteFailure(rest, op, "failed", alive)
  BY <1>1, <1>8, CompleteFailurePreserves DEF Preserves, SameFlags
<1>9. CASE d = DestroyAllocation(Noted("mismatch"), op, "mismatch")
  <2> DEFINE n == Noted("mismatch")
  <2>1. Shape(n) /\ SameFlags(c, n)
    BY <1>1, <1>3 DEF Keeps, SameFlags
  <2> HIDE DEF n
  <2>2. Good(DestroyAllocation(n, op, "mismatch"))
        /\ SameFlags(n, DestroyAllocation(n, op, "mismatch"))
    BY <2>1, DestroyAllocationIsGood
  <2> QED BY <1>9, <2>1, <2>2 DEF Preserves, SameFlags, n
<1>10. CASE d = StartOperation(new, op, TRUE, p.retries + 1)
  <2>1. /\ Shape(new) /\ new.auth = TRUE /\ new.shutdown = c.shutdown
        /\ new.destroyed = rest.destroyed /\ new.shutdown = rest.shutdown
        /\ new.state = rest.state /\ new.relay = rest.relay
        /\ new.channel = rest.channel /\ new.pending = rest.pending
        /\ new.armed = rest.armed
    BY <1>1 DEF Removed, Startable, Shape, Fields, SameFlags
  <2> HIDE DEF new
  <2>2. \A o : HasOperation(new, o) <=> HasOperation(rest, o)
    BY <2>1 DEF HasOperation
  <2>3. AuthFirst(new) /\ PendingOwner(new) /\ ShutIsShut(new)
    BY <1>1, <2>1, <2>2
       DEF Removed, Startable, AuthFirst, PendingOwner, ShutIsShut
  <2>4. op # "Refresh" => Maintained(new)
    BY <1>1, <2>1, <2>2 DEF Removed, Startable, Maintained
  <2>5. Startable(new, op)
    BY <1>1, <2>1, <2>3, <2>4 DEF Removed, Startable
  <2>6. p.retries + 1 \in Nat
    BY DEF Good, Shape, Pendings
  <2> QED BY <1>10, <2>1, <2>5, <2>6, StartOperationIsGood DEF Preserves, SameFlags
<1>11. CASE d = CompleteFailure(Noted("failed"), op, "failed", alive)
  <2> DEFINE n == Noted("failed")
  <2>1. Removed(n, op) /\ SameFlags(c, n)
    BY <1>1, <1>3 DEF Keeps, SameFlags
  <2> HIDE DEF n
  <2>2. Preserves(n, CompleteFailure(n, op, "failed", alive))
    BY <2>1, CompleteFailurePreserves
  <2> QED BY <1>11, <2>1, <2>2 DEF Preserves, SameFlags, n
<1> QED BY <1>2, <1>5, <1>6, <1>7, <1>8, <1>9, <1>10, <1>11

\* A retransmission or a timeout of expire_transactions preserves the invariant.
LEMMA ExpirePreserves ==
    ASSUME NEW c, Good(c), NEW op \in Operation, HasOperation(c, op), NEW alive
    PROVE  Preserves(c, Expire(c, op, alive))
<1> DEFINE rest == RemoveTransaction(c, op)
           q == QueuePacket(c, op)
           t == [c.pending[op] EXCEPT !.sent = c.pending[op].sent + 1]
           x == [c.pending EXCEPT ![op] = t]
           d == [q EXCEPT !.pending = x]
<1>1. Keeps(c, q)
  BY QueuePacketKeeps DEF Good
<1>2. Expire(c, op, alive) \in {CompleteFailure(rest, op, "failed", alive), d}
  BY <1>1 DEF Expire, Keeps, Shape, Fields
<1>3. CASE Expire(c, op, alive) = CompleteFailure(rest, op, "failed", alive)
  <2>1. Removed(rest, op) /\ SameFlags(c, rest)
    BY RemoveTransactionLeaves
  <2> HIDE DEF rest
  <2> QED BY <1>3, <2>1, CompleteFailurePreserves DEF Preserves, SameFlags
<1>4. CASE Expire(c, op, alive) = d
  <2>1. /\ t \in [sent : Nat, retries : Nat, authed : BOOLEAN]
        /\ t.sent > 0 /\ t.authed = c.pending[op].authed
    BY DEF Good, Shape, Pendings
  <2> HIDE DEF t
  <2>2. x \in Pendings /\ x[op] = t /\ \A o \in Operation : o # op => x[o] = c.pending[o]
    BY <2>1 DEF Good, Shape, Pendings
  <2> HIDE DEF x, q
  <2>3. /\ Shape(d) /\ SameFlags(c, d) /\ d.state = c.state /\ d.relay = c.relay
        /\ d.channel = c.channel /\ d.pending = x /\ d.armed = c.armed
    BY <1>1, <2>2 DEF Keeps, Shape, Fields, SameFlags
  <2> HIDE DEF d
  <2>4. \A o \in Operation : HasOperation(d, o) <=> HasOperation(c, o)
    BY <2>1, <2>2, <2>3 DEF HasOperation
  <2>5. \A o \in Operation : d.pending[o].authed <=> c.pending[o].authed
    BY <2>1, <2>2, <2>3
  <2>6. AuthFirst(d)
    BY <2>3, <2>5 DEF Good, AuthFirst, SameFlags
  <2>7. PendingOwner(d)
    BY <2>3, <2>4 DEF Good, PendingOwner, SameFlags, Operation
  <2>8. ShutIsShut(d) /\ Maintained(d)
    BY <2>3, <2>4 DEF Good, ShutIsShut, Maintained, SameFlags, Operation
  <2> QED BY <1>4, <2>3, <2>6, <2>7, <2>8 DEF Preserves, Good, SameFlags
<1> QED BY <1>2, <1>3, <1>4

\* poll clears a deadline only together with starting its request.
LEMMA RestartPreserves ==
    ASSUME NEW c, Good(c), c.state = "ready", NEW due, NEW timers,
           NEW op \in Maintenance
    PROVE  /\ Preserves(c, Restart(c, due, timers, op))
           /\ Restart(c, due, timers, op).state = "ready"
<1> DEFINE x == c.armed \ {RetryTimer(op)}
           a == [c EXCEPT !.armed = x]
           d == StartOperation(a, op, TRUE, 0)
<1>1. Restart(c, due, timers, op) \in {c, d}
  BY DEF Restart, Good, Shape, Fields
<1>2. CASE Restart(c, due, timers, op) = c
  BY <1>2 DEF Preserves
<1>3. CASE Restart(c, due, timers, op) = d
  <2>1. /\ Shape(a) /\ SameFlags(c, a) /\ a.state = c.state /\ a.relay = c.relay
        /\ a.channel = c.channel /\ a.pending = c.pending /\ a.armed = x
    <3> HIDE DEF x
    <3> QED BY DEF Good, Shape, SameFlags, Fields
  <2>2. /\ {"expires", "maintenance", "keepalive"} \subseteq x
        /\ op # "Refresh" /\ "refresh" \in c.armed => "refresh" \in x
    BY DEF Good, Maintained, RetryTimer, Maintenance
  <2> HIDE DEF a, x
  <2>3. \A o : HasOperation(a, o) <=> HasOperation(c, o)
    BY <2>1 DEF HasOperation
  <2>4. AuthFirst(a) /\ PendingOwner(a) /\ ShutIsShut(a)
    BY <2>1, <2>3
       DEF Good, SameFlags, AuthFirst, PendingOwner, ShutIsShut, Maintained
  <2>5. op # "Refresh" => Maintained(a)
    BY <2>1, <2>2, <2>3 DEF Good, Maintained, SameFlags
  <2>6. Startable(a, op) /\ a.auth
    BY <2>1, <2>2, <2>4, <2>5
       DEF Startable, Good, Maintained, SameFlags, Maintenance
  <2>7. op \in Operation
    BY DEF Maintenance, Operation
  <2>8. Good(d) /\ SameFlags(a, d) /\ d.state = a.state
    BY <2>6, <2>7, StartOperationIsGood
  <2> HIDE DEF d
  <2> QED BY <1>3, <2>1, <2>8 DEF Preserves, SameFlags
<1> QED BY <1>1, <1>2, <1>3

\* The maintenance part of poll preserves the invariant.
LEMMA MaintainPreserves ==
    ASSUME NEW c, Good(c), c.state = "ready", NEW due
    PROVE  Preserves(c, Maintain(c, due))
<1> DEFINE r == Restart(c, due, {"refresh"}, "Refresh")
           m == Restart(r, due, {"maintenance", "permission"}, "Permission")
           b == Restart(m, due, {"maintenance", "channel"}, "Channel")
<1>1. Maintain(c, due) \in {b, QueuePacket(b, "keepalive")}
  BY DEF Maintain
<1>2. Preserves(c, r) /\ r.state = "ready"
  BY RestartPreserves DEF Maintenance
<1> HIDE DEF r
<1>3. Preserves(r, m) /\ m.state = "ready"
  BY <1>2, RestartPreserves DEF Maintenance, Preserves
<1> HIDE DEF m
<1>4. Preserves(m, b) /\ b.state = "ready"
  BY <1>3, RestartPreserves DEF Maintenance, Preserves
<1> HIDE DEF b
<1>5. Preserves(b, QueuePacket(b, "keepalive"))
  BY <1>4, QueuePacketKeeps, GoodKeeps DEF Preserves, Good
<1> QED BY <1>1, <1>2, <1>3, <1>4, <1>5 DEF Preserves

\* poll preserves the invariant, whichever deadlines have passed.
LEMMA PollPreserves ==
    ASSUME NEW c, Good(c), NEW ops \in SUBSET Operation,
           \A o \in ops : HasOperation(c, o), NEW due
    PROVE  Preserves(c, Poll(c, ops, due))
<1> DEFINE alive == "expires" \notin due
           o == CHOOSE x \in ops : TRUE
           e == IF ops = {} THEN c ELSE Expire(c, o, alive)
           dead == DestroyAllocation(e, "Refresh", "failed")
           k == IF /\ ~e.shutdown /\ e.state = "ready"
                   /\ "expires" \in e.armed /\ ~alive
                THEN dead ELSE e
<1>1. Poll(c, ops, due) = IF c.destroyed THEN c
                          ELSE IF ~k.shutdown /\ k.state = "ready" THEN Maintain(k, due) ELSE k
  BY DEF Poll
<1>2. Preserves(c, e)
  <2>1. CASE ops = {}
    BY <2>1 DEF Preserves
  <2>2. CASE ops # {}
    <3>1. o \in ops
      BY <2>2
    <3> HIDE DEF o
    <3> QED BY <2>2, <3>1, ExpirePreserves
  <2> QED BY <2>1, <2>2
<1> HIDE DEF e
<1>3. Preserves(c, dead)
  BY <1>2, DestroyAllocationIsGood DEF Preserves, Good, SameFlags
<1> HIDE DEF dead
<1>4. Preserves(c, k)
  BY <1>2, <1>3
<1> HIDE DEF k
<1>5. k.state = "ready" => Preserves(c, Maintain(k, due))
  BY <1>4, MaintainPreserves DEF Preserves
<1> QED BY <1>1, <1>4, <1>5 DEF Preserves

\* resync_after_suspend preserves the invariant, whatever the gap.
LEMMA ResyncAfterSuspendPreserves ==
    ASSUME NEW c, Good(c), NEW lost
    PROVE  Preserves(c, ResyncAfterSuspend(c, lost))
<1> DEFINE x == c.armed \cup {"refresh", "maintenance", "keepalive"}
           a == [c EXCEPT !.armed = x]
           dead == DestroyAllocation(c, "Refresh", "failed")
<1>1. \/ ResyncAfterSuspend(c, lost) \in {c, dead}
      \/ c.state = "ready" /\ ResyncAfterSuspend(c, lost) = a
  BY DEF ResyncAfterSuspend, Good, Shape, Fields
<1>2. Preserves(c, c) /\ Preserves(c, dead)
  BY DestroyAllocationIsGood DEF Preserves, Good, SameFlags
<1>3. ASSUME c.state = "ready" PROVE Preserves(c, a)
  <2>1. /\ Shape(a) /\ SameFlags(c, a) /\ a.state = c.state /\ a.relay = c.relay
        /\ a.channel = c.channel /\ a.pending = c.pending /\ a.armed = x
    <3> HIDE DEF x
    <3> QED BY DEF Good, Shape, SameFlags, Fields
  <2>2. c.armed \subseteq x
    OBVIOUS
  <2> HIDE DEF a, x
  <2>3. \A o : HasOperation(a, o) <=> HasOperation(c, o)
    BY <2>1 DEF HasOperation
  <2>4. AuthFirst(a) /\ PendingOwner(a) /\ ShutIsShut(a) /\ Maintained(a)
    BY <1>3, <2>1, <2>2, <2>3
       DEF Good, SameFlags, AuthFirst, PendingOwner, ShutIsShut, Maintained
  <2> QED BY <2>1, <2>4 DEF Preserves, Good, SameFlags
<1> QED BY <1>1, <1>2, <1>3

\* graceful_shutdown preserves the invariant from every state.
LEMMA GracefulShutdownPreserves ==
    ASSUME NEW c, Good(c) PROVE Preserves(c, GracefulShutdown(c))
<1> DEFINE x == c.armed \cap {"refresh", "expires"}
           a == [c EXCEPT !.shutdown = TRUE, !.channel = FALSE, !.controls = <<>>,
                          !.armed = x]
           b == [a EXCEPT !.pending = NonePending]
           s == SetState(b, "deallocating")
           d == StartOperation(s, "Deallocate", TRUE, 0)
<1>1. \/ GracefulShutdown(c) = c
      \/ /\ ~c.destroyed
         /\ \/ c.armed # {} /\ GracefulShutdown(c) = d
            \/ c.state = "allocating" /\ GracefulShutdown(c) = a
            \/ c.state # "ready" /\ GracefulShutdown(c) = b
  <2>1. c.state = "ready" => c.armed # {}
    BY DEF Good, Maintained
  <2>2. GracefulShutdown(c) =
          IF c.destroyed \/ c.shutdown THEN c
          ELSE IF c.state = "ready" \/ (c.state = "destroying" /\ "expires" \in c.armed)
          THEN d
          ELSE IF c.state = "allocating" THEN a ELSE b
    BY DEF GracefulShutdown, NonePending, Good, Shape, Fields
  <2> HIDE DEF a, b, d
  <2> QED BY <2>1, <2>2
<1>2. CASE GracefulShutdown(c) = c
  BY <1>2 DEF Preserves
<1>3. /\ Shape(a) /\ a.shutdown = TRUE /\ a.channel = FALSE /\ a.pending = c.pending
      /\ a.auth = c.auth /\ a.destroyed = c.destroyed /\ a.state = c.state /\ a.armed = x
  <2> HIDE DEF x
  <2> QED BY DEF Good, Shape, Fields
<1>4. x # {} => c.auth
  BY DEF Good, AuthFirst
<1> HIDE DEF a, x
<1>5. /\ Shape(b) /\ b.shutdown = TRUE /\ b.channel = FALSE /\ b.pending = NonePending
      /\ b.auth = c.auth /\ b.destroyed = c.destroyed /\ b.state = c.state /\ b.armed = x
  BY <1>3, NothingPending DEF Shape, Fields
<1> HIDE DEF b
<1>6. CASE ~c.destroyed /\ c.armed # {} /\ GracefulShutdown(c) = d
  <2>1. /\ Shape(s) /\ s.shutdown = TRUE /\ s.channel = FALSE /\ s.pending = NonePending
        /\ s.auth = c.auth /\ s.destroyed = c.destroyed /\ s.state = "deallocating"
        /\ s.armed = x
    BY <1>5, SetStateChanges DEF SameFlags
  <2> HIDE DEF s
  <2>2. s.auth
    BY <1>6, <2>1 DEF Good, AuthFirst
  <2>3. \A o \in Operation : ~HasOperation(s, o)
    BY <2>1, NothingPending
  <2>4. AuthFirst(s)
    BY <2>1, <2>2, NothingPending DEF AuthFirst
  <2>5. PendingOwner(s) /\ ShutIsShut(s) /\ Maintained(s)
    BY <2>1, <2>3 DEF PendingOwner, ShutIsShut, Maintained, Operation
  <2>6. Startable(s, "Deallocate")
    BY <1>6, <2>1, <2>4, <2>5 DEF Startable
  <2>7. Good(d) /\ SameFlags(s, d)
    BY <2>2, <2>6, StartOperationIsGood DEF Operation
  <2> HIDE DEF d
  <2> QED BY <1>6, <2>1, <2>7 DEF Preserves, SameFlags
<1>7. CASE ~c.destroyed /\ c.state = "allocating" /\ GracefulShutdown(c) = a
  <2>1. \A o : HasOperation(a, o) <=> HasOperation(c, o)
    BY <1>3 DEF HasOperation
  <2>2. AuthFirst(a)
    BY <1>3, <1>4 DEF AuthFirst, Good
  <2>3. PendingOwner(a) /\ ShutIsShut(a) /\ Maintained(a)
    BY <1>3, <1>7, <2>1 DEF PendingOwner, ShutIsShut, Maintained, Good
  <2> QED BY <1>3, <1>7, <2>2, <2>3 DEF Preserves, Good
<1>8. CASE ~c.destroyed /\ c.state # "ready" /\ GracefulShutdown(c) = b
  <2>1. \A o \in Operation : ~HasOperation(b, o)
    BY <1>5, NothingPending
  <2>2. AuthFirst(b)
    BY <1>4, <1>5, NothingPending DEF AuthFirst
  <2>3. PendingOwner(b) /\ ShutIsShut(b) /\ Maintained(b)
    BY <1>5, <1>8, <2>1 DEF PendingOwner, ShutIsShut, Maintained, Operation
  <2> QED BY <1>5, <1>8, <2>2, <2>3 DEF Preserves, Good
<1> HIDE DEF d
<1> QED BY <1>1, <1>2, <1>6, <1>7, <1>8

\* force_destroy preserves the invariant from every state.
LEMMA ForceDestroyPreserves ==
    ASSUME NEW c, Good(c) PROVE Preserves(c, ForceDestroy(c))
<1> DEFINE a == [c EXCEPT !.destroyed = TRUE, !.controls = <<>>, !.pending = NonePending]
           s == SetState(a, "destroying")
           e == Event("forced", "none", "ok")
           d == PushEvent(s, e)
<1>1. ForceDestroy(c) \in {c, d}
  BY DEF ForceDestroy, NonePending
<1>2. /\ Shape(a) /\ a.shutdown = c.shutdown /\ a.channel = c.channel /\ a.auth = c.auth
      /\ a.pending = NonePending /\ a.armed = c.armed
  BY NothingPending DEF Good, Shape, Fields
<1> HIDE DEF a, e
<1>3. /\ Shape(s) /\ s.shutdown = c.shutdown /\ s.channel = c.channel /\ s.auth = c.auth
      /\ s.pending = NonePending /\ s.armed = c.armed /\ s.state = "destroying"
  BY <1>2, SetStateChanges DEF SameFlags
<1> HIDE DEF s
<1>4. /\ Shape(d) /\ d.shutdown = c.shutdown /\ d.channel = c.channel /\ d.auth = c.auth
      /\ d.pending = NonePending /\ d.armed = c.armed /\ d.state = "destroying"
  BY <1>3, PushEventKeeps DEF Keeps, SameFlags
<1> HIDE DEF d
<1>5. \A o \in Operation : ~HasOperation(d, o)
  BY <1>4, NothingPending
<1>6. AuthFirst(d)
  BY <1>4, NothingPending DEF AuthFirst, Good
<1>7. PendingOwner(d) /\ ShutIsShut(d) /\ Maintained(d)
  BY <1>4, <1>5 DEF PendingOwner, ShutIsShut, Maintained, Good, Operation
<1>8. Preserves(c, d)
  BY <1>4, <1>6, <1>7 DEF Preserves, Good
<1> QED BY <1>1, <1>8 DEF Preserves

\* start_allocation preserves the invariant.
LEMMA StartAllocationPreserves ==
    ASSUME NEW c, Good(c), ~c.destroyed, ~c.shutdown, c.state = "null"
    PROVE  Preserves(c, StartOperation(SetState(c, "allocating"), "Allocate", FALSE, 0))
<1> DEFINE s == SetState(c, "allocating")
<1>1. /\ Shape(s) /\ SameFlags(c, s) /\ s.state = "allocating" /\ s.relay = c.relay
      /\ s.channel = c.channel /\ s.pending = c.pending /\ s.armed = c.armed
  BY SetStateChanges DEF Good
<1> HIDE DEF s
<1>2. \A o : HasOperation(s, o) <=> HasOperation(c, o)
  BY <1>1 DEF HasOperation
<1>3. AuthFirst(s) /\ PendingOwner(s) /\ ShutIsShut(s) /\ Maintained(s)
  BY <1>1, <1>2
     DEF Good, SameFlags, AuthFirst, PendingOwner, ShutIsShut, Maintained
<1>4. Startable(s, "Allocate")
  BY <1>1, <1>3 DEF Startable, SameFlags
<1>5. Good(StartOperation(s, "Allocate", FALSE, 0))
  BY <1>4, StartOperationIsGood DEF Operation
<1> QED BY <1>5 DEF Preserves, s

\* start_permission and start_channel preserve the invariant.
LEMMA StartBindingPreserves ==
    ASSUME NEW c, Good(c), c.state = "ready", NEW op \in {"Permission", "Channel"}
    PROVE  Preserves(c, StartOperation(c, op, TRUE, 0))
<1>1. Startable(c, op) /\ c.auth
  BY DEF Startable, Good, Maintained
<1> QED BY <1>1, StartOperationIsGood DEF Operation, Preserves, SameFlags

-----------------------------------------------------------------------------
(* The specification.                                                      *)

\* A core is created good.
LEMMA InitIsGood == Init => Good(core)
<1> SUFFICES ASSUME Init PROVE Good(core)
  OBVIOUS
<1>1. /\ core = [f \in Fields |-> core[f]]
      /\ core.pending = NonePending /\ core.armed = {} /\ core.state = "null"
      /\ core.auth = FALSE /\ core.relay = FALSE /\ core.channel = FALSE
      /\ core.shutdown = FALSE /\ core.destroyed = FALSE
  BY DEF Init, Fields, NonePending
<1>2. Shape(core)
  BY <1>1, NothingPending DEF Shape
<1>3. \A o \in Operation : ~HasOperation(core, o)
  BY <1>1, NothingPending
<1>4. AuthFirst(core)
  BY <1>1, NothingPending DEF AuthFirst
<1>5. PendingOwner(core) /\ ShutIsShut(core) /\ Maintained(core)
  BY <1>1, <1>3 DEF PendingOwner, ShutIsShut, Maintained, Operation
<1> QED BY <1>2, <1>4, <1>5 DEF Good

\* Requests and answers are about operations.
Messages == wire \subseteq Request /\ replies \subseteq Reply

\* A step of the core leaves requests and answers well formed.
LEMMA CoreStepMessages ==
    ASSUME NEW c, NEW ended, Messages, CoreStep(c, ended) PROVE Messages'
  BY DEF Messages, CoreStep, Forget, Request, Reply

\* Sending the queued controls leaves requests and answers well formed.
LEMMA SendFirstMessages ==
    ASSUME Good(core), NEW n, Messages, SendFirst(n) PROVE Messages'
<1>1. \A o \in Operation : core.pending[o].authed \in BOOLEAN
  BY DEF Good, Shape, Pendings
<1>2. Operation \ Maintenance = {"Allocate", "Deallocate"}
  BY DEF Operation, Maintenance
<1> DEFINE sent == {core.controls[i] : i \in 1..n} \cap Operation
<1>3. wire' = wire \cup {[op |-> o, authed |-> core.pending[o].authed, live |-> TRUE] :
                          o \in sent \ Maintenance}
      /\ replies' = replies \cup {[op |-> o, accepted |-> FALSE] : o \in sent \cap Maintenance}
  BY DEF SendFirst
<1>4. sent \subseteq Operation
  OBVIOUS
<1> HIDE DEF sent
<1>5. wire' \subseteq Request
  <2> SUFFICES ASSUME NEW m \in wire', m \notin wire PROVE m \in Request
    BY DEF Messages
  <2>1. PICK o \in sent \ Maintenance :
             m = [op |-> o, authed |-> core.pending[o].authed, live |-> TRUE]
    BY <1>3
  <2>2. o \in {"Allocate", "Deallocate"} /\ core.pending[o].authed \in BOOLEAN
    BY <1>1, <1>2, <1>4
  <2> QED BY <2>1, <2>2 DEF Request
<1>6. replies' \subseteq Reply
  <2> SUFFICES ASSUME NEW m \in replies', m \notin replies PROVE m \in Reply
    BY DEF Messages
  <2>1. PICK o \in sent \cap Maintenance : m = [op |-> o, accepted |-> FALSE]
    BY <1>3
  <2> QED BY <1>4, <2>1 DEF Reply
<1> QED BY <1>5, <1>6 DEF Messages

\* No step puts anything else on the network.
LEMMA NextMessages == Good(core) /\ Messages /\ [Next]_vars => Messages'
<1> SUFFICES ASSUME Good(core), Messages, [Next]_vars PROVE Messages'
  OBVIOUS
<1>0. ASSUME wire' = wire, replies' = replies PROVE Messages'
  BY <1>0 DEF Messages
<1>1. CASE \/ ObserveWake \/ CleanUp \/ DriverEnds \/ AbortDriver \/ Pump \/ Receive
           \/ OwnerShutdown
  <2>1. \E c, ended : CoreStep(c, ended)
    BY <1>1 DEF ObserveWake, CleanUp, DriverEnds, AbortDriver, Pump, Receive, OwnerShutdown
  <2> QED BY <2>1, CoreStepMessages
<1>2. CASE SendControls \/ SendFails
  <2>1. \E n : SendFirst(n)
    BY <1>2 DEF SendControls, SendFails
  <2> QED BY <2>1, SendFirstMessages
<1>3. CASE StartAllocation \/ PrepareChannel \/ StartChannel
  <2>1. \/ \E c, ended : CoreStep(c, ended)
        \/ UNCHANGED <<core, wire, replies>>
    BY <1>3 DEF StartAllocation, PrepareChannel, StartChannel, StartBinding
  <2> QED BY <1>0, <2>1, CoreStepMessages
<1>4. CASE ServerTakes
  <2>1. PICK r \in wire : /\ wire' \subseteq wire
                          /\ \E b \in BOOLEAN :
                                replies' \subseteq replies \cup {[op |-> r.op, accepted |-> b]}
    BY <1>4 DEF ServerTakes
  <2>2. r.op \in Operation
    BY DEF Messages, Request, Operation
  <2> QED BY <2>1, <2>2 DEF Messages, Reply
<1>5. CASE Lose
  BY <1>5 DEF Lose, Messages
<1>6. CASE \/ GoOn \/ SkipCleanUp \/ Wake \/ ReceiveFails \/ OwnerClosed \/ HandleEvents
           \/ Connected \/ Bound \/ SeesFailure \/ RequestClose
           \/ ConnectTimesOut \/ Cancel \/ ServerForgets \/ WakeSignal
  <2>1. wire' = wire /\ replies' = replies
    BY <1>6 DEF GoOn, SkipCleanUp, Wake, ReceiveFails, OwnerClosed, HandleEvents, Connected,
                Bound, SeesFailure, RequestClose, ConnectTimesOut, Cancel, ServerForgets,
                WakeSignal
  <2> QED BY <1>0, <2>1, Zenon
<1>7. CASE UNCHANGED vars
  BY <1>0, <1>7 DEF vars
<1> QED BY <1>1, <1>2, <1>3, <1>4, <1>5, <1>6, <1>7 DEF Next, Driver, Owner

\* Every step runs whole methods of the core, or only takes out of its queues.
LEMMA NextPreserves == Good(core) /\ Messages /\ [Next]_vars => Preserves(core, core')
<1> SUFFICES ASSUME Good(core), Messages, [Next]_vars PROVE Preserves(core, core')
  OBVIOUS
<1>0. ASSUME core' = core PROVE Preserves(core, core')
  BY <1>0 DEF Preserves
<1>1. CASE ObserveWake
  BY <1>1, ResyncAfterSuspendPreserves DEF ObserveWake, CoreStep
<1>2. CASE CleanUp
  BY <1>0, <1>2, GracefulShutdownPreserves DEF CleanUp, CoreStep
<1>3. CASE DriverEnds \/ AbortDriver
  BY <1>3, ForceDestroyPreserves DEF DriverEnds, AbortDriver, CoreStep
<1>4. CASE Pump
  <2>1. PICK ops \in {{}} \cup {{o} : o \in {x \in Operation : HasOperation(core, x)}},
             due \in SUBSET core.armed : core' = Poll(core, ops, due)
    BY <1>4 DEF Pump, CoreStep
  <2>2. ops \in SUBSET Operation /\ \A o \in ops : HasOperation(core, o)
    OBVIOUS
  <2> QED BY <2>1, <2>2, PollPreserves
<1>5. CASE SendControls \/ SendFails
  <2>1. \E x : core' = [core EXCEPT !.controls = x]
    BY <1>5 DEF SendControls, SendFails
  <2> QED BY <2>1, ControlsKeep, GoodKeeps DEF Good
<1>6. CASE HandleEvents
  <2>1. \E x : core' = [core EXCEPT !.events = x]
    BY <1>6 DEF HandleEvents
  <2> QED BY <2>1, EventsKeep, GoodKeeps DEF Good
<1>7. CASE Receive
  <2>1. PICK r \in replies, kind \in Kind, alive \in BOOLEAN :
             /\ HasOperation(core, r.op)
             /\ core' = InputStun(core, r.op, kind, alive)
    BY <1>7 DEF Receive, CoreStep
  <2>2. r.op \in Operation
    BY <2>1 DEF Messages, Reply
  <2> QED BY <2>1, <2>2, InputStunPreserves
<1>8. CASE StartAllocation
  BY <1>0, <1>8, StartAllocationPreserves DEF StartAllocation, CoreStep
<1>9. CASE PrepareChannel \/ StartChannel
  BY <1>0, <1>9, StartBindingPreserves
     DEF PrepareChannel, StartChannel, StartBinding, CoreReady, CoreStep
<1>10. CASE OwnerShutdown
  BY <1>10, GracefulShutdownPreserves DEF OwnerShutdown, CoreStep
<1>11. CASE \/ GoOn \/ SkipCleanUp \/ Wake \/ ReceiveFails \/ OwnerClosed
            \/ Connected \/ Bound \/ SeesFailure \/ RequestClose
            \/ ConnectTimesOut \/ Cancel
            \/ ServerTakes \/ ServerForgets \/ Lose \/ WakeSignal
  <2>1. core' = core
    BY <1>11 DEF GoOn, SkipCleanUp, Wake, ReceiveFails, OwnerClosed, Connected, Bound,
                 SeesFailure, RequestClose, ConnectTimesOut, Cancel, ServerTakes,
                 ServerForgets, Lose, WakeSignal
  <2> QED BY <1>0, <2>1
<1>12. CASE UNCHANGED vars
  BY <1>0, <1>12 DEF vars
<1> QED
  BY <1>1, <1>2, <1>3, <1>4, <1>5, <1>6, <1>7, <1>8, <1>9, <1>10, <1>11, <1>12
     DEF Next, Driver, Owner

IInv == Good(core) /\ Messages

\* The inductive invariant of the specification.
LEMMA Inductive == Spec => []IInv
<1>1. Init => IInv
  BY InitIsGood DEF IInv, Init, Messages
<1>2. IInv /\ [Next]_vars => IInv'
  BY NextPreserves, NextMessages DEF IInv, Preserves
<1> QED BY <1>1, <1>2, PTL DEF Spec

\* For every number of transmissions, nonces and channel failures, every
\* capacity and every number of faults: an allocation in use is watched, kept
\* alive and refreshed (poll, complete_failure, resync_after_suspend).
THEOREM ReadyIsMaintainedHolds == Spec => []ReadyIsMaintained
<1>1. IInv => ReadyIsMaintained
  BY DEF IInv, Good, Maintained, ReadyIsMaintained
<1> QED BY <1>1, Inductive, PTL

\* For the same constants: no step opens a core again after
\* graceful_shutdown, neither its channel nor the allocation.
THEOREM NeverReopensHolds == Spec => NeverReopens
<1>1. IInv /\ [Next]_vars =>
        [core.shutdown => core'.shutdown /\ ~core'.channel /\ core'.state # "ready"]_vars
  BY NextPreserves DEF IInv, Preserves, Good, ShutIsShut
<1> QED BY <1>1, Inductive, PTL DEF Spec, NeverReopens

-----------------------------------------------------------------------------
(* Induction, and the folds of the model.                                  *)

\* Induction over the natural numbers, by the pigeon-hole principle: below the
\* least counterexample k |-> k - 1 would be one-to-one into a smaller set.
LEMMA Induction ==
    ASSUME NEW S, 0 \in S, \A k \in Nat : k \in S => k + 1 \in S
    PROVE  Nat \subseteq S
<1> SUFFICES ASSUME NEW n \in Nat, n \notin S PROVE FALSE
  OBVIOUS
<1> DEFINE A == {k \in 0 .. n : k \notin S}
           f == [k \in A |-> k - 1]
<1>1. IsFiniteSet(A) /\ n \in A
  <2>1. IsFiniteSet(0 .. n)
    BY FS_Interval
  <2> QED BY <2>1, FS_Subset
<1>2. /\ IsFiniteSet(A \ {n}) /\ Cardinality(A \ {n}) = Cardinality(A) - 1
      /\ Cardinality(A) \in Nat
  BY <1>1, FS_RemoveElement, FS_CardinalityType
<1>3. f \in [A -> A \ {n}]
  <2>1. ASSUME NEW k \in A PROVE k - 1 \in A \ {n}
    <3>1. k # 0
      OBVIOUS
    <3>2. k - 1 \in Nat /\ (k - 1) + 1 = k
      BY <3>1
    <3> QED BY <3>2
  <2> QED BY <2>1
<1>4. \E x, y \in A : x # y /\ f[x] = f[y]
  <2> HIDE DEF A, f
  <2>1. Cardinality(A \ {n}) < Cardinality(A)
    BY <1>2
  <2> QED BY <1>1, <1>2, <1>3, <2>1, FS_PigeonHole
<1> QED BY <1>4

\* A set of natural numbers that is not empty has a least element.
LEMMA LeastNumber ==
    ASSUME NEW T, T \subseteq Nat, T # {}
    PROVE  \E x \in T : \A y \in T : x <= y
<1> SUFFICES ASSUME \A x \in T : \E y \in T : ~(x <= y) PROVE FALSE
  OBVIOUS
<1> DEFINE S == {k \in Nat : \A x \in T : k <= x}
<1>1. 0 \in S
  OBVIOUS
<1>2. ASSUME NEW k \in Nat, k \in S PROVE k + 1 \in S
  <2>1. k \notin T
    BY <1>2
  <2> QED BY <1>2, <2>1
<1>3. Nat \subseteq S
  <2> HIDE DEF S
  <2> QED BY <1>1, <1>2, Induction
<1>4. PICK x \in T : TRUE
  OBVIOUS
<1>5. x + 1 \in S
  BY <1>3, <1>4
<1> QED BY <1>4, <1>5

\* What remove_queued_transaction keeps of a queue is a queue of other packets, no
\* longer than it.
LEMMA WithoutIsShorter ==
    ASSUME NEW P, NEW q \in Seq(P), NEW op
    PROVE  Without(q, op) \in Seq(P \ {op}) /\ Len(Without(q, op)) <= Len(q)
<1> DEFINE Keep(g, k) == IF k = 0 THEN <<>>
                         ELSE IF q[k] = op THEN g[k - 1] ELSE Append(g[k - 1], q[k])
           Is(g, k) == g = [i \in 0 .. k |-> Keep(g, i)]
           n == Len(q)
           S == {k \in Nat : \E g : Is(g, k)}
           kept[i \in 0 .. n] == IF i = 0 THEN <<>>
                  ELSE IF q[i] = op THEN kept[i - 1] ELSE Append(kept[i - 1], q[i])
           T == {k \in Nat : k <= n => kept[k] \in Seq(P \ {op}) /\ Len(kept[k]) <= k}
<1>1. n \in Nat /\ \A i \in 1 .. n : q[i] \in P
  OBVIOUS
<1>2. 0 \in S
  <2> DEFINE g == [i \in 0 .. 0 |-> <<>>]
  <2>1. Is(g, 0)
    OBVIOUS
  <2> HIDE DEF g, Is
  <2> QED BY <2>1
<1>3. ASSUME NEW k \in Nat, k \in S PROVE k + 1 \in S
  <2>1. PICK g : Is(g, k)
    BY <1>3
  <2> DEFINE last == IF q[k + 1] = op THEN g[k] ELSE Append(g[k], q[k + 1])
             h == [i \in 0 .. k + 1 |-> IF i = k + 1 THEN last ELSE g[i]]
  <2>2. \A i \in 0 .. k : g[i] = Keep(g, i)
    BY <2>1
  <2>3. ASSUME NEW i \in 0 .. k + 1 PROVE h[i] = Keep(h, i)
    <3>1. CASE i = 0
      BY <2>2, <3>1
    <3>2. CASE i = k + 1
      BY <3>2
    <3>3. CASE i \in 1 .. k
      BY <2>2, <3>3
    <3> QED BY <3>1, <3>2, <3>3
  <2>4. Is(h, k + 1)
    <3>1. h = [i \in 0 .. k + 1 |-> h[i]]
      OBVIOUS
    <3> HIDE DEF h, Keep
    <3> QED BY <2>3, <3>1
  <2> HIDE DEF h, Is
  <2> QED BY <2>4
<1>4. n \in S
  <2> HIDE DEF S
  <2> QED BY <1>1, <1>2, <1>3, Induction
<1>5. Is(kept, n)
  BY <1>4, Zenon
<1>6. \A i \in 0 .. n : kept[i] = Keep(kept, i)
  <2> HIDE DEF kept
  <2> QED BY <1>5
<1>7. Without(q, op) = kept[n]
  BY DEF Without
<1> HIDE DEF kept
<1>8. /\ kept[0] = <<>>
      /\ \A k \in Nat : k + 1 <= n =>
            \/ kept[k + 1] = kept[k]
            \/ q[k + 1] # op /\ kept[k + 1] = Append(kept[k], q[k + 1])
  <2>1. kept[0] = <<>>
    BY <1>1, <1>6
  <2>2. ASSUME NEW k \in Nat, k + 1 <= n
        PROVE  \/ kept[k + 1] = kept[k]
               \/ q[k + 1] # op /\ kept[k + 1] = Append(kept[k], q[k + 1])
    <3>1. k + 1 \in 0 .. n /\ k + 1 # 0 /\ (k + 1) - 1 = k
      BY <1>1, <2>2
    <3> QED BY <1>6, <3>1
  <2> QED BY <2>1, <2>2
<1> HIDE DEF Keep
<1>9. /\ 0 \in T
      /\ \A k \in Nat : k \in T => k + 1 \in T
  <2>1. 0 \in T
    <3>1. <<>> \in Seq(P \ {op}) /\ Len(<<>>) <= 0
      OBVIOUS
    <3> QED BY <1>8, <3>1
  <2>2. ASSUME NEW k \in Nat, k \in T, k + 1 <= n
        PROVE  kept[k + 1] \in Seq(P \ {op}) /\ Len(kept[k + 1]) <= k + 1
    <3>1. kept[k] \in Seq(P \ {op}) /\ Len(kept[k]) \in Nat /\ Len(kept[k]) <= k /\ q[k + 1] \in P
      BY <1>1, <2>2
    <3>2. CASE kept[k + 1] = kept[k]
      BY <3>1, <3>2
    <3>3. CASE q[k + 1] # op /\ kept[k + 1] = Append(kept[k], q[k + 1])
      <4> DEFINE x == Append(kept[k], q[k + 1])
      <4>1. q[k + 1] \in P \ {op}
        BY <3>1, <3>3
      <4>2. x \in Seq(P \ {op}) /\ Len(x) = Len(kept[k]) + 1
        BY <3>1, <4>1
      <4> HIDE DEF x
      <4> QED BY <3>1, <3>3, <4>2 DEF x
    <3> QED BY <1>8, <2>2, <3>2, <3>3
  <2> QED BY <2>1, <2>2
<1>10. n \in T
  <2> HIDE DEF T
  <2> QED BY <1>1, <1>9, Induction
<1> QED BY <1>1, <1>7, <1>10

-----------------------------------------------------------------------------
(* What the core tells its owner.                                          *)

Result == {"ok", "failed", "mismatch"}

EventRec ==
    {e \in [kind : {"state", "complete", "stunError", "bound", "relay", "exhausted",
                    "controlOverflow", "eventOverflow", "forced"},
            what : CoreState \cup Operation \cup {"none"}, result : Result] :
        e.kind = "state" => e.what \in CoreState}

Packet == Operation \cup {"keepalive"}

\* A transaction with its counters within their limits.
Counted == [sent : 0 .. MaxTransmissions, retries : 0 .. MaxNonceRetries, authed : BOOLEAN]

\* The queues keep their capacities and the fields their values.
Sized(c) ==
    /\ c.state \in CoreState /\ c.armed \subseteq Timer
    /\ c.events \in Seq(EventRec) /\ Len(c.events) <= EventCapacity
    /\ c.controls \in Seq(Packet) /\ Len(c.controls) <= ControlCapacity
    /\ c.pending \in [Operation -> Counted]
    /\ c.failures \in 0 .. MaxChannelFailures

\* Which requests and channel a core of a given state may have.
Steady(c) ==
    /\ HasOperation(c, "Allocate") => c.state = "allocating"
    /\ HasOperation(c, "Channel") => c.state = "ready"
    /\ HasOperation(c, "Deallocate") => c.state = "deallocating"
    /\ c.channel => c.state = "ready" \/ c.destroyed
    /\ c.state \in {"null", "allocating", "ready"} => c.failures < MaxChannelFailures

\* pump_native fails the session on these.
Fatal(e) == e.kind \in {"controlOverflow", "eventOverflow", "forced"}

\* This event closes the gate of the sender.
Shuts(e) == e.kind = "state" /\ e.what # "ready"

Fails(es) == \E i \in DOMAIN es : Fatal(es[i])

Dies(es) == \E i \in DOMAIN es : es[i].kind = "state" /\ es[i].what = "destroying"

\* The gate, now g, is open when all events have been handled.
Gates(g, es) ==
    \/ g = TRUE /\ \A i \in DOMAIN es : ~Shuts(es[i])
    \/ \E i \in DOMAIN es : es[i].kind = "bound" /\ \A j \in DOMAIN es : j > i => ~Shuts(es[j])

\* The events waiting tell the truth about the core, or will fail the session.
Frank(c, g) ==
    \/ Fails(c.events)
    \/ /\ Gates(g, c.events) => c.channel
       /\ c.state = "destroying" => Dies(c.events)

Talks(c, d) == \A g \in BOOLEAN : Frank(c, g) => Frank(d, g)

\* What has been said stays said, and the gate is not opened.
Still(es, fs) ==
    \/ Fails(fs)
    \/ /\ ~Fails(es) /\ (Dies(es) => Dies(fs))
       /\ \A g \in BOOLEAN : Gates(g, fs) => Gates(g, es)

\* The gate ends up closed.
Closed(fs) == Fails(fs) \/ \A g \in BOOLEAN : ~Gates(g, fs)

\* Leaving the queue alone is still.
LEMMA StillSame == ASSUME NEW es PROVE Still(es, es)
  BY DEF Still

\* Two steps that leave what was said are one.
LEMMA StillTwice ==
    ASSUME NEW es, NEW fs, NEW gs, Still(es, fs), Still(fs, gs) PROVE Still(es, gs)
  BY DEF Still

\* What an appended event adds to what the queue says.
LEMMA AppendSays ==
    ASSUME NEW es \in Seq(EventRec), NEW e \in EventRec
    PROVE  LET fs == Append(es, e)
           IN  /\ Fatal(e) => Fails(fs)
               /\ e.kind = "state" /\ e.what = "destroying" => Dies(fs)
               /\ Shuts(e) => Closed(fs)
               /\ e.kind # "bound" => Still(es, fs)
               /\ Fails(es) => Fails(fs)
               /\ Dies(es) => Dies(fs)
<1> DEFINE n == Len(es)
           fs == Append(es, e)
<1>1. /\ n \in Nat /\ DOMAIN es = 1 .. n /\ DOMAIN fs = 1 .. n + 1
      /\ fs[n + 1] = e /\ \A i \in 1 .. n : fs[i] = es[i]
  OBVIOUS
<1> HIDE DEF fs, n
<1>2. n + 1 \in DOMAIN fs /\ \A i \in DOMAIN es : i \in DOMAIN fs /\ fs[i] = es[i] /\ n + 1 > i
  BY <1>1
<1>3. \A i \in DOMAIN fs : i = n + 1 \/ i \in DOMAIN es
  BY <1>1
<1>4. Fatal(e) => Fails(fs)
  BY <1>1, <1>2 DEF Fails
<1>5. /\ e.kind = "state" /\ e.what = "destroying" => Dies(fs)
      /\ Fails(es) => Fails(fs)
      /\ Dies(es) => Dies(fs)
  BY <1>1, <1>2 DEF Dies, Fails
<1>6. ASSUME Shuts(e), NEW g \in BOOLEAN PROVE ~Gates(g, fs)
  <2>1. \E i \in DOMAIN fs : Shuts(fs[i])
    BY <1>1, <1>2, <1>6
  <2>2. \A i \in DOMAIN fs : fs[i].kind = "bound" => \E j \in DOMAIN fs : j > i /\ Shuts(fs[j])
    <3>1. fs[n + 1].kind # "bound"
      BY <1>1, <1>6 DEF Shuts
    <3> QED BY <1>1, <1>2, <1>3, <1>6, <3>1
  <2> QED BY <2>1, <2>2 DEF Gates
<1>7. ASSUME e.kind # "bound", NEW g \in BOOLEAN, Gates(g, fs) PROVE Gates(g, es)
  <2>1. CASE g = TRUE /\ \A i \in DOMAIN fs : ~Shuts(fs[i])
    BY <1>2, <2>1 DEF Gates
  <2>2. CASE \E i \in DOMAIN fs :
                fs[i].kind = "bound" /\ \A j \in DOMAIN fs : j > i => ~Shuts(fs[j])
    <3>1. PICK i \in DOMAIN fs :
                fs[i].kind = "bound" /\ \A j \in DOMAIN fs : j > i => ~Shuts(fs[j])
      BY <2>2
    <3>2. i \in DOMAIN es /\ es[i] = fs[i]
      BY <1>1, <1>2, <1>3, <1>7, <3>1
    <3> QED BY <1>2, <3>1, <3>2 DEF Gates
  <2> QED BY <1>7, <2>1, <2>2 DEF Gates
<1>8. e.kind # "bound" => Still(es, fs)
  <2> SUFFICES ASSUME e.kind # "bound", ~Fails(fs) PROVE Still(es, fs)
    BY DEF Still
  <2> QED BY <1>5, <1>7 DEF Still
<1> QED BY <1>4, <1>5, <1>6, <1>8 DEF fs, Closed

\* push_event keeps the capacity. Whatever it drops, the queue then ends the
\* session; otherwise it says what it said, and e.
LEMMA PushEventSays ==
    ASSUME NEW c, Shape(c), Sized(c), NEW e \in EventRec
    PROVE  LET d == PushEvent(c, e)
           IN  /\ Sized(d) /\ d.failures = c.failures
               /\ Fatal(e) => Fails(d.events)
               /\ e.kind = "state" /\ e.what = "destroying" => Fails(d.events) \/ Dies(d.events)
               /\ Shuts(e) => Closed(d.events)
               /\ e.kind # "bound" => Still(c.events, d.events)
               /\ Fails(c.events) => Fails(d.events)
               /\ Dies(c.events) => Fails(d.events) \/ Dies(d.events)
<1> DEFINE o == Event("eventOverflow", "none", "failed")
           q == Append(Tail(c.events), o)
           r == Append(c.events, e)
           x == IF Len(c.events) = EventCapacity THEN q ELSE r
           d == [c EXCEPT !.events = x]
<1>1. PushEvent(c, e) = d
  BY DEF PushEvent, Shape, Fields
<1>2. o \in EventRec /\ Fatal(o)
  BY DEF Event, EventRec, Fatal, Result
<1>3. c.events \in Seq(EventRec) /\ Len(c.events) <= EventCapacity
      /\ EventCapacity \in Nat \ {0}
  BY TurnAssumption DEF Sized
<1> HIDE DEF o
<1>4. CASE Len(c.events) = EventCapacity
  <2>1. Tail(c.events) \in Seq(EventRec) /\ Len(Tail(c.events)) = EventCapacity - 1
    BY <1>3, <1>4
  <2>2. q \in Seq(EventRec) /\ Len(q) = EventCapacity
    BY <1>2, <1>3, <2>1
  <2>3. Fails(q)
    BY <1>2, <2>1, AppendSays
  <2>4. x = q
    BY <1>4
  <2> HIDE DEF q, x, r
  <2>5. /\ Shape(d) /\ d.events = q /\ d.controls = c.controls /\ d.failures = c.failures
        /\ d.state = c.state /\ d.armed = c.armed /\ d.pending = c.pending
    BY <2>4 DEF Shape, Fields
  <2> HIDE DEF d
  <2>6. Sized(d)
    BY <1>3, <2>2, <2>5 DEF Sized
  <2> QED BY <1>1, <2>3, <2>5, <2>6 DEF Still, Closed
<1>5. CASE Len(c.events) # EventCapacity
  <2>1. r \in Seq(EventRec) /\ Len(r) <= EventCapacity
    BY <1>3, <1>5
  <2>2. x = r
    BY <1>5
  <2>3. /\ Fatal(e) => Fails(r)
        /\ e.kind = "state" /\ e.what = "destroying" => Dies(r)
        /\ Shuts(e) => Closed(r)
        /\ e.kind # "bound" => Still(c.events, r)
        /\ Fails(c.events) => Fails(r)
        /\ Dies(c.events) => Dies(r)
    BY <1>3, AppendSays
  <2> HIDE DEF q, x, r
  <2>4. /\ Shape(d) /\ d.events = r /\ d.controls = c.controls /\ d.failures = c.failures
        /\ d.state = c.state /\ d.armed = c.armed /\ d.pending = c.pending
    BY <2>2 DEF Shape, Fields
  <2> HIDE DEF d
  <2>5. Sized(d)
    BY <2>1, <2>4 DEF Sized
  <2> QED BY <1>1, <2>3, <2>4, <2>5
<1> QED BY <1>4, <1>5

\* Nothing said is lost and the queues keep their capacities.
Discreet(c, d) == Sized(d) /\ d.failures = c.failures /\ Still(c.events, d.events)

\* Two discreet steps are one.
LEMMA DiscreetTwice ==
    ASSUME NEW c, NEW d, NEW e, Discreet(c, d), Discreet(d, e) PROVE Discreet(c, e)
  BY StillTwice DEF Discreet

\* Another control queue within the capacity says nothing.
LEMMA ControlsDiscreet ==
    ASSUME NEW c, Shape(c), Sized(c), NEW q \in Seq(Packet), Len(q) <= ControlCapacity
    PROVE  Discreet(c, [c EXCEPT !.controls = q])
<1> DEFINE d == [c EXCEPT !.controls = q]
<1>1. /\ d.controls = q /\ d.events = c.events /\ d.failures = c.failures
      /\ d.state = c.state /\ d.armed = c.armed /\ d.pending = c.pending
  BY DEF Shape, Fields
<1> HIDE DEF d
<1>2. Sized(d)
  BY <1>1 DEF Sized
<1> QED BY <1>1, <1>2, StillSame DEF Discreet, d

\* queue_packet drops the oldest packet of a full queue, and says so.
LEMMA QueuePacketDiscreet ==
    ASSUME NEW c, Shape(c), Sized(c), NEW p \in Packet
    PROVE  Discreet(c, QueuePacket(c, p))
<1> DEFINE e == Event("controlOverflow", "none", "failed")
           q == Tail(c.controls)
           a == [c EXCEPT !.controls = q]
           b == PushEvent(a, e)
           room == IF Len(c.controls) = ControlCapacity THEN b ELSE c
           z == Append(room.controls, p)
<1>1. /\ c.controls \in Seq(Packet) /\ Len(c.controls) <= ControlCapacity
      /\ ControlCapacity \in Nat \ {0}
  BY TurnAssumption DEF Sized
<1>2. QueuePacket(c, p) = [room EXCEPT !.controls = z]
  BY DEF QueuePacket
<1>3. /\ Shape(room) /\ Discreet(c, room)
      /\ room.controls \in Seq(Packet) /\ Len(room.controls) < ControlCapacity
  <2>1. CASE Len(c.controls) = ControlCapacity
    <3>1. q \in Seq(Packet) /\ Len(q) < ControlCapacity /\ Len(q) <= ControlCapacity
      BY <1>1, <2>1
    <3> HIDE DEF q
    <3>2. Shape(a) /\ Discreet(c, a) /\ a.controls = q
      <4>1. Shape(a)
        BY ControlsKeep DEF Keeps
      <4>2. a.controls = q
        BY DEF Shape, Fields
      <4> QED BY <3>1, <4>1, <4>2, ControlsDiscreet
    <3> HIDE DEF a
    <3>3. e \in EventRec /\ e.kind # "bound"
      BY DEF Event, EventRec, Result
    <3>4. Shape(b) /\ Discreet(a, b)
      <4> HIDE DEF e
      <4> QED BY <3>2, <3>3, PushEventKeeps, PushEventSays DEF Keeps, Discreet
    <3>5. b.controls = a.controls
      BY <3>2 DEF PushEvent, Shape, Fields
    <3> HIDE DEF b
    <3>6. Discreet(c, b)
      BY <3>2, <3>4, DiscreetTwice
    <3> QED BY <2>1, <3>1, <3>2, <3>4, <3>5, <3>6
  <2>2. CASE Len(c.controls) # ControlCapacity
    BY <1>1, <2>2, StillSame DEF Discreet
  <2> QED BY <2>1, <2>2
<1> HIDE DEF room
<1>4. z \in Seq(Packet) /\ Len(z) <= ControlCapacity
  BY <1>1, <1>3
<1> HIDE DEF z
<1>5. Discreet(room, [room EXCEPT !.controls = z])
  BY <1>3, <1>4, ControlsDiscreet DEF Discreet
<1> QED BY <1>2, <1>3, <1>5, DiscreetTwice

\* set_state tells the new state, unless it was that already.
LEMMA SetStateTells ==
    ASSUME NEW c, Shape(c), Sized(c), NEW s \in CoreState
    PROVE  LET d == SetState(c, s)
           IN  /\ Discreet(c, d)
               /\ c.state # s /\ s # "ready" => Closed(d.events)
               /\ c.state # s /\ s = "destroying" => Fails(d.events) \/ Dies(d.events)
<1> DEFINE a == [c EXCEPT !.state = s]
           e == Event("state", s, "ok")
<1>1. CASE c.state = s
  BY <1>1, StillSame DEF SetState, Discreet
<1>2. CASE c.state # s
  <2>1. /\ Shape(a) /\ a.state = s /\ a.events = c.events /\ a.controls = c.controls
        /\ a.failures = c.failures /\ a.armed = c.armed /\ a.pending = c.pending
    BY DEF Shape, Fields
  <2>2. SetState(c, s) = PushEvent(a, e)
    BY <1>2 DEF SetState
  <2>3. e \in EventRec /\ e.kind = "state" /\ e.what = s
    BY DEF Event, EventRec, Result
  <2> HIDE DEF a, e
  <2>4. Sized(a)
    BY <2>1 DEF Sized
  <2>5. s # "ready" => Shuts(e)
    BY <2>3 DEF Shuts
  <2>6. e.kind # "bound"
    BY <2>3
  <2> QED BY <2>1, <2>2, <2>3, <2>4, <2>5, <2>6, PushEventSays DEF Discreet
<1> QED BY <1>1, <1>2

\* complete tells of the end of a request.
LEMMA CompleteDiscreet ==
    ASSUME NEW c, Shape(c), Sized(c), NEW op \in Operation, NEW r \in Result
    PROVE  Discreet(c, Complete(c, op, r))
<1> DEFINE e == Event("complete", Method(op), r)
<1>1. e \in EventRec /\ e.kind # "bound"
  BY DEF Event, EventRec, Method, Operation
<1> HIDE DEF e
<1>2. Complete(c, op, r) = PushEvent(c, e)
  BY DEF Complete, e
<1> QED BY <1>1, <1>2, PushEventSays DEF Discreet

\* Taking a transaction out says nothing.
LEMMA RemoveTransactionDiscreet ==
    ASSUME NEW c, Shape(c), Sized(c), NEW op \in Operation
    PROVE  Discreet(c, RemoveTransaction(c, op))
<1> DEFINE q == Without(c.controls, op)
           x == [c.pending EXCEPT ![op] = Idle]
           d == [c EXCEPT !.pending = x, !.controls = q]
<1>1. RemoveTransaction(c, op) = d
  BY DEF RemoveTransaction, Shape, Fields
<1>2. q \in Seq(Packet) /\ Len(q) <= ControlCapacity
  <2>1. /\ c.controls \in Seq(Packet) /\ Len(c.controls) <= ControlCapacity
        /\ ControlCapacity \in Nat
    BY TurnAssumption DEF Sized
  <2>2. q \in Seq(Packet) /\ Len(q) <= Len(c.controls)
    <3>1. q \in Seq(Packet \ {op}) /\ Len(q) <= Len(c.controls)
      BY <2>1, WithoutIsShorter
    <3> HIDE DEF q
    <3> QED BY <3>1
  <2>3. Len(q) \in Nat /\ Len(c.controls) \in Nat
    BY <2>1, <2>2
  <2> HIDE DEF q
  <2> QED BY <2>1, <2>2, <2>3
<1>3. x \in [Operation -> Counted]
  BY TurnAssumption DEF Sized, Idle, Counted
<1> HIDE DEF q, x
<1>4. /\ d.controls = q /\ d.pending = x /\ d.events = c.events
      /\ d.failures = c.failures /\ d.state = c.state /\ d.armed = c.armed
  BY DEF Shape, Fields
<1> HIDE DEF d
<1>5. Sized(d)
  BY <1>2, <1>3, <1>4 DEF Sized
<1> QED BY <1>1, <1>4, <1>5, StillSame DEF Discreet

\* start_operation queues the request it adds.
LEMMA StartOperationDiscreet ==
    ASSUME NEW c, Shape(c), Sized(c), NEW op \in Operation, NEW authed \in BOOLEAN,
           NEW n \in 0 .. MaxNonceRetries
    PROVE  Discreet(c, StartOperation(c, op, authed, n))
<1> DEFINE q == QueuePacket(c, op)
           t == [sent |-> 1, retries |-> n, authed |-> authed]
           x == [q.pending EXCEPT ![op] = t]
           d == [q EXCEPT !.pending = x]
<1>1. Shape(q) /\ Discreet(c, q) /\ Discreet(c, c)
  BY QueuePacketKeeps, QueuePacketDiscreet, StillSame DEF Keeps, Discreet, Packet
<1>2. StartOperation(c, op, authed, n) \in {c, q, d}
  <2>1. q = [f \in Fields |-> q[f]]
    BY <1>1 DEF Shape
  <2> QED BY <1>1 DEF StartOperation, Shape, Fields
<1>3. Discreet(q, d)
  <2> HIDE DEF q
  <2>1. x \in [Operation -> Counted]
    <3>1. t \in Counted
      BY TurnAssumption DEF Counted
    <3> HIDE DEF t
    <3> QED BY <1>1, <3>1 DEF Discreet, Sized
  <2> HIDE DEF x
  <2>2. /\ d.controls = q.controls /\ d.pending = x /\ d.events = q.events
        /\ d.failures = q.failures /\ d.state = q.state /\ d.armed = q.armed
    BY <1>1 DEF Shape, Fields
  <2> HIDE DEF d
  <2>3. Sized(d)
    BY <1>1, <2>1, <2>2 DEF Sized, Discreet
  <2> QED BY <2>2, <2>3, StillSame DEF Discreet
<1> HIDE DEF q, d
<1> QED BY <1>1, <1>2, <1>3, DiscreetTwice

\* What a method does to a core: its limits are kept and its owner is told.
Follows(c, d) == Sized(d) /\ Steady(d) /\ Talks(c, d)

\* A core that said nothing wrong stays honest if it announces the end of its
\* channel and of itself.
LEMMA TalksBy ==
    ASSUME NEW c, NEW d, Still(c.events, d.events),
           c.channel => d.channel \/ Closed(d.events),
           d.state = "destroying" => c.state = "destroying" \/ Fails(d.events) \/ Dies(d.events)
    PROVE  Talks(c, d)
  BY DEF Talks, Frank, Still, Closed

\* Talking is transitive.
LEMMA TalksTwice ==
    ASSUME NEW c, NEW d, NEW e, Talks(c, d), Talks(d, e) PROVE Talks(c, e)
  BY DEF Talks

\* A discreet step that keeps state, channel and requests.
LEMMA FollowsKeeps ==
    ASSUME NEW c, NEW d, Shape(c), Steady(c), Keeps(c, d), Discreet(c, d) PROVE Follows(c, d)
<1>1. \A o : HasOperation(d, o) <=> HasOperation(c, o)
  BY DEF HasOperation, Keeps
<1>2. Steady(d)
  BY <1>1 DEF Steady, Keeps, SameFlags, Discreet
<1>3. Talks(c, d)
  BY TalksBy DEF Keeps, Discreet
<1> QED BY <1>2, <1>3 DEF Follows, Discreet

\* destroy_allocation tells of the end.
LEMMA DestroyAllocationFollows ==
    ASSUME NEW c, Shape(c), Sized(c), c.channel => c.state = "ready",
           NEW op \in Operation, NEW r \in Result
    PROVE  Follows(c, DestroyAllocation(c, op, r))
<1> DEFINE m == Complete(c, op, r)
           a == [m EXCEPT !.controls = <<>>, !.pending = NonePending,
                          !.channel = FALSE, !.relay = FALSE, !.armed = {}]
           s == IF op = "Deallocate" THEN "deallocated" ELSE "destroying"
           d == SetState(a, s)
<1>1. d = DestroyAllocation(c, op, r)
  BY DEF DestroyAllocation, NonePending
<1>2. Keeps(c, m) /\ Discreet(c, m)
  BY CompleteKeeps, CompleteDiscreet
<1> HIDE DEF m
<1>3. /\ Shape(a) /\ a.channel = FALSE /\ a.pending = NonePending /\ a.state = c.state
      /\ a.events = m.events /\ a.failures = m.failures /\ a.armed = {} /\ a.controls = <<>>
  BY <1>2, NothingPending DEF Keeps, Shape, SameFlags, Fields
<1> HIDE DEF a
<1>4. Sized(a)
  <2>1. NonePending \in [Operation -> Counted]
    BY TurnAssumption DEF NonePending, Idle, Counted
  <2>2. <<>> \in Seq(Packet) /\ Len(<<>>) <= ControlCapacity
    BY TurnAssumption
  <2> QED BY <1>2, <1>3, <2>1, <2>2 DEF Sized, Discreet
<1>5. s \in CoreState /\ s \in {"destroying", "deallocated"}
  BY DEF CoreState
<1> HIDE DEF s
<1>6. /\ Shape(d) /\ d.state = s /\ d.channel = FALSE /\ d.pending = NonePending
      /\ Discreet(a, d)
      /\ c.state # s => Closed(d.events)
      /\ c.state # s /\ s = "destroying" => Fails(d.events) \/ Dies(d.events)
  BY <1>3, <1>4, <1>5, SetStateChanges, SetStateTells
<1> HIDE DEF d
<1>7. Still(c.events, d.events)
  BY <1>2, <1>3, <1>6, StillTwice DEF Discreet
<1>8. \A o \in Operation : ~HasOperation(d, o)
  BY <1>6, NothingPending
<1>9. Steady(d)
  BY <1>5, <1>6, <1>8 DEF Steady, Operation
<1>10. Talks(c, d)
  BY <1>5, <1>6, <1>7, TalksBy
<1> QED BY <1>1, <1>6, <1>9, <1>10 DEF Follows, Discreet

\* destroy_after_channel_rebind_exhausted tells of the end.
LEMMA ExhaustedFollows ==
    ASSUME NEW c, Shape(c), Sized(c), c.state = "ready"
    PROVE  Follows(c, DestroyAfterChannelRebindExhausted(c))
<1> DEFINE x == c.armed \cap {"refresh", "expires"}
           a == [c EXCEPT !.controls = <<>>, !.pending = NonePending,
                          !.channel = FALSE, !.armed = x]
           e == Event("exhausted", "none", "failed")
           b == PushEvent(a, e)
           d == SetState(b, "destroying")
<1>1. d = DestroyAfterChannelRebindExhausted(c)
  BY DEF DestroyAfterChannelRebindExhausted, NonePending, Shape, Fields
<1>2. x \subseteq Timer
  BY DEF Sized
<1> HIDE DEF x
<1>3. /\ Shape(a) /\ a.channel = FALSE /\ a.pending = NonePending /\ a.state = "ready"
      /\ a.events = c.events /\ a.failures = c.failures /\ a.armed = x /\ a.controls = <<>>
  BY NothingPending DEF Shape, Fields
<1> HIDE DEF a
<1>4. Sized(a)
  <2>1. NonePending \in [Operation -> Counted]
    BY TurnAssumption DEF NonePending, Idle, Counted
  <2>2. <<>> \in Seq(Packet) /\ Len(<<>>) <= ControlCapacity
    BY TurnAssumption
  <2> QED BY <1>2, <1>3, <2>1, <2>2 DEF Sized
<1>5. e \in EventRec /\ e.kind # "bound"
  BY DEF Event, EventRec, Result
<1> HIDE DEF e
<1>6. Keeps(a, b) /\ Discreet(a, b)
  BY <1>3, <1>4, <1>5, PushEventKeeps, PushEventSays DEF Discreet
<1> HIDE DEF b
<1>7. /\ Shape(d) /\ d.state = "destroying" /\ d.channel = FALSE /\ d.pending = NonePending
      /\ Discreet(b, d) /\ Closed(d.events) /\ (Fails(d.events) \/ Dies(d.events))
  <2>1. "destroying" \in CoreState /\ b.state = "ready" /\ Shape(b) /\ Sized(b)
    BY <1>3, <1>6 DEF CoreState, Keeps, Discreet
  <2> QED BY <1>3, <1>6, <2>1, SetStateChanges, SetStateTells DEF Keeps
<1> HIDE DEF d
<1>8. Still(c.events, d.events)
  BY <1>3, <1>6, <1>7, StillTwice DEF Discreet
<1>9. \A o \in Operation : ~HasOperation(d, o)
  BY <1>7, NothingPending
<1>10. Steady(d)
  BY <1>7, <1>9 DEF Steady, Operation
<1>11. Talks(c, d)
  BY <1>7, <1>8, TalksBy
<1> QED BY <1>1, <1>7, <1>10, <1>11 DEF Follows, Discreet

\* A failed request counts, ends the allocation or is scheduled again.
LEMMA CompleteFailureFollows ==
    ASSUME NEW c, NEW op \in Operation, Removed(c, op), Sized(c), Steady(c),
           NEW r \in Result, NEW alive
    PROVE  Follows(c, CompleteFailure(c, op, r, alive))
<1> DEFINE retry == op \in Maintenance /\ c.state = "ready" /\ "expires" \in c.armed /\ alive
           n == IF op = "Channel" THEN c.failures + 1 ELSE c.failures
           m == Complete(c, op, r)
           k == [m EXCEPT !.failures = n]
           x == k.armed \cup {RetryTimer(op)}
           d == [k EXCEPT !.armed = x]
           gone == DestroyAfterChannelRebindExhausted(k)
<1>0. Shape(c) /\ (c.channel => c.state = "ready")
  BY DEF Removed, Startable, Steady
<1>1. CASE ~retry
  <2>1. CompleteFailure(c, op, r, alive) = DestroyAllocation(c, op, r)
    BY <1>1 DEF CompleteFailure
  <2> QED BY <1>0, <2>1, DestroyAllocationFollows
<1>2. CASE retry
  <2>1. CompleteFailure(c, op, r, alive) =
            IF op = "Channel" /\ n >= MaxChannelFailures THEN gone ELSE d
    BY <1>2 DEF CompleteFailure
  <2>2. Keeps(c, m) /\ Discreet(c, m)
    BY <1>0, CompleteKeeps, CompleteDiscreet
  <2>3. n \in 0 .. MaxChannelFailures
    BY <1>2, TurnAssumption DEF Sized, Steady
  <2> HIDE DEF m, n
  <2>4. /\ Shape(k) /\ k.failures = n /\ k.state = c.state /\ k.channel = c.channel
        /\ k.pending = c.pending /\ k.armed = c.armed /\ k.events = m.events
        /\ k.controls = m.controls
    BY <2>2 DEF Keeps, Shape, Fields
  <2> HIDE DEF k
  <2>5. Sized(k) /\ Still(c.events, k.events)
    BY <2>2, <2>3, <2>4 DEF Sized, Discreet, Keeps
  <2>6. Follows(c, gone)
    <3>1. Talks(c, k)
      BY <1>2, <2>4, <2>5, TalksBy
    <3>2. Follows(k, gone)
      BY <1>2, <2>4, <2>5, ExhaustedFollows
    <3> HIDE DEF gone
    <3> QED BY <3>1, <3>2, TalksTwice DEF Follows
  <2>7. ASSUME ~(op = "Channel" /\ n >= MaxChannelFailures) PROVE Follows(c, d)
    <3>1. x \subseteq Timer
      BY <2>5 DEF RetryTimer, Timer, Sized
    <3> HIDE DEF x
    <3>2. /\ d.failures = n /\ d.state = c.state /\ d.channel = c.channel
          /\ d.pending = c.pending /\ d.armed = x /\ d.events = k.events
          /\ d.controls = k.controls
      BY <2>4 DEF Shape, Fields
    <3> HIDE DEF d
    <3>3. Sized(d)
      BY <2>4, <2>5, <3>1, <3>2 DEF Sized
    <3>4. \A o : HasOperation(d, o) <=> HasOperation(c, o)
      BY <3>2 DEF HasOperation
    <3>5. n < MaxChannelFailures
      BY <1>2, <2>3, <2>7, TurnAssumption DEF n, Steady, Sized
    <3>6. Steady(d)
      BY <1>0, <1>2, <3>2, <3>4, <3>5 DEF Steady
    <3>7. Talks(c, d)
      BY <1>2, <2>5, <3>2, TalksBy
    <3> QED BY <3>3, <3>6, <3>7 DEF Follows
  <2> HIDE DEF d, gone
  <2> QED BY <2>1, <2>6, <2>7
<1> QED BY <1>1, <1>2

\* Following is transitive.
LEMMA FollowsTwice ==
    ASSUME NEW c, NEW d, NEW e, Follows(c, d), Follows(d, e) PROVE Follows(c, e)
  BY TalksTwice DEF Follows

\* start_operation follows in a core in which the request belongs.
LEMMA StartOperationFollows ==
    ASSUME NEW c, Shape(c), Sized(c), Steady(c), NEW op \in Operation,
           op = "Allocate" => c.state = "allocating", op = "Channel" => c.state = "ready",
           op = "Deallocate" => c.state = "deallocating",
           NEW authed \in BOOLEAN, NEW n \in 0 .. MaxNonceRetries
    PROVE  Follows(c, StartOperation(c, op, authed, n))
<1> DEFINE d == StartOperation(c, op, authed, n)
           t == [sent |-> 1, retries |-> n, authed |-> authed]
<1>0. n \in Nat
  BY TurnAssumption
<1>1. /\ Shape(d) /\ SameFlags(c, d) /\ d.state = c.state /\ d.channel = c.channel
      /\ d.pending = IF HasOperation(c, op) THEN c.pending ELSE [c.pending EXCEPT ![op] = t]
  BY <1>0, StartOperationChanges
<1>2. Discreet(c, d)
  BY StartOperationDiscreet
<1> HIDE DEF d
<1>3. \A o \in Operation : o # op => d.pending[o] = c.pending[o]
  <2> HIDE DEF t
  <2> QED BY <1>1 DEF Shape, Pendings
<1>4. \A o \in Operation : o # op => (HasOperation(d, o) <=> HasOperation(c, o))
  BY <1>3 DEF HasOperation
<1>5. Steady(d)
  BY <1>1, <1>2, <1>4 DEF Steady, SameFlags, Discreet, Operation
<1>6. Talks(c, d)
  BY <1>1, <1>2, TalksBy DEF Discreet
<1> QED BY <1>2, <1>5, <1>6 DEF Follows, Discreet, d

\* The success of Allocate: opening says nothing about the channel.
LEMMA CompleteAllocateFollows ==
    ASSUME NEW c, Removed(c, "Allocate"), Sized(c), Steady(c), c.auth, c.state = "allocating"
    PROVE  Follows(c, CompleteAllocate(c))
<1> DEFINE x == c.armed \cup {"refresh", "expires", "maintenance", "keepalive"}
           a == [c EXCEPT !.relay = TRUE, !.armed = x]
           e == Event("relay", "none", "ok")
           k == PushEvent(a, e)
           s == SetState(k, "deallocating")
           y == SetState(k, "ready")
<1>1. CompleteAllocate(c) = IF c.shutdown THEN StartOperation(s, "Deallocate", TRUE, 0)
                            ELSE Complete(y, "Allocate", "ok")
  BY DEF CompleteAllocate, Removed, Startable, Shape, Fields
<1>2. Shape(c) /\ ~c.channel /\ c.failures < MaxChannelFailures
      /\ ~HasOperation(c, "Allocate") /\ ~HasOperation(c, "Channel")
      /\ ~HasOperation(c, "Deallocate")
  BY DEF Removed, Startable, Steady
<1>3. x \subseteq Timer
  BY DEF Sized, Timer
<1> HIDE DEF x
<1>4. /\ Shape(a) /\ a.channel = c.channel /\ a.pending = c.pending /\ a.state = "allocating"
      /\ a.events = c.events /\ a.controls = c.controls /\ a.failures = c.failures /\ a.armed = x
  BY <1>2 DEF Shape, Fields
<1>5. e \in EventRec /\ e.kind # "bound"
  BY DEF Event, EventRec, Result
<1> HIDE DEF a, e
<1>6. Sized(a)
  BY <1>3, <1>4 DEF Sized
<1>7. Keeps(a, k) /\ Discreet(a, k)
  BY <1>4, <1>5, <1>6, PushEventKeeps, PushEventSays DEF Discreet
<1> HIDE DEF k
<1>8. /\ Shape(k) /\ Sized(k) /\ k.channel = c.channel /\ k.pending = c.pending
      /\ k.state = "allocating" /\ k.failures = c.failures /\ Still(c.events, k.events)
  BY <1>4, <1>7 DEF Keeps, Discreet
<1>9. ASSUME NEW d, Shape(d), Discreet(k, d), d.pending = c.pending, d.channel = c.channel,
             d.state \in {"deallocating", "ready"}
      PROVE  Follows(c, d)
  <2>1. /\ ~HasOperation(d, "Allocate") /\ ~HasOperation(d, "Channel")
        /\ ~HasOperation(d, "Deallocate")
    BY <1>2, <1>9 DEF HasOperation
  <2>2. Steady(d)
    BY <1>2, <1>8, <1>9, <2>1 DEF Steady, Discreet
  <2>3. Still(c.events, d.events)
    BY <1>8, <1>9, StillTwice DEF Discreet
  <2>4. Talks(c, d)
    BY <1>2, <1>9, <2>3, TalksBy
  <2> QED BY <1>9, <2>2, <2>4 DEF Follows, Discreet
<1>10. CASE c.shutdown
  <2>1. /\ Shape(s) /\ Discreet(k, s) /\ s.channel = c.channel /\ s.pending = c.pending
        /\ s.state = "deallocating"
    BY <1>8, SetStateChanges, SetStateTells DEF CoreState
  <2> HIDE DEF s
  <2>2. Follows(c, s)
    BY <1>9, <2>1
  <2>3. 0 \in 0 .. MaxNonceRetries
    BY TurnAssumption
  <2>4. Follows(s, StartOperation(s, "Deallocate", TRUE, 0))
    BY <2>1, <2>2, <2>3, StartOperationFollows DEF Follows, Operation
  <2> QED BY <1>1, <1>10, <2>2, <2>4, FollowsTwice
<1>11. CASE ~c.shutdown
  <2>1. /\ Shape(y) /\ Discreet(k, y) /\ y.channel = c.channel /\ y.pending = c.pending
        /\ y.state = "ready"
    BY <1>8, SetStateChanges, SetStateTells DEF CoreState
  <2> HIDE DEF y
  <2>2. Follows(c, y)
    BY <1>9, <2>1
  <2>3. Keeps(y, Complete(y, "Allocate", "ok")) /\ Discreet(y, Complete(y, "Allocate", "ok"))
    BY <2>1, <2>2, CompleteKeeps, CompleteDiscreet DEF Follows, Operation, Result
  <2>4. Follows(y, Complete(y, "Allocate", "ok"))
    BY <2>1, <2>2, <2>3, FollowsKeeps DEF Follows
  <2> QED BY <1>1, <1>11, <2>2, <2>4, FollowsTwice
<1> QED BY <1>10, <1>11

\* The success of the other requests; only that of ChannelBind opens the gate,
\* of a core that then has the channel.
LEMMA CompleteSuccessFollows ==
    ASSUME NEW c, NEW op \in Operation, Removed(c, op), Sized(c), Steady(c), c.auth,
           op = "Allocate" => c.state = "allocating", op = "Channel" => c.state = "ready",
           op = "Deallocate" => c.state = "deallocating"
    PROVE  Follows(c, CompleteSuccess(c, op))
<1>0. Shape(c) /\ ~c.destroyed
  BY DEF Removed, Startable
<1>1. CASE op = "Allocate"
  BY <1>1, CompleteAllocateFollows DEF CompleteSuccess
<1>2. CASE op = "Refresh"
  <2> DEFINE x == c.armed \cup {"refresh", "expires"}
             a == [c EXCEPT !.armed = x]
             d == Complete(a, op, "ok")
  <2>1. d = CompleteSuccess(c, op)
    BY <1>0, <1>2 DEF CompleteSuccess, Shape, Fields
  <2>2. x \subseteq Timer
    BY DEF Sized, Timer
  <2> HIDE DEF x
  <2>3. /\ Shape(a) /\ SameFlags(c, a) /\ a.state = c.state /\ a.channel = c.channel
        /\ a.pending = c.pending /\ a.events = c.events /\ a.controls = c.controls
        /\ a.failures = c.failures /\ a.armed = x
    BY <1>0 DEF Shape, SameFlags, Fields
  <2> HIDE DEF a
  <2>4. \A o : HasOperation(a, o) <=> HasOperation(c, o)
    BY <2>3 DEF HasOperation
  <2>5. Sized(a) /\ Steady(a)
    BY <2>2, <2>3, <2>4 DEF Sized, Steady, SameFlags
  <2>6. Follows(c, a)
    BY <2>3, <2>5, StillSame, TalksBy DEF Follows
  <2>7. Follows(a, d)
    BY <2>3, <2>5, CompleteKeeps, CompleteDiscreet, FollowsKeeps DEF Result
  <2> HIDE DEF d
  <2> QED BY <2>1, <2>6, <2>7, FollowsTwice
<1>3. CASE op = "Deallocate"
  <2> DEFINE x == c.armed \ {"refresh", "expires"}
             a == [c EXCEPT !.relay = FALSE, !.armed = x]
             b == Complete(a, op, "ok")
             d == SetState(b, "deallocated")
  <2>1. d = CompleteSuccess(c, op)
    BY <1>0, <1>3 DEF CompleteSuccess, Shape, Fields
  <2>2. x \subseteq Timer
    BY DEF Sized
  <2> HIDE DEF x
  <2>3. c.shutdown /\ ~c.channel /\ c.state # "ready" /\ ~HasOperation(c, "Channel")
    BY <1>3 DEF Removed, Startable, ShutIsShut, PendingOwner
  <2>4. /\ Shape(a) /\ a.channel = FALSE /\ a.pending = c.pending /\ a.state = c.state
        /\ a.events = c.events /\ a.controls = c.controls
        /\ a.failures = c.failures /\ a.armed = x
    BY <1>0, <2>3 DEF Shape, Fields
  <2> HIDE DEF a
  <2>5. Sized(a)
    BY <2>2, <2>4 DEF Sized
  <2>6. Keeps(a, b) /\ Discreet(a, b)
    BY <2>4, <2>5, CompleteKeeps, CompleteDiscreet DEF Result
  <2> HIDE DEF b
  <2>7. /\ Shape(d) /\ Discreet(b, d) /\ d.state = "deallocated" /\ d.channel = FALSE
        /\ d.pending = c.pending
    <3>1. Shape(b) /\ Sized(b) /\ b.channel = FALSE /\ b.pending = c.pending
      BY <2>4, <2>6 DEF Keeps, Discreet
    <3> QED BY <3>1, SetStateChanges, SetStateTells DEF CoreState
  <2> HIDE DEF d
  <2>8. Still(c.events, d.events)
    BY <2>4, <2>6, <2>7, StillTwice DEF Discreet
  <2>9. \A o : HasOperation(d, o) <=> HasOperation(c, o)
    BY <2>7 DEF HasOperation
  <2>10. Talks(c, d)
    BY <2>3, <2>7, <2>8, TalksBy
  <2>11. /\ ~HasOperation(d, "Allocate") /\ ~HasOperation(d, "Channel")
         /\ ~HasOperation(d, "Deallocate")
    BY <1>3, <2>3, <2>9 DEF Steady, Removed
  <2> QED BY <2>1, <2>7, <2>10, <2>11 DEF Follows, Steady, Discreet
<1>4. CASE op = "Permission"
  <2>1. CompleteSuccess(c, op) = Complete(c, op, "ok")
    BY <1>4 DEF CompleteSuccess
  <2> QED BY <1>0, <2>1, CompleteKeeps, CompleteDiscreet, FollowsKeeps DEF Result
<1>5. CASE op = "Channel"
  <2> DEFINE a == [c EXCEPT !.channel = TRUE, !.failures = 0]
             e == Event("bound", "none", "ok")
             b == PushEvent(a, e)
             d == Complete(b, op, "ok")
  <2>1. d = CompleteSuccess(c, op)
    BY <1>5 DEF CompleteSuccess
  <2>2. /\ Shape(a) /\ a.state = "ready" /\ a.channel = TRUE /\ a.pending = c.pending
        /\ a.events = c.events /\ a.controls = c.controls /\ a.failures = 0
        /\ a.armed = c.armed
    BY <1>0, <1>5 DEF Shape, Fields
  <2>3. e \in EventRec
    BY DEF Event, EventRec, Result
  <2> HIDE DEF a, e
  <2>4. Sized(a)
    <3>1. 0 \in 0 .. MaxChannelFailures
      BY TurnAssumption
    <3> QED BY <1>5, <2>2, <3>1 DEF Sized
  <2>5. \A o : HasOperation(a, o) <=> HasOperation(c, o)
    BY <2>2 DEF HasOperation
  <2>6. Steady(a)
    BY <1>5, <2>2, <2>5, TurnAssumption DEF Steady
  <2>7. /\ Keeps(a, b) /\ Sized(b) /\ b.failures = a.failures
        /\ Fails(a.events) => Fails(b.events)
        /\ Dies(a.events) => Fails(b.events) \/ Dies(b.events)
    BY <2>2, <2>3, <2>4, PushEventKeeps, PushEventSays
  <2> HIDE DEF b
  <2>8. Shape(b) /\ b.channel = TRUE /\ b.state = "ready"
    BY <2>2, <2>7 DEF Keeps
  <2>9. Talks(c, b)
    BY <2>2, <2>7, <2>8 DEF Talks, Frank
  <2>10. \A o : HasOperation(b, o) <=> HasOperation(a, o)
    BY <2>7 DEF HasOperation, Keeps
  <2>11. Steady(b)
    BY <2>2, <2>6, <2>7, <2>8, <2>10 DEF Steady
  <2>12. Follows(b, d)
    BY <2>7, <2>8, <2>11, CompleteKeeps, CompleteDiscreet, FollowsKeeps DEF Result
  <2> HIDE DEF d
  <2> QED BY <2>1, <2>7, <2>9, <2>11, <2>12, FollowsTwice DEF Follows
<1> QED BY <1>1, <1>2, <1>3, <1>4, <1>5 DEF Operation

-----------------------------------------------------------------------------
(* The methods of the core keep its limits and tell the owner.             *)

Fit(c) == Good(c) /\ Sized(c) /\ Steady(c)

\* A core that is left alone.
LEMMA FollowsSame == ASSUME NEW c, Fit(c) PROVE Follows(c, c)
  BY DEF Fit, Follows, Talks

\* A pending request belongs to the state of the core.
LEMMA PendingBelongs ==
    ASSUME NEW c, Fit(c), NEW op \in Operation, HasOperation(c, op)
    PROVE  /\ op = "Allocate" => c.state = "allocating"
           /\ op = "Channel" => c.state = "ready"
           /\ op = "Deallocate" => c.state = "deallocating"
           /\ ~c.destroyed /\ (c.channel => c.state = "ready")
  BY DEF Fit, Steady, Good, PendingOwner

\* Taking out a transaction keeps the state.
LEMMA RestFollows ==
    ASSUME NEW c, Fit(c), NEW op \in Operation, HasOperation(c, op)
    PROVE  LET d == RemoveTransaction(c, op)
           IN  /\ Shape(d) /\ Follows(c, d) /\ Removed(d, op) /\ d.auth = c.auth
               /\ d.state = c.state /\ d.channel = c.channel
<1> DEFINE d == RemoveTransaction(c, op)
<1>1. /\ Shape(d) /\ SameFlags(c, d) /\ d.state = c.state /\ d.channel = c.channel
      /\ d.pending = [c.pending EXCEPT ![op] = Idle]
  BY RemoveTransactionChanges DEF Fit, Good
<1>2. Discreet(c, d)
  BY RemoveTransactionDiscreet DEF Fit, Good
<1>3. Removed(d, op)
  BY RemoveTransactionLeaves DEF Fit
<1> HIDE DEF d
<1>4. \A o \in Operation : HasOperation(d, o) => HasOperation(c, o)
  <2>1. \A o \in Operation : o # op => d.pending[o] = c.pending[o]
    BY <1>1 DEF Fit, Good, Shape, Pendings
  <2> QED BY <1>3, <2>1 DEF HasOperation, Removed
<1>5. Steady(d)
  BY <1>1, <1>2, <1>4 DEF Fit, Steady, SameFlags, Discreet, Operation
<1>6. Talks(c, d)
  BY <1>1, <1>2, TalksBy DEF Discreet
<1> QED BY <1>1, <1>2, <1>3, <1>5, <1>6 DEF Follows, Discreet, SameFlags, d

\* input_stun, for every kind of answer.
LEMMA InputStunFollows ==
    ASSUME NEW c, Fit(c), NEW op \in Operation, HasOperation(c, op), NEW kind, NEW alive
    PROVE  Follows(c, InputStun(c, op, kind, alive))
<1> DEFINE p == c.pending[op]
           rest == RemoveTransaction(c, op)
           E(r) == Event("stunError", Method(op), r)
           N(r) == PushEvent(rest, E(r))
           new == [rest EXCEPT !.auth = TRUE]
           d == InputStun(c, op, kind, alive)
<1>1. /\ Shape(rest) /\ Follows(c, rest) /\ Removed(rest, op) /\ rest.auth = c.auth
      /\ rest.state = c.state /\ rest.channel = c.channel
  BY RestFollows
<1>2. \/ d = c
      \/ \E r \in Result : d = PushEvent(c, E(r))
      \/ p.authed /\ d = CompleteSuccess(rest, op)
      \/ d = CompleteFailure(rest, op, "failed", alive)
      \/ d = DestroyAllocation(N("mismatch"), op, "mismatch")
      \/ p.retries < MaxNonceRetries /\ d = StartOperation(new, op, TRUE, p.retries + 1)
      \/ d = CompleteFailure(N("failed"), op, "failed", alive)
  <2> HIDE DEF rest, N, new
  <2> USE DEF InputStun
  <2> QED BY DEF rest, N, new, Result
<1>3. \A r \in Result : E(r) \in EventRec /\ E(r).kind # "bound"
  BY DEF Event, EventRec, Method, Operation
<1> SUFFICES Follows(c, d)
  OBVIOUS
<1> HIDE DEF rest, d, E
<1>4. \A r \in Result : /\ Shape(N(r)) /\ Follows(rest, N(r)) /\ Removed(N(r), op)
                        /\ N(r).state = c.state /\ N(r).channel = c.channel
  <2> SUFFICES ASSUME NEW r \in Result
               PROVE  /\ Shape(N(r)) /\ Follows(rest, N(r)) /\ Removed(N(r), op)
                      /\ N(r).state = c.state /\ N(r).channel = c.channel
    OBVIOUS
  <2>1. Keeps(rest, N(r)) /\ Discreet(rest, N(r))
    BY <1>1, <1>3, PushEventKeeps, PushEventSays DEF Follows, Discreet
  <2> HIDE DEF N
  <2> QED BY <1>1, <2>1, FollowsKeeps, RemovedKeeps DEF Keeps, Follows
<1> HIDE DEF N
<1>5. CASE d = c
  BY <1>5, FollowsSame
<1>6. CASE \E r \in Result : d = PushEvent(c, E(r))
  BY <1>3, <1>6, PushEventKeeps, PushEventSays, FollowsKeeps DEF Fit, Good, Discreet
<1>7. CASE p.authed /\ d = CompleteSuccess(rest, op)
  <2>1. rest.auth
    BY <1>1, <1>7 DEF Fit, Good, AuthFirst
  <2>2. Follows(rest, d)
    BY <1>1, <1>7, <2>1, PendingBelongs, CompleteSuccessFollows DEF Follows
  <2> QED BY <1>1, <2>2, FollowsTwice
<1>8. CASE d = CompleteFailure(rest, op, "failed", alive)
  <2>1. Follows(rest, d)
    BY <1>1, <1>8, CompleteFailureFollows DEF Follows, Result
  <2> QED BY <1>1, <2>1, FollowsTwice
<1>9. CASE d = DestroyAllocation(N("mismatch"), op, "mismatch")
  <2> DEFINE n == N("mismatch")
  <2>1. /\ Shape(n) /\ Follows(rest, n) /\ (n.channel => n.state = "ready")
    BY <1>4, PendingBelongs DEF Result
  <2> HIDE DEF n
  <2>2. Follows(n, d)
    BY <1>9, <2>1, DestroyAllocationFollows DEF Follows, Result, n
  <2> QED BY <1>1, <2>1, <2>2, FollowsTwice
<1>10. CASE p.retries < MaxNonceRetries /\ d = StartOperation(new, op, TRUE, p.retries + 1)
  <2>1. /\ Shape(new) /\ new.state = c.state /\ new.channel = rest.channel
        /\ new.destroyed = rest.destroyed /\ new.failures = rest.failures
        /\ new.pending = rest.pending /\ new.armed = rest.armed
        /\ new.events = rest.events /\ new.controls = rest.controls
    BY <1>1 DEF Shape, Fields
  <2> HIDE DEF new
  <2>2. \A o : HasOperation(new, o) <=> HasOperation(rest, o)
    BY <2>1 DEF HasOperation
  <2>3. Sized(new) /\ Steady(new)
    BY <1>1, <2>1, <2>2 DEF Follows, Sized, Steady
  <2>4. Follows(rest, new)
    BY <1>1, <2>1, <2>3, StillSame, TalksBy DEF Follows
  <2>5. p.retries + 1 \in 0 .. MaxNonceRetries
    <3>1. p \in Counted
      BY DEF Fit, Sized
    <3> QED BY <1>10, <3>1, TurnAssumption DEF Counted
  <2> HIDE DEF p
  <2>6. Follows(new, d)
    BY <1>10, <2>1, <2>3, <2>5, PendingBelongs, StartOperationFollows
  <2> QED BY <1>1, <2>4, <2>6, FollowsTwice
<1>11. CASE d = CompleteFailure(N("failed"), op, "failed", alive)
  <2> DEFINE n == N("failed")
  <2>1. Removed(n, op) /\ Follows(rest, n)
    BY <1>4 DEF Result
  <2> HIDE DEF n
  <2>2. Follows(n, d)
    BY <1>11, <2>1, CompleteFailureFollows DEF Follows, Result, n
  <2> QED BY <1>1, <2>1, <2>2, FollowsTwice
<1> QED BY <1>2, <1>5, <1>6, <1>7, <1>8, <1>9, <1>10, <1>11

\* expire_transactions counts a transmission only below the maximum.
LEMMA ExpireFollows ==
    ASSUME NEW c, Fit(c), NEW op \in Operation, HasOperation(c, op), NEW alive
    PROVE  Follows(c, Expire(c, op, alive))
<1> DEFINE rest == RemoveTransaction(c, op)
           q == QueuePacket(c, op)
           t == [c.pending[op] EXCEPT !.sent = c.pending[op].sent + 1]
           x == [c.pending EXCEPT ![op] = t]
           d == [q EXCEPT !.pending = x]
<1>1. Shape(q) /\ Keeps(c, q) /\ Discreet(c, q)
  BY QueuePacketKeeps, QueuePacketDiscreet DEF Fit, Good, Keeps, Packet
<1>2. \/ Expire(c, op, alive) = CompleteFailure(rest, op, "failed", alive)
      \/ ~(c.pending[op].sent >= MaxTransmissions) /\ Expire(c, op, alive) = d
  BY <1>1 DEF Expire, Keeps, Shape, Fields
<1>3. CASE Expire(c, op, alive) = CompleteFailure(rest, op, "failed", alive)
  <2>1. Shape(rest) /\ Follows(c, rest) /\ Removed(rest, op)
    BY RestFollows
  <2> HIDE DEF rest
  <2>2. Follows(rest, CompleteFailure(rest, op, "failed", alive))
    BY <2>1, CompleteFailureFollows DEF Follows, Result
  <2> QED BY <1>3, <2>1, <2>2, FollowsTwice
<1>4. CASE ~(c.pending[op].sent >= MaxTransmissions) /\ Expire(c, op, alive) = d
  <2>1. t \in Counted /\ t.sent > 0
    <3>1. c.pending[op] \in Counted
      BY DEF Fit, Sized
    <3> QED BY <1>4, <3>1, TurnAssumption DEF Counted
  <2> HIDE DEF t
  <2>2. x \in [Operation -> Counted] /\ x[op] = t
        /\ \A o \in Operation : o # op => x[o] = c.pending[o]
    BY <2>1 DEF Fit, Sized
  <2> HIDE DEF x, q
  <2>3. /\ SameFlags(q, d) /\ d.state = q.state /\ d.channel = q.channel
        /\ d.pending = x /\ d.armed = q.armed /\ d.events = q.events
        /\ d.controls = q.controls /\ d.failures = q.failures
    BY <1>1 DEF Shape, Fields, SameFlags
  <2> HIDE DEF d
  <2>4. Sized(d)
    BY <1>1, <2>2, <2>3 DEF Sized, Discreet
  <2>5. \A o \in Operation : HasOperation(d, o) <=> HasOperation(c, o)
    BY <2>1, <2>2, <2>3 DEF HasOperation
  <2>6. Steady(d)
    BY <1>1, <2>3, <2>5 DEF Fit, Steady, Keeps, SameFlags, Discreet, Operation
  <2>7. Talks(c, d)
    BY <1>1, <2>3, TalksBy DEF Discreet, Keeps
  <2> QED BY <1>4, <2>4, <2>6, <2>7 DEF Follows
<1> QED BY <1>2, <1>3, <1>4

\* Changing the deadlines says nothing.
LEMMA ArmedFollows ==
    ASSUME NEW c, Shape(c), Sized(c), Steady(c), NEW x, x \subseteq Timer
    PROVE  LET d == [c EXCEPT !.armed = x]
           IN  Shape(d) /\ Follows(c, d) /\ d.state = c.state
<1> DEFINE d == [c EXCEPT !.armed = x]
<1>1. /\ Shape(d) /\ d.state = c.state /\ d.channel = c.channel /\ d.destroyed = c.destroyed
      /\ d.pending = c.pending /\ d.armed = x /\ d.events = c.events
      /\ d.controls = c.controls /\ d.failures = c.failures
  BY DEF Shape, Fields
<1> HIDE DEF d
<1>2. \A o : HasOperation(d, o) <=> HasOperation(c, o)
  BY <1>1 DEF HasOperation
<1>3. Sized(d) /\ Steady(d)
  BY <1>1, <1>2 DEF Sized, Steady
<1>4. Talks(c, d)
  BY <1>1, StillSame, TalksBy
<1> QED BY <1>1, <1>3, <1>4 DEF Follows, d

\* poll starts the maintenance of a ready core.
LEMMA RestartFollows ==
    ASSUME NEW c, Fit(c), c.state = "ready", NEW due, NEW timers, NEW op \in Maintenance
    PROVE  Follows(c, Restart(c, due, timers, op)) /\ Fit(Restart(c, due, timers, op))
<1> DEFINE x == c.armed \ {RetryTimer(op)}
           a == [c EXCEPT !.armed = x]
           d == StartOperation(a, op, TRUE, 0)
<1>1. Restart(c, due, timers, op) \in {c, d}
  BY DEF Restart, Fit, Good, Shape, Fields
<1>2. Good(Restart(c, due, timers, op))
  BY RestartPreserves DEF Fit, Preserves
<1>3. Follows(c, c)
  BY FollowsSame
<1>4. Follows(c, d)
  <2>1. x \subseteq Timer
    BY DEF Fit, Sized
  <2> HIDE DEF x
  <2>2. Shape(a) /\ Follows(c, a) /\ a.state = "ready"
    BY <2>1, ArmedFollows DEF Fit, Good
  <2>3. op \in Operation /\ op # "Allocate" /\ op # "Deallocate" /\ 0 \in 0 .. MaxNonceRetries
    BY TurnAssumption DEF Maintenance, Operation
  <2> HIDE DEF a
  <2>4. Follows(a, d)
    BY <2>2, <2>3, StartOperationFollows DEF Follows
  <2> QED BY <2>2, <2>4, FollowsTwice
<1> HIDE DEF d
<1> QED BY <1>1, <1>2, <1>3, <1>4 DEF Fit, Follows

\* The maintenance part of poll.
LEMMA MaintainFollows ==
    ASSUME NEW c, Fit(c), c.state = "ready", NEW due
    PROVE  Follows(c, Maintain(c, due))
<1> DEFINE r == Restart(c, due, {"refresh"}, "Refresh")
           m == Restart(r, due, {"maintenance", "permission"}, "Permission")
           b == Restart(m, due, {"maintenance", "channel"}, "Channel")
<1>1. Maintain(c, due) \in {b, QueuePacket(b, "keepalive")}
  BY DEF Maintain
<1>2. Follows(c, r) /\ Fit(r) /\ r.state = "ready"
  BY RestartFollows, RestartPreserves DEF Maintenance, Fit
<1> HIDE DEF r
<1>3. Follows(r, m) /\ Fit(m) /\ m.state = "ready"
  BY <1>2, RestartFollows, RestartPreserves DEF Maintenance, Fit
<1> HIDE DEF m
<1>4. Follows(m, b) /\ Fit(b)
  BY <1>3, RestartFollows DEF Maintenance
<1> HIDE DEF b
<1>5. Follows(b, QueuePacket(b, "keepalive"))
  BY <1>4, QueuePacketKeeps, QueuePacketDiscreet, FollowsKeeps DEF Fit, Good, Packet
<1>6. Follows(c, b)
  BY <1>2, <1>3, <1>4, FollowsTwice
<1> QED BY <1>1, <1>5, <1>6, FollowsTwice

\* poll, whichever deadlines have passed.
LEMMA PollFollows ==
    ASSUME NEW c, Fit(c), NEW ops \in SUBSET Operation,
           \A o \in ops : HasOperation(c, o), NEW due
    PROVE  Follows(c, Poll(c, ops, due))
<1> DEFINE alive == "expires" \notin due
           o == CHOOSE x \in ops : TRUE
           e == IF ops = {} THEN c ELSE Expire(c, o, alive)
           dead == DestroyAllocation(e, "Refresh", "failed")
           k == IF /\ ~e.shutdown /\ e.state = "ready"
                   /\ "expires" \in e.armed /\ ~alive
                THEN dead ELSE e
<1>1. Poll(c, ops, due) = IF c.destroyed THEN c
                          ELSE IF ~k.shutdown /\ k.state = "ready" THEN Maintain(k, due) ELSE k
  BY DEF Poll
<1>2. Follows(c, e) /\ Good(e)
  <2>1. CASE ops = {}
    BY <2>1, FollowsSame DEF Fit
  <2>2. CASE ops # {}
    <3>1. o \in ops
      BY <2>2
    <3> HIDE DEF o
    <3> QED BY <2>2, <3>1, ExpireFollows, ExpirePreserves DEF Fit, Preserves
  <2> QED BY <2>1, <2>2
<1> HIDE DEF e
<1>3. e.state = "ready" => Follows(c, dead) /\ Good(dead)
  <2> SUFFICES ASSUME e.state = "ready" PROVE Follows(c, dead) /\ Good(dead)
    OBVIOUS
  <2>1. Follows(e, dead) /\ Good(dead)
    BY <1>2, DestroyAllocationFollows, DestroyAllocationIsGood
       DEF Follows, Good, Operation, Result
  <2> QED BY <1>2, <2>1, FollowsTwice
<1> HIDE DEF dead
<1>4. Follows(c, k) /\ Fit(k)
  BY <1>2, <1>3 DEF Fit, Follows
<1> HIDE DEF k
<1>5. k.state = "ready" => Follows(c, Maintain(k, due))
  BY <1>4, MaintainFollows, FollowsTwice
<1> QED BY <1>1, <1>4, <1>5, FollowsSame

\* resync_after_suspend, whatever the gap.
LEMMA ResyncAfterSuspendFollows ==
    ASSUME NEW c, Fit(c), NEW lost
    PROVE  Follows(c, ResyncAfterSuspend(c, lost))
<1> DEFINE x == c.armed \cup {"refresh", "maintenance", "keepalive"}
           a == [c EXCEPT !.armed = x]
           dead == DestroyAllocation(c, "Refresh", "failed")
<1>1. \/ ResyncAfterSuspend(c, lost) = c
      \/ c.state = "ready" /\ ResyncAfterSuspend(c, lost) = dead
      \/ ResyncAfterSuspend(c, lost) = a
  BY DEF ResyncAfterSuspend, Fit, Good, Shape, Fields
<1>2. c.state = "ready" => Follows(c, dead)
  BY DestroyAllocationFollows DEF Fit, Good, Operation, Result
<1>3. Follows(c, a)
  <2>1. x \subseteq Timer
    BY DEF Fit, Sized, Timer
  <2> HIDE DEF x
  <2> QED BY <2>1, ArmedFollows DEF Fit, Good
<1> HIDE DEF a, dead
<1> QED BY <1>1, <1>2, <1>3, FollowsSame

\* graceful_shutdown tells of the end of the channel.
LEMMA GracefulShutdownFollows ==
    ASSUME NEW c, Fit(c) PROVE Follows(c, GracefulShutdown(c))
<1> DEFINE x == c.armed \cap {"refresh", "expires"}
           a == [c EXCEPT !.shutdown = TRUE, !.channel = FALSE, !.controls = <<>>,
                          !.armed = x]
           b == [a EXCEPT !.pending = NonePending]
           s == SetState(b, "deallocating")
           d == StartOperation(s, "Deallocate", TRUE, 0)
<1>1. \/ GracefulShutdown(c) = c
      \/ /\ ~c.destroyed
         /\ \/ c.state \in {"ready", "destroying"} /\ GracefulShutdown(c) = d
            \/ c.state = "allocating" /\ GracefulShutdown(c) = a
            \/ c.state # "ready" /\ GracefulShutdown(c) = b
  <2>1. GracefulShutdown(c) =
          IF c.destroyed \/ c.shutdown THEN c
          ELSE IF c.state = "ready" \/ (c.state = "destroying" /\ "expires" \in c.armed)
          THEN d
          ELSE IF c.state = "allocating" THEN a ELSE b
    BY DEF GracefulShutdown, NonePending, Fit, Good, Shape, Fields
  <2> HIDE DEF a, b, d
  <2> QED BY <2>1
<1>2. x \subseteq Timer
  BY DEF Fit, Sized
<1> HIDE DEF x
<1>3. /\ Shape(a) /\ a.channel = FALSE /\ a.pending = c.pending /\ a.destroyed = c.destroyed
      /\ a.state = c.state /\ a.armed = x /\ a.controls = <<>> /\ a.events = c.events
      /\ a.failures = c.failures
  BY DEF Fit, Good, Shape, Fields
<1>4. /\ <<>> \in Seq(Packet) /\ Len(<<>>) <= ControlCapacity
      /\ NonePending \in [Operation -> Counted] /\ 0 \in 0 .. MaxNonceRetries
  BY TurnAssumption DEF NonePending, Idle, Counted
<1> HIDE DEF a
<1>5. /\ Shape(b) /\ b.channel = FALSE /\ b.pending = NonePending
      /\ b.state = c.state /\ b.armed = x /\ b.controls = <<>> /\ b.events = c.events
      /\ b.failures = c.failures
  BY <1>3, NothingPending DEF Shape, Fields
<1> HIDE DEF b
<1>6. Sized(a) /\ Sized(b)
  BY <1>2, <1>3, <1>4, <1>5 DEF Fit, Sized
<1>7. CASE c.state = "allocating" /\ GracefulShutdown(c) = a
  <2>1. \A o : HasOperation(a, o) <=> HasOperation(c, o)
    BY <1>3 DEF HasOperation
  <2>2. Steady(a)
    BY <1>3, <2>1 DEF Fit, Steady
  <2>3. ~a.channel /\ (c.channel => c.destroyed)
    BY <1>3, <1>7 DEF Fit, Steady
  <2>4. ~c.destroyed => Talks(c, a)
    BY <1>3, <2>3, StillSame, TalksBy
  <2> QED BY <1>1, <1>6, <1>7, <2>2, <2>4, FollowsSame DEF Follows
<1>8. CASE ~c.destroyed /\ c.state # "ready" /\ GracefulShutdown(c) = b
  <2>1. \A o \in Operation : ~HasOperation(b, o)
    BY <1>5, NothingPending
  <2>2. Steady(b)
    BY <1>5, <2>1 DEF Fit, Steady, Operation
  <2>3. ~c.channel
    BY <1>8 DEF Fit, Steady
  <2>4. Talks(c, b)
    BY <1>5, <2>3, StillSame, TalksBy
  <2> QED BY <1>6, <1>8, <2>2, <2>4 DEF Follows
<1>9. CASE /\ ~c.destroyed /\ c.state \in {"ready", "destroying"}
           /\ GracefulShutdown(c) = d
  <2>1. /\ Shape(s) /\ s.state = "deallocating" /\ s.channel = FALSE /\ s.pending = NonePending
        /\ Discreet(b, s) /\ Closed(s.events)
    BY <1>5, <1>6, <1>9, SetStateChanges, SetStateTells DEF CoreState
  <2> HIDE DEF s
  <2>2. \A o \in Operation : ~HasOperation(s, o)
    BY <2>1, NothingPending
  <2>3. Steady(s)
    BY <2>1, <2>2 DEF Steady, Operation
  <2>4. Talks(c, s)
    BY <1>5, <2>1, TalksBy DEF Discreet
  <2>5. Follows(c, s)
    BY <2>1, <2>3, <2>4 DEF Follows, Discreet
  <2>6. Follows(s, d)
    BY <1>4, <2>1, <2>3, <2>5, StartOperationFollows DEF Follows, Operation
  <2> HIDE DEF d
  <2> QED BY <1>9, <2>5, <2>6, FollowsTwice
<1> HIDE DEF d
<1> QED BY <1>1, <1>7, <1>8, <1>9, FollowsSame

\* force_destroy fails the session.
LEMMA ForceDestroyFollows ==
    ASSUME NEW c, Fit(c) PROVE Follows(c, ForceDestroy(c))
<1> DEFINE a == [c EXCEPT !.destroyed = TRUE, !.controls = <<>>, !.pending = NonePending]
           s == SetState(a, "destroying")
           e == Event("forced", "none", "ok")
           d == PushEvent(s, e)
<1>1. ForceDestroy(c) \in {c, d}
  BY DEF ForceDestroy, NonePending
<1>2. /\ Shape(a) /\ a.pending = NonePending /\ a.armed = c.armed /\ a.destroyed = TRUE
      /\ a.state = c.state /\ a.controls = <<>> /\ a.events = c.events
      /\ a.failures = c.failures
  BY NothingPending DEF Fit, Good, Shape, Fields
<1>3. /\ <<>> \in Seq(Packet) /\ Len(<<>>) <= ControlCapacity
      /\ NonePending \in [Operation -> Counted]
  BY TurnAssumption DEF NonePending, Idle, Counted
<1>4. e \in EventRec /\ Fatal(e)
  BY DEF Event, EventRec, Result, Fatal
<1> HIDE DEF a, e
<1>5. Sized(a)
  BY <1>2, <1>3 DEF Fit, Sized
<1>6. /\ Shape(s) /\ s.pending = NonePending /\ s.destroyed = TRUE /\ s.state = "destroying"
      /\ Sized(s)
  BY <1>2, <1>5, SetStateChanges, SetStateTells DEF SameFlags, Discreet, CoreState
<1> HIDE DEF s
<1>7. Keeps(s, d) /\ Sized(d) /\ Fails(d.events)
  BY <1>4, <1>6, PushEventKeeps, PushEventSays
<1> HIDE DEF d
<1>8. d.pending = NonePending /\ d.destroyed = TRUE /\ d.state = "destroying"
  BY <1>6, <1>7 DEF Keeps, SameFlags
<1>9. \A o \in Operation : ~HasOperation(d, o)
  BY <1>8, NothingPending
<1>10. Follows(c, d)
  BY <1>7, <1>8, <1>9 DEF Follows, Steady, Talks, Frank, Operation
<1> QED BY <1>1, <1>10, FollowsSame

\* start_allocation.
LEMMA StartAllocationFollows ==
    ASSUME NEW c, Fit(c), ~c.destroyed, c.state = "null"
    PROVE  Follows(c, StartOperation(SetState(c, "allocating"), "Allocate", FALSE, 0))
<1> DEFINE s == SetState(c, "allocating")
<1>1. /\ Shape(s) /\ s.state = "allocating" /\ s.channel = c.channel
      /\ s.pending = c.pending /\ Discreet(c, s)
  BY SetStateChanges, SetStateTells DEF Fit, Good, CoreState
<1> HIDE DEF s
<1>2. \A o : HasOperation(s, o) <=> HasOperation(c, o)
  BY <1>1 DEF HasOperation
<1>3. ~c.channel /\ ~HasOperation(c, "Channel") /\ ~HasOperation(c, "Deallocate")
      /\ c.failures < MaxChannelFailures
  BY DEF Fit, Steady
<1>4. Steady(s)
  BY <1>1, <1>2, <1>3 DEF Steady, Discreet
<1>5. Talks(c, s)
  BY <1>1, TalksBy DEF Discreet
<1>6. Follows(c, s)
  BY <1>1, <1>4, <1>5 DEF Follows, Discreet
<1>7. 0 \in 0 .. MaxNonceRetries
  BY TurnAssumption
<1>8. Follows(s, StartOperation(s, "Allocate", FALSE, 0))
  BY <1>1, <1>6, <1>7, StartOperationFollows DEF Follows, Operation
<1> QED BY <1>6, <1>8, FollowsTwice DEF s

\* start_permission and start_channel.
LEMMA StartBindingFollows ==
    ASSUME NEW c, Fit(c), c.state = "ready", NEW op \in {"Permission", "Channel"}
    PROVE  Follows(c, StartOperation(c, op, TRUE, 0))
<1>1. 0 \in 0 .. MaxNonceRetries
  BY TurnAssumption
<1> QED BY <1>1, StartOperationFollows DEF Fit, Good, Operation

-----------------------------------------------------------------------------
(* What the driver makes of the events.                                    *)

SharedFields == {"state", "relay", "channel", "gate", "closing", "terminal", "sent", "done"}

Terminal == {"none", "failed", "mismatch", "exhausted"}

\* DriverShared is a record with its fields.
Typed(s) ==
    /\ s = [f \in SharedFields |-> s[f]]
    /\ s.state \in CoreState /\ s.terminal \in Terminal
    /\ s.gate \in BOOLEAN /\ s.closing \in BOOLEAN

\* The session knows that the allocation is over.
Over(s) == s.closing = TRUE \/ s.terminal # "none"

\* t is in the state that s has heard of, and has sent as much.
Alike(s, t) == t.state = s.state /\ t.sent = s.sent

\* fail records a reason unless the session is over already.
LEMMA FailEnds ==
    ASSUME NEW s, Typed(s), NEW r \in Terminal \ {"none"}
    PROVE  /\ Typed(Fail(s, r)) /\ Over(Fail(s, r)) /\ Fail(s, r).gate = s.gate
           /\ Alike(s, Fail(s, r))
  BY DEF Typed, Over, Fail, SharedFields, Terminal, Alike

\* request_cleanup closes the gate and the session.
LEMMA RequestCleanupEnds ==
    ASSUME NEW s, Typed(s)
    PROVE  /\ Typed(RequestCleanup(s)) /\ Over(RequestCleanup(s))
           /\ Alike(s, RequestCleanup(s))
  BY DEF Typed, Over, RequestCleanup, SharedFields, Alike

\* Nobody but the driver looks at sent, nobody but the owner at done.
LEMMA MarksTyped ==
    ASSUME NEW s, Typed(s), NEW x, NEW t,
           t = [s EXCEPT !.sent = x] \/ t = [s EXCEPT !.done = x]
    PROVE  /\ Typed(t) /\ t.gate = s.gate /\ (Over(t) <=> Over(s)) /\ t.state = s.state
           /\ t = [s EXCEPT !.done = x] => Alike(s, t)
<1>1. /\ t = [f \in SharedFields |-> t[f]] /\ t.state = s.state /\ t.terminal = s.terminal
      /\ t.gate = s.gate /\ t.closing = s.closing
      /\ t = [s EXCEPT !.done = x] => Alike(s, t)
  BY DEF Typed, SharedFields, Alike
<1> QED BY <1>1 DEF Typed, Over

\* The state of t is that of s, or what this event tells.
Hears(s, e, t) == t.sent = s.sent /\ (t.state = s.state \/ (e.kind = "state" /\ t.state = e.what))

\* One event: a fatal one ends the session, none revives it, and the gate only
\* opens with a binding.
LEMMA OnEventDoes ==
    ASSUME NEW s, Typed(s), NEW e \in EventRec
    PROVE  LET t == OnEvent(s, e)
           IN  /\ Typed(t)
               /\ Over(s) \/ Fatal(e) => Over(t)
               /\ t.gate = TRUE => e.kind = "bound" \/ (s.gate = TRUE /\ ~Shuts(e))
               /\ Hears(s, e, t)
<1> DEFINE t == OnEvent(s, e)
           Fine(u) == /\ Typed(u) /\ (Over(s) => Over(u)) /\ (Fatal(e) => Over(u))
                      /\ u.gate = TRUE => e.kind = "bound" \/ (s.gate = TRUE /\ ~Shuts(e))
<1>1. CASE e.kind = "state"
  <2>1. t = OnState(s, e.what) /\ e.what \in CoreState /\ ~Fatal(e)
    BY <1>1 DEF OnEvent, EventRec, Fatal
  <2> DEFINE y == e.what
  <2>2. LET u == OnState(s, y)
        IN  /\ u = [f \in SharedFields |-> u[f]] /\ u.state = y /\ u.terminal = s.terminal
            /\ u.closing = s.closing /\ u.gate = (s.gate /\ y = "ready") /\ u.sent = s.sent
    BY DEF OnState, Typed, SharedFields
  <2>3. Shuts(e) <=> y # "ready"
    BY <1>1 DEF Shuts
  <2> HIDE DEF y, t
  <2>4. Typed(t)
    BY <2>1, <2>2 DEF Typed, y
  <2>5. Over(s) => Over(t)
    BY <2>1, <2>2 DEF Over, y
  <2>6. t.gate = TRUE => s.gate = TRUE /\ y = "ready"
    BY <2>1, <2>2 DEF Typed, y
  <2>7. Hears(s, e, t)
    BY <1>1, <2>1, <2>2 DEF Hears, y
  <2> QED BY <2>1, <2>3, <2>4, <2>5, <2>6, <2>7 DEF t
<1>2. CASE e.kind = "complete"
  <2> DEFINE m == [s EXCEPT !.done = e.result]
             Awaited == \/ own = "allocating" /\ e.what = "Allocate"
                        \/ own \in {"permitted", "binding"} /\ e.what = "Channel"
             noted == IF Awaited THEN m ELSE s
  <2>1. t = IF e.result # "ok" /\ (e.what \notin Maintenance \/ e.result = "mismatch")
            THEN Fail(noted, e.result) ELSE noted
    BY <1>2 DEF OnEvent, OnComplete
  <2>2. Typed(m) /\ m.gate = s.gate /\ (Over(s) => Over(m)) /\ Alike(s, m)
    BY MarksTyped
  <2> HIDE DEF m, Awaited
  <2>3. Typed(noted) /\ noted.gate = s.gate /\ (Over(s) => Over(noted)) /\ Alike(s, noted)
    BY <2>2 DEF Alike
  <2>4. e.result # "ok" => e.result \in Terminal \ {"none"}
    BY DEF EventRec, Result, Terminal
  <2> HIDE DEF noted
  <2>5. e.result # "ok" => /\ Typed(Fail(noted, e.result)) /\ Over(Fail(noted, e.result))
                           /\ Fail(noted, e.result).gate = s.gate
                           /\ Alike(noted, Fail(noted, e.result))
    BY <2>3, <2>4, FailEnds
  <2>6. ~Fatal(e) /\ ~Shuts(e)
    BY <1>2 DEF Fatal, Shuts
  <2>7. t = noted \/ (e.result # "ok" /\ t = Fail(noted, e.result))
    BY <2>1
  <2> HIDE DEF t
  <2>8. Hears(s, e, t)
    BY <2>3, <2>5, <2>7 DEF Hears, Alike
  <2> QED BY <2>3, <2>5, <2>6, <2>7, <2>8 DEF t
<1>3. CASE e.kind = "bound" \/ e.kind = "relay"
  <2>1. t \in {[s EXCEPT !.gate = TRUE, !.channel = TRUE], [s EXCEPT !.relay = TRUE]}
        /\ (e.kind = "relay" => t = [s EXCEPT !.relay = TRUE])
    BY <1>3 DEF OnEvent
  <2>2. ~Fatal(e) /\ ~Shuts(e)
    BY <1>3 DEF Fatal, Shuts
  <2> HIDE DEF t
  <2>3. /\ t = [f \in SharedFields |-> t[f]] /\ t.state = s.state /\ t.terminal = s.terminal
        /\ t.closing = s.closing /\ t.gate \in BOOLEAN /\ Hears(s, e, t)
        /\ e.kind = "relay" => t.gate = s.gate
    BY <2>1 DEF Typed, SharedFields, Hears
  <2>4. Typed(t)
    BY <2>3 DEF Typed
  <2>5. Over(s) => Over(t)
    BY <2>3 DEF Over
  <2> QED BY <1>3, <2>2, <2>3, <2>4, <2>5 DEF t
<1>4. CASE e.kind \in {"stunError", "exhausted", "controlOverflow", "eventOverflow", "forced"}
  <2>1. ~Shuts(e)
    BY <1>4 DEF Shuts
  <2>2. t \in {s, Fail(s, "mismatch"), Fail(s, "failed")} /\ (Fatal(e) => t = Fail(s, "failed"))
    BY <1>4 DEF OnEvent, Fatal
  <2>3. \A r \in {"mismatch", "failed"} :
            /\ Typed(Fail(s, r)) /\ Over(Fail(s, r)) /\ Fail(s, r).gate = s.gate
            /\ Alike(s, Fail(s, r))
    BY FailEnds DEF Terminal
  <2> HIDE DEF t
  <2>4. Hears(s, e, t)
    BY <2>2, <2>3 DEF Hears, Alike
  <2> QED BY <2>1, <2>2, <2>3, <2>4 DEF t
<1>5. e.kind \in {"state", "complete", "stunError", "bound", "relay", "exhausted",
                  "controlOverflow", "eventOverflow", "forced"}
  BY DEF EventRec
<1> QED BY <1>1, <1>2, <1>3, <1>4, <1>5

\* The session after the first n of the events.
Told(s, es, n) ==
    LET after[i \in 0 .. n] == IF i = 0 THEN s ELSE OnEvent(after[i - 1], es[i])
    IN  after[n]

\* What the first n events leave of a session s, now t.
Learns(s, es, n, t) ==
    /\ Typed(t)
    /\ Over(s) \/ (\E i \in 1 .. n : Fatal(es[i])) => Over(t)
    /\ t.gate = TRUE =>
          \/ s.gate = TRUE /\ \A i \in 1 .. n : ~Shuts(es[i])
          \/ \E i \in 1 .. n : es[i].kind = "bound" /\ \A j \in 1 .. n : j > i => ~Shuts(es[j])
    /\ t.sent = s.sent
    /\ t.state = s.state \/ \E i \in 1 .. n : es[i].kind = "state" /\ es[i].what = t.state

\* One event more.
LEMMA LearnsMore ==
    ASSUME NEW s, NEW es \in Seq(EventRec), NEW n \in Nat, n + 1 <= Len(es), NEW t,
           Learns(s, es, n, t)
    PROVE  Learns(s, es, n + 1, OnEvent(t, es[n + 1]))
<1> DEFINE e == es[n + 1]
           u == OnEvent(t, e)
<1>1. n + 1 \in 1 .. Len(es) /\ e \in EventRec
  OBVIOUS
<1>2. \A i \in 1 .. n + 1 : i \in 1 .. n \/ i = n + 1
  OBVIOUS
<1>3. 1 .. n \subseteq 1 .. n + 1 /\ n + 1 \in 1 .. n + 1 /\ \A i \in 1 .. n : n + 1 > i
  OBVIOUS
<1>4. /\ Typed(u)
      /\ Over(t) \/ Fatal(e) => Over(u)
      /\ u.gate = TRUE => e.kind = "bound" \/ (t.gate = TRUE /\ ~Shuts(e))
      /\ Hears(t, e, u)
  BY <1>1, OnEventDoes DEF Learns
<1> HIDE DEF u
<1>5. Over(s) \/ (\E i \in 1 .. n + 1 : Fatal(es[i])) => Over(u)
  BY <1>2, <1>4 DEF Learns
<1>6. ASSUME u.gate = TRUE
      PROVE  \/ s.gate = TRUE /\ \A i \in 1 .. n + 1 : ~Shuts(es[i])
             \/ \E i \in 1 .. n + 1 :
                   es[i].kind = "bound" /\ \A j \in 1 .. n + 1 : j > i => ~Shuts(es[j])
  <2>1. CASE e.kind = "bound"
    <3>1. \A j \in 1 .. n + 1 : ~(j > n + 1)
      OBVIOUS
    <3> QED BY <1>3, <2>1, <3>1
  <2>2. CASE t.gate = TRUE /\ ~Shuts(e)
    BY <1>2, <1>3, <2>2 DEF Learns
  <2> QED BY <1>4, <1>6, <2>1, <2>2
<1>7. /\ u.sent = s.sent
      /\ u.state = s.state \/ \E i \in 1 .. n + 1 : es[i].kind = "state" /\ es[i].what = u.state
  BY <1>3, <1>4 DEF Learns, Hears
<1> QED BY <1>4, <1>5, <1>6, <1>7 DEF Learns, u

\* The events, one after the other.
LEMMA ToldLearns ==
    ASSUME NEW s, Typed(s), NEW es \in Seq(EventRec), NEW n \in 0 .. Len(es)
    PROVE  Learns(s, es, n, Told(s, es, n))
<1> DEFINE Next1(g, k) == IF k = 0 THEN s ELSE OnEvent(g[k - 1], es[k])
           Is(g, k) == g = [i \in 0 .. k |-> Next1(g, i)]
           S == {k \in Nat : \E g : Is(g, k)}
           after[i \in 0 .. n] == IF i = 0 THEN s ELSE OnEvent(after[i - 1], es[i])
           T == {k \in Nat : k <= n => Learns(s, es, k, after[k])}
<1>1. n \in Nat /\ n <= Len(es)
  OBVIOUS
<1>2. 0 \in S
  <2> DEFINE g == [i \in 0 .. 0 |-> s]
  <2>1. Is(g, 0)
    OBVIOUS
  <2> HIDE DEF g, Is
  <2> QED BY <2>1
<1>3. ASSUME NEW k \in Nat, k \in S PROVE k + 1 \in S
  <2>1. PICK g : Is(g, k)
    BY <1>3
  <2> DEFINE last == OnEvent(g[k], es[k + 1])
             h == [i \in 0 .. k + 1 |-> IF i = k + 1 THEN last ELSE g[i]]
  <2>2. \A i \in 0 .. k : g[i] = Next1(g, i)
    BY <2>1
  <2>3. ASSUME NEW i \in 0 .. k + 1 PROVE h[i] = Next1(h, i)
    <3>1. CASE i = 0
      BY <2>2, <3>1
    <3>2. CASE i = k + 1
      <4>1. i # 0 /\ i - 1 = k /\ k \in 0 .. k + 1 /\ k # k + 1
        BY <3>2
      <4> HIDE DEF last
      <4>2. h[i] = last /\ h[i - 1] = g[k]
        BY <3>2, <4>1
      <4> HIDE DEF h
      <4> QED BY <3>2, <4>1, <4>2 DEF last
    <3>3. CASE i \in 1 .. k
      <4>1. i # 0 /\ i # k + 1 /\ i - 1 \in 0 .. k + 1 /\ i - 1 # k + 1 /\ i \in 0 .. k
        BY <3>3
      <4> HIDE DEF last
      <4>2. h[i] = g[i] /\ h[i - 1] = g[i - 1]
        BY <4>1
      <4> HIDE DEF h
      <4> QED BY <2>2, <4>1, <4>2
    <3> QED BY <3>1, <3>2, <3>3
  <2>4. Is(h, k + 1)
    <3>1. h = [i \in 0 .. k + 1 |-> h[i]]
      OBVIOUS
    <3> HIDE DEF h, Next1
    <3> QED BY <2>3, <3>1
  <2> HIDE DEF h, Is
  <2> QED BY <2>4
<1>4. n \in S
  <2> HIDE DEF S
  <2> QED BY <1>1, <1>2, <1>3, Induction
<1>5. Is(after, n)
  BY <1>4, Zenon
<1>6. \A i \in 0 .. n : after[i] = Next1(after, i)
  <2> HIDE DEF after
  <2> QED BY <1>5
<1>7. Told(s, es, n) = after[n]
  BY DEF Told
<1> HIDE DEF after
<1>8. 0 \in T
  <2>1. after[0] = s
    BY <1>1, <1>6
  <2> QED BY <2>1 DEF Learns
<1>9. ASSUME NEW k \in Nat, k \in T PROVE k + 1 \in T
  <2> SUFFICES ASSUME k + 1 <= n PROVE Learns(s, es, k + 1, after[k + 1])
    OBVIOUS
  <2>1. k + 1 \in 0 .. n /\ k + 1 # 0 /\ (k + 1) - 1 = k /\ k <= n
    BY <1>1
  <2>2. after[k + 1] = OnEvent(after[k], es[k + 1])
    BY <1>6, <2>1
  <2>3. Learns(s, es, k, after[k])
    BY <1>9, <2>1
  <2>4. k + 1 <= Len(es)
    BY <1>1
  <2> QED BY <2>2, <2>3, <2>4, LearnsMore
<1>10. n \in T
  <2> HIDE DEF T
  <2> QED BY <1>1, <1>8, <1>9, Induction
<1> QED BY <1>1, <1>7, <1>10

-----------------------------------------------------------------------------
(* The core and the session together.                                      *)

\* What is published is true once the events waiting are handled, unless the
\* session knows that the allocation is over.
Aware(c, s) == Over(s) \/ Frank(c, s.gate)

\* Where the driver and the owner may be.
Steps ==
    /\ dpc \in {"top", "pump", "controls", "events", "wait", "break", "end"}
    /\ own \in InUse \cup {"start", "dropped", "closing", "closed"}

\* The inductive invariant.
Informed == Fit(core) /\ Messages /\ Steps /\ Typed(shared) /\ Aware(core, shared)

\* The part of it that the steps must keep; Good and Messages are kept already.
Kept(c, s) == Sized(c) /\ Steady(c) /\ Typed(s) /\ Aware(c, s)

\* A step of the core that follows, while the gate is left alone.
LEMMA FollowsIsKept ==
    ASSUME NEW c, NEW d, Follows(c, d), NEW s, NEW t, Typed(s), Typed(t), Aware(c, s),
           Over(s) => Over(t), t.gate = s.gate
    PROVE  Kept(d, t)
  BY DEF Follows, Talks, Aware, Typed, Kept

\* A step of the core alone.
LEMMA CoreIsKept ==
    ASSUME Informed, Follows(core, core'), shared' = shared PROVE Kept(core', shared')
  BY FollowsIsKept DEF Informed

\* A step of the session alone that ends it or leaves the gate as it is.
LEMMA SharedIsKept ==
    ASSUME Informed, core' = core, Typed(shared'),
           Over(shared') \/ (shared'.gate = shared.gate /\ (Over(shared) => Over(shared')))
    PROVE  Kept(core', shared')
  BY DEF Informed, Fit, Kept, Aware

\* Packets are taken out of the control queue; the session only notes it, or
\* ends.
LEMMA ControlsAreKept ==
    ASSUME Informed, NEW q \in Seq(Packet), Len(q) <= ControlCapacity,
           core' = [core EXCEPT !.controls = q], Typed(shared'),
           Over(shared) => Over(shared'), Over(shared') \/ shared'.gate = shared.gate
    PROVE  Kept(core', shared')
<1> DEFINE d == [core EXCEPT !.controls = q]
<1>1. Shape(core) /\ Sized(core) /\ Steady(core)
  BY DEF Informed, Fit, Good
<1>2. Follows(core, d)
  BY <1>1, ControlsKeep, ControlsDiscreet, FollowsKeeps
<1> HIDE DEF d
<1>3. core' = d
  BY DEF d
<1> QED BY <1>2, <1>3, FollowsIsKept DEF Informed, Kept, Aware, Follows

\* send_control sends the queue, or fails after a part of it.
LEMMA SendingIsKept ==
    ASSUME Informed, SendControls \/ SendFails PROVE Kept(core', shared')
<1>1. /\ core.controls \in Seq(Packet) /\ Len(core.controls) <= ControlCapacity
      /\ ControlCapacity \in Nat /\ Typed(shared)
  BY TurnAssumption DEF Informed, Fit, Sized
<1>2. CASE SendControls
  <2>1. core' = [core EXCEPT !.controls = <<>>] /\ <<>> \in Seq(Packet)
        /\ Len(<<>>) <= ControlCapacity
    BY <1>1, <1>2 DEF SendControls
  <2>2. PICK x : shared' = [shared EXCEPT !.sent = x]
    BY <1>2 DEF SendControls
  <2>3. Typed(shared') /\ shared'.gate = shared.gate /\ (Over(shared) => Over(shared'))
    BY <1>1, <2>2, MarksTyped
  <2> QED BY <2>1, <2>3, ControlsAreKept
<1>3. CASE SendFails
  <2>1. PICK n \in 0 .. Len(core.controls) - 1 :
             /\ core' = [core EXCEPT !.controls = SubSeq(core.controls, n + 2, Len(core.controls))]
             /\ PumpError([shared EXCEPT !.sent = @ \/ n > 0])
    BY <1>3 DEF SendFails, Informed, Fit, Good, Shape, Fields
  <2> DEFINE q == SubSeq(core.controls, n + 2, Len(core.controls))
             s == [shared EXCEPT !.sent = shared.sent \/ n > 0]
  <2>2. q \in Seq(Packet) /\ Len(q) <= ControlCapacity
    BY <1>1
  <2>3. Typed(s)
    BY <1>1, MarksTyped
  <2>4. shared' = RequestCleanup(Fail(s, "failed"))
    BY <1>1, <2>1 DEF PumpError, Typed, SharedFields
  <2> HIDE DEF q, s
  <2>5. Typed(shared') /\ Over(shared')
    BY <2>3, <2>4, FailEnds, RequestCleanupEnds DEF Terminal
  <2> QED BY <2>1, <2>2, <2>5, ControlsAreKept DEF q
<1> QED BY <1>2, <1>3

\* Handling the events leaves the session with the truth, or ends it.
LEMMA HandlingIsKept ==
    ASSUME Informed, HandleEvents PROVE Kept(core', shared')
<1> DEFINE es == core.events
           gone == {i \in DOMAIN es : es[i].kind = "relay" /\ ~core.relay}
           n == IF gone = {} THEN Len(es) ELSE (CHOOSE i \in gone : \A j \in gone : i <= j) - 1
           t == Told(shared, es, n)
           Met(kind, what) == \E i \in 1 .. n : es[i].kind = kind /\ es[i].what = what
           q == IF gone # {} THEN SubSeq(es, n + 2, Len(es)) ELSE <<>>
<1>1. /\ es \in Seq(EventRec) /\ Len(es) <= EventCapacity /\ Len(es) \in Nat
      /\ EventCapacity \in Nat /\ DOMAIN es = 1 .. Len(es)
  BY TurnAssumption DEF Informed, Fit, Sized
<1>2. Typed(shared) /\ Aware(core, shared) /\ Fit(core) /\ Shape(core)
  BY DEF Informed, Fit, Good
<1>3. /\ core' = [core EXCEPT !.events = q]
      /\ IF gone # {} THEN PumpError(t)
         ELSE shared' = IF Met("state", "destroying")
                        THEN Fail(t, IF Met("exhausted", "none") THEN "exhausted" ELSE "failed")
                        ELSE t
  <2>1. core = [f \in Fields |-> core[f]]
    BY <1>2 DEF Shape
  <2>2. [core EXCEPT !.events = SubSeq(@, n + 2, Len(@))]
           = [core EXCEPT !.events = SubSeq(es, n + 2, Len(es))]
    BY <2>1 DEF Fields
  <2> QED BY <2>2, Zenon DEF HandleEvents, Told
<1>4. n \in 0 .. Len(es)
  <2>1. CASE gone = {}
    BY <1>1, <2>1
  <2>2. CASE gone # {}
    <3>1. gone \subseteq 1 .. Len(es)
      BY <1>1
    <3> DEFINE m == CHOOSE i \in gone : \A j \in gone : i <= j
    <3> HIDE DEF gone
    <3>2. \E x \in gone : \A y \in gone : x <= y
      <4>1. gone \subseteq Nat
        BY <3>1
      <4> QED BY <2>2, <4>1, LeastNumber
    <3>3. m \in gone
      BY <3>2
    <3> HIDE DEF m
    <3>4. m - 1 \in 0 .. Len(es)
      BY <1>1, <3>1, <3>3
    <3> QED BY <2>2, <3>4 DEF m
  <2> QED BY <2>1, <2>2
<1>5. gone = {} => n = Len(es)
  OBVIOUS
<1>6. q \in Seq(EventRec) /\ Len(q) <= EventCapacity /\ (gone = {} => q = <<>>)
  <2> HIDE DEF n, gone, es
  <2> QED BY <1>1, <1>4
<1> HIDE DEF n, gone, q
<1>7. Learns(shared, es, n, t)
  BY <1>1, <1>2, <1>4, ToldLearns
<1> HIDE DEF t
<1>8. Sized(core') /\ Steady(core') /\ core'.channel = core.channel
      /\ core'.state = core.state /\ core'.events = q
  <2> DEFINE d == [core EXCEPT !.events = q]
  <2>1. Keeps(core, d)
    BY <1>2, EventsKeep
  <2>2. d.events = q /\ d.controls = core.controls /\ d.failures = core.failures
    BY <1>2 DEF Shape, Fields
  <2> HIDE DEF d
  <2>3. \A o : HasOperation(d, o) <=> HasOperation(core, o)
    BY <2>1 DEF HasOperation, Keeps
  <2>4. Sized(d)
    BY <1>2, <1>6, <2>1, <2>2 DEF Sized, Keeps, Fit
  <2>5. Steady(d)
    BY <1>2, <2>1, <2>2, <2>3 DEF Steady, Keeps, SameFlags, Fit
  <2>6. core' = d
    BY <1>3 DEF d
  <2> QED BY <2>1, <2>2, <2>4, <2>5, <2>6 DEF Keeps
<1>9. CASE gone # {}
  <2>1. shared' = RequestCleanup(Fail(t, "failed"))
    BY <1>3, <1>9 DEF PumpError
  <2>2. Typed(shared') /\ Over(shared')
    BY <1>7, <2>1, FailEnds, RequestCleanupEnds DEF Learns, Terminal
  <2> QED BY <1>8, <2>2 DEF Kept, Aware
<1>10. CASE gone = {}
  <2>1. /\ n = Len(es) /\ DOMAIN es = 1 .. n /\ core'.events = <<>>
    BY <1>1, <1>5, <1>6, <1>8, <1>10
  <2> HIDE DEF es
  <2>2. Typed(shared') /\ shared'.gate = t.gate /\ (Over(t) => Over(shared'))
        /\ (Dies(es) => Over(shared'))
    <3>1. Dies(es) => Met("state", "destroying")
      BY <2>1 DEF Dies
    <3> DEFINE r == IF Met("exhausted", "none") THEN "exhausted" ELSE "failed"
    <3>2. r \in Terminal \ {"none"}
      BY DEF Terminal
    <3>3. shared' = t \/ shared' = Fail(t, r)
      BY <1>3, <1>10
    <3>4. Met("state", "destroying") => shared' = Fail(t, r)
      BY <1>3, <1>10
    <3> HIDE DEF Met, r
    <3> QED BY <1>7, <3>1, <3>2, <3>3, <3>4, FailEnds DEF Learns
  <2>3. Over(shared) \/ Fails(es) => Over(shared')
    BY <1>7, <2>1, <2>2 DEF Learns, Fails
  <2>4. t.gate = TRUE => Gates(shared.gate, es)
    BY <1>7, <2>1 DEF Learns, Gates
  <2>5. ASSUME ~Over(shared') PROVE Frank(core', shared'.gate)
    <3>1. /\ Gates(shared.gate, es) => core.channel
          /\ core.state # "destroying"
      BY <1>2, <2>2, <2>3, <2>5 DEF Aware, Frank, es
    <3>2. Gates(shared'.gate, <<>>) => shared'.gate = TRUE
      BY DEF Gates
    <3> QED BY <1>8, <2>1, <2>2, <2>4, <3>1, <3>2 DEF Frank
  <2> QED BY <1>8, <2>2, <2>5 DEF Kept, Aware
<1> QED BY <1>9, <1>10

\* The owner's steps that end the session, or forget the last completion.
LEMMA OwnerIsKept ==
    ASSUME Informed, core' = core,
           \/ shared' = shared
           \/ \E x : shared' = [shared EXCEPT !.done = x]
           \/ \E r \in Terminal \ {"none"} : shared' = Fail(shared, r)
           \/ shared' = RequestCleanup(shared)
           \/ \E r \in Terminal \ {"none"} : shared' = RequestCleanup(Fail(shared, r))
    PROVE  Kept(core', shared')
<1>0. Typed(shared)
  BY DEF Informed
<1>1. CASE shared' = shared
  BY <1>0, <1>1, SharedIsKept
<1>2. CASE \E x : shared' = [shared EXCEPT !.done = x]
  <2>1. Typed(shared') /\ shared'.gate = shared.gate /\ (Over(shared') <=> Over(shared))
    BY <1>0, <1>2, MarksTyped
  <2> QED BY <2>1, SharedIsKept
<1>3. CASE \E r \in Terminal \ {"none"} : shared' = Fail(shared, r)
  BY <1>0, <1>3, FailEnds, SharedIsKept
<1>4. CASE shared' = RequestCleanup(shared)
  BY <1>0, <1>4, RequestCleanupEnds, SharedIsKept
<1>5. CASE \E r \in Terminal \ {"none"} : shared' = RequestCleanup(Fail(shared, r))
  <2>1. PICK r \in Terminal \ {"none"} : shared' = RequestCleanup(Fail(shared, r))
    BY <1>5
  <2>2. Typed(Fail(shared, r))
    BY <1>0, FailEnds
  <2> QED BY <2>1, <2>2, RequestCleanupEnds, SharedIsKept
<1> QED BY <1>1, <1>2, <1>3, <1>4, <1>5

\* Every step keeps the sizes, the types and the truth.
LEMMA NextKeeps == Informed /\ [Next]_vars => Kept(core', shared')
<1> SUFFICES ASSUME Informed, [Next]_vars PROVE Kept(core', shared')
  OBVIOUS
<1>0. Fit(core) /\ Messages /\ "failed" \in Terminal \ {"none"}
  BY DEF Informed, Terminal
<1>1. CASE ObserveWake
  BY <1>0, <1>1, ResyncAfterSuspendFollows, CoreIsKept DEF ObserveWake, CoreStep
<1>2. CASE CleanUp
  <2>1. Follows(core, core')
    BY <1>0, <1>2, GracefulShutdownFollows, FollowsSame DEF CleanUp, CoreStep
  <2> QED BY <1>2, <2>1, CoreIsKept DEF CleanUp
<1>3. CASE DriverEnds \/ AbortDriver
  BY <1>0, <1>3, ForceDestroyFollows, CoreIsKept DEF DriverEnds, AbortDriver, CoreStep
<1>4. CASE Pump
  <2>1. PICK ops \in {{}} \cup {{o} : o \in {x \in Operation : HasOperation(core, x)}},
             due \in SUBSET core.armed : core' = Poll(core, ops, due)
    BY <1>4 DEF Pump, CoreStep
  <2>2. ops \in SUBSET Operation /\ \A o \in ops : HasOperation(core, o)
    OBVIOUS
  <2>3. shared' = shared
    BY <1>4 DEF Pump
  <2> QED BY <1>0, <2>1, <2>2, <2>3, PollFollows, CoreIsKept
<1>5. CASE SendControls \/ SendFails
  BY <1>5, SendingIsKept
<1>6. CASE HandleEvents
  BY <1>6, HandlingIsKept
<1>7. CASE Receive
  <2>1. PICK r \in replies, kind \in Kind, alive \in BOOLEAN :
             /\ HasOperation(core, r.op)
             /\ core' = InputStun(core, r.op, kind, alive)
    BY <1>7 DEF Receive, CoreStep
  <2>2. r.op \in Operation
    BY <1>0, <2>1 DEF Messages, Reply
  <2>3. shared' = shared
    BY <1>7 DEF Receive
  <2> QED BY <1>0, <2>1, <2>2, <2>3, InputStunFollows, CoreIsKept
<1>8. CASE StartAllocation
  <2>1. CASE core.destroyed \/ core.shutdown \/ core.state # "null"
    BY <1>0, <1>8, <2>1, OwnerIsKept DEF StartAllocation
  <2>2. CASE ~(core.destroyed \/ core.shutdown \/ core.state # "null")
    <3>1. /\ core' = StartOperation(SetState(core, "allocating"), "Allocate", FALSE, 0)
          /\ shared' = [shared EXCEPT !.done = "none"]
      BY <1>8, <2>2 DEF StartAllocation, CoreStep
    <3>2. Follows(core, core')
      BY <1>0, <2>2, <3>1, StartAllocationFollows
    <3>3. Typed(shared') /\ shared'.gate = shared.gate /\ (Over(shared') <=> Over(shared))
      BY <3>1, MarksTyped DEF Informed
    <3> QED BY <3>2, <3>3, FollowsIsKept DEF Informed
  <2> QED BY <2>1, <2>2
<1>9. CASE PrepareChannel \/ StartChannel
  <2>1. PICK from \in {"connected", "permitted"}, op \in {"Permission", "Channel"} :
             \E to : StartBinding(from, op, to)
    BY <1>9 DEF PrepareChannel, StartChannel
  <2>2. CASE CoreReady
    <3>1. /\ core' = StartOperation(core, op, TRUE, 0) /\ core.state = "ready"
          /\ shared' = [shared EXCEPT !.done = "none"] \/ shared' = shared
      BY <2>1, <2>2 DEF StartBinding, CoreStep, CoreReady
    <3>2. Follows(core, core')
      BY <1>0, <3>1, StartBindingFollows
    <3>3. Typed(shared') /\ shared'.gate = shared.gate /\ (Over(shared') <=> Over(shared))
      BY <3>1, MarksTyped DEF Informed
    <3> QED BY <3>2, <3>3, FollowsIsKept DEF Informed
  <2>3. CASE ~CoreReady
    BY <1>0, <2>1, <2>3, OwnerIsKept DEF StartBinding
  <2> QED BY <2>2, <2>3
<1>10. CASE OwnerShutdown
  BY <1>0, <1>10, GracefulShutdownFollows, CoreIsKept DEF OwnerShutdown, CoreStep
<1>11. CASE \/ GoOn \/ SkipCleanUp \/ Wake \/ ReceiveFails \/ OwnerClosed
            \/ Connected \/ Bound \/ SeesFailure \/ RequestClose
            \/ ConnectTimesOut \/ Cancel
            \/ ServerTakes \/ ServerForgets \/ Lose \/ WakeSignal
  <2>1. /\ core' = core
        /\ \/ shared' = shared
           \/ shared' = [shared EXCEPT !.done = "none"]
           \/ shared' = Fail(shared, "failed")
           \/ shared' = RequestCleanup(shared)
           \/ shared' = RequestCleanup(Fail(shared, "failed"))
    BY <1>11 DEF GoOn, SkipCleanUp, Wake, ReceiveFails, OwnerClosed, Connected, Bound,
                 SeesFailure, RequestClose, ConnectTimesOut, Cancel, ServerTakes,
                 ServerForgets, Lose, WakeSignal
  <2> QED BY <1>0, <2>1, OwnerIsKept
<1>12. CASE UNCHANGED vars
  BY <1>12, OwnerIsKept DEF vars
<1> QED
  BY <1>1, <1>2, <1>3, <1>4, <1>5, <1>6, <1>7, <1>8, <1>9, <1>10, <1>11, <1>12
     DEF Next, Driver, Owner

\* The driver and the owner stay among their steps.
LEMMA NextSteps == Steps /\ [Next]_vars => Steps'
<1> SUFFICES ASSUME Steps, [Next]_vars PROVE Steps'
  OBVIOUS
<1>1. CASE \/ ObserveWake \/ GoOn \/ CleanUp \/ SkipCleanUp \/ DriverEnds \/ Pump
           \/ SendControls \/ Wake
  BY <1>1 DEF Steps, ObserveWake, GoOn, CleanUp, SkipCleanUp, DriverEnds, Pump,
              SendControls, Wake
<1>2. CASE HandleEvents \/ SendFails
  <2>1. own' = own /\ (dpc' = "top" \/ \E s : PumpError(s))
    BY <1>2 DEF HandleEvents, SendFails
  <2> QED BY <2>1 DEF Steps, PumpError
<1>3. CASE Receive \/ ReceiveFails \/ OwnerClosed \/ ServerTakes \/ ServerForgets \/ Lose
           \/ WakeSignal \/ AbortDriver
  BY <1>3 DEF Steps, Receive, ReceiveFails, OwnerClosed, ServerTakes, ServerForgets, Lose,
              WakeSignal, AbortDriver
<1>4. CASE Owner \/ ConnectTimesOut \/ Cancel
  BY <1>4 DEF Steps, InUse, Owner, StartAllocation, Connected, PrepareChannel, StartChannel,
              StartBinding, Bound, SeesFailure, RequestClose, OwnerShutdown,
              ConnectTimesOut, Cancel
<1>5. CASE UNCHANGED vars
  BY <1>5 DEF Steps, vars
<1> QED BY <1>1, <1>2, <1>3, <1>4, <1>5 DEF Next, Driver

\* The invariant of core and session.
LEMMA InformedAlways == Spec => []Informed
<1>1. Init => Informed
  <2> SUFFICES ASSUME Init PROVE Informed
    OBVIOUS
  <2>1. /\ core.state = "null" /\ core.armed = {} /\ core.events = <<>> /\ core.controls = <<>>
        /\ core.pending = NonePending /\ core.failures = 0 /\ core.channel = FALSE
        /\ shared.gate = FALSE
    BY DEF Init, NonePending
  <2>2. /\ <<>> \in Seq(Packet) /\ <<>> \in Seq(EventRec) /\ Len(<<>>) = 0
        /\ 0 <= ControlCapacity /\ 0 <= EventCapacity /\ 0 \in 0 .. MaxChannelFailures
        /\ 0 < MaxChannelFailures /\ NonePending \in [Operation -> Counted]
    BY TurnAssumption DEF NonePending, Idle, Counted
  <2>3. Sized(core)
    BY <2>1, <2>2 DEF Sized, CoreState
  <2>4. \A o \in Operation : ~HasOperation(core, o)
    BY <2>1, NothingPending
  <2>5. Steady(core)
    BY <2>1, <2>2, <2>4 DEF Steady, Operation
  <2>6. Typed(shared) /\ Steps /\ Messages
    BY DEF Init, Typed, SharedFields, CoreState, Terminal, Steps, Messages
  <2>7. Aware(core, shared)
    <3>1. ~Gates(FALSE, <<>>)
      BY DEF Gates
    <3> QED BY <2>1, <3>1 DEF Aware, Frank
  <2> QED BY <2>3, <2>5, <2>6, <2>7, InitIsGood DEF Informed, Fit
<1>2. Informed /\ [Next]_vars => Informed'
  BY NextKeeps, NextSteps, NextPreserves, NextMessages DEF Informed, Fit, Kept, Preserves
<1> QED BY <1>1, <1>2, PTL DEF Spec

\* For every capacity, every number of transmissions, nonces and failures, and
\* every number of faults: whatever the queues dropped and in whatever order
\* binding, teardown, wake-up and shutdown met, the owner only sends over a
\* channel the core has, hears of the end, and all fields keep their ranges
\* (push_event, pump_native, DriverShared).
THEOREM OwnerIsInformedHolds == Spec => []OwnerIsInformed
<1>1. Informed => OwnerIsInformed
  <2> SUFFICES ASSUME Informed PROVE OwnerIsInformed
    OBVIOUS
  <2>1. TypeOK
    BY DEF TypeOK, Informed, Fit, Sized, Counted, Messages, Steps, Typed, Terminal
  <2>2. ASSUME Settled, ~Over(shared)
        PROVE  (shared.gate = TRUE => core.channel) /\ core.state # "destroying"
    <3>1. ~Fails(<<>>) /\ ~Dies(<<>>) /\ (shared.gate = TRUE => Gates(shared.gate, <<>>))
      BY DEF Fails, Dies, Gates
    <3> QED BY <2>2, <3>1 DEF Informed, Aware, Frank, Settled
  <2>3. /\ Over(shared) <=> shared.closing \/ shared.terminal # "none"
        /\ shared.gate = TRUE <=> shared.gate
    BY DEF Informed, Typed, Over
  <2>4. SendsOnlyWhenBound
    BY <2>2, <2>3 DEF SendsOnlyWhenBound, MaySend
  <2>5. EndIsTold
    BY <2>2, <2>3 DEF EndIsTold
  <2> QED BY <2>1, <2>4, <2>5 DEF OwnerIsInformed
<1> QED BY <1>1, InformedAlways, PTL

-----------------------------------------------------------------------------
(* What the server holds.                                                  *)

GoneState == {"deallocated", "destroying"}

\* The core has given up its allocation, or is about to.
Gone(c) == c.state \in GoneState
Closing(c) == c.state \in GoneState \cup {"deallocating"}

\* The packets waiting to be sent.
Queued(c) == {c.controls[i] : i \in DOMAIN c.controls}

\* This event tells that the allocation is given up.
Tells(e) == e.kind = "state" /\ e.what \in GoneState

\* The driver has yet to hear it.
News(c) == \E i \in DOMAIN c.events : Tells(c.events[i])

\* Which requests a core has when nothing has gone wrong.
Orderly(c) ==
    /\ \A o \in Maintenance : HasOperation(c, o) => c.state = "ready"
    /\ \A o \in Operation \ {"Allocate"} : HasOperation(c, o) => c.pending[o].authed
    /\ \A o \in {"Allocate", "Deallocate"} : o \in Queued(c) => HasOperation(c, o)
    /\ News(c) => Gone(c)
    /\ c.state = "destroying" /\ ~c.destroyed => "expires" \notin c.armed
    /\ c.state = "deallocating" => c.shutdown

\* The queues of d say no more than those of c, the packets of ops apart.
Hush(c, d, ops) == Queued(d) \subseteq Queued(c) \cup ops /\ (News(d) => News(c))

\* Saying no more is transitive.
LEMMA HushTwice ==
    ASSUME NEW c, NEW d, NEW e, NEW x, NEW y, Hush(c, d, x), Hush(d, e, y)
    PROVE  Hush(c, e, x \cup y)
  BY DEF Hush

\* Other queues alike.
LEMMA HushSame ==
    ASSUME NEW c, NEW d, d.controls = c.controls, d.events = c.events PROVE Hush(c, d, {})
  BY DEF Hush, Queued, News

\* What a queue holds after an append, and after its head is taken.
LEMMA AppendHolds ==
    ASSUME NEW S, NEW q \in Seq(S), NEW p \in S
    PROVE  /\ \A i \in DOMAIN Append(q, p) : Append(q, p)[i] = p \/ \E j \in DOMAIN q : Append(q, p)[i] = q[j]
           /\ q # <<>> => \A i \in DOMAIN Tail(q) : \E j \in DOMAIN q : Tail(q)[i] = q[j]
<1>1. ASSUME NEW i \in DOMAIN Append(q, p)
      PROVE  Append(q, p)[i] = p \/ \E j \in DOMAIN q : Append(q, p)[i] = q[j]
  <2>1. i \in 1 .. Len(q) + 1 /\ Len(q) \in Nat /\ DOMAIN q = 1 .. Len(q)
    OBVIOUS
  <2>2. CASE i = Len(q) + 1
    BY <2>2
  <2>3. CASE i \in DOMAIN q
    BY <2>3
  <2> QED BY <2>1, <2>2, <2>3
<1>2. ASSUME q # <<>>, NEW i \in DOMAIN Tail(q)
      PROVE  \E j \in DOMAIN q : Tail(q)[i] = q[j]
  <2>1. i + 1 \in DOMAIN q /\ Tail(q)[i] = q[i + 1]
    BY <1>2
  <2> QED BY <2>1
<1> QED BY <1>1, <1>2

\* push_event says what it is given, and nothing else.
LEMMA PushEventHush ==
    ASSUME NEW c, Shape(c), Sized(c), NEW e \in EventRec
    PROVE  LET d == PushEvent(c, e)
           IN  d.controls = c.controls /\ (News(d) => News(c) \/ Tells(e))
<1> DEFINE o == Event("eventOverflow", "none", "failed")
           x == IF Len(c.events) = EventCapacity THEN Append(Tail(c.events), o)
                                                 ELSE Append(c.events, e)
           d == [c EXCEPT !.events = x]
<1>1. PushEvent(c, e) = d
  BY DEF PushEvent
<1>2. d.controls = c.controls /\ d.events = x
  BY DEF Shape, Fields
<1>3. ASSUME NEW i \in DOMAIN x, Tells(x[i])
      PROVE  News(c) \/ Tells(e)
  <2>1. c.events \in Seq(EventRec) /\ o \in EventRec /\ ~Tells(o)
    BY DEF Sized, Event, EventRec, Result, Tells
  <2> HIDE DEF o
  <2>2. CASE Len(c.events) = EventCapacity
    <3>1. c.events # <<>>
      BY <2>1, <2>2, TurnAssumption
    <3> DEFINE t == Tail(c.events)
    <3>2. t \in Seq(EventRec) /\ \A k \in DOMAIN t : \E j \in DOMAIN c.events : t[k] = c.events[j]
      BY <2>1, <3>1, AppendHolds
    <3> HIDE DEF t
    <3>3. x = Append(t, o)
      BY <2>2 DEF t
    <3> HIDE DEF x
    <3>4. x[i] = o \/ \E j \in DOMAIN t : x[i] = t[j]
      <4>1. i \in DOMAIN Append(t, o) /\ x[i] = Append(t, o)[i]
        BY <3>3
      <4> QED BY <2>1, <3>2, <4>1, AppendHolds
    <3> QED BY <1>3, <2>1, <3>2, <3>4 DEF News
  <2>3. CASE Len(c.events) # EventCapacity
    <3>1. x = Append(c.events, e)
      BY <2>3
    <3> HIDE DEF x
    <3>2. x[i] = e \/ \E j \in DOMAIN c.events : x[i] = c.events[j]
      <4>1. i \in DOMAIN Append(c.events, e) /\ x[i] = Append(c.events, e)[i]
        BY <3>1
      <4> QED BY <2>1, <4>1, AppendHolds
    <3> QED BY <1>3, <3>2 DEF News
  <2> QED BY <2>2, <2>3
<1> HIDE DEF x, d
<1> QED BY <1>1, <1>2, <1>3 DEF News

\* queue_packet queues the packet it is given, at most instead of an older one.
LEMMA QueuePacketHush ==
    ASSUME NEW c, Shape(c), Sized(c), NEW p \in Packet
    PROVE  Hush(c, QueuePacket(c, p), {p})
<1> DEFINE e == Event("controlOverflow", "none", "failed")
           t == Tail(c.controls)
           a == [c EXCEPT !.controls = t]
           b == PushEvent(a, e)
           room == IF Len(c.controls) = ControlCapacity THEN b ELSE c
           z == Append(room.controls, p)
<1>1. c.controls \in Seq(Packet) /\ Len(c.controls) <= ControlCapacity
  BY DEF Sized
<1>2. QueuePacket(c, p) = [room EXCEPT !.controls = z]
  BY DEF QueuePacket
<1>3. /\ Shape(room) /\ (News(room) => News(c)) /\ room.controls \in Seq(Packet)
      /\ \A i \in DOMAIN room.controls : room.controls[i] \in Queued(c)
  <2>1. CASE Len(c.controls) = ControlCapacity
    <3>1. c.controls # <<>>
      BY <1>1, <2>1, TurnAssumption
    <3>2. /\ t \in Seq(Packet) /\ Len(t) <= ControlCapacity
          /\ \A i \in DOMAIN t : t[i] \in Queued(c)
      <4>1. t \in Seq(Packet) /\ Len(t) = Len(c.controls) - 1
        BY <1>1, <3>1
      <4>2. \A i \in DOMAIN t : \E j \in DOMAIN c.controls : t[i] = c.controls[j]
        BY <1>1, <3>1, AppendHolds
      <4> HIDE DEF t
      <4> QED BY <1>1, <2>1, <4>1, <4>2, TurnAssumption DEF Queued
    <3> HIDE DEF t
    <3>3. Shape(a) /\ Sized(a) /\ a.controls = t /\ a.events = c.events
      <4>1. Shape(a) /\ Sized(a)
        BY <3>2, ControlsKeep, ControlsDiscreet DEF Keeps, Discreet
      <4> QED BY <4>1 DEF Shape, Fields
    <3> HIDE DEF a
    <3>4. e \in EventRec /\ ~Tells(e)
      BY DEF Event, EventRec, Result, Tells
    <3> HIDE DEF e
    <3>5. Shape(b) /\ b.controls = a.controls /\ (News(b) => News(a))
      BY <3>3, <3>4, PushEventKeeps, PushEventHush DEF Keeps
    <3> HIDE DEF b
    <3>6. News(a) => News(c)
      BY <3>3 DEF News
    <3> QED BY <2>1, <3>2, <3>3, <3>5, <3>6
  <2>2. CASE Len(c.controls) # ControlCapacity
    BY <1>1, <2>2 DEF Queued
  <2> QED BY <2>1, <2>2
<1> HIDE DEF room
<1>4. \A i \in DOMAIN z : z[i] = p \/ \E j \in DOMAIN room.controls : z[i] = room.controls[j]
  BY <1>3, AppendHolds
<1> HIDE DEF z
<1>5. LET d == [room EXCEPT !.controls = z] IN d.controls = z /\ d.events = room.events
  BY <1>3 DEF Shape, Fields
<1> DEFINE d == [room EXCEPT !.controls = z]
<1>6. d.controls = z /\ d.events = room.events /\ QueuePacket(c, p) = d
  BY <1>2, <1>5
<1> HIDE DEF d
<1>7. Queued(d) \subseteq Queued(c) \cup {p}
  BY <1>3, <1>4, <1>6 DEF Queued
<1>8. News(d) => News(room)
  BY <1>6 DEF News
<1> QED BY <1>3, <1>6, <1>7, <1>8 DEF Hush

\* set_state tells the state.
LEMMA SetStateHush ==
    ASSUME NEW c, Shape(c), Sized(c), NEW s \in CoreState
    PROVE  LET d == SetState(c, s)
           IN  d.controls = c.controls /\ (News(d) => News(c) \/ s \in GoneState)
<1> DEFINE a == [c EXCEPT !.state = s]
           e == Event("state", s, "ok")
<1>1. CASE c.state = s
  BY <1>1 DEF SetState
<1>2. CASE c.state # s
  <2>1. /\ Shape(a) /\ a.state = s /\ a.events = c.events /\ a.controls = c.controls
        /\ a.failures = c.failures /\ a.armed = c.armed /\ a.pending = c.pending
    BY DEF Shape, Fields
  <2>2. SetState(c, s) = PushEvent(a, e)
    BY <1>2 DEF SetState
  <2>3. e \in EventRec /\ (Tells(e) => s \in GoneState)
    BY DEF Event, EventRec, Result, Tells
  <2> HIDE DEF a, e
  <2>4. Sized(a) /\ (News(a) => News(c))
    BY <2>1 DEF Sized, News
  <2> QED BY <2>1, <2>2, <2>3, <2>4, PushEventHush
<1> QED BY <1>1, <1>2

\* What an event other than a state does to a core.
Mute(c, d) == Keeps(c, d) /\ Sized(d) /\ d.failures = c.failures /\ Hush(c, d, {})

\* Leaving a core as it is says nothing.
LEMMA MuteSame == ASSUME NEW c, Shape(c), Sized(c) PROVE Mute(c, c)
  BY DEF Mute, Keeps, SameFlags, Hush

\* push_event with an event that does not tell of the end.
LEMMA PushEventMute ==
    ASSUME NEW c, Shape(c), Sized(c), NEW e \in EventRec, ~Tells(e) PROVE Mute(c, PushEvent(c, e))
<1> DEFINE d == PushEvent(c, e)
<1>1. Keeps(c, d) /\ Sized(d) /\ d.failures = c.failures
  BY PushEventKeeps, PushEventSays
<1>2. d.controls = c.controls /\ (News(d) => News(c))
  BY PushEventHush
<1> HIDE DEF d
<1>3. Hush(c, d, {})
  BY <1>2 DEF Hush, Queued
<1> QED BY <1>1, <1>3 DEF Mute, d

\* push_completion tells of a request, never of the end.
LEMMA CompleteMute ==
    ASSUME NEW c, Shape(c), Sized(c), NEW op \in Operation, NEW r \in Result
    PROVE  Mute(c, Complete(c, op, r))
<1> DEFINE e == Event("complete", Method(op), r)
<1>1. e \in EventRec /\ ~Tells(e)
  BY DEF Event, EventRec, Method, Operation, Tells
<1> HIDE DEF e
<1>2. Complete(c, op, r) = PushEvent(c, e)
  BY DEF Complete, e
<1> QED BY <1>1, <1>2, PushEventMute

\* An orderly core stays so when it is mute.
LEMMA MuteIsOrderly ==
    ASSUME NEW c, NEW d, Orderly(c), Mute(c, d) PROVE Orderly(d)
<1>1. \A o : HasOperation(d, o) <=> HasOperation(c, o)
  BY DEF HasOperation, Mute, Keeps
<1>2. Gone(d) <=> Gone(c)
  BY DEF Gone, Mute, Keeps
<1> QED BY <1>1, <1>2 DEF Orderly, Mute, Keeps, SameFlags, Hush

\* The packets of a finished transaction leave the queue.
LEMMA RemoveTransactionHush ==
    ASSUME NEW c, Shape(c), Sized(c), NEW op \in Operation
    PROVE  LET d == RemoveTransaction(c, op)
           IN  Hush(c, d, {}) /\ op \notin Queued(d)
<1> DEFINE q == Without(c.controls, op)
           x == [c.pending EXCEPT ![op] = Idle]
           d == [c EXCEPT !.pending = x, !.controls = q]
<1>1. RemoveTransaction(c, op) = d
  BY DEF RemoveTransaction, Shape, Fields
<1>2. \A i \in DOMAIN q : q[i] \in Queued(c) \ {op}
  <2>1. c.controls \in Seq(Queued(c))
    <3>1. c.controls \in Seq(Packet)
      BY DEF Sized
    <3> QED BY <3>1 DEF Queued
  <2>2. q \in Seq(Queued(c) \ {op})
    BY <2>1, WithoutIsShorter
  <2> HIDE DEF q
  <2> QED BY <2>2
<1> HIDE DEF q, x
<1>3. d.controls = q /\ d.events = c.events
  BY DEF Shape, Fields
<1> HIDE DEF d
<1> QED BY <1>1, <1>2, <1>3 DEF Hush, Queued, News

\* start_operation queues its own request.
LEMMA StartOperationHush ==
    ASSUME NEW c, Shape(c), Sized(c), NEW op \in Operation, NEW authed \in BOOLEAN,
           NEW n \in Nat
    PROVE  Hush(c, StartOperation(c, op, authed, n), {op})
<1> DEFINE q == QueuePacket(c, op)
           t == [sent |-> 1, retries |-> n, authed |-> authed]
           x == [q.pending EXCEPT ![op] = t]
           d == [q EXCEPT !.pending = x]
<1>1. Shape(q) /\ Hush(c, q, {op}) /\ Hush(c, c, {op})
  BY QueuePacketKeeps, QueuePacketHush DEF Keeps, Hush, Packet
<1>2. StartOperation(c, op, authed, n) \in {c, q, d}
  <2>1. q = [f \in Fields |-> q[f]]
    BY <1>1 DEF Shape
  <2> QED BY <1>1 DEF StartOperation, Shape, Fields
<1>3. d.controls = q.controls /\ d.events = q.events
  <2> HIDE DEF q, x
  <2> QED BY <1>1 DEF Shape, Fields
<1> HIDE DEF q, d
<1>4. Hush(c, d, {op})
  BY <1>1, <1>3 DEF Hush, Queued, News
<1> QED BY <1>1, <1>2, <1>4

\* A core that has given up its allocation for good.
Dead(c) ==
    /\ Gone(c) /\ \A o \in Operation : ~HasOperation(c, o)
    /\ \A o \in {"Allocate", "Deallocate"} : o \notin Queued(c)
    /\ c.state = "destroying" /\ ~c.destroyed => "expires" \notin c.armed

\* Such a core is orderly.
LEMMA DeadIsOrderly == ASSUME NEW c, Dead(c) PROVE Orderly(c)
<1>1. Gone(c) /\ c.state \in GoneState
  BY DEF Dead, Gone
<1>2. c.state # "deallocating"
  BY <1>1 DEF GoneState
<1>3. \A o \in Operation : ~HasOperation(c, o)
  BY DEF Dead
<1>4. Maintenance \subseteq Operation
  BY DEF Maintenance, Operation
<1> QED BY <1>1, <1>2, <1>3, <1>4 DEF Orderly, Dead

\* destroy_allocation gives the allocation up for good.
LEMMA DestroyAllocationDies ==
    ASSUME NEW c, Shape(c), Sized(c), NEW op \in Operation, NEW r \in Result
    PROVE  LET d == DestroyAllocation(c, op, r)
           IN  Dead(d) /\ d.failures = c.failures
<1> DEFINE m == Complete(c, op, r)
           a == [m EXCEPT !.controls = <<>>, !.pending = NonePending,
                          !.channel = FALSE, !.relay = FALSE, !.armed = {}]
           s == IF op = "Deallocate" THEN "deallocated" ELSE "destroying"
           d == SetState(a, s)
<1>1. d = DestroyAllocation(c, op, r)
  BY DEF DestroyAllocation, NonePending
<1>2. Keeps(c, m) /\ Discreet(c, m)
  BY CompleteKeeps, CompleteDiscreet
<1> HIDE DEF m
<1>3. /\ Shape(a) /\ a.pending = NonePending /\ a.state = c.state
      /\ a.events = m.events /\ a.failures = m.failures /\ a.armed = {} /\ a.controls = <<>>
  BY <1>2, NothingPending DEF Keeps, Shape, SameFlags, Fields
<1> HIDE DEF a
<1>4. Sized(a)
  <2>1. NonePending \in [Operation -> Counted]
    BY TurnAssumption DEF NonePending, Idle, Counted
  <2>2. <<>> \in Seq(Packet) /\ Len(<<>>) <= ControlCapacity
    BY TurnAssumption
  <2> QED BY <1>2, <1>3, <2>1, <2>2 DEF Sized, Discreet
<1>5. s \in CoreState /\ s \in GoneState
  BY DEF CoreState, GoneState
<1> HIDE DEF s
<1>6. /\ d.state = s /\ d.pending = NonePending /\ d.armed = {}
      /\ Discreet(a, d) /\ d.controls = a.controls
  BY <1>3, <1>4, <1>5, SetStateChanges, SetStateTells, SetStateHush
<1> HIDE DEF d
<1>7. \A o \in Operation : ~HasOperation(d, o)
  BY <1>6, NothingPending
<1>8. Queued(d) = {}
  BY <1>3, <1>6 DEF Queued
<1>9. Dead(d)
  BY <1>5, <1>6, <1>7, <1>8 DEF Dead, Gone
<1> QED BY <1>1, <1>2, <1>3, <1>6, <1>9 DEF Discreet

\* destroy_after_channel_rebind_exhausted leaves the count of failures.
LEMMA ExhaustedCounts ==
    ASSUME NEW c, Shape(c), Sized(c)
    PROVE  DestroyAfterChannelRebindExhausted(c).failures = c.failures
<1> DEFINE x == c.armed \cap {"refresh", "expires"}
           a == [c EXCEPT !.controls = <<>>, !.pending = NonePending,
                          !.channel = FALSE, !.armed = x]
           e == Event("exhausted", "none", "failed")
           b == PushEvent(a, e)
           d == SetState(b, "destroying")
<1>1. d = DestroyAfterChannelRebindExhausted(c)
  BY DEF DestroyAfterChannelRebindExhausted, NonePending, Shape, Fields
<1>2. x \subseteq Timer
  BY DEF Sized
<1> HIDE DEF x
<1>3. /\ Shape(a) /\ a.pending = NonePending /\ a.state = c.state
      /\ a.events = c.events /\ a.failures = c.failures /\ a.armed = x /\ a.controls = <<>>
  BY NothingPending DEF Shape, Fields
<1> HIDE DEF a
<1>4. Sized(a)
  <2>1. NonePending \in [Operation -> Counted]
    BY TurnAssumption DEF NonePending, Idle, Counted
  <2>2. <<>> \in Seq(Packet) /\ Len(<<>>) <= ControlCapacity
    BY TurnAssumption
  <2> QED BY <1>2, <1>3, <2>1, <2>2 DEF Sized
<1>5. e \in EventRec
  BY DEF Event, EventRec, Result
<1> HIDE DEF e
<1>6. Shape(b) /\ Sized(b) /\ b.failures = a.failures
  BY <1>3, <1>4, <1>5, PushEventKeeps, PushEventSays DEF Keeps
<1> HIDE DEF b
<1>7. d.failures = b.failures
  BY <1>6, SetStateTells DEF Discreet, CoreState
<1> QED BY <1>1, <1>3, <1>6, <1>7

\* The way c leaves an orderly core may take: exhausted, dead, or d as it was
\* but for its deadlines.
Outcome(c, d) ==
    \/ d.failures = MaxChannelFailures
    \/ Dead(d) /\ d.failures = c.failures
    \/ /\ Orderly(d) /\ d.state = c.state /\ d.pending = c.pending
       /\ c.failures # MaxChannelFailures

\* A request that failed in time ends the allocation only if it was not one of
\* maintenance.
LEMMA CompleteFailureOutcome ==
    ASSUME NEW c, NEW op \in Operation, Removed(c, op), Sized(c), Steady(c), Orderly(c),
           NEW r \in Result
    PROVE  LET d == CompleteFailure(c, op, r, TRUE)
           IN  /\ Outcome(c, d)
               /\ op \in Maintenance /\ c.state = "ready" =>
                     d.failures = MaxChannelFailures \/ d.state = "ready"
<1> DEFINE retry == op \in Maintenance /\ c.state = "ready" /\ "expires" \in c.armed
           n == IF op = "Channel" THEN c.failures + 1 ELSE c.failures
           m == Complete(c, op, r)
           k == [m EXCEPT !.failures = n]
           x == k.armed \cup {RetryTimer(op)}
           d == [k EXCEPT !.armed = x]
           gone == DestroyAfterChannelRebindExhausted(k)
<1>0. Shape(c) /\ (op \in Maintenance /\ c.state = "ready" => retry)
  BY DEF Removed, Startable
<1>1. CASE ~retry
  <2>1. CompleteFailure(c, op, r, TRUE) = DestroyAllocation(c, op, r)
    BY <1>1 DEF CompleteFailure
  <2> QED BY <1>0, <1>1, <2>1, DestroyAllocationDies DEF Outcome
<1>2. CASE retry
  <2>1. CompleteFailure(c, op, r, TRUE) =
            IF op = "Channel" /\ n >= MaxChannelFailures THEN gone ELSE d
    BY <1>2 DEF CompleteFailure
  <2>2. Mute(c, m)
    BY <1>0, CompleteMute
  <2>3. n \in 0 .. MaxChannelFailures /\ c.failures # MaxChannelFailures
    BY <1>2, TurnAssumption DEF Sized, Steady
  <2> HIDE DEF m, n
  <2>4. /\ Shape(k) /\ k.failures = n /\ k.state = c.state /\ k.destroyed = c.destroyed
        /\ k.pending = c.pending /\ k.armed = c.armed /\ k.events = m.events
        /\ k.controls = m.controls /\ k.shutdown = c.shutdown
    BY <2>2 DEF Mute, Keeps, SameFlags, Shape, Fields
  <2> HIDE DEF k
  <2>5. Sized(k)
    BY <2>2, <2>3, <2>4 DEF Sized, Mute, Keeps
  <2>6. ASSUME op = "Channel" /\ n >= MaxChannelFailures
        PROVE  gone.failures = MaxChannelFailures
    <3>1. n = MaxChannelFailures
      BY <2>3, <2>6, TurnAssumption
    <3> QED BY <2>4, <2>5, <3>1, ExhaustedCounts
  <2>7. Orderly(d) /\ d.state = c.state /\ d.pending = c.pending
    <3>1. /\ d.state = c.state /\ d.pending = c.pending /\ d.events = m.events
          /\ d.controls = m.controls /\ d.shutdown = c.shutdown
      <4> HIDE DEF x
      <4> QED BY <2>4 DEF Shape, Fields
    <3> HIDE DEF d
    <3>2. \A o : HasOperation(d, o) <=> HasOperation(c, o)
      BY <3>1 DEF HasOperation
    <3>3. Queued(d) \subseteq Queued(c) /\ (News(d) => News(c)) /\ (Gone(d) <=> Gone(c))
      BY <2>2, <3>1 DEF Mute, Hush, Queued, News, Gone
    <3> QED BY <1>2, <3>1, <3>2, <3>3 DEF Orderly
  <2> HIDE DEF d, gone
  <2> QED BY <1>2, <2>1, <2>3, <2>6, <2>7 DEF Outcome
<1> QED BY <1>1, <1>2

\* A core stays orderly while its requests do, and its queues say no more.
LEMMA StaysOrderly ==
    ASSUME NEW c, NEW d, Orderly(c), Hush(c, d, {}), d.pending = c.pending,
           d.shutdown = c.shutdown, d.destroyed = c.destroyed,
           \/ d.state = c.state /\ (c.state = "destroying" => d.armed = c.armed)
           \/ /\ c.state \in {"null", "allocating"} /\ d.state \in {"allocating", "ready", "deallocating"}
              /\ d.state = "deallocating" => c.shutdown
    PROVE  Orderly(d)
<1>1. \A o : HasOperation(d, o) <=> HasOperation(c, o)
  BY DEF HasOperation
<1>2. Queued(d) \subseteq Queued(c) /\ (News(d) => News(c))
  BY DEF Hush
<1>3. CASE d.state = c.state /\ (c.state = "destroying" => d.armed = c.armed)
  BY <1>1, <1>2, <1>3 DEF Orderly, Gone
<1>4. CASE /\ c.state \in {"null", "allocating"}
           /\ d.state \in {"allocating", "ready", "deallocating"}
           /\ d.state = "deallocating" => c.shutdown
  <2>1. ~News(c) /\ \A o \in Maintenance : ~HasOperation(c, o)
    BY <1>4 DEF Orderly, Gone, GoneState
  <2> QED BY <1>1, <1>2, <1>4, <2>1 DEF Orderly
<1> QED BY <1>3, <1>4

\* A request has been started, or already was under way.
Started(c, d, op, authed) ==
    /\ Orderly(d) /\ d.state = c.state /\ d.failures = c.failures
    /\ HasOperation(d, op) /\ Hush(c, d, {op})
    /\ \A o \in Operation : o # op => d.pending[o] = c.pending[o]
    /\ ~HasOperation(c, op) => d.pending[op].authed = authed

\* start_operation keeps a core orderly if the request belongs to its state and,
\* Allocate apart, carries credentials.
LEMMA StartIsOrderly ==
    ASSUME NEW c, Shape(c), Sized(c), Orderly(c), NEW op \in Operation,
           op \in Maintenance => c.state = "ready",
           NEW authed \in BOOLEAN, op = "Allocate" \/ authed = TRUE, NEW n \in 0 .. MaxNonceRetries
    PROVE  Started(c, StartOperation(c, op, authed, n), op, authed)
<1> DEFINE d == StartOperation(c, op, authed, n)
           t == [sent |-> 1, retries |-> n, authed |-> authed]
<1>0. n \in Nat
  BY TurnAssumption
<1>1. /\ SameFlags(c, d) /\ d.state = c.state /\ d.armed = c.armed
      /\ d.pending = IF HasOperation(c, op) THEN c.pending ELSE [c.pending EXCEPT ![op] = t]
  BY <1>0, StartOperationChanges
<1>2. d.failures = c.failures /\ Hush(c, d, {op})
  BY <1>0, StartOperationDiscreet, StartOperationHush DEF Discreet
<1> HIDE DEF d
<1>3. /\ \A o \in Operation : o # op => d.pending[o] = c.pending[o]
      /\ IF HasOperation(c, op) THEN d.pending[op] = c.pending[op] ELSE d.pending[op] = t
  <2> HIDE DEF t
  <2> QED BY <1>1 DEF Shape, Pendings
<1>4. /\ \A o \in Operation : o # op => (HasOperation(d, o) <=> HasOperation(c, o))
      /\ HasOperation(d, op)
  BY <1>3 DEF HasOperation
<1>5. Queued(d) \subseteq Queued(c) \cup {op} /\ (News(d) => News(c))
  BY <1>2 DEF Hush
<1>6. d.pending[op].authed = IF HasOperation(c, op) THEN c.pending[op].authed ELSE authed
  BY <1>3
<1>7. Orderly(d)
  <2>1. \A o \in Maintenance : HasOperation(d, o) => d.state = "ready"
    BY <1>1, <1>4 DEF Orderly, Maintenance, Operation
  <2>2. \A o \in Operation \ {"Allocate"} : HasOperation(d, o) => d.pending[o].authed
    BY <1>3, <1>4, <1>6 DEF Orderly
  <2>3. \A o \in {"Allocate", "Deallocate"} : o \in Queued(d) => HasOperation(d, o)
    BY <1>4, <1>5 DEF Orderly, Operation
  <2> QED BY <1>1, <1>5, <2>1, <2>2, <2>3 DEF Orderly, Gone, SameFlags
<1> QED BY <1>1, <1>2, <1>3, <1>4, <1>6, <1>7 DEF d, Started

\* So does the Deallocate of a core that is closing.
LEMMA StartDeallocate ==
    ASSUME NEW c, Shape(c), Sized(c), Orderly(c)
    PROVE  Started(c, StartOperation(c, "Deallocate", TRUE, 0), "Deallocate", TRUE)
<1>1. /\ 0 \in 0 .. MaxNonceRetries /\ "Deallocate" \in Operation
      /\ "Deallocate" \notin Maintenance
  BY TurnAssumption DEF Operation, Maintenance
<1> QED BY <1>1, StartIsOrderly

\* The success of Allocate opens the core, or closes it if it was shut down.
LEMMA CompleteAllocateOutcome ==
    ASSUME NEW c, Shape(c), Sized(c), Orderly(c), c.state = "allocating",
           ~HasOperation(c, "Allocate")
    PROVE  LET d == CompleteAllocate(c)
           IN  /\ Orderly(d) /\ d.state \in {"ready", "deallocating"}
               /\ ~HasOperation(d, "Allocate") /\ d.failures = c.failures
<1> DEFINE x == c.armed \cup {"refresh", "expires", "maintenance", "keepalive"}
           a == [c EXCEPT !.relay = TRUE, !.armed = x]
           e == Event("relay", "none", "ok")
           k == PushEvent(a, e)
           s == SetState(k, "deallocating")
           y == SetState(k, "ready")
<1>1. CompleteAllocate(c) = IF c.shutdown THEN StartOperation(s, "Deallocate", TRUE, 0)
                            ELSE Complete(y, "Allocate", "ok")
  BY DEF CompleteAllocate, Shape, Fields
<1>2. /\ Shape(a) /\ Sized(a) /\ SameFlags(c, a) /\ a.pending = c.pending
      /\ a.state = c.state /\ a.failures = c.failures
      /\ a.events = c.events /\ a.controls = c.controls
  <2>1. x \subseteq Timer
    BY DEF Sized, Timer
  <2> HIDE DEF x
  <2>2. /\ Shape(a) /\ SameFlags(c, a) /\ a.pending = c.pending /\ a.armed = x
        /\ a.state = c.state /\ a.failures = c.failures
        /\ a.events = c.events /\ a.controls = c.controls
    BY DEF Shape, SameFlags, Fields
  <2> HIDE DEF a
  <2> QED BY <2>1, <2>2 DEF Sized
<1>3. e \in EventRec /\ ~Tells(e)
  BY DEF Event, EventRec, Result, Tells
<1> HIDE DEF a, e
<1>4. Mute(a, k) /\ Hush(c, a, {})
  BY <1>2, <1>3, PushEventMute, HushSame
<1> HIDE DEF k
<1>5. /\ Shape(k) /\ Sized(k) /\ SameFlags(c, k) /\ k.pending = c.pending
      /\ k.state = "allocating" /\ k.failures = c.failures /\ Hush(c, k, {})
  BY <1>2, <1>4, HushTwice DEF Mute, Keeps, SameFlags, Hush
<1>6. ASSUME NEW w \in {"deallocating", "ready"}, NEW d, d = SetState(k, w),
             w = "deallocating" => c.shutdown
      PROVE  /\ Shape(d) /\ Sized(d) /\ d.pending = c.pending /\ d.state = w
             /\ d.failures = c.failures /\ Orderly(d)
  <2>1. w \in CoreState /\ w \notin GoneState
    BY DEF CoreState, GoneState
  <2>2. /\ Shape(d) /\ SameFlags(k, d) /\ d.state = w /\ d.pending = k.pending
        /\ Sized(d) /\ d.failures = k.failures
        /\ d.controls = k.controls /\ (News(d) => News(k))
    BY <1>5, <1>6, <2>1, SetStateChanges, SetStateTells, SetStateHush DEF Discreet
  <2>3. Hush(c, d, {})
    BY <1>5, <2>2 DEF Hush, Queued
  <2>4. Orderly(d)
    BY <1>5, <1>6, <2>2, <2>3, StaysOrderly DEF SameFlags
  <2> QED BY <1>5, <2>2, <2>4
<1>7. CASE c.shutdown
  <2>1. /\ Shape(s) /\ Sized(s) /\ s.pending = c.pending /\ s.state = "deallocating"
        /\ s.failures = c.failures /\ Orderly(s)
    BY <1>6, <1>7
  <2> HIDE DEF s
  <2> DEFINE d == StartOperation(s, "Deallocate", TRUE, 0)
  <2>2. "Allocate" \in Operation /\ "Allocate" # "Deallocate"
    BY DEF Operation
  <2>3. Started(s, d, "Deallocate", TRUE)
    BY <2>1, StartDeallocate
  <2> HIDE DEF d
  <2>5. d.pending["Allocate"] = s.pending["Allocate"]
    BY <2>2, <2>3 DEF Started
  <2> QED BY <1>1, <1>7, <2>1, <2>3, <2>5 DEF d, HasOperation, Started
<1>8. CASE ~c.shutdown
  <2>1. /\ Shape(y) /\ Sized(y) /\ y.pending = c.pending /\ y.state = "ready"
        /\ y.failures = c.failures /\ Orderly(y)
    BY <1>6
  <2> HIDE DEF y
  <2> DEFINE d == Complete(y, "Allocate", "ok")
  <2>2. Mute(y, d)
    BY <2>1, CompleteMute DEF Operation, Result
  <2> HIDE DEF d
  <2>3. Orderly(d) /\ d.state = y.state /\ d.failures = y.failures /\ d.pending = y.pending
    BY <2>1, <2>2, MuteIsOrderly DEF Mute, Keeps
  <2> QED BY <1>1, <1>8, <2>1, <2>3 DEF d, HasOperation
<1> QED BY <1>7, <1>8

\* What is left of an orderly core without one of its transactions.
LEMMA RestIsOrderly ==
    ASSUME NEW c, Fit(c), Orderly(c), NEW op \in Operation, HasOperation(c, op)
    PROVE  LET d == RemoveTransaction(c, op)
           IN  /\ Orderly(d) /\ d.failures = c.failures /\ Hush(c, d, {})
               /\ op \notin Queued(d)
<1> DEFINE d == RemoveTransaction(c, op)
<1>1. /\ Shape(d) /\ SameFlags(c, d) /\ d.state = c.state /\ d.armed = c.armed
      /\ d.pending = [c.pending EXCEPT ![op] = Idle]
  BY RemoveTransactionChanges DEF Fit, Good
<1>2. d.failures = c.failures /\ Hush(c, d, {}) /\ op \notin Queued(d)
  BY RemoveTransactionDiscreet, RemoveTransactionHush DEF Fit, Good, Discreet
<1> HIDE DEF d
<1>3. /\ d.pending[op] = Idle
      /\ \A o \in Operation : o # op => d.pending[o] = c.pending[o]
  BY <1>1 DEF Fit, Good, Shape, Pendings
<1>4. /\ ~HasOperation(d, op)
      /\ \A o \in Operation : o # op => (HasOperation(d, o) <=> HasOperation(c, o))
  BY <1>3 DEF HasOperation, Idle
<1>5. Queued(d) \subseteq Queued(c) /\ (News(d) => News(c))
  BY <1>2 DEF Hush
<1>6. \A o \in Maintenance : HasOperation(d, o) => d.state = "ready"
  BY <1>1, <1>4 DEF Orderly, Maintenance, Operation
<1>7. \A o \in Operation \ {"Allocate"} : HasOperation(d, o) => d.pending[o].authed
  BY <1>3, <1>4 DEF Orderly
<1>8. \A o \in {"Allocate", "Deallocate"} : o \in Queued(d) => HasOperation(d, o)
  BY <1>2, <1>4, <1>5 DEF Orderly, Operation
<1>9. Orderly(d)
  BY <1>1, <1>5, <1>6, <1>7, <1>8 DEF Orderly, Gone, SameFlags
<1> QED BY <1>2, <1>9 DEF d

\* The success of maintenance leaves the core ready and counts no failure.
LEMMA MaintenanceOutcome ==
    ASSUME NEW c, Shape(c), Sized(c), Orderly(c), NEW op \in Maintenance, c.state = "ready"
    PROVE  LET d == CompleteSuccess(c, op)
           IN  /\ Orderly(d) /\ d.state = "ready" /\ d.pending = c.pending
               /\ d.failures = IF op = "Channel" THEN 0 ELSE c.failures
<1>0. op \in Operation /\ op # "Allocate" /\ op # "Deallocate"
  BY DEF Operation, Maintenance
<1>1. ASSUME NEW a, Shape(a), Sized(a), a.pending = c.pending, a.shutdown = c.shutdown,
             a.destroyed = c.destroyed, a.state = c.state, Hush(c, a, {})
      PROVE  LET d == Complete(a, op, "ok")
             IN  /\ Orderly(d) /\ d.state = "ready" /\ d.pending = c.pending
                 /\ d.failures = a.failures
  <2> DEFINE d == Complete(a, op, "ok")
  <2>1. Mute(a, d)
    BY <1>0, <1>1, CompleteMute DEF Result
  <2> HIDE DEF d
  <2>2. Orderly(a)
    BY <1>1, StaysOrderly
  <2>3. Orderly(d)
    BY <2>1, <2>2, MuteIsOrderly
  <2> QED BY <1>1, <2>1, <2>3 DEF Mute, Keeps, d
<1>2. CASE op = "Refresh"
  <2> DEFINE x == c.armed \cup {"refresh", "expires"}
             a == [c EXCEPT !.armed = x]
             d == Complete(a, op, "ok")
  <2>1. d = CompleteSuccess(c, op)
    BY <1>2 DEF CompleteSuccess, Shape, Fields
  <2>2. x \subseteq Timer
    BY DEF Sized, Timer
  <2> HIDE DEF x
  <2>3. /\ Shape(a) /\ SameFlags(c, a) /\ a.state = c.state
        /\ a.pending = c.pending /\ a.events = c.events /\ a.controls = c.controls
        /\ a.failures = c.failures /\ a.armed = x
    BY DEF Shape, SameFlags, Fields
  <2> HIDE DEF a
  <2>4. Sized(a) /\ Hush(c, a, {})
    BY <2>2, <2>3, HushSame DEF Sized
  <2> HIDE DEF d
  <2> QED BY <1>1, <1>2, <2>1, <2>3, <2>4 DEF SameFlags, d
<1>3. CASE op = "Permission"
  <2>1. CompleteSuccess(c, op) = Complete(c, op, "ok")
    BY <1>3 DEF CompleteSuccess
  <2>2. Hush(c, c, {})
    BY HushSame
  <2> QED BY <1>1, <1>3, <2>1, <2>2
<1>4. CASE op = "Channel"
  <2> DEFINE a == [c EXCEPT !.channel = TRUE, !.failures = 0]
             e == Event("bound", "none", "ok")
             b == PushEvent(a, e)
             d == Complete(b, op, "ok")
  <2>1. d = CompleteSuccess(c, op)
    BY <1>4 DEF CompleteSuccess
  <2>2. /\ Shape(a) /\ SameFlags(c, a) /\ a.state = c.state /\ a.pending = c.pending
        /\ a.events = c.events /\ a.controls = c.controls /\ a.failures = 0
        /\ a.armed = c.armed
    BY DEF Shape, Fields, SameFlags
  <2>3. e \in EventRec /\ ~Tells(e)
    BY DEF Event, EventRec, Result, Tells
  <2> HIDE DEF a, e
  <2>4. Sized(a) /\ Hush(c, a, {})
    <3>1. 0 \in 0 .. MaxChannelFailures
      BY TurnAssumption
    <3> QED BY <2>2, <3>1, HushSame DEF Sized
  <2>5. Mute(a, b)
    BY <2>2, <2>3, <2>4, PushEventMute
  <2> HIDE DEF b
  <2>6. /\ Shape(b) /\ Sized(b) /\ b.pending = c.pending /\ b.shutdown = c.shutdown
        /\ b.destroyed = c.destroyed /\ b.state = c.state /\ b.failures = 0
    BY <2>2, <2>5 DEF Mute, Keeps, SameFlags
  <2>7. Hush(c, b, {})
    BY <2>4, <2>5 DEF Mute, Hush
  <2> HIDE DEF d
  <2> QED BY <1>1, <1>4, <2>1, <2>6, <2>7 DEF d
<1> QED BY <1>2, <1>3, <1>4 DEF Maintenance

\* The success of Deallocate ends the core.
LEMMA DeallocateOutcome ==
    ASSUME NEW c, Shape(c), Sized(c), Steady(c), Orderly(c), c.state = "deallocating",
           ~HasOperation(c, "Deallocate")
    PROVE  LET d == CompleteSuccess(c, "Deallocate")
           IN  Dead(d) /\ d.failures = c.failures
<1> DEFINE x == c.armed \ {"refresh", "expires"}
           a == [c EXCEPT !.relay = FALSE, !.armed = x]
           b == Complete(a, "Deallocate", "ok")
           d == SetState(b, "deallocated")
<1>1. d = CompleteSuccess(c, "Deallocate")
  BY DEF CompleteSuccess, Shape, Fields
<1>2. x \subseteq Timer
  BY DEF Sized
<1> HIDE DEF x
<1>3. /\ Shape(a) /\ a.pending = c.pending /\ a.state = c.state
      /\ a.events = c.events /\ a.controls = c.controls
      /\ a.failures = c.failures /\ a.armed = x
  BY DEF Shape, Fields
<1> HIDE DEF a
<1>4. Sized(a)
  BY <1>2, <1>3 DEF Sized
<1>5. Mute(a, b)
  BY <1>3, <1>4, CompleteMute DEF Result, Operation
<1> HIDE DEF b
<1>6. /\ Shape(b) /\ Sized(b) /\ b.pending = c.pending /\ b.failures = c.failures
      /\ Queued(b) \subseteq Queued(c)
  BY <1>3, <1>5 DEF Mute, Keeps, Hush, Queued
<1>7. /\ d.state = "deallocated" /\ d.pending = c.pending /\ d.failures = c.failures
      /\ Queued(d) \subseteq Queued(c)
  <2>1. d.state = "deallocated" /\ d.pending = b.pending /\ d.failures = b.failures
        /\ d.controls = b.controls
    BY <1>6, SetStateChanges, SetStateTells, SetStateHush DEF CoreState, Discreet
  <2> HIDE DEF d
  <2> QED BY <1>6, <2>1 DEF Queued
<1> HIDE DEF d
<1>8. \A o \in Operation : HasOperation(d, o) <=> HasOperation(c, o)
  BY <1>7 DEF HasOperation
<1>9. \A o \in Operation : ~HasOperation(c, o)
  BY DEF Orderly, Steady, Operation, Maintenance
<1>10. \A o \in {"Allocate", "Deallocate"} : o \notin Queued(c)
  BY <1>9 DEF Orderly, Operation
<1> QED BY <1>1, <1>7, <1>8, <1>9, <1>10 DEF Dead, Gone, GoneState, d

\* Only ChannelBind counts failures.
LEMMA OthersCountNothing ==
    ASSUME NEW c, Shape(c), Sized(c), NEW op \in {"Refresh", "Permission", "Deallocate"},
           NEW r \in Result, NEW alive
    PROVE  /\ CompleteFailure(c, op, r, alive).failures = c.failures
           /\ CompleteSuccess(c, op).failures = c.failures
<1>0. op \in Operation /\ op # "Channel" /\ op # "Allocate" /\ "ok" \in Result
  BY DEF Operation, Result
<1>1. CompleteFailure(c, op, r, alive).failures = c.failures
  <2> DEFINE m == Complete(c, op, r)
             k == [m EXCEPT !.failures = c.failures]
             x == k.armed \cup {RetryTimer(op)}
             d == [k EXCEPT !.armed = x]
             g == DestroyAllocation(c, op, r)
  <2>1. CompleteFailure(c, op, r, alive) \in {g, d}
    BY <1>0 DEF CompleteFailure
  <2>2. g.failures = c.failures
    BY <1>0, DestroyAllocationDies
  <2>3. Shape(m)
    BY <1>0, CompleteKeeps DEF Keeps
  <2> HIDE DEF m, g
  <2>4. d.failures = c.failures
    BY <2>3 DEF Shape, Fields
  <2> HIDE DEF d
  <2> QED BY <2>1, <2>2, <2>4
<1>2. CASE op = "Refresh"
  <2> DEFINE x == c.armed \cup {"refresh", "expires"}
             a == [c EXCEPT !.armed = x]
  <2>1. CompleteSuccess(c, op) = Complete(a, op, "ok")
    BY <1>2 DEF CompleteSuccess
  <2>2. x \subseteq Timer
    BY DEF Sized, Timer
  <2> HIDE DEF x
  <2>3. Shape(a) /\ Sized(a) /\ a.failures = c.failures
    BY <2>2 DEF Sized, Shape, Fields
  <2> HIDE DEF a
  <2>4. Mute(a, Complete(a, op, "ok"))
    BY <1>0, <2>3, CompleteMute
  <2> QED BY <1>1, <2>1, <2>3, <2>4 DEF Mute
<1>3. CASE op = "Permission"
  <2>1. CompleteSuccess(c, op) = Complete(c, op, "ok")
    BY <1>3 DEF CompleteSuccess
  <2>2. Mute(c, Complete(c, op, "ok"))
    BY <1>0, CompleteMute
  <2> QED BY <1>1, <2>1, <2>2 DEF Mute
<1>4. CASE op = "Deallocate"
  <2> DEFINE x == c.armed \ {"refresh", "expires"}
             a == [c EXCEPT !.relay = FALSE, !.armed = x]
             b == Complete(a, op, "ok")
  <2>1. CompleteSuccess(c, op) = SetState(b, "deallocated")
    BY <1>4 DEF CompleteSuccess
  <2>2. x \subseteq Timer
    BY DEF Sized
  <2> HIDE DEF x
  <2>3. Shape(a) /\ Sized(a) /\ a.failures = c.failures
    BY <2>2 DEF Sized, Shape, Fields
  <2> HIDE DEF a
  <2>4. Mute(a, b)
    BY <1>0, <2>3, CompleteMute
  <2> HIDE DEF b
  <2>5. SetState(b, "deallocated").failures = b.failures
    BY <2>4, SetStateTells DEF Mute, Keeps, Discreet, CoreState
  <2> QED BY <1>1, <2>1, <2>3, <2>4, <2>5 DEF Mute
<1> QED BY <1>1, <1>2, <1>3, <1>4

\* The ways of input_stun, where rest is the core without the transaction.
Ways(c, op, kind, alive, rest, d) ==
    \/ kind \in Unsigned /\ Mute(c, d)
    \/ kind = "ok" /\ c.pending[op].authed /\ d = CompleteSuccess(rest, op)
    \/ /\ kind = "bad" \/ (kind = "ok" /\ ~c.pending[op].authed)
       /\ d = CompleteFailure(rest, op, "failed", alive)
    \/ /\ kind = "mismatch" \/ (kind = "badRequest" /\ op = "Channel")
       /\ \E n : Mute(rest, n) /\ d = DestroyAllocation(n, op, "mismatch")
    \/ /\ kind = "challenge" /\ c.pending[op].retries < MaxNonceRetries
       /\ d = StartOperation([rest EXCEPT !.auth = TRUE], op, TRUE, c.pending[op].retries + 1)
    \/ /\ kind \in {"challenge", "badRequest", "refused", "garbled"}
       /\ \E n : Mute(rest, n) /\ d = CompleteFailure(n, op, "failed", alive)

\* input_stun takes one of them.
LEMMA InputStunWays ==
    ASSUME NEW c, NEW op \in Operation, Fit(c), HasOperation(c, op), NEW kind \in Kind, NEW alive,
           NEW rest, rest = RemoveTransaction(c, op), NEW d, d = InputStun(c, op, kind, alive)
    PROVE  Ways(c, op, kind, alive, rest, d)
<1> DEFINE E(r) == Event("stunError", Method(op), r)
           N(r) == PushEvent(rest, E(r))
           new == [rest EXCEPT !.auth = TRUE]
           p == c.pending[op]
<1>1. Shape(rest) /\ Sized(rest)
  BY RestFollows DEF Follows
<1>2. \A r \in Result : E(r) \in EventRec /\ ~Tells(E(r))
  BY DEF Event, EventRec, Method, Operation, Tells
<1> HIDE DEF E
<1>3. \A r \in Result : Mute(rest, N(r)) /\ Mute(c, PushEvent(c, E(r)))
  BY <1>1, <1>2, PushEventMute DEF Fit, Good
<1>4. Mute(c, c)
  BY MuteSame DEF Fit, Good
<1>5. /\ kind = "unsigned" => d = c
      /\ kind = "unsignedError" => d = PushEvent(c, E("failed"))
      /\ kind = "unsignedMismatch" => d = PushEvent(c, E("mismatch"))
      /\ kind = "ok" /\ p.authed => d = CompleteSuccess(rest, op)
      /\ kind = "bad" \/ (kind = "ok" /\ ~p.authed) =>
             d = CompleteFailure(rest, op, "failed", alive)
      /\ kind = "mismatch" \/ (kind = "badRequest" /\ op = "Channel") =>
             d = DestroyAllocation(N("mismatch"), op, "mismatch")
      /\ kind = "challenge" /\ p.retries < MaxNonceRetries =>
             d = StartOperation(new, op, TRUE, p.retries + 1)
      /\ \/ kind = "challenge" /\ ~(p.retries < MaxNonceRetries)
         \/ kind = "badRequest" /\ op # "Channel"
         \/ kind \in {"refused", "garbled"}
         => d = CompleteFailure(N("failed"), op, "failed", alive)
  <2> HIDE DEF N, new
  <2> QED BY DEF InputStun, N, new, E
<1> HIDE DEF N, new, p
<1>6. kind = "unsigned" \/ kind = "unsignedError" \/ kind = "unsignedMismatch"
        => kind \in Unsigned /\ Mute(c, d)
  BY <1>3, <1>4, <1>5 DEF Result, Unsigned
<1>7. kind = "mismatch" \/ (kind = "badRequest" /\ op = "Channel") =>
         \E n : Mute(rest, n) /\ d = DestroyAllocation(n, op, "mismatch")
  BY <1>3, <1>5 DEF Result
<1>8. \/ kind = "challenge" /\ ~(p.retries < MaxNonceRetries)
      \/ kind = "badRequest" /\ op # "Channel"
      \/ kind \in {"refused", "garbled"}
      => \E n : Mute(rest, n) /\ d = CompleteFailure(n, op, "failed", alive)
  BY <1>3, <1>5 DEF Result
<1>9. kind \in {"ok", "bad", "challenge", "mismatch", "badRequest", "refused", "garbled",
                "unsigned", "unsignedError", "unsignedMismatch"}
  BY DEF Kind, Unsigned
<1>10. CASE kind \in {"unsigned", "unsignedError", "unsignedMismatch"}
  BY <1>6, <1>10 DEF Ways
<1>11. CASE kind \in {"ok", "bad"}
  BY <1>5, <1>11 DEF p, Ways
<1>12. CASE kind \in {"mismatch", "badRequest"}
  BY <1>7, <1>8, <1>12 DEF Ways
<1>13. CASE kind = "challenge"
  BY <1>5, <1>8, <1>13 DEF p, new, Ways
<1>14. CASE kind \in {"refused", "garbled"}
  BY <1>8, <1>14 DEF Ways
<1> QED BY <1>9, <1>10, <1>11, <1>12, <1>13, <1>14

\* A core that has run out of ChannelBind failures stays so, whatever is answered.
LEMMA AnswerKeepsExhausted ==
    ASSUME NEW c, NEW op \in Operation, Fit(c), HasOperation(c, op), NEW kind \in Kind, NEW alive,
           c.failures = MaxChannelFailures
    PROVE  InputStun(c, op, kind, alive).failures = MaxChannelFailures
<1> DEFINE rest == RemoveTransaction(c, op)
           d == InputStun(c, op, kind, alive)
           new == [rest EXCEPT !.auth = TRUE]
<1>1. op \in {"Refresh", "Permission", "Deallocate"}
  BY TurnAssumption DEF Fit, Steady, Operation
<1>2. Shape(rest) /\ Sized(rest) /\ rest.failures = MaxChannelFailures
  BY RestFollows, RemoveTransactionDiscreet DEF Follows, Fit, Good, Discreet
<1> HIDE DEF d, rest
<1>3. \/ Mute(c, d)
      \/ d = CompleteSuccess(rest, op)
      \/ d = CompleteFailure(rest, op, "failed", alive)
      \/ \E n : Mute(rest, n) /\ d = DestroyAllocation(n, op, "mismatch")
      \/ c.pending[op].retries < MaxNonceRetries
         /\ d = StartOperation(new, op, TRUE, c.pending[op].retries + 1)
      \/ \E n : Mute(rest, n) /\ d = CompleteFailure(n, op, "failed", alive)
  <2> HIDE DEF new
  <2>1. rest = RemoveTransaction(c, op) /\ d = InputStun(c, op, kind, alive)
    BY DEF rest, d
  <2>2. Ways(c, op, kind, alive, rest, d)
    BY <2>1, InputStunWays
  <2> QED BY <2>2 DEF Ways, new
<1>4. CASE Mute(c, d)
  BY <1>4 DEF Mute, d
<1>5. CASE \/ d = CompleteSuccess(rest, op)
           \/ d = CompleteFailure(rest, op, "failed", alive)
  BY <1>1, <1>2, <1>5, OthersCountNothing DEF Result, d
<1>6. CASE \E n : Mute(rest, n) /\ d = DestroyAllocation(n, op, "mismatch")
  <2>1. PICK n : Mute(rest, n) /\ d = DestroyAllocation(n, op, "mismatch")
    BY <1>6
  <2>2. Shape(n) /\ Sized(n) /\ n.failures = MaxChannelFailures
    BY <1>2, <2>1 DEF Mute, Keeps
  <2> QED BY <2>1, <2>2, DestroyAllocationDies DEF Result, d
<1>7. CASE c.pending[op].retries < MaxNonceRetries
           /\ d = StartOperation(new, op, TRUE, c.pending[op].retries + 1)
  <2>1. Shape(new) /\ Sized(new) /\ new.failures = MaxChannelFailures
    BY <1>2 DEF Shape, Fields, Sized
  <2>2. PICK m : m = c.pending[op].retries + 1
    OBVIOUS
  <2>3. m \in 0 .. MaxNonceRetries
    BY <1>7, <2>2, TurnAssumption DEF Fit, Sized, Counted
  <2> HIDE DEF new
  <2>4. Discreet(new, StartOperation(new, op, TRUE, m))
    BY <2>1, <2>3, StartOperationDiscreet
  <2> QED BY <1>7, <2>1, <2>2, <2>4 DEF d, Discreet
<1>8. CASE \E n : Mute(rest, n) /\ d = CompleteFailure(n, op, "failed", alive)
  <2>1. PICK n : Mute(rest, n) /\ d = CompleteFailure(n, op, "failed", alive)
    BY <1>8
  <2>2. Shape(n) /\ Sized(n) /\ n.failures = MaxChannelFailures
    BY <1>2, <2>1 DEF Mute, Keeps
  <2> QED BY <1>1, <2>1, <2>2, OthersCountNothing DEF Result, d
<1> QED BY <1>3, <1>4, <1>5, <1>6, <1>7, <1>8

\* What an answer that is not a fault does to an orderly core.
Answered(c, op, kind, d) ==
    \/ d.failures = MaxChannelFailures
    \/ /\ Dead(d)
       /\ kind = "ok" => op = "Deallocate"
       /\ kind \in {"challenge", "refused"} => op = "Allocate"
    \/ /\ op \in Maintenance /\ Orderly(d) /\ d.state = "ready"
    \/ /\ op = "Allocate" /\ kind = "ok" /\ Orderly(d)
       /\ d.state \in {"ready", "deallocating"} /\ ~HasOperation(d, op)
    \/ /\ op = "Allocate" /\ kind = "challenge" /\ Orderly(d)
       /\ HasOperation(d, op) /\ d.pending[op].authed

\* The kinds of answer of a server that nothing has gone wrong with.
LEMMA InputStunOutcome ==
    ASSUME NEW c, NEW op \in Operation, Fit(c), Orderly(c), HasOperation(c, op), NEW kind,
           \/ kind = "ok" /\ c.pending[op].authed
           \/ kind = "challenge" /\ ~c.pending[op].authed
           \/ kind = "mismatch" \/ (kind = "badRequest" /\ op = "Channel")
           \/ kind = "refused" /\ op \in {"Allocate", "Channel"}
    PROVE  Answered(c, op, kind, InputStun(c, op, kind, TRUE))
<1> DEFINE rest == RemoveTransaction(c, op)
           d == InputStun(c, op, kind, TRUE)
           new == [rest EXCEPT !.auth = TRUE]
<1>1. /\ Shape(rest) /\ Sized(rest) /\ Steady(rest) /\ Removed(rest, op)
      /\ rest.state = c.state
  BY RestFollows DEF Follows
<1>2. Orderly(rest)
  BY RestIsOrderly
<1> HIDE DEF d, rest
<1>3. /\ kind \in Kind /\ kind \notin Unsigned /\ kind # "bad"
      /\ kind = "ok" => c.pending[op].authed
      /\ kind = "challenge" => op = "Allocate"
      /\ kind = "refused" => op \in {"Allocate", "Channel"}
      /\ kind = "badRequest" => op = "Channel"
  BY DEF Kind, Unsigned, Orderly
<1>4. \/ kind = "ok" /\ d = CompleteSuccess(rest, op)
      \/ /\ kind = "mismatch" \/ (kind = "badRequest" /\ op = "Channel")
         /\ \E n : Mute(rest, n) /\ d = DestroyAllocation(n, op, "mismatch")
      \/ kind = "challenge" /\ c.pending[op].retries < MaxNonceRetries
         /\ d = StartOperation(new, op, TRUE, c.pending[op].retries + 1)
      \/ /\ kind \in {"challenge", "badRequest", "refused", "garbled"}
         /\ \E n : Mute(rest, n) /\ d = CompleteFailure(n, op, "failed", TRUE)
  <2> HIDE DEF new
  <2>1. rest = RemoveTransaction(c, op) /\ d = InputStun(c, op, kind, TRUE)
    BY DEF rest, d
  <2>2. Ways(c, op, kind, TRUE, rest, d)
    BY <1>3, <2>1, InputStunWays
  <2> QED BY <1>3, <2>2 DEF Ways, new
<1>5. /\ op = "Allocate" => c.state = "allocating"
      /\ op = "Channel" => c.state = "ready"
      /\ op = "Deallocate" => c.state = "deallocating"
      /\ op \in Maintenance => c.state = "ready"
  BY PendingBelongs DEF Orderly
<1>6. CASE kind = "ok" /\ d = CompleteSuccess(rest, op)
  <2>1. CASE op = "Allocate"
    <3>1. d = CompleteAllocate(rest)
      BY <1>6, <2>1 DEF CompleteSuccess
    <3> QED BY <1>1, <1>2, <1>5, <1>6, <2>1, <3>1, CompleteAllocateOutcome DEF Answered, Removed, d
  <2>2. CASE op \in Maintenance
    <3>1. /\ Orderly(CompleteSuccess(rest, op)) /\ CompleteSuccess(rest, op).state = "ready"
      <4> HIDE DEF d
      <4> QED BY <1>1, <1>2, <1>5, <2>2, MaintenanceOutcome
    <3> QED BY <1>6, <2>2, <3>1 DEF Answered, d
  <2>3. CASE op = "Deallocate"
    BY <1>1, <1>2, <1>5, <1>6, <2>3, DeallocateOutcome DEF Answered, Removed, d
  <2> QED BY <2>1, <2>2, <2>3 DEF Operation, Maintenance
<1>7. CASE /\ kind = "mismatch" \/ (kind = "badRequest" /\ op = "Channel")
           /\ \E n : Mute(rest, n) /\ d = DestroyAllocation(n, op, "mismatch")
  <2>1. PICK n : Mute(rest, n) /\ d = DestroyAllocation(n, op, "mismatch")
    BY <1>7
  <2>2. Shape(n) /\ Sized(n)
    BY <1>1, <2>1 DEF Mute, Keeps
  <2>3. Dead(d)
    BY <2>1, <2>2, DestroyAllocationDies DEF Result
  <2> QED BY <1>7, <2>3 DEF Answered, d
<1>8. CASE kind = "challenge" /\ c.pending[op].retries < MaxNonceRetries
           /\ d = StartOperation(new, op, TRUE, c.pending[op].retries + 1)
  <2>1. /\ Shape(new) /\ new.pending = rest.pending /\ new.controls = rest.controls
        /\ new.events = rest.events /\ new.state = rest.state /\ new.shutdown = rest.shutdown
        /\ new.destroyed = rest.destroyed /\ new.armed = rest.armed
        /\ new.failures = rest.failures
    BY <1>1 DEF Shape, Fields
  <2>2. PICK m : m = c.pending[op].retries + 1
    OBVIOUS
  <2>3. m \in 0 .. MaxNonceRetries
    BY <1>8, <2>2, TurnAssumption DEF Fit, Sized, Counted
  <2> HIDE DEF new
  <2>4. Sized(new)
    BY <1>1, <2>1 DEF Sized
  <2>5. Orderly(new)
    <3>1. Hush(rest, new, {})
      BY <2>1, HushSame
    <3> QED BY <1>2, <2>1, <3>1, StaysOrderly
  <2>6. op = "Allocate" /\ op \notin Maintenance
    BY <1>3, <1>8 DEF Maintenance
  <2>7. Started(new, d, op, TRUE)
    BY <1>8, <2>1, <2>2, <2>3, <2>4, <2>5, <2>6, StartIsOrderly
  <2>8. ~HasOperation(new, op)
    BY <1>1, <2>1 DEF HasOperation, Removed
  <2> QED BY <1>8, <2>6, <2>7, <2>8 DEF Started, Answered, d
<1>9. CASE /\ kind \in {"challenge", "badRequest", "refused", "garbled"}
           /\ \E n : Mute(rest, n) /\ d = CompleteFailure(n, op, "failed", TRUE)
  <2>1. PICK n : Mute(rest, n) /\ d = CompleteFailure(n, op, "failed", TRUE)
    BY <1>9
  <2>2. Shape(n) /\ Sized(n) /\ Removed(n, op) /\ n.state = rest.state
    BY <1>1, <2>1, RemovedKeeps DEF Mute, Keeps
  <2>3. Steady(n)
    <3>1. \A o : HasOperation(n, o) <=> HasOperation(rest, o)
      BY <2>1 DEF Mute, Keeps, HasOperation
    <3> QED BY <1>1, <2>1, <3>1 DEF Mute, Keeps, SameFlags, Steady
  <2>4. Orderly(n)
    BY <1>2, <2>1, MuteIsOrderly
  <2>5. /\ Outcome(n, d)
        /\ op \in Maintenance /\ n.state = "ready" =>
              d.failures = MaxChannelFailures \/ d.state = "ready"
    BY <2>1, <2>2, <2>3, <2>4, CompleteFailureOutcome DEF Result
  <2>6. CASE op = "Allocate" /\ kind # "ok" /\ kind # "badRequest"
    <3>1. Dead(d)
      <4>1. op \notin Maintenance
        BY <2>6 DEF Maintenance
      <4>2. d = DestroyAllocation(n, op, "failed")
        BY <2>1, <4>1 DEF CompleteFailure
      <4> QED BY <2>2, <4>2, DestroyAllocationDies DEF Result
    <3> QED BY <2>6, <3>1 DEF Answered, d
  <2>7. CASE op = "Channel"
    <3>1. op \in Maintenance
      BY <2>7 DEF Maintenance
    <3>2. d.failures = MaxChannelFailures \/ d.state = "ready"
      BY <1>1, <1>5, <2>2, <2>5, <3>1
    <3>3. d.state = "ready" => ~Dead(d)
      BY DEF Dead, Gone, GoneState
    <3> QED BY <2>5, <3>1, <3>2, <3>3 DEF Answered, Outcome, d
  <2> QED BY <1>3, <1>9, <2>6, <2>7
<1> QED BY <1>4, <1>6, <1>7, <1>8, <1>9 DEF d

\* What a method does to an orderly core when nothing goes wrong, an answer
\* apart: an Allocate under way is left alone, and nothing comes back to life.
Gentle(c, d) ==
    /\ Orderly(d)
    /\ Gone(c) => Gone(d)
    /\ Closing(c) => Closing(d)
    /\ c.state \in {"ready", "deallocating"} => d.state \in {"ready", "deallocating"}
    /\ HasOperation(c, "Allocate") =>
          /\ HasOperation(d, "Allocate")
          /\ d.pending["Allocate"].authed = c.pending["Allocate"].authed
          /\ "Allocate" \in Queued(d) => "Allocate" \in Queued(c)

\* Being gentle is transitive.
LEMMA GentleTwice ==
    ASSUME NEW c, NEW d, NEW e, Gentle(c, d), Gentle(d, e) PROVE Gentle(c, e)
  BY DEF Gentle

\* Leaving a core alone is gentle.
LEMMA GentleSame == ASSUME NEW c, Orderly(c) PROVE Gentle(c, c)
  BY DEF Gentle

\* So is starting a request other than Allocate.
LEMMA StartIsGentle ==
    ASSUME NEW c, NEW d, NEW op \in Operation, op # "Allocate", NEW a, Started(c, d, op, a)
    PROVE  Gentle(c, d)
<1>1. d.pending["Allocate"] = c.pending["Allocate"]
  BY DEF Started, Operation
<1>2. Orderly(d) /\ d.state = c.state /\ Queued(d) \subseteq Queued(c) \cup {op}
  BY DEF Started, Hush
<1> QED BY <1>1, <1>2 DEF Gentle, Gone, Closing, HasOperation

\* queue_packet of a keepalive.
LEMMA KeepaliveIsGentle ==
    ASSUME NEW c, Shape(c), Sized(c), Orderly(c)
    PROVE  LET d == QueuePacket(c, "keepalive") IN Gentle(c, d) /\ d.failures = c.failures
<1> DEFINE d == QueuePacket(c, "keepalive")
<1>1. Keeps(c, d) /\ d.failures = c.failures /\ Hush(c, d, {"keepalive"})
  BY QueuePacketKeeps, QueuePacketDiscreet, QueuePacketHush DEF Discreet, Packet
<1> HIDE DEF d
<1>2. /\ d.state = c.state /\ d.pending = c.pending /\ d.armed = c.armed
      /\ d.shutdown = c.shutdown /\ d.destroyed = c.destroyed
      /\ Queued(d) \subseteq Queued(c) \cup {"keepalive"} /\ (News(d) => News(c))
  BY <1>1 DEF Keeps, SameFlags, Hush
<1>3. \A o : HasOperation(d, o) <=> HasOperation(c, o)
  BY <1>2 DEF HasOperation
<1>4. Orderly(d)
  BY <1>2, <1>3 DEF Orderly, Gone
<1> QED BY <1>1, <1>2, <1>3, <1>4 DEF Gentle, Gone, Closing, d

\* Restarting maintenance, orderly or not, counts nothing.
LEMMA RestartIsGentle ==
    ASSUME NEW c, Fit(c), c.state = "ready", NEW due, NEW timers, NEW op \in Maintenance
    PROVE  LET d == Restart(c, due, timers, op)
           IN  d.failures = c.failures /\ (Orderly(c) => Gentle(c, d))
<1> DEFINE x == c.armed \ {RetryTimer(op)}
           a == [c EXCEPT !.armed = x]
           s == StartOperation(a, op, TRUE, 0)
           d == Restart(c, due, timers, op)
<1>1. d \in {c, s}
  BY DEF Restart, Fit, Good, Shape, Fields
<1>2. x \subseteq Timer
  BY DEF Fit, Sized
<1> HIDE DEF x
<1>3. /\ Shape(a) /\ a.state = c.state /\ a.pending = c.pending /\ a.events = c.events
      /\ a.controls = c.controls /\ a.failures = c.failures /\ a.armed = x
      /\ a.shutdown = c.shutdown /\ a.destroyed = c.destroyed
  BY DEF Fit, Good, Shape, Fields
<1> HIDE DEF a
<1>4. Sized(a)
  BY <1>2, <1>3 DEF Fit, Sized
<1>5. op \in Operation /\ op # "Allocate" /\ 0 \in 0 .. MaxNonceRetries
  BY TurnAssumption DEF Maintenance, Operation
<1>6. Discreet(a, s)
  BY <1>3, <1>4, <1>5, StartOperationDiscreet
<1>7. Orderly(c) => Gentle(c, s)
  <2> SUFFICES ASSUME Orderly(c) PROVE Gentle(c, s)
    OBVIOUS
  <2>1. Orderly(a)
    <3>1. Hush(c, a, {})
      BY <1>3, HushSame
    <3> QED BY <1>3, <3>1, StaysOrderly
  <2>2. Gentle(c, a)
    BY <1>3, <2>1 DEF Gentle, Gone, Closing, HasOperation, Queued
  <2>3. Started(a, s, op, TRUE)
    BY <1>3, <1>4, <1>5, <2>1, StartIsOrderly
  <2> HIDE DEF s
  <2> QED BY <1>5, <2>2, <2>3, StartIsGentle, GentleTwice
<1> HIDE DEF s, d
<1> QED BY <1>1, <1>3, <1>6, <1>7, GentleSame DEF Discreet, d

\* poll when nothing is overdue.
LEMMA QuietPollIsGentle ==
    ASSUME NEW c, Fit(c), NEW due, "expires" \notin due
    PROVE  LET d == Poll(c, {}, due) IN d.failures = c.failures /\ (Orderly(c) => Gentle(c, d))
<1> DEFINE r == Restart(c, due, {"refresh"}, "Refresh")
           m == Restart(r, due, {"maintenance", "permission"}, "Permission")
           b == Restart(m, due, {"maintenance", "channel"}, "Channel")
           d == Poll(c, {}, due)
           q == QueuePacket(b, "keepalive")
<1>1. \/ d = c
      \/ c.state = "ready" /\ d \in {b, q}
  BY DEF Poll, Maintain
<1>2. CASE d = c
  BY <1>2, GentleSame
<1>3. CASE c.state = "ready" /\ d \in {b, q}
  <2>0. "Refresh" \in Maintenance /\ "Permission" \in Maintenance /\ "Channel" \in Maintenance
    BY DEF Maintenance
  <2> HIDE DEF d
  <2>1. /\ Fit(r) /\ r.state = "ready" /\ r.failures = c.failures
        /\ Orderly(c) => Gentle(c, r)
    BY <1>3, <2>0, RestartFollows, RestartPreserves, RestartIsGentle DEF Fit
  <2> HIDE DEF r
  <2>2. /\ Fit(m) /\ m.state = "ready" /\ m.failures = r.failures
        /\ Orderly(r) => Gentle(r, m)
    BY <2>0, <2>1, RestartFollows, RestartPreserves, RestartIsGentle DEF Fit
  <2> HIDE DEF m
  <2>3. /\ Fit(b) /\ b.failures = m.failures
        /\ Orderly(m) => Gentle(m, b)
    BY <2>0, <2>2, RestartFollows, RestartIsGentle
  <2> HIDE DEF b
  <2>4. Orderly(c) => Gentle(c, b) /\ Orderly(b)
    BY <2>1, <2>2, <2>3, GentleTwice DEF Gentle
  <2>5. q.failures = b.failures /\ (Orderly(b) => Gentle(b, q))
    BY <2>3, KeepaliveIsGentle, QueuePacketDiscreet DEF Fit, Good, Discreet, Packet
  <2> HIDE DEF q
  <2>6. Orderly(c) => Gentle(c, q)
    BY <2>4, <2>5, GentleTwice
  <2> QED BY <1>3, <2>1, <2>2, <2>3, <2>4, <2>5, <2>6 DEF d
<1> QED BY <1>1, <1>2, <1>3

\* graceful_shutdown keeps an Allocate under way, and closes what is in use.
LEMMA GracefulShutdownIsGentle ==
    ASSUME NEW c, Fit(c)
    PROVE  LET d == GracefulShutdown(c)
           IN  d.failures = c.failures /\ (Orderly(c) => Gentle(c, d))
<1> DEFINE x == c.armed \cap {"refresh", "expires"}
           a == [c EXCEPT !.shutdown = TRUE, !.channel = FALSE, !.controls = <<>>,
                          !.armed = x]
           b == [a EXCEPT !.pending = NonePending]
           s == SetState(b, "deallocating")
           d == StartOperation(s, "Deallocate", TRUE, 0)
           g == GracefulShutdown(c)
<1>1. g = IF c.destroyed \/ c.shutdown THEN c
          ELSE IF c.state = "ready" \/ (c.state = "destroying" /\ "expires" \in c.armed)
          THEN d
          ELSE IF c.state = "allocating" THEN a ELSE b
  BY DEF GracefulShutdown, NonePending, Fit, Good, Shape, Fields
<1>2. x \subseteq Timer /\ x \subseteq c.armed
  BY DEF Fit, Sized
<1> HIDE DEF x
<1>3. /\ Shape(a) /\ a.pending = c.pending /\ a.destroyed = c.destroyed /\ a.shutdown = TRUE
      /\ a.state = c.state /\ a.armed = x /\ a.controls = <<>> /\ a.events = c.events
      /\ a.failures = c.failures
  BY DEF Fit, Good, Shape, Fields
<1>4. /\ <<>> \in Seq(Packet) /\ Len(<<>>) <= ControlCapacity /\ DOMAIN <<>> = {}
      /\ NonePending \in [Operation -> Counted] /\ 0 \in 0 .. MaxNonceRetries
      /\ "Deallocate" \in Operation
  BY TurnAssumption DEF NonePending, Idle, Counted, Operation
<1> HIDE DEF a
<1>5. /\ Shape(b) /\ b.pending = NonePending /\ b.destroyed = c.destroyed /\ b.shutdown = TRUE
      /\ b.state = c.state /\ b.armed = x /\ b.controls = <<>> /\ b.events = c.events
      /\ b.failures = c.failures
  BY <1>3, NothingPending DEF Shape, Fields
<1> HIDE DEF b
<1>6. Sized(a) /\ Sized(b)
  BY <1>2, <1>3, <1>4, <1>5 DEF Fit, Sized
<1>7. /\ Shape(s) /\ s.state = "deallocating" /\ s.pending = NonePending
      /\ s.shutdown = TRUE /\ s.failures = c.failures /\ s.controls = <<>>
      /\ Sized(s) /\ (News(s) => News(b))
  <2>1. "deallocating" \in CoreState /\ "deallocating" \notin GoneState
    BY DEF CoreState, GoneState
  <2> QED BY <1>5, <1>6, <2>1, SetStateChanges, SetStateTells, SetStateHush
          DEF Discreet, SameFlags
<1> HIDE DEF s
<1>8. d.failures = c.failures
  BY <1>4, <1>7, StartOperationDiscreet DEF Discreet
<1>9. \A o \in Operation : ~HasOperation(b, o) /\ ~HasOperation(s, o)
  BY <1>5, <1>7, NothingPending DEF HasOperation
<1>10. Queued(a) = {} /\ Queued(b) = {} /\ Queued(s) = {}
  BY <1>3, <1>4, <1>5, <1>7 DEF Queued
<1>11. /\ News(a) => News(c)
       /\ News(b) => News(c)
  BY <1>3, <1>5 DEF News
<1>12. ASSUME Orderly(c), ~c.destroyed, c.state = "ready" PROVE Gentle(c, d)
  <2>1. ~News(s)
    BY <1>7, <1>11, <1>12 DEF Orderly, Gone, GoneState
  <2>2. Orderly(s)
    BY <1>7, <1>9, <1>10, <2>1, Zenon DEF Orderly, Operation, Maintenance
  <2>3. Started(s, d, "Deallocate", TRUE)
    BY <1>7, <2>2, StartDeallocate
  <2> HIDE DEF d
  <2>4. Orderly(d) /\ d.state = "deallocating"
    BY <1>7, <2>3 DEF Started
  <2>5. ~HasOperation(c, "Allocate")
    BY <1>12 DEF Fit, Steady
  <2> QED BY <1>12, <2>4, <2>5 DEF Gentle, Gone, Closing, GoneState
<1>13. ASSUME Orderly(c) PROVE Gentle(c, a)
  <2>1. \A o : HasOperation(a, o) <=> HasOperation(c, o)
    BY <1>3 DEF HasOperation
  <2>2. Orderly(a)
    BY <1>2, <1>3, <1>10, <1>11, <1>13, <2>1 DEF Orderly, Gone
  <2> QED BY <1>3, <1>10, <2>1, <2>2 DEF Gentle, Gone, Closing
<1>14. ASSUME Orderly(c), c.state # "allocating" PROVE Gentle(c, b)
  <2>1. Orderly(b)
    <3>1. /\ \A o \in Maintenance : HasOperation(b, o) => b.state = "ready"
          /\ \A o \in Operation \ {"Allocate"} : HasOperation(b, o) => b.pending[o].authed
          /\ \A o \in {"Allocate", "Deallocate"} : o \in Queued(b) => HasOperation(b, o)
      BY <1>9, <1>10 DEF Maintenance, Operation
    <3> QED BY <1>2, <1>5, <1>11, <1>14, <3>1 DEF Orderly, Gone
  <2>2. ~HasOperation(c, "Allocate")
    BY <1>14 DEF Fit, Steady
  <2> QED BY <1>5, <2>1, <2>2 DEF Gentle, Gone, Closing
<1>15. g.failures = c.failures
  <2> HIDE DEF d, g
  <2> QED BY <1>1, <1>3, <1>5, <1>8
<1>16. ASSUME Orderly(c) PROVE Gentle(c, g)
  <2>1. ~c.destroyed => ~(c.state = "destroying" /\ "expires" \in c.armed)
    BY <1>16 DEF Orderly
  <2> HIDE DEF d, g
  <2> QED BY <1>1, <1>12, <1>13, <1>14, <1>16, <2>1, GentleSame
<1> QED BY <1>15, <1>16

\* force_destroy ends the core.
LEMMA ForceDestroyOutcome ==
    ASSUME NEW c, Fit(c)
    PROVE  LET d == ForceDestroy(c) IN d = c \/ (Dead(d) /\ d.failures = c.failures)
<1> DEFINE a == [c EXCEPT !.destroyed = TRUE, !.controls = <<>>, !.pending = NonePending]
           s == SetState(a, "destroying")
           e == Event("forced", "none", "ok")
           d == PushEvent(s, e)
<1>1. ForceDestroy(c) \in {c, d}
  BY DEF ForceDestroy, NonePending
<1>2. /\ Shape(a) /\ a.pending = NonePending /\ a.armed = c.armed /\ a.destroyed = TRUE
      /\ a.state = c.state /\ a.controls = <<>> /\ a.events = c.events
      /\ a.failures = c.failures
  BY NothingPending DEF Fit, Good, Shape, Fields
<1>3. /\ <<>> \in Seq(Packet) /\ Len(<<>>) <= ControlCapacity /\ DOMAIN <<>> = {}
      /\ NonePending \in [Operation -> Counted]
  BY TurnAssumption DEF NonePending, Idle, Counted
<1>4. e \in EventRec
  BY DEF Event, EventRec, Result
<1> HIDE DEF a, e
<1>5. Sized(a)
  BY <1>2, <1>3 DEF Fit, Sized
<1>6. /\ Shape(s) /\ s.pending = NonePending /\ s.destroyed = TRUE /\ s.state = "destroying"
      /\ Sized(s) /\ s.failures = c.failures /\ s.controls = <<>>
  BY <1>2, <1>5, SetStateChanges, SetStateTells, SetStateHush
     DEF SameFlags, Discreet, CoreState
<1> HIDE DEF s
<1>7. Keeps(s, d) /\ d.failures = c.failures /\ d.controls = <<>>
  BY <1>4, <1>6, PushEventKeeps, PushEventSays, PushEventHush
<1> HIDE DEF d
<1>8. d.pending = NonePending /\ d.destroyed = TRUE /\ d.state = "destroying"
  BY <1>6, <1>7 DEF Keeps, SameFlags
<1>9. (\A o \in Operation : ~HasOperation(d, o)) /\ Queued(d) = {}
  BY <1>3, <1>7, <1>8, NothingPending DEF HasOperation, Queued
<1>10. Dead(d)
  BY <1>8, <1>9 DEF Dead, Gone, GoneState
<1> QED BY <1>1, <1>7, <1>10

\* start_allocation begins from nothing.
LEMMA StartAllocationIsGentle ==
    ASSUME NEW c, Fit(c), c.state = "null"
    PROVE  LET d == StartOperation(SetState(c, "allocating"), "Allocate", FALSE, 0)
           IN  d.failures = c.failures /\ (Orderly(c) => Gentle(c, d))
<1> DEFINE s == SetState(c, "allocating")
           d == StartOperation(s, "Allocate", FALSE, 0)
<1>1. /\ Shape(s) /\ SameFlags(c, s) /\ s.state = "allocating" /\ s.pending = c.pending
      /\ s.controls = c.controls /\ (News(s) => News(c)) /\ Discreet(c, s)
  <2>1. "allocating" \in CoreState /\ "allocating" \notin GoneState
    BY DEF CoreState, GoneState
  <2> QED BY <2>1, SetStateChanges, SetStateTells, SetStateHush DEF Fit, Good
<1> HIDE DEF s
<1>2. /\ 0 \in 0 .. MaxNonceRetries /\ "Allocate" \in Operation
      /\ "Allocate" \notin Maintenance /\ FALSE \in BOOLEAN
  BY TurnAssumption DEF Operation, Maintenance
<1>3. d.failures = c.failures
  BY <1>1, <1>2, StartOperationDiscreet DEF Discreet
<1>4. ASSUME Orderly(c) PROVE Gentle(c, d)
  <2>1. Hush(c, s, {})
    BY <1>1 DEF Hush, Queued
  <2>2. Orderly(s)
    BY <1>1, <1>4, <2>1, StaysOrderly DEF SameFlags
  <2>3. Started(s, d, "Allocate", FALSE)
    BY <1>1, <1>2, <2>2, StartIsOrderly DEF Discreet
  <2> HIDE DEF d
  <2>4. ~HasOperation(c, "Allocate") /\ ~Gone(c) /\ ~Closing(c)
    BY DEF Fit, Steady, Gone, Closing, GoneState
  <2> QED BY <2>3, <2>4 DEF Started, Gentle
<1> QED BY <1>3, <1>4 DEF s

\* start_permission and start_channel.
LEMMA StartBindingIsGentle ==
    ASSUME NEW c, Fit(c), c.state = "ready", NEW op \in {"Permission", "Channel"}
    PROVE  LET d == StartOperation(c, op, TRUE, 0)
           IN  d.failures = c.failures /\ (Orderly(c) => Gentle(c, d))
<1> DEFINE d == StartOperation(c, op, TRUE, 0)
<1>1. op \in Operation /\ op # "Allocate" /\ 0 \in 0 .. MaxNonceRetries
  BY TurnAssumption DEF Operation
<1>2. d.failures = c.failures
  BY <1>1, StartOperationDiscreet DEF Fit, Good, Discreet
<1>3. Orderly(c) => Started(c, d, op, TRUE)
  BY <1>1, StartIsOrderly DEF Fit, Good
<1> HIDE DEF d
<1> QED BY <1>1, <1>2, <1>3, StartIsGentle DEF d

\* The requests for an allocation on the wire, and the answers to one.
Asks == {r \in wire : r.op = "Allocate"}
Grants == {r \in replies : r.op = "Allocate"}
Granted == [op |-> "Allocate", accepted |-> TRUE]
Freed == [op |-> "Deallocate", accepted |-> TRUE]

\* The pending Allocate is in one place only: queued, on the wire or answered.
OneAllocate ==
    /\ \A r \in Asks :
          /\ r.live /\ HasOperation(core, "Allocate")
          /\ r.authed = core.pending["Allocate"].authed
          /\ "Allocate" \notin Queued(core) /\ Grants = {}
    /\ \A r \in Grants :
          /\ HasOperation(core, "Allocate") /\ "Allocate" \notin Queued(core)
          /\ r.accepted => core.pending["Allocate"].authed
          /\ Grants = {r}

\* What the server holds is in use, or has just been granted.
Traceable ==
    held => \/ core.state \in {"ready", "deallocating"}
            \/ HasOperation(core, "Allocate") /\ Granted \in replies

\* A core that asks for the release is closing, and waits for the answer.
Released ==
    /\ (\E r \in wire \cup replies : r.op = "Deallocate") => Closing(core)
    /\ Freed \in replies => ~held

\* Who has sent nothing has nothing.
Silent == ~shared.sent => wire = {} /\ replies = {} /\ ~held

\* The driver only ends when the core has given up its allocation.
Ended ==
    /\ shared.state \in GoneState => Gone(core)
    /\ dpc \in {"break", "end"} => ~shared.sent \/ Gone(core)
    /\ wake = "none"

Books == Orderly(core) /\ OneAllocate /\ Traceable /\ Released /\ Silent /\ Ended

\* The inductive invariant: the books are kept as long as nothing goes wrong.
Accounted == faults \in Nat /\ (faults = 0 /\ ~Exhausted => Books)

\* What is left of a request that is no longer pending.
LEMMA ForgetHolds ==
    ASSUME NEW w, w \subseteq Request, NEW o, NEW x \in Forget(w, o)
    PROVE  \E y \in w : y.op = x.op /\ (x.op \notin o => x = y)
<1>1. CASE x \in {r \in w : r.op \notin o}
  BY <1>1
<1>2. CASE \E y \in w : y.op \in o /\ x = [y EXCEPT !.live = FALSE]
  <2>1. PICK y \in w : y.op \in o /\ x = [y EXCEPT !.live = FALSE]
    BY <1>2
  <2>2. x.op = y.op
    BY <2>1 DEF Request
  <2> QED BY <2>1, <2>2
<1> QED BY <1>1, <1>2 DEF Forget

\* What a step of the core does to the network.
LEMMA CoreStepHolds ==
    ASSUME Messages, NEW ended, CoreStep(core', ended)
    PROVE  LET over == ended \cup {o \in Operation : ~HasOperation(core', o)}
           IN  /\ \A x \in wire' : \E y \in wire : y.op = x.op /\ (x.op \notin over => x = y)
               /\ \A x \in replies' : x \in replies /\ x.op \notin over
               /\ \A x \in replies : x.op \notin over => x \in replies'
  BY ForgetHolds DEF CoreStep, Messages

\* The books after a gentle step of the core.
LEMMA GentleStep ==
    ASSUME Fit(core), Messages, Books, Gentle(core, core'), CoreStep(core', {}), held' = held,
           shared'.sent = shared.sent, shared'.state = shared.state, wake' = wake,
           dpc' \in {"break", "end"} => ~shared.sent \/ Gone(core')
    PROVE  Books'
<1> DEFINE over == {o \in Operation : ~HasOperation(core', o)}
<1>1. /\ \A x \in wire' : \E y \in wire : y.op = x.op /\ (x.op \notin over => x = y)
      /\ \A x \in replies' : x \in replies /\ x.op \notin over
      /\ \A x \in replies : x.op \notin over => x \in replies'
  BY CoreStepHolds
<1>2. "Allocate" \in over <=> ~HasOperation(core', "Allocate")
  BY DEF Operation
<1> HIDE DEF over
<1>3. /\ \A r \in Asks : HasOperation(core, "Allocate")
      /\ \A r \in Grants : HasOperation(core, "Allocate")
  BY DEF Books, OneAllocate
<1>4. ASSUME HasOperation(core, "Allocate")
      PROVE  /\ HasOperation(core', "Allocate")
             /\ core'.pending["Allocate"].authed = core.pending["Allocate"].authed
             /\ "Allocate" \notin Queued(core) => "Allocate" \notin Queued(core')
  BY <1>4 DEF Gentle
<1>5. Asks' \subseteq Asks /\ Grants' \subseteq Grants
  <2>1. ASSUME NEW x \in wire', x.op = "Allocate" PROVE x \in wire
    <3>1. PICK y \in wire : y.op = x.op /\ (x.op \notin over => x = y)
      BY <1>1
    <3>2. HasOperation(core, "Allocate")
      BY <1>3, <2>1, <3>1 DEF Asks
    <3> QED BY <1>2, <1>4, <2>1, <3>1, <3>2
  <2> QED BY <1>1, <2>1 DEF Asks, Grants
<1>6. OneAllocate'
  <2>1. ASSUME NEW r \in Asks'
        PROVE  /\ r.live /\ HasOperation(core', "Allocate")
               /\ r.authed = core'.pending["Allocate"].authed
               /\ "Allocate" \notin Queued(core') /\ Grants' = {}
    <3>1. /\ r.live /\ HasOperation(core, "Allocate")
          /\ r.authed = core.pending["Allocate"].authed
          /\ "Allocate" \notin Queued(core) /\ Grants = {}
      BY <1>5, <2>1 DEF Books, OneAllocate
    <3> QED BY <1>4, <1>5, <3>1
  <2>2. ASSUME NEW r \in Grants'
        PROVE  /\ HasOperation(core', "Allocate") /\ "Allocate" \notin Queued(core')
               /\ r.accepted => core'.pending["Allocate"].authed
               /\ Grants' = {r}
    <3>1. /\ HasOperation(core, "Allocate") /\ "Allocate" \notin Queued(core)
          /\ r.accepted => core.pending["Allocate"].authed
          /\ Grants = {r}
      BY <1>5, <2>2 DEF Books, OneAllocate
    <3> QED BY <1>4, <1>5, <2>2, <3>1
  <2> QED BY <2>1, <2>2 DEF OneAllocate
<1>7. Traceable'
  <2> SUFFICES ASSUME held
               PROVE  \/ core'.state \in {"ready", "deallocating"}
                      \/ HasOperation(core', "Allocate") /\ Granted \in replies'
    BY DEF Traceable, Granted
  <2>1. CASE core.state \in {"ready", "deallocating"}
    BY <2>1 DEF Gentle
  <2>2. CASE HasOperation(core, "Allocate") /\ Granted \in replies
    BY <1>1, <1>2, <1>4, <2>2 DEF Granted
  <2> QED BY <2>1, <2>2 DEF Books, Traceable
<1>8. Released'
  <2>1. ASSUME NEW r \in (wire \cup replies)', r.op = "Deallocate" PROVE Closing(core')
    <3>1. \E y \in wire \cup replies : y.op = "Deallocate"
      BY <1>1, <2>1
    <3> QED BY <3>1 DEF Books, Released, Gentle
  <2>2. Freed \in replies' => ~held
    BY <1>1 DEF Books, Released
  <2> QED BY <2>1, <2>2 DEF Released, Freed
<1>9. Silent'
  BY <1>1 DEF Books, Silent
<1>10. Ended'
  BY DEF Books, Ended, Gentle
<1> QED BY <1>6, <1>7, <1>8, <1>9, <1>10 DEF Books, Gentle

\* The books after the end of the core, when the server holds nothing.
LEMMA DeadStep ==
    ASSUME Messages, Books, Dead(core'), NEW ended, CoreStep(core', ended), Asks = {},
           ~held, held' = held,
           shared'.sent = shared.sent, shared'.state = shared.state, wake' = wake
    PROVE  Books'
<1> DEFINE over == ended \cup {o \in Operation : ~HasOperation(core', o)}
<1>1. /\ \A x \in wire' : \E y \in wire : y.op = x.op
      /\ \A x \in replies' : x \in replies /\ x.op \notin over
  BY CoreStepHolds
<1>2. Operation \subseteq over
  BY DEF Dead
<1> HIDE DEF over
<1>3. replies' = {}
  BY <1>1, <1>2 DEF Messages, Reply
<1>4. Asks' = {} /\ Grants' = {}
  BY <1>1, <1>3 DEF Asks, Grants
<1>5. Orderly(core') /\ Gone(core') /\ Closing(core')
  BY DeadIsOrderly DEF Dead, Gone, Closing
<1>6. OneAllocate'
  BY <1>4 DEF OneAllocate
<1>7. Traceable' /\ Released' /\ Ended'
  BY <1>3, <1>5 DEF Traceable, Released, Ended, Books
<1>8. Silent'
  BY <1>1, <1>3 DEF Books, Silent
<1> QED BY <1>5, <1>6, <1>7, <1>8 DEF Books

\* A step that is not a fault is not counted as one.
LEMMA NoFault ==
    ASSUME faults = 0, faults' = 0, NEW b, Fault(b) PROVE ~b
  BY DEF Fault

\* No fault is ever forgotten.
LEMMA FaultsCount ==
    ASSUME faults \in Nat, [Next]_vars PROVE faults' \in Nat /\ (faults' = 0 => faults = 0)
<1>1. CASE \E b : Fault(b)
  BY <1>1 DEF Fault
<1>2. CASE faults' = faults
  BY <1>2
<1>3. CASE UNCHANGED vars
  BY <1>2, <1>3 DEF vars
<1>4. CASE Driver
  <2>1. CASE ObserveWake \/ CleanUp \/ SkipCleanUp \/ Pump
    BY <1>1, <2>1 DEF ObserveWake, CleanUp, SkipCleanUp, Pump
  <2>2. CASE HandleEvents
    BY <1>1, <1>2, <2>2, Zenon DEF HandleEvents, PumpError
  <2>3. CASE GoOn \/ DriverEnds \/ SendControls \/ Wake
    BY <1>2, <2>3 DEF GoOn, DriverEnds, SendControls, Wake
  <2> QED BY <1>4, <2>1, <2>2, <2>3 DEF Driver
<1>5. CASE Owner
  BY <1>2, <1>5 DEF Owner, StartAllocation, Connected, PrepareChannel, StartChannel,
     StartBinding, Bound, SeesFailure, RequestClose, OwnerShutdown
<1>6. CASE SendFails
  BY <1>1, <1>6 DEF SendFails, PumpError
<1>7. CASE Receive \/ ReceiveFails \/ ConnectTimesOut \/ AbortDriver \/ Lose \/ WakeSignal
  BY <1>1, <1>7 DEF Receive, ReceiveFails, ConnectTimesOut, AbortDriver, Lose, WakeSignal
<1>8. CASE OwnerClosed \/ Cancel \/ ServerTakes \/ ServerForgets
  BY <1>2, <1>8 DEF OwnerClosed, Cancel, ServerTakes, ServerForgets
<1> QED BY <1>3, <1>4, <1>5, <1>6, <1>7, <1>8 DEF Next

\* The states from which the books are carried on.
Trust == Informed /\ faults = 0 /\ (~Exhausted => Books)

\* An answer.
LEMMA ReceiveBooks ==
    ASSUME Trust, Receive, faults' = 0, ~Exhausted' PROVE Books'
<1>0. Fit(core) /\ Messages /\ Steady(core) /\ faults = 0
  BY DEF Trust, Informed, Fit
<1>1. PICK r \in replies, kind \in Kind, alive \in BOOLEAN :
          /\ HasOperation(core, r.op) /\ Possible(r, kind)
          /\ CoreStep(InputStun(core, r.op, kind, alive), {r.op})
          /\ Fault(~alive \/ ~Honest(r, kind))
  BY DEF Receive
<1>2. /\ dpc = "wait" /\ dpc' = dpc /\ shared' = shared /\ held' = held /\ wake' = wake
  BY DEF Receive
<1>3. alive = TRUE /\ Honest(r, kind)
  <2>1. ~(~alive \/ ~Honest(r, kind))
    <3> DEFINE b == ~alive \/ ~Honest(r, kind)
    <3>1. Fault(b)
      BY <1>1
    <3> HIDE DEF b
    <3>2. ~b
      BY <1>0, <3>1, NoFault
    <3> QED BY <3>2 DEF b
  <2> QED BY <2>1
<1>4. r.op \in Operation /\ r.accepted \in BOOLEAN /\ r = [op |-> r.op, accepted |-> r.accepted]
  BY <1>0 DEF Messages, Reply
<1>5. core' = InputStun(core, r.op, kind, TRUE) /\ CoreStep(core', {r.op})
  BY <1>1, <1>3 DEF CoreStep
<1>6. ~Exhausted
  BY <1>0, <1>1, <1>4, <1>5, AnswerKeepsExhausted DEF Exhausted
<1>7. Books
  BY <1>6 DEF Trust
<1>8. Answered(core, r.op, kind, core')
  <2>1. \/ kind = "ok" /\ core.pending[r.op].authed
        \/ kind = "challenge" /\ ~core.pending[r.op].authed
        \/ kind = "mismatch" \/ (kind = "badRequest" /\ r.op = "Channel")
        \/ kind = "refused" /\ r.op \in {"Allocate", "Channel"}
    BY <1>3 DEF Honest
  <2> QED BY <1>0, <1>1, <1>4, <1>5, <1>7, <2>1, InputStunOutcome DEF Books
<1>9. Asks = {}
  <2>1. CASE r.op = "Allocate"
    BY <1>7, <2>1 DEF Books, OneAllocate, Grants
  <2>2. CASE r.op # "Allocate"
    BY <1>0, <1>1, <1>4, <1>7, <2>2 DEF Books, OneAllocate, Orderly, Steady, Operation, Maintenance
  <2> QED BY <2>1, <2>2
<1>10. r.op = "Allocate" /\ kind # "ok" /\ kind # "bad" /\ kind \notin Unsigned => ~held
  <2> SUFFICES ASSUME r.op = "Allocate", kind # "ok", kind # "bad", kind \notin Unsigned, held
               PROVE  FALSE
    OBVIOUS
  <2>1. ~r.accepted
    BY <1>1 DEF Possible, Unsigned
  <2>2. Grants = {r}
    BY <1>7 DEF Books, OneAllocate, Grants
  <2>3. Granted \notin replies
    BY <2>1, <2>2 DEF Grants, Granted
  <2> QED BY <1>0, <1>1, <1>7, <2>3 DEF Books, Traceable, Steady
<1>11. shared.sent
  BY <1>7 DEF Books, Silent
<1>12. CASE Dead(core')
  <2>1. ~held
    <3>1. CASE kind = "ok"
      <4>1. r.op = "Deallocate"
        BY <1>8, <1>12, <3>1 DEF Answered, Dead, Gone, GoneState, Exhausted
      <4>2. r.accepted
        BY <1>1, <1>3, <3>1, <4>1 DEF Possible, Honest, Maintenance
      <4>3. r = Freed
        BY <1>4, <4>1, <4>2 DEF Freed
      <4> QED BY <1>7, <4>3 DEF Books, Released
    <3>2. CASE kind \in {"challenge", "refused"}
      <4>1. r.op = "Allocate" /\ kind \notin Unsigned
        BY <1>8, <1>12, <3>2 DEF Answered, Dead, Gone, GoneState, Exhausted, Unsigned
      <4> QED BY <1>10, <3>2, <4>1
    <3>3. CASE kind \in {"mismatch", "badRequest"}
      BY <1>3, <1>10, <3>3 DEF Honest, Unsigned
    <3> QED BY <1>3, <3>1, <3>2, <3>3 DEF Honest
  <2> QED BY <1>0, <1>2, <1>5, <1>7, <1>9, <1>12, <2>1, DeadStep
<1>13. CASE ~Dead(core')
  <2>1. /\ Orderly(core')
        /\ \/ r.op \in Maintenance /\ core'.state = "ready"
           \/ r.op = "Allocate" /\ core'.state \in {"ready", "deallocating"}
           \/ r.op = "Allocate" /\ kind = "challenge"
    BY <1>8, <1>13 DEF Answered, Exhausted
  <2>2. core.state \in {"ready", "allocating"}
    BY <1>0, <1>1, <1>7, <2>1 DEF Books, Orderly, Steady
  <2>3. /\ \A x \in wire' : \E y \in wire : y.op = x.op
        /\ \A x \in replies' : x \in replies /\ x.op # r.op
    <3> DEFINE over == {r.op} \cup {o \in Operation : ~HasOperation(core', o)}
    <3>1. /\ \A x \in wire' : \E y \in wire : y.op = x.op /\ (x.op \notin over => x = y)
          /\ \A x \in replies' : x \in replies /\ x.op \notin over
          /\ \A x \in replies : x.op \notin over => x \in replies'
      BY <1>0, <1>5, CoreStepHolds, Zenon
    <3>2. r.op \in over
      OBVIOUS
    <3> HIDE DEF over
    <3> QED BY <3>1, <3>2
  <2>4. Asks' = {}
    BY <1>9, <2>3 DEF Asks
  <2>5. Grants' = {}
    <3>1. CASE r.op = "Allocate"
      BY <2>3, <3>1 DEF Grants
    <3>2. CASE r.op \in Maintenance
      BY <1>0, <1>1, <1>7, <2>3, <3>2 DEF Books, OneAllocate, Grants, Orderly, Steady
    <3> QED BY <2>1, <3>1, <3>2
  <2>6. Traceable'
    BY <1>2, <1>10, <2>1 DEF Traceable, Unsigned
  <2>7. ~Closing(core) /\ ~Gone(core)
    BY <2>2 DEF Closing, Gone, GoneState
  <2>8. Released'
    BY <1>7, <2>3, <2>7 DEF Books, Released, Freed
  <2>9. Silent' /\ Ended'
    BY <1>2, <1>7, <1>11, <2>7 DEF Books, Silent, Ended
  <2>10. OneAllocate'
    BY <2>4, <2>5 DEF OneAllocate
  <2> QED BY <2>1, <2>6, <2>8, <2>9, <2>10 DEF Books
<1> QED BY <1>12, <1>13

\* What Trust and the end of a step say of the start of it.
LEMMA TrustSays ==
    ASSUME Trust, ~Exhausted
    PROVE  Fit(core) /\ Messages /\ Typed(shared) /\ Books /\ Orderly(core) /\ faults = 0
  BY DEF Trust, Informed, Books

\* A gentle method of the core, called by the driver or by the owner.
LEMMA GentleBooks ==
    ASSUME Trust, ~Exhausted', CoreStep(core', {}), core'.failures = core.failures,
           Orderly(core) => Gentle(core, core'), held' = held, wake' = wake,
           Alike(shared, shared'),
           dpc' \in {"break", "end"} => dpc' = dpc \/ Gone(core)
    PROVE  Books'
<1>1. ~Exhausted
  BY DEF Exhausted
<1>2. /\ Fit(core) /\ Messages /\ Books /\ Gentle(core, core')
      /\ shared'.sent = shared.sent /\ shared'.state = shared.state
  BY <1>1, TrustSays DEF Alike
<1>3. dpc' \in {"break", "end"} => ~shared.sent \/ Gone(core')
  BY <1>2 DEF Books, Ended, Gentle
<1> QED BY <1>2, <1>3, GentleStep

\* A step that leaves the core, the network and the server alone.
LEMMA LeftAlone ==
    ASSUME Trust, ~Exhausted', UNCHANGED <<core, wire, replies, held, wake>>,
           Alike(shared, shared'), dpc' \in {"break", "end"} => dpc' = dpc \/ ~shared.sent
    PROVE  Books'
<1>1. Books
  BY TrustSays DEF Exhausted
<1>2. Orderly(core)' /\ OneAllocate' /\ Traceable' /\ Released'
  BY <1>1 DEF Books, OneAllocate, Traceable, Released, Asks, Grants
<1>3. Silent' /\ Ended'
  BY <1>1 DEF Books, Silent, Ended, Alike
<1> QED BY <1>2, <1>3 DEF Books

\* The loop starts or goes on with the cleanup.
LEMMA CleanUpBooks ==
    ASSUME Trust, CleanUp, faults' = 0, ~Exhausted' PROVE Books'
<1>0. Fit(core) /\ Typed(shared) /\ faults = 0
  BY DEF Trust, Informed
<1>1. PICK late \in {FALSE, local.cleaning} :
          /\ dpc' = IF late \/ shared.state \in {"deallocated", "destroying"} THEN "break"
                    ELSE IF local'.pump THEN "pump" ELSE "wait"
          /\ Fault(late)
  BY DEF CleanUp
<1>2. ~late
  BY <1>0, <1>1, NoFault
<1>3. /\ core' = core \/ core' = GracefulShutdown(core)
      /\ CoreStep(core', {}) /\ held' = held /\ wake' = wake /\ shared' = shared
  BY DEF CleanUp, CoreStep
<1>4. core'.failures = core.failures /\ (Orderly(core) => Gentle(core, core'))
  BY <1>0, <1>3, GentleSame, GracefulShutdownIsGentle
<1>5. ~Exhausted
  BY <1>4 DEF Exhausted
<1>6. dpc' \in {"break", "end"} => Gone(core)
  BY <1>1, <1>2, <1>5, TrustSays DEF Books, Ended, GoneState
<1> QED BY <1>3, <1>4, <1>6, GentleBooks DEF Alike

\* The owner shuts the core down.
LEMMA OwnerShutdownBooks ==
    ASSUME Trust, OwnerShutdown, ~Exhausted' PROVE Books'
<1>0. Fit(core)
  BY DEF Trust, Informed
<1>1. /\ core' = GracefulShutdown(core) /\ CoreStep(core', {}) /\ held' = held /\ wake' = wake
      /\ shared' = shared /\ dpc' = dpc
  BY DEF OwnerShutdown, CoreStep
<1>2. core'.failures = core.failures /\ (Orderly(core) => Gentle(core, core'))
  BY <1>0, <1>1, GracefulShutdownIsGentle
<1> QED BY <1>1, <1>2, GentleBooks DEF Alike

\* The driver polls the core.
LEMMA PumpBooks ==
    ASSUME Trust, Pump, faults' = 0, ~Exhausted' PROVE Books'
<1>0. Fit(core) /\ faults = 0
  BY DEF Trust, Informed
<1>1. PICK ops \in {{}} \cup {{o} : o \in {x \in Operation : HasOperation(core, x)}},
           due \in SUBSET core.armed :
          /\ CoreStep(Poll(core, ops, due),
                      {o \in ops : core.stream \/ core.pending[o].sent >= MaxTransmissions})
          /\ Fault(ops # {} \/ "expires" \in due)
  BY DEF Pump
<1>2. ops = {} /\ "expires" \notin due
  <2> DEFINE b == ops # {} \/ "expires" \in due
  <2>1. Fault(b)
    BY <1>1
  <2> HIDE DEF b
  <2>2. ~b
    BY <1>0, <2>1, NoFault
  <2> QED BY <2>2 DEF b
<1>3. core' = Poll(core, {}, due) /\ CoreStep(core', {})
  BY <1>1, <1>2 DEF CoreStep
<1>4. dpc' = "controls" /\ held' = held /\ wake' = wake /\ shared' = shared
  BY DEF Pump
<1>5. core'.failures = core.failures /\ (Orderly(core) => Gentle(core, core'))
  BY <1>0, <1>2, <1>3, QuietPollIsGentle
<1> QED BY <1>3, <1>4, <1>5, GentleBooks DEF Alike

\* connect starts the allocation, or finds that it is over.
LEMMA StartAllocationBooks ==
    ASSUME Trust, StartAllocation, ~Exhausted' PROVE Books'
<1>0. Fit(core) /\ Typed(shared)
  BY DEF Trust, Informed
<1>1. dpc' = dpc /\ held' = held /\ wake' = wake
  BY DEF StartAllocation
<1>2. CASE core.destroyed \/ core.shutdown \/ core.state # "null"
  <2>1. UNCHANGED <<core, wire, replies>> /\ shared' = Fail(shared, "failed")
    BY <1>2 DEF StartAllocation
  <2> QED BY <1>0, <1>1, <2>1, FailEnds, LeftAlone DEF Terminal
<1>3. CASE ~(core.destroyed \/ core.shutdown \/ core.state # "null")
  <2>1. /\ core' = StartOperation(SetState(core, "allocating"), "Allocate", FALSE, 0)
        /\ CoreStep(core', {}) /\ shared' = [shared EXCEPT !.done = "none"]
    BY <1>3 DEF StartAllocation, CoreStep
  <2>2. Alike(shared, shared')
    BY <1>0, <2>1, MarksTyped
  <2>3. core'.failures = core.failures /\ (Orderly(core) => Gentle(core, core'))
    BY <1>0, <1>3, <2>1, StartAllocationIsGentle
  <2> QED BY <1>1, <2>1, <2>2, <2>3, GentleBooks
<1> QED BY <1>2, <1>3

\* prepare_channel starts a binding, or finds that it cannot.
LEMMA StartBindingBooks ==
    ASSUME Trust, PrepareChannel \/ StartChannel, ~Exhausted'
    PROVE  Books'
<1>0. Fit(core) /\ Typed(shared)
  BY DEF Trust, Informed
<1>1. PICK from \in {"connected", "permitted"}, op \in {"Permission", "Channel"} :
           \E to : StartBinding(from, op, to)
  BY DEF PrepareChannel, StartChannel
<1>2. dpc' = dpc /\ held' = held /\ wake' = wake
  BY <1>1 DEF StartBinding
<1>3. CASE CoreReady
  <2>1. /\ core' = StartOperation(core, op, TRUE, 0) /\ CoreStep(core', {})
        /\ core.state = "ready"
        /\ shared' = [shared EXCEPT !.done = "none"] \/ shared' = shared
    BY <1>1, <1>3 DEF StartBinding, CoreStep, CoreReady
  <2>2. Alike(shared, shared')
    BY <1>0, <2>1, MarksTyped DEF Alike
  <2>3. core'.failures = core.failures /\ (Orderly(core) => Gentle(core, core'))
    BY <1>0, <2>1, StartBindingIsGentle
  <2> QED BY <1>2, <2>1, <2>2, <2>3, GentleBooks
<1>4. CASE ~CoreReady
  <2>1. UNCHANGED <<core, wire, replies>> /\ shared' = Fail(shared, "failed")
    BY <1>1, <1>4 DEF StartBinding
  <2> QED BY <1>0, <1>2, <2>1, FailEnds, LeftAlone DEF Terminal
<1> QED BY <1>3, <1>4

\* The driver ends: what it destroys has nothing left on the server.
LEMMA DriverEndsBooks ==
    ASSUME Trust, DriverEnds, ~Exhausted' PROVE Books'
<1>0. Fit(core) /\ Steady(core) /\ Messages
  BY DEF Trust, Informed, Fit
<1>1. /\ core' = ForceDestroy(core) /\ CoreStep(core', {}) /\ held' = held /\ wake' = wake
      /\ shared' = shared /\ dpc = "break" /\ dpc' = "end"
  BY DEF DriverEnds, CoreStep
<1>2. core' = core \/ (Dead(core') /\ core'.failures = core.failures)
  BY <1>0, <1>1, ForceDestroyOutcome
<1>3. ~Exhausted
  BY <1>2 DEF Exhausted
<1>4. Books
  BY <1>3, TrustSays
<1>5. ~shared.sent \/ Gone(core)
  BY <1>1, <1>4 DEF Books, Ended
<1>6. Asks = {} /\ ~held
  <2>1. CASE ~shared.sent
    BY <1>4, <2>1 DEF Books, Silent, Asks
  <2>2. CASE Gone(core)
    BY <1>0, <1>4, <2>2 DEF Books, OneAllocate, Traceable, Steady, Gone, GoneState
  <2> QED BY <1>5, <2>1, <2>2
<1>7. CASE core' = core
  BY <1>0, <1>1, <1>4, <1>5, <1>7, GentleSame, GentleStep DEF Books
<1>8. CASE Dead(core')
  BY <1>0, <1>1, <1>4, <1>6, <1>8, DeadStep
<1> QED BY <1>2, <1>7, <1>8

\* The packets of the core reach the network.
LEMMA SendControlsBooks ==
    ASSUME Trust, SendControls, ~Exhausted' PROVE Books'
<1> DEFINE c == core
           q == Queued(c) \cap Operation
<1>1. /\ core' = [core EXCEPT !.controls = <<>>] /\ SendFirst(Len(core.controls))
      /\ shared' = [shared EXCEPT !.sent = @ \/ core.controls # <<>>]
      /\ dpc' = "events" /\ wake' = wake /\ held' = held
  BY DEF SendControls
<1>2. Shape(core) /\ Sized(core) /\ Typed(shared) /\ Steady(core)
  BY DEF Trust, Informed, Fit, Good
<1>3. /\ core'.controls = <<>> /\ core'.events = core.events /\ core'.pending = core.pending
      /\ core'.state = core.state /\ core'.shutdown = core.shutdown /\ core'.armed = core.armed
      /\ core'.destroyed = core.destroyed /\ core'.failures = core.failures
  BY <1>1, <1>2 DEF Shape, Fields
<1>4. Books /\ Orderly(core)
  BY <1>3, TrustSays DEF Exhausted
<1>5. \A o : HasOperation(core', o) <=> HasOperation(core, o)
  BY <1>3 DEF HasOperation
<1>6. Queued(core') = {}
  BY <1>3 DEF Queued
<1>7. Orderly(core')
  <2>1. Hush(core, core', {})
    BY <1>3, <1>6 DEF Hush, News
  <2> QED BY <1>3, <1>4, <2>1, StaysOrderly
<1>8. /\ wire' = wire \cup {[op |-> o, authed |-> core.pending[o].authed, live |-> TRUE] :
                            o \in q \ Maintenance}
      /\ replies' = replies \cup {[op |-> o, accepted |-> FALSE] : o \in q \cap Maintenance}
  <2>1. DOMAIN core.controls = 1 .. Len(core.controls)
    BY <1>2 DEF Sized
  <2>2. {core.controls[i] : i \in 1 .. Len(core.controls)} \cap Operation = q
    BY <2>1 DEF Queued
  <2> HIDE DEF q
  <2> QED BY <1>1, <2>2 DEF SendFirst
<1>9. /\ shared'.state = shared.state
      /\ ~shared'.sent => ~shared.sent /\ core.controls = <<>>
  BY <1>1, <1>2 DEF Typed, SharedFields
<1>10. /\ "Allocate" \in q => HasOperation(core, "Allocate")
       /\ "Deallocate" \in q => HasOperation(core, "Deallocate")
       /\ "Allocate" \in Queued(core) <=> "Allocate" \in q
       /\ core.controls = <<>> => q = {}
  BY <1>4 DEF Orderly, Queued, Operation
<1> HIDE DEF q
<1>11. Grants' = Grants
  BY <1>8 DEF Grants, Maintenance
<1>12. ASSUME NEW r \in Asks', r \notin Asks
       PROVE  /\ "Allocate" \in q
              /\ r.live /\ r.authed = core.pending["Allocate"].authed
  BY <1>8, <1>12 DEF Asks
<1>13. "Allocate" \in q => Grants = {}
  BY <1>4, <1>10 DEF Books, OneAllocate
<1>14. OneAllocate'
  <2>1. ASSUME NEW r \in Asks'
        PROVE  /\ r.live /\ HasOperation(core', "Allocate")
               /\ r.authed = core'.pending["Allocate"].authed
               /\ "Allocate" \notin Queued(core') /\ Grants' = {}
    <3>1. CASE r \in Asks
      BY <1>3, <1>4, <1>5, <1>6, <1>11, <3>1 DEF Books, OneAllocate
    <3>2. CASE r \notin Asks
      BY <1>3, <1>5, <1>6, <1>10, <1>11, <1>12, <1>13, <2>1, <3>2
    <3> QED BY <3>1, <3>2
  <2>2. ASSUME NEW r \in Grants'
        PROVE  /\ HasOperation(core', "Allocate") /\ "Allocate" \notin Queued(core')
               /\ r.accepted => core'.pending["Allocate"].authed
               /\ Grants' = {r}
    BY <1>3, <1>4, <1>5, <1>6, <1>11, <2>2 DEF Books, OneAllocate
  <2> QED BY <2>1, <2>2 DEF OneAllocate
<1>15. Traceable'
  <2>1. Granted \in replies => Granted \in replies'
    BY <1>8
  <2> QED BY <1>1, <1>3, <1>4, <1>5, <2>1 DEF Books, Traceable, Granted
<1>16. Released'
  <2>1. ASSUME NEW r \in (wire \cup replies)', r.op = "Deallocate" PROVE Closing(core')
    <3>1. CASE r \in wire \cup replies
      BY <1>3, <1>4, <2>1, <3>1 DEF Books, Released, Closing
    <3>2. CASE r \notin wire \cup replies
      <4>1. "Deallocate" \in q
        BY <1>8, <2>1, <3>2 DEF Maintenance
      <4> QED BY <1>2, <1>3, <1>10, <4>1 DEF Steady, Closing
    <3> QED BY <3>1, <3>2
  <2>2. Freed \in replies' => Freed \in replies
    BY <1>8 DEF Freed
  <2> QED BY <1>1, <1>4, <2>1, <2>2 DEF Released, Books, Freed
<1>17. Silent'
  BY <1>1, <1>4, <1>8, <1>9, <1>10 DEF Books, Silent
<1>18. Ended'
  BY <1>1, <1>3, <1>4, <1>9 DEF Books, Ended, Gone
<1> QED BY <1>7, <1>14, <1>15, <1>16, <1>17, <1>18 DEF Books

\* The driver hears what the core has to tell.
LEMMA HandleEventsBooks ==
    ASSUME Trust, HandleEvents, faults' = 0, ~Exhausted' PROVE Books'
<1> DEFINE es == core.events
           gone == {i \in DOMAIN es : es[i].kind = "relay" /\ ~core.relay}
           n == IF gone = {} THEN Len(es) ELSE (CHOOSE i \in gone : \A j \in gone : i <= j) - 1
           t == Told(shared, es, n)
           Met(kind, what) == \E i \in 1 .. n : es[i].kind = kind /\ es[i].what = what
           r == IF Met("exhausted", "none") THEN "exhausted" ELSE "failed"
<1>1. faults = 0 /\ Shape(core) /\ Sized(core) /\ Typed(shared)
  BY DEF Trust, Informed, Fit, Good
<1>2. gone = {}
  <2>1. gone # {} => PumpError(t)
    BY Zenon DEF HandleEvents, Told
  <2> HIDE DEF gone, t
  <2>2. ~PumpError(t)
    <3>1. PumpError(t) => Fault(TRUE)
      BY DEF PumpError
    <3> QED BY <1>1, <3>1, NoFault
  <2> QED BY <2>1, <2>2
<1>3. /\ core' = [core EXCEPT !.events = <<>>]
      /\ shared' = IF Met("state", "destroying") THEN Fail(t, r) ELSE t
  BY <1>2, Zenon DEF HandleEvents, Told
<1>4. UNCHANGED <<wake, wire, replies, held>>
  BY DEF HandleEvents
<1>5. dpc' = "top"
  BY <1>2, Zenon DEF HandleEvents
<1>6. n = Len(es) /\ es \in Seq(EventRec) /\ DOMAIN es = 1 .. n /\ n \in 0 .. Len(es)
  BY <1>1, <1>2 DEF Sized
<1> HIDE DEF n, gone, t
<1>7. Learns(shared, es, n, t)
  <2> HIDE DEF es
  <2> QED BY <1>1, <1>6, ToldLearns DEF t
<1>8. shared' = t \/ shared' = Fail(t, r)
  <2> HIDE DEF Met, r
  <2> QED BY <1>3
<1>9. r \in Terminal \ {"none"}
  BY DEF Terminal
<1> HIDE DEF r
<1>10. Alike(t, shared')
  BY <1>7, <1>8, <1>9, FailEnds DEF Alike, Learns
<1>11. /\ core'.controls = core.controls /\ core'.events = <<>> /\ core'.pending = core.pending
       /\ core'.state = core.state /\ core'.shutdown = core.shutdown /\ core'.armed = core.armed
       /\ core'.destroyed = core.destroyed /\ core'.failures = core.failures
  BY <1>1, <1>3 DEF Shape, Fields
<1>12. Books /\ Orderly(core)
  BY <1>11, TrustSays DEF Exhausted
<1>13. Orderly(core')
  <2>1. Hush(core, core', {})
    BY <1>11 DEF Hush, News, Queued
  <2> QED BY <1>11, <1>12, <2>1, StaysOrderly
<1>14. (\A o : HasOperation(core', o) <=> HasOperation(core, o)) /\ Queued(core') = Queued(core)
  BY <1>11 DEF HasOperation, Queued
<1>15. OneAllocate' /\ Traceable' /\ Released'
  BY <1>4, <1>11, <1>12, <1>14 DEF Books, OneAllocate, Traceable, Released, Asks, Grants, Closing
<1>16. Silent'
  BY <1>4, <1>7, <1>10, <1>12 DEF Books, Silent, Alike, Learns
<1>17. Ended'
  <2>1. ASSUME t.state \in GoneState PROVE Gone(core)
    <3>1. CASE t.state = shared.state
      BY <1>12, <2>1, <3>1 DEF Books, Ended
    <3>2. CASE \E i \in 1 .. n : es[i].kind = "state" /\ es[i].what = t.state
      <4>1. News(core)
        BY <1>6, <2>1, <3>2 DEF News, Tells
      <4> QED BY <1>12, <4>1 DEF Orderly
    <3> QED BY <1>7, <3>1, <3>2 DEF Learns
  <2> QED BY <1>4, <1>5, <1>10, <1>11, <1>12, <2>1 DEF Books, Ended, Alike, Gone
<1> QED BY <1>13, <1>15, <1>16, <1>17 DEF Books

\* The server takes a request.
LEMMA ServerTakesBooks ==
    ASSUME Trust, ServerTakes, ~Exhausted' PROVE Books'
<1>1. PICK r \in wire, accepted \in BOOLEAN :
          /\ accepted => r.authed
          /\ wire' = wire \ {r}
          /\ replies' = IF r.live THEN replies \cup {[op |-> r.op, accepted |-> accepted]}
                        ELSE replies
          /\ held' = IF accepted THEN r.op = "Allocate" ELSE held
          /\ UNCHANGED <<core, shared, dpc, local, own, wake, faults>>
  BY DEF ServerTakes
<1>2. Books /\ Steady(core) /\ Messages
  BY <1>1, TrustSays DEF Exhausted, Fit
<1>3. r \in Request /\ wire \subseteq Request /\ shared.sent
  BY <1>1, <1>2 DEF Messages, Books, Silent
<1>4. Orderly(core') /\ Silent' /\ Ended'
  BY <1>1, <1>2, <1>3 DEF Books, Silent, Ended
<1>5. CASE r.op = "Allocate"
  <2> DEFINE z == [op |-> "Allocate", accepted |-> accepted]
  <2>1. /\ r.live /\ HasOperation(core, "Allocate") /\ Grants = {}
        /\ r.authed = core.pending["Allocate"].authed /\ "Allocate" \notin Queued(core)
    BY <1>2, <1>5 DEF Books, OneAllocate, Asks
  <2>2. replies' = replies \cup {z}
    BY <1>1, <1>5, <2>1
  <2>3. Asks' = {}
    <3>1. ASSUME NEW x \in wire, x.op = "Allocate" PROVE x = r
      <4>1. x.live /\ x.authed = core.pending["Allocate"].authed
        BY <1>2, <3>1 DEF Books, OneAllocate, Asks
      <4> QED BY <1>3, <1>5, <2>1, <3>1, <4>1 DEF Request
    <3> QED BY <1>1, <3>1 DEF Asks
  <2>4. Grants' = {z}
    BY <2>1, <2>2 DEF Grants
  <2>5. OneAllocate'
    BY <1>1, <2>1, <2>3, <2>4 DEF OneAllocate
  <2>6. Traceable'
    BY <1>1, <1>2, <1>5, <2>1, <2>2 DEF Books, Traceable, Granted
  <2>7. Released'
    <3>1. core.state = "allocating"
      BY <1>2, <2>1 DEF Steady
    <3>2. \A x \in (wire \cup replies)' : x.op = "Deallocate" => x \in wire \cup replies
      BY <1>1, <2>2
    <3>3. \A x \in (wire \cup replies)' : x.op # "Deallocate"
      BY <1>2, <3>1, <3>2 DEF Books, Released, Closing, GoneState
    <3> QED BY <3>3 DEF Released, Freed
  <2> QED BY <1>4, <2>5, <2>6, <2>7 DEF Books
<1>6. CASE r.op = "Deallocate"
  <2> DEFINE z == [op |-> "Deallocate", accepted |-> accepted]
  <2>1. replies' \in {replies, replies \cup {z}} /\ (held' => held) /\ (accepted => ~held')
    BY <1>1, <1>6
  <2>2. Asks' = Asks /\ Grants' = Grants
    BY <1>1, <1>6, <2>1 DEF Asks, Grants
  <2>3. OneAllocate'
    BY <1>1, <1>2, <2>2 DEF Books, OneAllocate
  <2>4. Traceable'
    BY <1>1, <1>2, <2>1 DEF Books, Traceable
  <2>5. Closing(core')
    BY <1>1, <1>2, <1>6 DEF Books, Released
  <2>6. Released'
    BY <1>2, <2>1, <2>5 DEF Books, Released, Freed
  <2> QED BY <1>4, <2>3, <2>4, <2>6 DEF Books
<1> QED BY <1>3, <1>5, <1>6 DEF Request

\* The server forgets the allocation.
LEMMA ServerForgetsBooks ==
    ASSUME Trust, ServerForgets, ~Exhausted' PROVE Books'
<1>1. UNCHANGED <<core, shared, dpc, wake, wire, replies>> /\ held' = FALSE
  BY DEF ServerForgets
<1>2. Books
  BY <1>1, TrustSays DEF Exhausted
<1>3. Orderly(core)' /\ OneAllocate'
  BY <1>1, <1>2 DEF Books, OneAllocate, Asks, Grants
<1>4. Traceable' /\ Released' /\ Silent' /\ Ended'
  BY <1>1, <1>2 DEF Books, Traceable, Released, Silent, Ended
<1> QED BY <1>3, <1>4 DEF Books

\* The steps of the driver and of the owner that leave the core alone.
LEMMA QuietBooks ==
    ASSUME Trust, ~Exhausted',
           \/ GoOn \/ Wake \/ OwnerClosed \/ Connected \/ Bound \/ SeesFailure
           \/ Cancel \/ RequestClose \/ UNCHANGED vars
    PROVE  Books'
<1>0. Typed(shared)
  BY DEF Trust, Informed
<1>1. /\ UNCHANGED <<core, wire, replies, held, wake>>
      /\ dpc' = dpc \/ dpc' \in {"top", "pump", "wait"}
  BY DEF GoOn, Wake, OwnerClosed, Connected, Bound, SeesFailure, Cancel, RequestClose, vars
<1>2. \/ shared' = shared
      \/ shared' = [shared EXCEPT !.done = "none"]
      \/ shared' = RequestCleanup(shared)
  BY DEF GoOn, Wake, OwnerClosed, Connected, Bound, SeesFailure, Cancel, RequestClose, vars
<1>3. Alike(shared, shared')
  <2>1. Alike(shared, shared)
    BY DEF Alike
  <2> QED BY <1>0, <1>2, <2>1, MarksTyped, RequestCleanupEnds
<1> QED BY <1>1, <1>3, LeftAlone

\* The driver has nothing to clean up.
LEMMA SkipCleanUpBooks ==
    ASSUME Trust, SkipCleanUp, faults' = 0, ~Exhausted' PROVE Books'
<1>1. UNCHANGED <<core, shared, wire, replies, held, wake>>
  BY DEF SkipCleanUp
<1>2. ~Fault(TRUE)
  BY NoFault DEF Trust
<1>3. ~shared.sent
  BY <1>2 DEF SkipCleanUp
<1> QED BY <1>1, <1>3, LeftAlone DEF Alike

\* resync_after_suspend leaves the count of failures.
LEMMA ResyncAfterSuspendCounts ==
    ASSUME NEW c, Fit(c), NEW lost PROVE ResyncAfterSuspend(c, lost).failures = c.failures
<1> DEFINE x == c.armed \cup {"refresh", "maintenance", "keepalive"}
           a == [c EXCEPT !.armed = x]
           dead == DestroyAllocation(c, "Refresh", "failed")
<1>1. ResyncAfterSuspend(c, lost) \in {c, dead, a}
  BY DEF ResyncAfterSuspend, Fit, Good, Shape, Fields
<1>2. dead.failures = c.failures
  BY DestroyAllocationDies DEF Fit, Good, Operation, Result
<1>3. a.failures = c.failures
  BY DEF Fit, Good, Shape, Fields
<1> HIDE DEF a, dead
<1> QED BY <1>1, <1>2, <1>3

\* Every step keeps the books as long as nothing goes wrong.
LEMMA NextBooks ==
    ASSUME Trust, [Next]_vars, faults' = 0, ~Exhausted' PROVE Books'
<1>1. ~Fault(TRUE)
  BY NoFault DEF Trust
<1>2. CASE SendFails \/ ReceiveFails \/ ConnectTimesOut \/ AbortDriver \/ Lose \/ WakeSignal
  BY <1>1, <1>2 DEF SendFails, PumpError, ReceiveFails, ConnectTimesOut, AbortDriver, Lose, WakeSignal
<1>3. CASE ObserveWake
  <2>1. wake # "none"
    BY <1>3 DEF ObserveWake
  <2>2. core'.failures = core.failures
    <3>1. PICK lost : core' = ResyncAfterSuspend(core, lost)
      BY <1>3 DEF ObserveWake, CoreStep
    <3> QED BY <3>1, ResyncAfterSuspendCounts DEF Trust, Informed
  <2> QED BY <2>1, <2>2, TrustSays DEF Exhausted, Books, Ended
<1>4. CASE Receive
  BY <1>4, ReceiveBooks
<1>5. CASE CleanUp \/ Pump \/ DriverEnds \/ SkipCleanUp \/ SendControls \/ HandleEvents
  BY <1>5, CleanUpBooks, PumpBooks, DriverEndsBooks, SkipCleanUpBooks, SendControlsBooks,
     HandleEventsBooks
<1>6. CASE OwnerShutdown \/ StartAllocation \/ PrepareChannel \/ StartChannel
  BY <1>6, OwnerShutdownBooks, StartAllocationBooks, StartBindingBooks
<1>7. CASE ServerTakes \/ ServerForgets
  BY <1>7, ServerTakesBooks, ServerForgetsBooks
<1>8. CASE \/ GoOn \/ Wake \/ OwnerClosed \/ Connected \/ Bound \/ SeesFailure
           \/ Cancel \/ RequestClose \/ UNCHANGED vars
  BY <1>8, QuietBooks
<1> QED BY <1>2, <1>3, <1>4, <1>5, <1>6, <1>7, <1>8 DEF Next, Driver, Owner

\* The inductive invariant, from the first state on.
LEMMA AccountedAlways == Spec => []Accounted
<1>1. Init => Accounted
  <2> SUFFICES ASSUME Init PROVE Books /\ faults \in Nat
    BY DEF Accounted
  <2>1. /\ core.state = "null" /\ core.events = <<>> /\ core.controls = <<>>
        /\ core.pending = NonePending /\ shared.state = "null" /\ shared.sent = FALSE
        /\ wire = {} /\ replies = {} /\ held = FALSE /\ faults = 0 /\ wake = "none" /\ dpc = "top"
    BY DEF Init, NonePending
  <2>2. \A o \in Operation : ~HasOperation(core, o)
    BY <2>1, NothingPending
  <2>3. Queued(core) = {} /\ ~News(core)
    BY <2>1 DEF Queued, News
  <2>4. Orderly(core)
    BY <2>1, <2>2, <2>3 DEF Orderly, Maintenance, Operation
  <2>5. OneAllocate /\ Traceable /\ Released /\ Silent /\ Ended
    BY <2>1 DEF OneAllocate, Traceable, Released, Silent, Ended, Asks, Grants, GoneState
  <2> QED BY <2>1, <2>4, <2>5 DEF Books
<1>2. Informed /\ Accounted /\ [Next]_vars => Accounted'
  <2> SUFFICES ASSUME Informed, Accounted, [Next]_vars PROVE Accounted'
    OBVIOUS
  <2>1. faults \in Nat /\ (faults = 0 /\ ~Exhausted => Books)
    BY DEF Accounted
  <2>2. faults' \in Nat /\ (faults' = 0 => faults = 0)
    BY <2>1, FaultsCount
  <2>3. ASSUME faults' = 0, ~Exhausted' PROVE Books'
    <3>1. Trust
      BY <2>1, <2>2, <2>3 DEF Trust
    <3> QED BY <2>3, <3>1, NextBooks
  <2> QED BY <2>2, <2>3 DEF Accounted
<1> QED BY <1>1, <1>2, InformedAlways, PTL DEF Spec

\* For every capacity and every number of transmissions, nonces and failures:
\* when nothing was lost, late or refused without reason and the ChannelBind
\* retries were not exhausted, the server holds no allocation once the driver
\* task has ended, in whatever order the owner cancelled, the answers arrived
\* and the core was shut down (graceful_shutdown, complete_allocate,
\* start_driver_cleanup, force_destroy).
THEOREM ReleasedAtEndHolds == Spec => []ReleasedAtEnd
<1>1. Informed /\ Accounted => ReleasedAtEnd
  <2> SUFFICES ASSUME Informed, Accounted, dpc = "end", faults = 0, ~Exhausted PROVE ~held
    BY DEF ReleasedAtEnd
  <2>1. Books /\ Steady(core)
    BY DEF Accounted, Informed, Fit
  <2>2. CASE ~shared.sent
    BY <2>1, <2>2 DEF Books, Silent
  <2>3. CASE Gone(core)
    BY <2>1, <2>3 DEF Books, Traceable, Steady, Gone, GoneState
  <2> QED BY <2>1, <2>2, <2>3 DEF Books, Ended
<1> QED BY <1>1, InformedAlways, AccountedAlways, PTL

-----------------------------------------------------------------------------
(* The reader of the stream transports.                                    *)

\* Induction up to n.
LEMMA UpTo ==
    ASSUME NEW n \in Nat, NEW T, 0 \in T, \A i \in 1 .. n : i - 1 \in T => i \in T
    PROVE  0 .. n \subseteq T
<1> DEFINE S == {k \in Nat : k <= n => k \in T}
<1>1. 0 \in S
  OBVIOUS
<1>2. ASSUME NEW k \in Nat, k \in S PROVE k + 1 \in S
  <2> SUFFICES ASSUME k + 1 <= n PROVE k + 1 \in T
    OBVIOUS
  <2>1. k + 1 \in 1 .. n /\ (k + 1) - 1 = k /\ k \in T
    BY <1>2
  <2> QED BY <2>1
<1>3. Nat \subseteq S
  <2> HIDE DEF S
  <2> QED BY <1>1, <1>2, Induction
<1> QED BY <1>3

\* g is what the steps make of first.
Solves(g, n, D, first, step) ==
    /\ g \in [0 .. n -> D] /\ g[0] = first
    /\ \A i \in 1 .. n : g[i] = step[<<i, g[i - 1]>>]

\* A recursion over 0 .. n has a solution.
LEMMA Recursion ==
    ASSUME NEW n \in Nat, NEW D, NEW first \in D, NEW step \in [(1 .. n) \X D -> D]
    PROVE  \E g : Solves(g, n, D, first, step)
<1> DEFINE Is(g, k) == /\ g \in [0 .. k -> D] /\ g[0] = first
                       /\ \A i \in 1 .. k : g[i] = step[<<i, g[i - 1]>>]
           T == {k \in 0 .. n : \E g : Is(g, k)}
<1>1. 0 \in T
  <2> DEFINE g == [i \in 0 .. 0 |-> first]
  <2>1. Is(g, 0)
    OBVIOUS
  <2> HIDE DEF g, Is
  <2> QED BY <2>1
<1>2. ASSUME NEW k \in 1 .. n, k - 1 \in T PROVE k \in T
  <2>1. PICK g : Is(g, k - 1)
    BY <1>2
  <2> DEFINE next == step[<<k, g[k - 1]>>]
             e == [i \in 0 .. k |-> IF i = k THEN next ELSE g[i]]
  <2>2. next \in D
    BY <2>1
  <2>3. ASSUME NEW i \in 1 .. k PROVE e[i] = step[<<i, e[i - 1]>>]
    <3>1. e[i - 1] = g[i - 1]
      OBVIOUS
    <3>2. CASE i = k
      <4>1. e[i] = next
        BY <3>2
      <4> HIDE DEF e, Is
      <4> QED BY <3>1, <3>2, <4>1
    <3>3. CASE i # k
      <4>1. i \in 1 .. k - 1 /\ e[i] = g[i]
        BY <3>3
      <4>2. g[i] = step[<<i, g[i - 1]>>]
        BY <2>1, <4>1
      <4> HIDE DEF e, next, Is
      <4> QED BY <3>1, <4>1, <4>2, Zenon
    <3> QED BY <3>2, <3>3
  <2>4. Is(e, k)
    <3>1. e \in [0 .. k -> D] /\ e[0] = first
      BY <2>1, <2>2
    <3> HIDE DEF e
    <3> QED BY <2>3, <3>1
  <2> HIDE DEF e, Is
  <2> QED BY <2>4
<1>3. n \in T
  <2> HIDE DEF T
  <2> QED BY <1>1, <1>2, UpTo
<1> QED BY <1>3 DEF Solves

\* What the reader keeps, and what a call returns.
Returned == {"control", "data", "dropped"}
ReaderRec == [have : Nat, pool : Nat, out : Seq(Returned), ok : BOOLEAN]

\* Legal frames.
Legal(frames, n) == n \in Nat /\ n = Len(frames) /\ \A i \in 1 .. n : frames[i] \in StreamFrames

\* A legal frame is taken when all its bytes are there and waited for before,
\* and it fits the buffer.
LEMMA DecodeIs ==
    ASSUME NEW f \in StreamFrames, NEW have \in Nat
    PROVE  /\ f.kind \in {"control", "data"}
           /\ WireBytes(f) \in Nat /\ WireBytes(f) <= ReadBuffer /\ ReadBuffer \in Nat
           /\ have < WireBytes(f) => decode_frame(f, have).step = "more"
           /\ have >= WireBytes(f) => /\ decode_frame(f, have).step = "take"
                                      /\ decode_frame(f, have).bytes = WireBytes(f)
<1> DEFINE w == WireBytes(f)
           control == f.kind = "control"
           most == IF control THEN MaxControlFrame ELSE MaxDataFrame
<1>1. /\ f.kind \in {"control", "data"} /\ f.declared \in Nat
      /\ IF control THEN f.declared % 4 = 0 /\ w <= MaxControlFrame ELSE w <= MaxDataFrame
      /\ MaxControlFrame \in Nat /\ MaxDataFrame \in Nat /\ ReadBuffer \in Nat
      /\ MaxControlFrame <= ReadBuffer /\ MaxDataFrame <= ReadBuffer
  BY StreamAssumption
<1>2. Padding(f.declared) \in Nat
  BY <1>1 DEF Padding
<1>3. w \in Nat /\ w >= 4 /\ (control => w >= 8)
  BY <1>1, <1>2 DEF WireBytes
<1>4. FrameBytes(f) = w
  BY DEF FrameBytes, WireBytes
<1>5. most \in Nat /\ w <= most /\ w <= ReadBuffer
  <2>1. CASE control
    BY <1>1, <1>3, <2>1
  <2>2. CASE ~control
    BY <1>1, <1>3, <2>2
  <2> QED BY <2>1, <2>2
<1> DEFINE d == decode_frame(f, have)
<1>6. d = IF have < 4 THEN NeedMore
          ELSE IF control /\ f.declared % 4 # 0 THEN Bail
          ELSE IF w > most THEN Bail
          ELSE IF (control /\ have < 8) \/ have < w THEN NeedMore
          ELSE Take(w)
  BY <1>4, Zenon DEF decode_frame
<1>7. ~(control /\ f.declared % 4 # 0) /\ ~(w > most)
  BY <1>1, <1>3, <1>5
<1> HIDE DEF w, most, d, control
<1>8. have < w => d = NeedMore
  BY <1>6, <1>7
<1>9. have >= w => d = Take(w)
  <2> SUFFICES ASSUME have >= w PROVE d = Take(w)
    OBVIOUS
  <2>1. ~(have < 4) /\ ~((control /\ have < 8) \/ have < w)
    BY <1>3
  <2> QED BY <1>6, <1>7, <2>1
<1>10. NeedMore.step = "more" /\ Take(w).step = "take" /\ Take(w).bytes = w
  BY DEF NeedMore, Take
<1> QED BY <1>1, <1>3, <1>5, <1>8, <1>9, <1>10 DEF w, d

\* The ends of the frames add up their bytes.
LEMMA EndsAdd ==
    ASSUME NEW frames, NEW n, Legal(frames, n)
    PROVE  /\ Ends(frames) \in [0 .. n -> Nat] /\ Ends(frames)[0] = 0
           /\ \A i \in 1 .. n : Ends(frames)[i] = Ends(frames)[i - 1] + WireBytes(frames[i])
<1> DEFINE Is(g) == g = [i \in 0 .. n |-> IF i = 0 THEN 0 ELSE g[i - 1] + WireBytes(frames[i])]
           step == [p \in (1 .. n) \X Nat |-> p[2] + WireBytes(frames[p[1]])]
           e == Ends(frames)
<1>1. n \in Nat /\ n = Len(frames) /\ \A i \in 1 .. n : WireBytes(frames[i]) \in Nat
  <2>1. n \in Nat /\ n = Len(frames) /\ \A i \in 1 .. n : frames[i] \in StreamFrames
    BY Zenon DEF Legal
  <2>2. 0 \in Nat
    OBVIOUS
  <2> QED BY <2>1, <2>2, DecodeIs, Zenon
<1>2. step \in [(1 .. n) \X Nat -> Nat]
  <2>1. ASSUME NEW p \in (1 .. n) \X Nat PROVE p[2] + WireBytes(frames[p[1]]) \in Nat
    <3>1. p[2] \in Nat /\ WireBytes(frames[p[1]]) \in Nat
      BY <1>1
    <3> QED BY <3>1
  <2> QED BY <2>1
<1>3. PICK g : Solves(g, n, Nat, 0, step)
  <2> HIDE DEF step
  <2> QED BY <1>1, <1>2, Recursion
<1>4. \A i \in 1 .. n : g[i] = g[i - 1] + WireBytes(frames[i])
  <2> SUFFICES ASSUME NEW i \in 1 .. n PROVE g[i] = g[i - 1] + WireBytes(frames[i])
    OBVIOUS
  <2> HIDE DEF step
  <2>1. g[i - 1] \in Nat /\ g[i] = step[<<i, g[i - 1]>>]
    <3>1. i - 1 \in 0 .. n
      BY <1>1
    <3>2. g \in [0 .. n -> Nat] /\ g[i] = step[<<i, g[i - 1]>>]
      BY <1>3, Zenon DEF Solves
    <3> QED BY <3>1, <3>2
  <2>2. step[<<i, g[i - 1]>>] = g[i - 1] + WireBytes(frames[i])
    BY <2>1 DEF step
  <2> QED BY <2>1, <2>2
<1>5. Is(g)
  BY <1>3, <1>4 DEF Solves
<1>6. Is(e)
  <2>1. e = CHOOSE u : Is(u)
    BY <1>1, Zenon DEF Ends
  <2> HIDE DEF e, Is
  <2> QED BY <1>5, <2>1
<1> HIDE DEF e
<1>7. e[0] = 0 /\ \A i \in 1 .. n : e[i] = e[i - 1] + WireBytes(frames[i])
  BY <1>1, <1>6
<1>8. \A i \in 0 .. n : e[i] \in Nat
  <2> DEFINE T == {i \in 0 .. n : e[i] \in Nat}
  <2>1. 0 \in T
    BY <1>1, <1>7
  <2>2. \A i \in 1 .. n : i - 1 \in T => i \in T
    <3> SUFFICES ASSUME NEW i \in 1 .. n, e[i - 1] \in Nat PROVE e[i] \in Nat
      OBVIOUS
    <3>1. e[i] = e[i - 1] + WireBytes(frames[i]) /\ WireBytes(frames[i]) \in Nat
      BY <1>1, <1>7
    <3> QED BY <3>1
  <2> HIDE DEF T
  <2>3. 0 .. n \subseteq T
    BY <1>1, <2>1, <2>2, UpTo
  <2> QED BY <2>3 DEF T
<1>9. e \in [0 .. n -> Nat]
  BY <1>6, <1>8
<1> QED BY <1>7, <1>9 DEF e

\* The ChannelData frames before frame i, counted.
LEMMA DataBeforeCounts ==
    ASSUME NEW frames, NEW i \in Nat \ {0}
    PROVE  /\ Cardinality(DataBefore(frames, i)) \in Nat
           /\ Cardinality(DataBefore(frames, 1)) = 0
           /\ Cardinality(DataBefore(frames, i + 1)) =
                 Cardinality(DataBefore(frames, i)) + (IF frames[i].kind = "data" THEN 1 ELSE 0)
<1> DEFINE b == DataBefore(frames, i)
           isData == frames[i].kind = "data"
<1>1. IsFiniteSet(b)
  <2>1. IsFiniteSet(1 .. i - 1) /\ b \subseteq 1 .. i - 1
    BY FS_Interval DEF DataBefore
  <2> QED BY <2>1, FS_Subset
<1>2. DataBefore(frames, 1) = {}
  BY DEF DataBefore
<1>3. i \notin b
  BY DEF DataBefore
<1>4. DataBefore(frames, i + 1) = IF isData THEN b \cup {i} ELSE b
  <2>1. 1 .. (i + 1) - 1 = (1 .. i - 1) \cup {i}
    OBVIOUS
  <2> QED BY <2>1 DEF DataBefore
<1> HIDE DEF b
<1>5. Cardinality(b) \in Nat
  BY <1>1, FS_CardinalityType
<1>6. Cardinality(b \cup {i}) = Cardinality(b) + 1
  BY <1>1, <1>3, FS_AddElement
<1>7. Cardinality(DataBefore(frames, 1)) = 0
  BY <1>2, FS_EmptySet
<1> HIDE DEF isData
<1>8. Cardinality(DataBefore(frames, i + 1)) = Cardinality(b) + (IF isData THEN 1 ELSE 0)
  <2>1. CASE isData
    BY <1>4, <1>5, <1>6, <2>1
  <2>2. CASE ~isData
    BY <1>4, <1>5, <2>2
  <2> QED BY <2>1, <2>2
<1> QED BY <1>5, <1>7, <1>8 DEF b, isData

\* What the reader must make of frame i, and the packets left before it.
Wanted(frames, i, pool) ==
    IF frames[i].kind = "control" THEN "control"
    ELSE IF Cardinality(DataBefore(frames, i)) < pool THEN "data" ELSE "dropped"
PacketsLeft(frames, i, pool) ==
    IF Cardinality(DataBefore(frames, i)) < pool THEN pool - Cardinality(DataBefore(frames, i)) ELSE 0

\* The reader is between two frames and has made of each what it must.
Between(frames, n, have, pool, s) ==
    /\ s \in ReaderRec /\ s.ok
    /\ Len(s.out) <= n /\ Ends(frames)[Len(s.out)] + s.have = have
    /\ s.pool = PacketsLeft(frames, Len(s.out) + 1, pool)
    /\ \A i \in 1 .. Len(s.out) : s.out[i] = Wanted(frames, i, pool)

\* It has read all there is to read.
Done(frames, n, s) ==
    Len(s.out) = n \/ (Len(s.out) < n /\ s.have < WireBytes(frames[Len(s.out) + 1]))

\* A call takes the next frame, or leaves all as it is when there is none.
LEMMA CallReadsNext ==
    ASSUME NEW frames, NEW n, Legal(frames, n), NEW have \in Nat, NEW pool \in Nat,
           NEW s, Between(frames, n, have, pool, s)
    PROVE  /\ Between(frames, n, have, pool, read_frame(frames, s))
           /\ IF Done(frames, n, s) THEN read_frame(frames, s) = s
              ELSE Len(read_frame(frames, s).out) = Len(s.out) + 1
<1> DEFINE m == Len(s.out)
           f == frames[m + 1]
           w == WireBytes(f)
           d == decode_frame(f, s.have)
           got == IF f.kind = "control" THEN "control" ELSE copy_channel_data(f, s.pool)
           t == read_frame(frames, s)
           before == Cardinality(DataBefore(frames, m + 1))
<1>1. n \in Nat /\ n = Len(frames)
  BY Zenon DEF Legal
<1>2. /\ s.have \in Nat /\ s.pool \in Nat /\ s.out \in Seq(Returned) /\ s.ok = TRUE
      /\ s = [have |-> s.have, pool |-> s.pool, out |-> s.out, ok |-> TRUE]
  BY DEF Between, ReaderRec
<1>3. m \in Nat /\ m <= n /\ Ends(frames)[m] + s.have = have
  BY <1>2 DEF Between
<1>4. t = IF m = n THEN s
          ELSE IF d.step = "bail" \/ (d.step = "take" /\ d.bytes # w) THEN [s EXCEPT !.ok = FALSE]
          ELSE IF d.step = "more" THEN [s EXCEPT !.ok = s.have < ReadBuffer]
          ELSE [s EXCEPT !.have = @ - d.bytes, !.out = Append(@, got),
                         !.pool = IF got = "data" THEN @ - 1 ELSE @]
  BY <1>1, Zenon DEF read_frame
<1> HIDE DEF t, d
<1>5. CASE m = n
  <2>1. t = s
    BY <1>4, <1>5, Zenon
  <2>2. Done(frames, n, s)
    BY <1>5 DEF Done
  <2> QED BY <2>1, <2>2, Zenon DEF t
<1>6. CASE m # n
  <2>1. m + 1 \in 1 .. n /\ f \in StreamFrames
    BY <1>1, <1>3, <1>6 DEF Legal
  <2>2. /\ f.kind \in {"control", "data"} /\ w \in Nat /\ w <= ReadBuffer /\ ReadBuffer \in Nat
        /\ s.have < w => d.step = "more"
        /\ s.have >= w => d.step = "take" /\ d.bytes = w
    <3> HIDE DEF f
    <3> QED BY <1>2, <2>1, DecodeIs DEF d
  <2>3. CASE s.have < w
    <3>1. t = [s EXCEPT !.ok = s.have < ReadBuffer]
      BY <1>4, <1>6, <2>2, <2>3
    <3>2. (s.have < ReadBuffer) = TRUE
      BY <1>2, <2>2, <2>3
    <3>3. t = s
      BY <1>2, <3>1, <3>2
    <3>4. Done(frames, n, s)
      BY <1>3, <1>6, <2>3, <1>1 DEF Done
    <3> QED BY <3>3, <3>4, Zenon DEF t
  <2>4. CASE s.have >= w
    <3> HIDE DEF w, f
    <3> DEFINE left == IF got = "data" THEN s.pool - 1 ELSE s.pool
    <3>1. t = [s EXCEPT !.have = @ - w, !.out = Append(@, got), !.pool = IF got = "data" THEN @ - 1 ELSE @]
      BY <1>4, <1>6, <2>2, <2>4
    <3> HIDE DEF got
    <3>2. t = [have |-> s.have - w, pool |-> left, out |-> Append(s.out, got), ok |-> TRUE]
      BY <1>2, <3>1
    <3>3. /\ before \in Nat
          /\ Cardinality(DataBefore(frames, (m + 1) + 1)) = before + (IF f.kind = "data" THEN 1 ELSE 0)
      <4>1. m + 1 \in Nat \ {0}
        BY <1>3
      <4> HIDE DEF m
      <4> QED BY <4>1, DataBeforeCounts, Zenon DEF f, before
    <3>4. s.pool = IF before < pool THEN pool - before ELSE 0
      BY DEF Between, PacketsLeft
    <3> HIDE DEF before
    <3>5. got = Wanted(frames, m + 1, pool) /\ got \in Returned
      <4>1. got = IF f.kind = "control" THEN "control" ELSE IF s.pool = 0 THEN "dropped" ELSE "data"
        BY Zenon DEF got, copy_channel_data
      <4>2. Wanted(frames, m + 1, pool) =
              IF f.kind = "control" THEN "control" ELSE IF before < pool THEN "data" ELSE "dropped"
        BY Zenon DEF Wanted, before, f
      <4>3. before < pool <=> s.pool # 0
        BY <3>3, <3>4
      <4> QED BY <4>1, <4>2, <4>3 DEF Returned
    <3>6. left \in Nat /\ left = PacketsLeft(frames, (m + 1) + 1, pool)
      <4>1. PacketsLeft(frames, (m + 1) + 1, pool) =
              LET now == Cardinality(DataBefore(frames, (m + 1) + 1))
              IN  IF now < pool THEN pool - now ELSE 0
        BY Zenon DEF PacketsLeft
      <4>2. got = "data" <=> f.kind = "data" /\ before < pool
        BY <2>2, <3>5 DEF Wanted, before, f
      <4>3. CASE f.kind = "data"
        BY <3>3, <3>4, <4>1, <4>2, <4>3, <1>2
      <4>4. CASE f.kind # "data"
        BY <3>3, <3>4, <4>1, <4>2, <4>4, <1>2
      <4> QED BY <4>3, <4>4
    <3>7. /\ Append(s.out, got) \in Seq(Returned) /\ Len(Append(s.out, got)) = m + 1
          /\ \A i \in 1 .. m : Append(s.out, got)[i] = s.out[i]
          /\ Append(s.out, got)[m + 1] = got
      BY <1>2, <3>5
    <3>8. Ends(frames)[m + 1] = Ends(frames)[m] + w /\ Ends(frames)[m] \in Nat
      <4>1. (m + 1) - 1 = m /\ m \in 0 .. n
        BY <1>3, <1>1
      <4> QED BY <2>1, <4>1, EndsAdd DEF w, f
    <3>9. /\ t \in ReaderRec /\ t.ok /\ t.have = s.have - w /\ t.pool = left
          /\ t.out = Append(s.out, got)
      BY <1>2, <2>2, <2>4, <3>2, <3>6, <3>7 DEF ReaderRec
    <3>10. \A i \in 1 .. m + 1 : t.out[i] = Wanted(frames, i, pool)
      <4> SUFFICES ASSUME NEW i \in 1 .. m + 1 PROVE t.out[i] = Wanted(frames, i, pool)
        OBVIOUS
      <4>1. CASE i = m + 1
        BY <3>5, <3>7, <3>9, <4>1
      <4>2. CASE i # m + 1
        <5>1. i \in 1 .. m
          BY <1>3, <4>2
        <5>2. s.out[i] = Wanted(frames, i, pool)
          BY <5>1 DEF Between
        <5> QED BY <3>7, <3>9, <5>1, <5>2, Zenon
      <4> QED BY <4>1, <4>2
    <3>11. Len(t.out) = m + 1
      BY <3>7, <3>9
    <3>12. Ends(frames)[m + 1] + t.have = have
      BY <1>2, <1>3, <2>2, <3>8, <3>9
    <3>13. m + 1 <= n
      BY <2>1, <1>1
    <3> HIDE DEF left, m
    <3>14. Between(frames, n, have, pool, t)
      BY <3>6, <3>9, <3>10, <3>11, <3>12, <3>13 DEF Between
    <3>15. ~Done(frames, n, s)
      BY <1>2, <1>6, <2>2, <2>4 DEF Done, m, w, f
    <3> QED BY <3>11, <3>14, <3>15 DEF t, m
  <2> QED BY <1>2, <2>2, <2>3, <2>4
<1> QED BY <1>5, <1>6

\* After every call the reader is between two frames, and after as many calls as
\* there are frames it has read all there is to read.
LEMMA ReaderReads ==
    ASSUME NEW frames, NEW n, Legal(frames, n), NEW have \in Nat, NEW pool \in Nat
    PROVE  /\ Between(frames, n, have, pool, Reader(frames, have, pool)[n])
           /\ Done(frames, n, Reader(frames, have, pool)[n])
<1> DEFINE first == [have |-> have, pool |-> pool, out |-> <<>>, ok |-> TRUE]
           Is(g) == g = [k \in 0 .. n |-> IF k = 0 THEN first ELSE read_frame(frames, g[k - 1])]
           G(s) == Between(frames, n, have, pool, s)
           D == {s \in ReaderRec : G(s)}
           step == [p \in (1 .. n) \X D |-> read_frame(frames, p[2])]
           r == Reader(frames, have, pool)
<1>1. n \in Nat /\ n = Len(frames)
  BY Zenon DEF Legal
<1>2. ASSUME NEW s, G(s)
      PROVE  /\ G(read_frame(frames, s)) /\ read_frame(frames, s) \in D
             /\ IF Done(frames, n, s) THEN read_frame(frames, s) = s
                ELSE Len(read_frame(frames, s).out) = Len(s.out) + 1
  <2>1. /\ G(read_frame(frames, s))
        /\ IF Done(frames, n, s) THEN read_frame(frames, s) = s
           ELSE Len(read_frame(frames, s).out) = Len(s.out) + 1
    BY <1>2, CallReadsNext
  <2>2. read_frame(frames, s) \in ReaderRec
    BY <2>1, Zenon DEF Between
  <2> QED BY <2>1, <2>2
<1>3. first \in D
  <2>1. first \in ReaderRec /\ first.ok /\ Len(first.out) = 0 /\ first.have = have /\ first.pool = pool
    BY DEF ReaderRec
  <2>2. Ends(frames)[0] = 0
    BY EndsAdd
  <2>3. Cardinality(DataBefore(frames, 1)) = 0
    BY DataBeforeCounts
  <2>4. pool = PacketsLeft(frames, 0 + 1, pool)
    BY <2>3 DEF PacketsLeft
  <2> HIDE DEF first
  <2>5. Between(frames, n, have, pool, first)
    BY <1>1, <2>1, <2>2, <2>4 DEF Between
  <2> QED BY <2>1, <2>5
<1>4. step \in [(1 .. n) \X D -> D]
  <2>1. ASSUME NEW p \in (1 .. n) \X D PROVE read_frame(frames, p[2]) \in D
    <3>1. p[2] \in D
      OBVIOUS
    <3> QED BY <1>2, <3>1
  <2> HIDE DEF D
  <2> QED BY <2>1
<1> HIDE DEF first
<1>5. PICK g : Solves(g, n, D, first, step)
  <2> HIDE DEF step, D
  <2> QED BY <1>1, <1>3, <1>4, Recursion
<1>6. \A k \in 1 .. n : g[k] = read_frame(frames, g[k - 1])
  <2> SUFFICES ASSUME NEW k \in 1 .. n PROVE g[k] = read_frame(frames, g[k - 1])
    OBVIOUS
  <2> HIDE DEF step, D
  <2>1. g[k - 1] \in D /\ g[k] = step[<<k, g[k - 1]>>]
    BY <1>1, <1>5 DEF Solves
  <2>2. step[<<k, g[k - 1]>>] = read_frame(frames, g[k - 1])
    BY <2>1 DEF step
  <2> QED BY <2>1, <2>2
<1>7. Is(g)
  <2> HIDE DEF step, D
  <2> QED BY <1>5, <1>6 DEF Solves
<1>8. Is(r)
  <2>1. r = CHOOSE u : Is(u)
    BY <1>1, Zenon DEF Reader, first
  <2> HIDE DEF r, Is
  <2> QED BY <1>7, <2>1
<1> HIDE DEF r, step
<1>9. r[0] = first /\ \A k \in 1 .. n : r[k] = read_frame(frames, r[k - 1])
  BY <1>1, <1>8
<1> HIDE DEF Is
<1>10. \A k \in 0 .. n : r[k] \in D
  <2> DEFINE T == {k \in 0 .. n : r[k] \in D}
  <2>1. 0 \in T
    <3> HIDE DEF D
    <3> QED BY <1>1, <1>3, <1>9
  <2>2. \A k \in 1 .. n : k - 1 \in T => k \in T
    <3> SUFFICES ASSUME NEW k \in 1 .. n, r[k - 1] \in D PROVE r[k] \in D
      OBVIOUS
    <3>1. G(r[k - 1])
      OBVIOUS
    <3> HIDE DEF D, G
    <3>2. read_frame(frames, r[k - 1]) \in D
      BY <1>2, <3>1
    <3> QED BY <1>9, <3>2
  <2> HIDE DEF T
  <2>3. 0 .. n \subseteq T
    BY <1>1, <2>1, <2>2, UpTo
  <2> QED BY <2>3 DEF T
<1>11. \A k \in 0 .. n : Len(r[k].out) = k \/ Done(frames, n, r[k])
  <2> DEFINE T == {k \in 0 .. n : Len(r[k].out) = k \/ Done(frames, n, r[k])}
  <2>1. 0 \in T
    BY <1>1, <1>9 DEF first
  <2>2. \A k \in 1 .. n : k - 1 \in T => k \in T
    <3> SUFFICES ASSUME NEW k \in 1 .. n, Len(r[k - 1].out) = k - 1 \/ Done(frames, n, r[k - 1])
                 PROVE  Len(r[k].out) = k \/ Done(frames, n, r[k])
      OBVIOUS
    <3> DEFINE s == r[k - 1]
    <3>1. k - 1 \in 0 .. n
      BY <1>1
    <3>2. G(s) /\ s \in ReaderRec
      BY <1>10, <3>1
    <3>3. r[k] = read_frame(frames, s)
      BY <1>9
    <3> HIDE DEF s, D
    <3>4. IF Done(frames, n, s) THEN r[k] = s ELSE Len(r[k].out) = Len(s.out) + 1
      BY <1>2, <3>2, <3>3, Zenon
    <3>5. CASE Done(frames, n, s)
      BY <3>4, <3>5
    <3>6. CASE ~Done(frames, n, s)
      <4>1. Len(s.out) = k - 1
        BY <3>6 DEF s
      <4> QED BY <3>4, <3>6, <4>1
    <3> QED BY <3>5, <3>6
  <2> HIDE DEF T
  <2>3. 0 .. n \subseteq T
    BY <1>1, <2>1, <2>2, UpTo
  <2> QED BY <2>3 DEF T
<1>12. n \in 0 .. n
  BY <1>1
<1>13. G(r[n])
  BY <1>10, <1>12
<1>14. Done(frames, n, r[n])
  BY <1>11, <1>12, Zenon DEF Done
<1> QED BY <1>13, <1>14, Zenon DEF r

\* So it returns the frames that have arrived, each once and in order, for every
\* length of the stream and every size of the pool.
LEMMA ReaderReturnsFrames ==
    ASSUME NEW frames, NEW n, Legal(frames, n), NEW have \in Nat, NEW pool \in Nat
    PROVE  ReturnsFrames(frames, have, pool)
<1> DEFINE r == Reader(frames, have, pool)[n]
           m == Len(r.out)
           end == Ends(frames)
<1>1. n \in Nat /\ n = Len(frames)
  BY Zenon DEF Legal
<1>2. Between(frames, n, have, pool, r) /\ Done(frames, n, r)
  BY ReaderReads
<1> HIDE DEF r
<1>3. /\ r.ok /\ m \in Nat /\ m <= n /\ end[m] + r.have = have /\ r.have \in Nat
      /\ \A i \in 1 .. m : r.out[i] = Wanted(frames, i, pool)
  BY <1>2 DEF Between, ReaderRec
<1>4. end[m] \in Nat /\ (m < n => end[m + 1] = end[m] + WireBytes(frames[m + 1]) /\ end[m + 1] \in Nat)
  <2> HIDE DEF end, m
  <2>1. end \in [0 .. n -> Nat] /\ \A i \in 1 .. n : end[i] = end[i - 1] + WireBytes(frames[i])
    BY EndsAdd DEF end
  <2>2. m \in 0 .. n /\ (m < n => m + 1 \in 1 .. n /\ m + 1 \in 0 .. n /\ (m + 1) - 1 = m)
    BY <1>1, <1>3
  <2> QED BY <2>1, <2>2
<1>5. m < n => r.have < WireBytes(frames[m + 1])
  BY <1>2, <1>3, <1>1 DEF Done
<1>6. m < n => WireBytes(frames[m + 1]) \in Nat
  <2>1. m < n => frames[m + 1] \in StreamFrames
    BY <1>1, <1>3 DEF Legal
  <2>2. 0 \in Nat
    OBVIOUS
  <2> QED BY <2>1, <2>2, DecodeIs, Zenon
<1> HIDE DEF m, end
<1>7. /\ m <= n /\ end[m] <= have /\ r.have = have - end[m]
      /\ m < n => have < end[m + 1]
  BY <1>1, <1>3, <1>4, <1>5, <1>6
<1>8. \A i \in 1 .. m :
         r.out[i] = IF frames[i].kind = "control" THEN "control"
                    ELSE IF Cardinality(DataBefore(frames, i)) < pool THEN "data" ELSE "dropped"
  BY <1>3, Zenon DEF Wanted, m
<1> QED BY <1>1, <1>3, <1>7, <1>8, Zenon DEF ReturnsFrames, r, m, end

\* For all legal frames, all buffers that hold one and streams of any length:
\* wherever the connection cuts the stream, the reader returns each frame that
\* has arrived, once and in order, and stays between two frames (read_frame,
\* decode_frame, copy_channel_data of turn_stream.rs).
THEOREM FramesIntactHolds == Spec => []FramesIntact
<1>1. FramesSurviveSplits
  <2> SUFFICES ASSUME NEW frames \in UNION {[1 .. k -> StreamFrames] : k \in 0 .. MaxFrames},
                      NEW have \in 0 .. Ends(frames)[Len(frames)], NEW pool \in 0 .. MaxPool
               PROVE  ReturnsFrames(frames, have, pool)
    BY Zenon DEF FramesSurviveSplits
  <2>1. PICK k \in 0 .. MaxFrames : frames \in [1 .. k -> StreamFrames]
    OBVIOUS
  <2>2. k \in Nat /\ pool \in Nat /\ Len(frames) = k
    <3>1. MaxFrames \in Nat /\ MaxPool \in Nat
      BY StreamAssumption
    <3>2. k \in Nat /\ pool \in Nat
      BY <3>1
    <3>3. frames \in Seq(StreamFrames)
      BY <2>1, <3>2
    <3>4. DOMAIN frames = 1 .. k
      BY <2>1
    <3> QED BY <3>2, <3>3, <3>4
  <2>3. Legal(frames, k)
    BY <2>1, <2>2 DEF Legal
  <2>4. have \in Nat
    <3>1. Ends(frames)[k] \in Nat
      <4>1. Ends(frames) \in [0 .. k -> Nat]
        BY <2>3, EndsAdd, Zenon
      <4>2. k \in 0 .. k
        BY <2>2
      <4> QED BY <4>1, <4>2, Zenon
    <3> QED BY <2>2, <3>1
  <2> QED BY <2>2, <2>3, <2>4, ReaderReturnsFrames
<1>2. FramesIntact
  BY <1>1 DEF FramesIntact
<1> QED BY <1>2, PTL
=============================================================================
