----------------------------- MODULE PacketQueue -----------------------------
(***************************************************************************)
(* The bounded packet channel of dispatcher.rs: a lock-free ring, a tokio  *)
(* Notify, an epoch word and a sender count.  Each atomic access of a      *)
(* sender thread and of the receiving task is one step.                    *)
(*                                                                         *)
(* Uplink queues (one per worker and class) are filled by try_send from    *)
(* the dispatcher task and from every session that redispatches its dying  *)
(* worker's packets, several handles at once, and by their force_send when *)
(* the queue is full; return queues by force_send from every reader.       *)
(* suspend() exists only in tests and is left out.                         *)
(***************************************************************************)
EXTENDS Naturals, Sequences, FiniteSets

CONSTANTS TrySender,    \* handles that may use try_send (and force_send)
          ForceSender,  \* handles that only use force_send
          Capacity,     \* ArrayQueue capacity
          StartActive,  \* values of packet_channel's "active" argument
          MaxSends,     \* bound: sends of each handle
          MaxEpoch      \* bound: calls of resume

Sender == TrySender \cup ForceSender

ASSUME QueueAssumption ==
    /\ TrySender \cap ForceSender = {}
    /\ Capacity \in Nat \ {0}
    /\ StartActive \subseteq BOOLEAN
    /\ MaxSends \in [Sender -> Nat] /\ MaxEpoch \in Nat

VARIABLES queue,      \* PacketQueue.queue: the ring, oldest first
          state,      \* PacketQueue.state: epoch and QUEUE_ACTIVE bit
          permit,     \* Notify: a stored notify_one
          broadcast,  \* Notify: notify_waiters since the waiter was created
          senders,    \* PacketQueue.senders: live handles
          open,       \* PacketQueue.receiver_open
          cancelled,  \* the CancellationToken recv watches
          at,         \* per handle: the step of its current send
          sends,      \* per handle: sends begun
          force,      \* per handle: force_send or try_send
          seen,       \* per handle: the epoch its send has read
          rx,         \* step of the receiving task
          delivered   \* history: what try_recv returned, and in which epoch

queueVars == <<queue, state, permit, broadcast, senders, open, cancelled, at, sends, force, seen,
               rx, delivered>>

TxData == <<sends, force, seen>>

QueuedPacket == [from : Sender, n : Nat \ {0}, epoch : 0 .. MaxEpoch]
TxStep == {"idle", "load", "push", "len", "notify", "steal", "dropping", "gone"}
RxStep == {"start", "try1", "closed1", "arm", "try2", "closed2", "wait",
           "purge", "done", "dropped"}

QueueInit ==
    /\ queue = <<>>
    /\ state \in [epoch : {0}, active : StartActive]
    /\ permit = FALSE /\ broadcast = FALSE
    /\ senders = Sender
    /\ open = TRUE
    /\ cancelled = FALSE
    /\ at = [s \in Sender |-> "idle"]
    /\ sends = [s \in Sender |-> 0]
    /\ force = [s \in Sender |-> FALSE]
    /\ seen = [s \in Sender |-> 0]
    /\ rx = "start"
    /\ delivered = <<>>

-----------------------------------------------------------------------------
(* PacketSender.                                                           *)

TxTo(s, step) == at' = [at EXCEPT ![s] = step]

\* send_inner: is the receiver still there?
SendOpen(s) ==
    /\ at[s] = "idle" /\ sends[s] < MaxSends[s]
    /\ \E f \in IF s \in TrySender THEN BOOLEAN ELSE {TRUE} : force' = [force EXCEPT ![s] = f]
    /\ sends' = [sends EXCEPT ![s] = @ + 1]
    /\ TxTo(s, IF open THEN "load" ELSE "idle")
    /\ UNCHANGED <<queue, state, permit, broadcast, senders, open, cancelled, seen, rx, delivered>>

\* send_inner: is the queue active, and in which epoch?
SendLoad(s) ==
    /\ at[s] = "load"
    /\ seen' = [seen EXCEPT ![s] = state.epoch]
    /\ TxTo(s, IF state.active THEN "push" ELSE "idle")
    /\ UNCHANGED <<queue, state, permit, broadcast, senders, open, cancelled, sends, force, rx,
                   delivered>>

\* send_inner: push, or force_push over the oldest packet.
SendPushInPlace(s) ==
    LET packet == [from |-> s, n |-> sends[s], epoch |-> seen[s]]
        full == Len(queue) = Capacity
    IN  /\ at[s] = "push"
        /\ \/ /\ force[s]
              /\ queue' = IF full THEN <<packet>> \o Tail(queue) ELSE Append(queue, packet)
              /\ TxTo(s, "notify")
           \/ /\ ~force[s] /\ full
              /\ UNCHANGED queue
              /\ TxTo(s, "idle")
           \/ /\ ~force[s] /\ ~full
              /\ queue' = Append(queue, packet)
              /\ TxTo(s, "len")
        /\ UNCHANGED <<state, permit, broadcast, senders, open, cancelled, TxData, rx, delivered>>

SendPush(s) ==
    LET packet == [from |-> s, n |-> sends[s], epoch |-> seen[s]]
        full == Len(queue) = Capacity
    IN  /\ at[s] = "push"
        /\ \/ /\ force[s]
              /\ queue' = Append(IF full THEN Tail(queue) ELSE queue, packet)
              /\ TxTo(s, "notify")
           \/ /\ ~force[s] /\ full
              /\ UNCHANGED queue
              /\ TxTo(s, "idle")
           \/ /\ ~force[s] /\ ~full
              /\ queue' = Append(queue, packet)
              /\ TxTo(s, "len")
        /\ UNCHANGED <<state, permit, broadcast, senders, open, cancelled, TxData, rx, delivered>>

\* send_inner: try_send wakes the receiver only for the first packet.
SendLenNever(s) ==
    /\ at[s] = "len"
    /\ TxTo(s, IF Len(queue) = 0 THEN "notify" ELSE "idle")
    /\ UNCHANGED <<queue, state, permit, broadcast, senders, open, cancelled, TxData, rx, delivered>>

SendLen(s) ==
    /\ at[s] = "len"
    /\ TxTo(s, IF Len(queue) = 1 THEN "notify" ELSE "idle")
    /\ UNCHANGED <<queue, state, permit, broadcast, senders, open, cancelled, TxData, rx, delivered>>

\* send_inner: notify_one.
SendNotify(s) ==
    /\ at[s] = "notify"
    /\ permit' = TRUE
    /\ TxTo(s, "idle")
    /\ UNCHANGED <<queue, state, broadcast, senders, open, cancelled, TxData, rx, delivered>>

\* steal: a dying worker's session takes the queue empty, packet by packet.
Steal(s) ==
    /\ at[s] \in {"idle", "steal"}
    /\ ~open
    /\ TxTo(s, IF queue = <<>> THEN "idle" ELSE "steal")
    /\ queue' = IF queue = <<>> THEN queue ELSE Tail(queue)
    /\ queue # <<>> \/ at[s] = "steal"
    /\ UNCHANGED <<state, permit, broadcast, senders, open, cancelled, TxData, rx, delivered>>

\* Drop for PacketSender: count down, and wake the receiver if it was the last.
DropCount(s) ==
    /\ at[s] = "idle"
    /\ senders' = senders \ {s}
    /\ TxTo(s, IF senders' = {} THEN "dropping" ELSE "gone")
    /\ UNCHANGED <<queue, state, permit, broadcast, open, cancelled, TxData, rx, delivered>>

DropNotify(s) ==
    /\ at[s] = "dropping"
    /\ broadcast' = TRUE
    /\ TxTo(s, "gone")
    /\ UNCHANGED <<queue, state, permit, senders, open, cancelled, TxData, rx, delivered>>

-----------------------------------------------------------------------------
(* PacketReceiver.                                                         *)

\* recv: the cancellation check at the top of the loop.
RecvStart ==
    /\ rx = "start"
    /\ rx' = IF cancelled THEN "done" ELSE "try1"
    /\ UNCHANGED <<queue, state, permit, broadcast, senders, open, cancelled, at, TxData, delivered>>

\* try_recv_inner: pop, skip packets of another epoch, return the first
\* current one.  The caller comes back with the next recv.
TryRecvAnyEpoch ==
    /\ rx \in {"try1", "try2"}
    /\ IF queue = <<>>
       THEN /\ rx' = IF rx = "try1" THEN "closed1" ELSE "closed2"
            /\ UNCHANGED <<queue, delivered>>
       ELSE /\ queue' = Tail(queue)
            /\ delivered' = Append(delivered, [packet |-> Head(queue), during |-> state.epoch])
            /\ rx' = "start"
    /\ UNCHANGED <<state, permit, broadcast, senders, open, cancelled, at, TxData>>

TryRecv ==
    /\ rx \in {"try1", "try2"}
    /\ IF queue = <<>>
       THEN /\ rx' = IF rx = "try1" THEN "closed1" ELSE "closed2"
            /\ UNCHANGED <<queue, delivered>>
       ELSE LET current == state.active /\ Head(queue).epoch = state.epoch
            IN  /\ queue' = Tail(queue)
                /\ delivered' = IF current
                                THEN Append(delivered, [packet |-> Head(queue), during |-> state.epoch])
                                ELSE delivered
                /\ rx' = IF current THEN "start" ELSE rx
    /\ UNCHANGED <<state, permit, broadcast, senders, open, cancelled, at, TxData>>

\* recv: the two checks for "no sender left".
RecvClosedOnce ==
    /\ rx \in {"closed1", "closed2"}
    /\ rx' = IF rx = "closed2" THEN "wait" ELSE IF senders = {} THEN "done" ELSE "arm"
    /\ UNCHANGED <<queue, state, permit, broadcast, senders, open, cancelled, at, TxData, delivered>>

RecvClosed ==
    /\ rx \in {"closed1", "closed2"}
    /\ rx' = CASE senders = {} -> "done"
               [] senders # {} /\ rx = "closed1" -> "arm"
               [] senders # {} /\ rx = "closed2" -> "wait"
    /\ UNCHANGED <<queue, state, permit, broadcast, senders, open, cancelled, at, TxData, delivered>>

\* recv: create the Notified future.
RecvArm ==
    /\ rx = "arm"
    /\ broadcast' = FALSE
    /\ rx' = "try2"
    /\ UNCHANGED <<queue, state, permit, senders, open, cancelled, at, TxData, delivered>>

\* recv: the select; cancellation first, otherwise the notification.  A
\* broadcast may also use up a stored permit.
RecvWake ==
    /\ rx = "wait"
    /\ \/ cancelled /\ rx' = "done" /\ UNCHANGED permit
       \/ /\ ~cancelled /\ (permit \/ broadcast)
          /\ rx' = "start"
          /\ permit' \in IF broadcast THEN {permit, FALSE} ELSE {FALSE}
    /\ UNCHANGED <<queue, state, broadcast, senders, open, cancelled, at, TxData, delivered>>

\* The caller's select drops this recv because another of its branches won
\* (a command, or a packet of another class); it calls recv again.
RecvAbandon ==
    /\ rx = "wait"
    /\ rx' = "start"
    /\ UNCHANGED <<queue, state, permit, broadcast, senders, open, cancelled, at, TxData, delivered>>

\* resume: close the old epoch, purge, open the new one.
ResumeClose ==
    /\ rx = "start" /\ state.epoch < MaxEpoch
    /\ state' = [epoch |-> state.epoch + 1, active |-> FALSE]
    /\ rx' = "purge"
    /\ UNCHANGED <<queue, permit, broadcast, senders, open, cancelled, at, TxData, delivered>>

ResumePurge ==
    /\ rx = "purge" /\ queue # <<>>
    /\ queue' = Tail(queue)
    /\ UNCHANGED <<state, permit, broadcast, senders, open, cancelled, at, TxData, rx, delivered>>

ResumeOpen ==
    /\ rx = "purge" /\ queue = <<>>
    /\ state' = [state EXCEPT !.active = TRUE]
    /\ broadcast' = TRUE
    /\ rx' = "start"
    /\ UNCHANGED <<queue, permit, senders, open, cancelled, at, TxData, delivered>>

\* Drop for PacketReceiver, at an await point or after the last recv.
DropReceiver ==
    /\ rx \in {"start", "wait", "done"}
    /\ open' = FALSE
    /\ broadcast' = TRUE
    /\ rx' = "dropped"
    /\ UNCHANGED <<queue, state, permit, senders, cancelled, at, TxData, delivered>>

Cancel ==
    /\ ~cancelled
    /\ cancelled' = TRUE
    /\ UNCHANGED <<queue, state, permit, broadcast, senders, open, at, TxData, rx, delivered>>

-----------------------------------------------------------------------------
SenderStep(s) ==
    \/ SendOpen(s) \/ SendLoad(s) \/ SendPush(s) \/ SendLen(s) \/ SendNotify(s)
    \/ Steal(s) \/ DropCount(s) \/ DropNotify(s)

ReceiverStep ==
    \/ RecvStart \/ TryRecv \/ RecvClosed \/ RecvArm \/ RecvWake
    \/ ResumePurge \/ ResumeOpen

QueueNext ==
    \/ \E s \in Sender : SenderStep(s)
    \/ ReceiverStep \/ RecvAbandon \/ ResumeClose \/ DropReceiver \/ Cancel

QueueSpec == QueueInit /\ [][QueueNext]_queueVars

\* A send in progress and the receiving task keep running; nobody is forced
\* to send, drop, resume or cancel.
FairSpec ==
    /\ QueueSpec
    /\ WF_queueVars(ReceiverStep)
    /\ \A s \in Sender :
          WF_queueVars(SendLoad(s) \/ SendPush(s) \/ SendLen(s) \/ SendNotify(s) \/ DropNotify(s))

-----------------------------------------------------------------------------
(* Properties.                                                             *)

\* Every variable has the shape its Rust type gives it, and the ring never
\* outgrows its capacity.
QueueTypeOK ==
    /\ queue \in Seq(QueuedPacket) /\ Len(queue) <= Capacity
    /\ state \in [epoch : 0 .. MaxEpoch, active : BOOLEAN]
    /\ permit \in BOOLEAN /\ broadcast \in BOOLEAN
    /\ senders \subseteq Sender
    /\ open \in BOOLEAN /\ cancelled \in BOOLEAN
    /\ at \in [Sender -> TxStep]
    /\ sends \in [Sender -> Nat]
    /\ force \in [Sender -> BOOLEAN]
    /\ seen \in [Sender -> 0 .. MaxEpoch]
    /\ rx \in RxStep
    /\ delivered \in Seq([packet : QueuedPacket, during : 0 .. MaxEpoch])

\* A send that is about to wake the receiver.
Waker(s) == at[s] = "notify" \/ (at[s] = "len" /\ Len(queue) = 1)

\* Two try_sends of different handles have crossed: the packet that should
\* have woken the receiver has one of the other handle right behind it, so a
\* sender that looks at the length now finds more than its own packet.
Crossed ==
    /\ Len(queue) >= 2
    /\ queue[1].from # queue[2].from
    /\ {queue[1].from, queue[2].from} \subseteq TrySender

\* The receiver never sleeps on a queue that holds a packet unless a wake-up
\* has been stored, its sender is about to store it, or two try_sends have
\* crossed: recv's check, arm, check-again protocol closes the race with every
\* single sender and with every force_send, and crossed try_sends are the only
\* way a wake-up is lost.
NoLostWakeup ==
    rx \in {"closed2", "wait"} /\ queue # <<>> =>
        permit \/ broadcast \/ Crossed \/ \E s \in Sender : Waker(s)

\* A packet whose sender read the epoch before a resume() is never handed to
\* the caller after it, even when it is pushed behind the purge.
NoReplay == \A i \in DOMAIN delivered : delivered[i].packet.epoch = delivered[i].during

\* Packets of one handle come out in the order they went in, each at most
\* once, whatever force_push evicts and resume purges.
SenderOrder ==
    \A i, j \in DOMAIN delivered :
        i < j /\ delivered[i].packet.from = delivered[j].packet.from =>
            delivered[i].packet.n < delivered[j].packet.n

\* A sleeping receiver with a packet in its queue gets going again, whatever
\* the senders do.  Two crossed try_sends break this.
WakesUp == (rx = "wait" /\ queue # <<>>) ~> (rx # "wait" \/ queue = <<>>)

\* It gets going again unless two try_sends have crossed.
WakesUnlessCrossed ==
    (rx = "wait" /\ queue # <<>>) ~> (rx # "wait" \/ queue = <<>> \/ Crossed)

\* When the last handle is dropped, a receiver blocked in recv returns.
CloseIsSeen == (senders = {} /\ rx = "wait") ~> (rx # "wait")

\* The receiver is not left asleep: neither after the last sender has gone nor
\* on a packet in the queue, crossed try_sends apart.
ReceiverServed == WakesUnlessCrossed /\ CloseIsSeen
=============================================================================
