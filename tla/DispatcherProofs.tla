--------------------------- MODULE DispatcherProofs ---------------------------
(***************************************************************************)
(* Proofs about dispatcher.rs: first PacketQueue, for any number of        *)
(* handles, any capacity and any number of packets and epochs; then        *)
(* Dispatch, for any workers, sessions, packets, capacities and limits.    *)
(***************************************************************************)
EXTENDS PacketQueue, Dispatch, FiniteSetTheorems, SequenceTheorems, WellFoundedInduction, TLAPS

\* Pushing a packet.
LEMMA AppendOK ==
    ASSUME NEW S, NEW q \in Seq(S), NEW p \in S
    PROVE  Append(q, p) \in Seq(S) /\ Len(Append(q, p)) = Len(q) + 1 /\ Len(q) \in Nat
OBVIOUS

\* Popping the oldest packet.
LEMMA TailOK ==
    ASSUME NEW S, NEW q \in Seq(S), q # <<>>
    PROVE  /\ Tail(q) \in Seq(S) /\ Len(Tail(q)) = Len(q) - 1 /\ Head(q) \in S
           /\ Len(q) \in Nat /\ Len(q) > 0
OBVIOUS

\* Only the empty ring has length 0.
LEMMA LenZero ==
    ASSUME NEW S, NEW q \in Seq(S)
    PROVE  Len(q) \in Nat /\ (Len(q) = 0 <=> q = <<>>)
OBVIOUS

-----------------------------------------------------------------------------
(* Types.                                                                  *)

QueueOK == queue \in Seq(QueuedPacket) /\ Len(queue) <= Capacity

SendersOK ==
    /\ senders \subseteq Sender
    /\ at \in [Sender -> TxStep]
    /\ sends \in [Sender -> Nat]
    /\ force \in [Sender -> BOOLEAN]
    /\ seen \in [Sender -> 0 .. MaxEpoch]

\* A send in progress was counted when it began.
Counted == \A s \in Sender : at[s] \in {"load", "push", "len", "notify"} => sends[s] > 0

WordsOK ==
    /\ state \in [epoch : 0 .. MaxEpoch, active : BOOLEAN]
    /\ permit \in BOOLEAN /\ broadcast \in BOOLEAN
    /\ open \in BOOLEAN /\ cancelled \in BOOLEAN
    /\ rx \in RxStep

Delivery == [packet : QueuedPacket, during : 0 .. MaxEpoch]

DeliveredOK == delivered \in Seq(Delivery)

TInv == QueueOK /\ SendersOK /\ Counted /\ WordsOK /\ DeliveredOK

\* A push hands over a well-formed packet.
LEMMA PushedPacketOK ==
    ASSUME TInv, NEW s \in Sender, at[s] = "push"
    PROVE  [from |-> s, n |-> sends[s], epoch |-> seen[s]] \in QueuedPacket
<1>1. sends[s] \in Nat \ {0} /\ seen[s] \in 0 .. MaxEpoch
  BY QueueAssumption DEF TInv, SendersOK, Counted
<1> QED
  BY <1>1 DEF QueuedPacket

\* The ring after a push: unchanged, longer by one, or shifted by one.
LEMMA PushOK ==
    ASSUME TInv, NEW s \in Sender, SendPush(s)
    PROVE  QueueOK'
<1> DEFINE packet == [from |-> s, n |-> sends[s], epoch |-> seen[s]]
<1>1. packet \in QueuedPacket
  BY PushedPacketOK DEF SendPush
<1>2. /\ Capacity \in Nat /\ Capacity > 0 /\ queue \in Seq(QueuedPacket)
      /\ Len(queue) \in Nat /\ Len(queue) <= Capacity
  BY QueueAssumption, LenZero DEF TInv, QueueOK
<1>3. \/ queue' = queue
      \/ queue' = Append(queue, packet) /\ Len(queue) # Capacity
      \/ queue' = Append(Tail(queue), packet) /\ Len(queue) = Capacity
  BY DEF SendPush
<1> HIDE DEF packet
<1>4. CASE queue' = queue
  BY <1>2, <1>4 DEF QueueOK
<1>5. CASE queue' = Append(queue, packet) /\ Len(queue) # Capacity
  <2>1. queue' \in Seq(QueuedPacket) /\ Len(queue') = Len(queue) + 1
    BY <1>1, <1>2, <1>5, AppendOK
  <2> QED
    BY <1>2, <1>5, <2>1 DEF QueueOK
<1>6. CASE queue' = Append(Tail(queue), packet) /\ Len(queue) = Capacity
  <2>1. queue # <<>>
    BY <1>2, <1>6, LenZero
  <2>2. Tail(queue) \in Seq(QueuedPacket) /\ Len(Tail(queue)) = Len(queue) - 1
    BY <1>2, <2>1, TailOK
  <2>3. queue' \in Seq(QueuedPacket) /\ Len(queue') = Len(Tail(queue)) + 1
    BY <1>1, <1>6, <2>2, AppendOK
  <2> QED
    BY <1>2, <1>6, <2>2, <2>3 DEF QueueOK
<1> QED
  BY <1>3, <1>4, <1>5, <1>6

\* Popping keeps the ring well formed.
LEMMA PopOK ==
    ASSUME QueueOK, queue # <<>>, queue' = Tail(queue)
    PROVE  QueueOK' /\ Len(queue') = Len(queue) - 1 /\ Len(queue) \in Nat
<1>1. queue \in Seq(QueuedPacket) /\ Len(queue) <= Capacity /\ Capacity \in Nat
  BY QueueAssumption DEF QueueOK
<1>2. Tail(queue) \in Seq(QueuedPacket) /\ Len(Tail(queue)) = Len(queue) - 1 /\ Len(queue) \in Nat
  BY <1>1, TailOK
<1> QED
  BY <1>1, <1>2 DEF QueueOK

\* One step of a handle keeps the types.
LEMMA SenderTypes ==
    ASSUME TInv, NEW s \in Sender, SenderStep(s)
    PROVE  TInv'
<1> USE QueueAssumption
<1>1. CASE SendOpen(s)
  <2>1. sends[s] + 1 \in Nat /\ sends[s] \in Nat
    BY <1>1 DEF SendOpen, TInv, SendersOK
  <2>2. PICK f \in BOOLEAN : force' = [force EXCEPT ![s] = f]
    BY <1>1 DEF SendOpen
  <2>3. force' \in [Sender -> BOOLEAN]
    BY <2>2, Zenon DEF TInv, SendersOK
  <2>4. /\ sends' = [sends EXCEPT ![s] = sends[s] + 1]
        /\ \E step \in {"load", "idle"} : at' = [at EXCEPT ![s] = step]
        /\ UNCHANGED <<senders, seen>>
    BY <1>1 DEF SendOpen, TxTo
  <2>5. SendersOK' /\ Counted'
    BY <2>1, <2>3, <2>4 DEF TInv, SendersOK, Counted, TxStep
  <2> QED
    BY <1>1, <2>5 DEF SendOpen, TInv, QueueOK, WordsOK, DeliveredOK
<1>2. CASE SendLoad(s)
  <2>1. state.epoch \in 0 .. MaxEpoch
    BY DEF TInv, WordsOK
  <2>2. SendersOK' /\ Counted'
    BY <1>2, <2>1 DEF SendLoad, TxTo, TInv, SendersOK, Counted, TxStep
  <2> QED
    BY <1>2, <2>2 DEF SendLoad, TInv, QueueOK, WordsOK, DeliveredOK
<1>3. CASE SendPush(s)
  <2>1. QueueOK'
    BY <1>3, PushOK
  <2>2. SendersOK' /\ Counted'
    BY <1>3 DEF SendPush, TxTo, TxData, TInv, SendersOK, Counted, TxStep
  <2> QED
    BY <1>3, <2>1, <2>2 DEF SendPush, TInv, WordsOK, DeliveredOK
<1>4. CASE SendLen(s) \/ SendNotify(s) \/ DropCount(s) \/ DropNotify(s)
  <2>1. SendersOK' /\ Counted'
    BY <1>4 DEF SendLen, SendNotify, DropCount, DropNotify, TxTo, TxData, TInv, SendersOK,
                Counted, TxStep
  <2> QED
    BY <1>4, <2>1 DEF SendLen, SendNotify, DropCount, DropNotify, TInv, QueueOK, WordsOK,
                      DeliveredOK
<1>5. CASE Steal(s)
  <2>1. QueueOK'
    <3>1. CASE queue = <<>>
      BY <1>5, <3>1 DEF Steal, TInv, QueueOK
    <3>2. CASE queue # <<>>
      BY <1>5, <3>2, PopOK DEF Steal, TInv
    <3> QED
      BY <3>1, <3>2
  <2>2. SendersOK' /\ Counted'
    BY <1>5 DEF Steal, TxTo, TxData, TInv, SendersOK, Counted, TxStep
  <2> QED
    BY <1>5, <2>1, <2>2 DEF Steal, TInv, WordsOK, DeliveredOK
<1> QED
  BY <1>1, <1>2, <1>3, <1>4, <1>5 DEF SenderStep

\* One step of the receiving task or of its environment keeps the types.
LEMMA ReceiverTypes ==
    ASSUME TInv, ReceiverStep \/ RecvAbandon \/ ResumeClose \/ DropReceiver \/ Cancel
    PROVE  TInv'
<1> USE QueueAssumption
<1>1. CASE TryRecv
  <2>1. QueueOK'
    <3>1. CASE queue = <<>>
      BY <1>1, <3>1 DEF TryRecv, TInv, QueueOK
    <3>2. CASE queue # <<>>
      BY <1>1, <3>2, PopOK DEF TryRecv, TInv
    <3> QED
      BY <3>1, <3>2
  <2>2. DeliveredOK'
    <3>1. CASE delivered' = delivered
      BY <3>1 DEF TInv, DeliveredOK
    <3>2. CASE delivered' # delivered
      <4> DEFINE d == [packet |-> Head(queue), during |-> state.epoch]
      <4>1. delivered' = Append(delivered, d) /\ queue # <<>>
        BY <1>1, <3>2 DEF TryRecv
      <4>2. Head(queue) \in QueuedPacket /\ state.epoch \in 0 .. MaxEpoch
        BY <4>1, TailOK DEF TInv, QueueOK, WordsOK
      <4>3. d \in Delivery
        BY <4>2 DEF Delivery
      <4> HIDE DEF d
      <4> QED
        BY <4>1, <4>3, AppendOK DEF TInv, DeliveredOK
    <3> QED
      BY <3>1, <3>2
  <2> QED
    BY <1>1, <2>1, <2>2 DEF TryRecv, TxData, TInv, SendersOK, Counted, WordsOK, RxStep
<1>2. CASE ResumePurge
  <2>1. QueueOK'
    BY <1>2, PopOK DEF ResumePurge, TInv
  <2> QED
    BY <1>2, <2>1 DEF ResumePurge, TxData, TInv, SendersOK, Counted, WordsOK, DeliveredOK
<1>3. CASE RecvStart \/ RecvArm \/ RecvAbandon \/ DropReceiver \/ Cancel \/ RecvClosed \/ RecvWake
  <2>1. WordsOK'
    BY <1>3 DEF RecvStart, RecvArm, RecvAbandon, DropReceiver, Cancel, RecvClosed, RecvWake,
                TInv, WordsOK, RxStep
  <2> QED
    BY <1>3, <2>1 DEF RecvStart, RecvArm, RecvAbandon, DropReceiver, Cancel, RecvClosed, RecvWake,
                      TxData, TInv, QueueOK, SendersOK, Counted, DeliveredOK
<1>4. CASE ResumeClose \/ ResumeOpen
  <2>1. state' \in [epoch : 0 .. MaxEpoch, active : BOOLEAN]
    <3>1. state.epoch \in 0 .. MaxEpoch /\ state \in [epoch : 0 .. MaxEpoch, active : BOOLEAN]
      BY DEF TInv, WordsOK
    <3>2. CASE ResumeClose
      <4>1. state.epoch + 1 \in 0 .. MaxEpoch /\ FALSE \in BOOLEAN
        BY <3>1, <3>2 DEF ResumeClose
      <4>2. state' = [epoch |-> state.epoch + 1, active |-> FALSE]
        BY <3>2 DEF ResumeClose
      <4> QED
        BY <4>1, <4>2, Zenon
    <3>3. CASE ResumeOpen
      <4>1. state' = [state EXCEPT !.active = TRUE] /\ TRUE \in BOOLEAN
        BY <3>3 DEF ResumeOpen
      <4> QED
        BY <3>1, <4>1
    <3> QED
      BY <1>4, <3>2, <3>3
  <2>2. WordsOK'
    BY <1>4, <2>1 DEF ResumeClose, ResumeOpen, TInv, WordsOK, RxStep
  <2> QED
    BY <1>4, <2>2 DEF ResumeClose, ResumeOpen, TxData, TInv, QueueOK, SendersOK, Counted,
                      DeliveredOK
<1> QED
  BY <1>1, <1>2, <1>3, <1>4 DEF ReceiverStep

\* A fresh channel is well formed.
LEMMA TypeInit == QueueInit => TInv
<1> SUFFICES ASSUME QueueInit PROVE TInv
  OBVIOUS
<1>1. QueueOK /\ DeliveredOK
  BY QueueAssumption DEF QueueInit, QueueOK, DeliveredOK
<1>2. SendersOK /\ Counted
  BY QueueAssumption DEF QueueInit, SendersOK, Counted, TxStep
<1>3. WordsOK
  <2>1. {0} \subseteq 0 .. MaxEpoch /\ StartActive \subseteq BOOLEAN
    BY QueueAssumption
  <2>2. state \in [epoch : 0 .. MaxEpoch, active : BOOLEAN]
    BY <2>1 DEF QueueInit
  <2> QED
    BY <2>2 DEF QueueInit, WordsOK, RxStep
<1> QED
  BY <1>1, <1>2, <1>3 DEF TInv

\* Every step keeps the channel well formed.
LEMMA TypeStep == TInv /\ [QueueNext]_queueVars => TInv'
<1> SUFFICES ASSUME TInv, [QueueNext]_queueVars PROVE TInv'
  OBVIOUS
<1>1. CASE UNCHANGED queueVars
  BY <1>1 DEF queueVars, TInv, QueueOK, SendersOK, Counted, WordsOK, DeliveredOK
<1> QED
  BY <1>1, SenderTypes, ReceiverTypes DEF QueueNext

\* The ring stays within its capacity and every word of the queue keeps its
\* type, whatever the interleaving of senders, receiver and resume.
THEOREM TypeCorrect == QueueSpec => []QueueTypeOK
<1>1. TInv => QueueTypeOK
  BY DEF TInv, QueueTypeOK, QueueOK, SendersOK, WordsOK, DeliveredOK, Delivery
<1> QED
  BY <1>1, TypeInit, TypeStep, PTL DEF QueueSpec

-----------------------------------------------------------------------------
(* Wake-ups.                                                               *)

\* Only a TrySender is ever about to use try_send or to look at the length.
TryOnly ==
    \A s \in Sender : (at[s] \in {"load", "push"} /\ ~force[s]) \/ at[s] = "len" => s \in TrySender

\* A sleeping receiver with a packet in its queue has a wake-up stored or about
\* to be stored, or the packet is the only one and its sender has yet to measure
\* the queue, or two try_sends crossed.  Inductive, and stronger than the
\* promise: it says whose look at the length will find one packet.
Roused ==
    rx \in {"closed2", "wait"} /\ queue # <<>> =>
        \/ permit \/ broadcast \/ Crossed
        \/ \E s \in Sender : at[s] = "notify"
        \/ Len(queue) = 1 /\ at[queue[1].from] = "len"

\* Packets are stolen only from a queue whose receiver has gone.
OpenWhileAsleep == ~open => rx = "dropped"

\* Every step keeps try_send with its handles.
LEMMA TryOnlyStep ==
    ASSUME TInv, TryOnly, [QueueNext]_queueVars
    PROVE  TryOnly'
<1>1. CASE \E s \in Sender : SendOpen(s)
  <2>1. PICK s \in Sender : SendOpen(s)
    BY <1>1
  <2>2. PICK f \in BOOLEAN : force' = [force EXCEPT ![s] = f] /\ (f \/ s \in TrySender)
    BY <2>1 DEF SendOpen
  <2>3. \E step \in {"load", "idle"} : at' = [at EXCEPT ![s] = step]
    BY <2>1 DEF SendOpen, TxTo
  <2> QED
    BY <2>2, <2>3 DEF TryOnly, TInv, SendersOK
<1>2. CASE \E s \in Sender : SendLoad(s) \/ SendPush(s)
  BY <1>2 DEF SendLoad, SendPush, TxTo, TxData, TryOnly, TInv, SendersOK
<1>3. CASE \E s \in Sender : SendLen(s) \/ SendNotify(s) \/ Steal(s) \/ DropCount(s) \/ DropNotify(s)
  BY <1>3 DEF SendLen, SendNotify, Steal, DropCount, DropNotify, TxTo, TxData, TryOnly, TInv,
              SendersOK
<1>4. CASE UNCHANGED <<at, force>>
  BY <1>4 DEF TryOnly
<1>5. ReceiverStep \/ RecvAbandon \/ ResumeClose \/ DropReceiver \/ Cancel \/ UNCHANGED queueVars
      => UNCHANGED <<at, force>>
  BY DEF ReceiverStep, RecvStart, TryRecv, RecvClosed, RecvArm, RecvWake, ResumePurge, ResumeOpen,
         RecvAbandon, ResumeClose, DropReceiver, Cancel, TxData, queueVars
<1> QED
  BY <1>1, <1>2, <1>3, <1>4, <1>5 DEF QueueNext, SenderStep

\* A ring that is not empty has a first packet, sent by some handle.
LEMMA FirstFrom ==
    ASSUME QueueOK, queue # <<>>
    PROVE  queue[1].from \in Sender
<1>1. queue \in Seq(QueuedPacket)
  BY DEF QueueOK
<1>2. queue[1] \in QueuedPacket
  <2> HIDE DEF QueuedPacket
  <2>1. Len(queue) \in Nat /\ Len(queue) # 0
    BY <1>1, LenZero
  <2>2. 1 \in 1 .. Len(queue)
    BY <2>1
  <2> QED
    BY <1>1, <2>2, ElementOfSeq
<1> QED
  BY <1>2 DEF QueuedPacket

\* A push leaves the receiver a reason to wake up: the wake-up it is about to
\* store, its own first packet still to be measured, or a crossing.
LEMMA PushWakes ==
    ASSUME TInv, TryOnly, Roused, NEW s \in Sender, SendPush(s)
    PROVE  Roused'
<1> DEFINE packet == [from |-> s, n |-> sends[s], epoch |-> seen[s]]
<1>1. at[s] = "push" /\ at \in [Sender -> TxStep] /\ queue \in Seq(QueuedPacket) /\ Len(queue) \in Nat
  BY LenZero DEF SendPush, TInv, SendersOK, QueueOK
<1>2. UNCHANGED <<rx, permit, broadcast>>
  BY DEF SendPush
<1>3. CASE force[s]
  <2>1. at' = [at EXCEPT ![s] = "notify"]
    BY <1>3 DEF SendPush, TxTo
  <2>2. at'[s] = "notify"
    BY <1>1, <2>1
  <2> QED
    BY <2>2 DEF Roused
<1>4. CASE ~force[s] /\ Len(queue) = Capacity
  <2>1. at' = [at EXCEPT ![s] = "idle"] /\ queue' = queue
    BY <1>4 DEF SendPush, TxTo
  <2>2. \A t \in Sender : at[t] \in {"len", "notify"} => at'[t] = at[t]
    BY <1>1, <2>1
  <2>3. queue # <<>> => queue[1].from \in Sender
    BY FirstFrom DEF TInv
  <2> QED
    BY <1>2, <2>1, <2>2, <2>3 DEF Roused, Crossed
<1>5. CASE ~force[s] /\ Len(queue) # Capacity
  <2>1. at' = [at EXCEPT ![s] = "len"] /\ queue' = Append(queue, packet)
    BY <1>5 DEF SendPush, TxTo
  <2>2. packet \in QueuedPacket /\ packet.from = s
    BY <1>1, PushedPacketOK
  <2> HIDE DEF packet
  <2>3. /\ Len(queue') = Len(queue) + 1 /\ queue'[Len(queue) + 1] = packet
        /\ \A i \in 1 .. Len(queue) : queue'[i] = queue[i]
    BY <1>1, <2>1, <2>2
  <2>4. at'[s] = "len" /\ \A t \in Sender : t # s => at'[t] = at[t]
    BY <1>1, <2>1
  <2>5. CASE Len(queue) = 0
    BY <2>2, <2>3, <2>4, <2>5 DEF Roused
  <2>6. CASE Len(queue) = 1 /\ at[queue[1].from] = "len"
    <3> DEFINE first == queue[1].from
    <3>1. first \in Sender /\ first # s
      BY <1>1, <2>6, LenZero, FirstFrom DEF TInv
    <3>2. first \in TrySender /\ s \in TrySender
      BY <1>1, <1>5, <2>6, <3>1 DEF TryOnly
    <3>3. queue'[1].from = first /\ queue'[2].from = s /\ Len(queue') = 2
      BY <2>2, <2>3, <2>6
    <3>4. Crossed'
      BY <3>1, <3>2, <3>3 DEF Crossed
    <3> QED
      BY <3>4 DEF Roused
  <2>7. CASE Len(queue) # 0 /\ ~(Len(queue) = 1 /\ at[queue[1].from] = "len")
    <3>1. Crossed => Crossed'
      BY <1>1, <2>3 DEF Crossed
    <3>2. \A t \in Sender : at[t] = "notify" => at'[t] = "notify"
      BY <1>1, <2>4
    <3>3. queue # <<>>
      BY <2>7, <1>1, LenZero
    <3> QED
      BY <1>2, <2>7, <3>1, <3>2, <3>3 DEF Roused
  <2> QED
    BY <2>5, <2>6, <2>7
<1> QED
  BY <1>3, <1>4, <1>5

\* Every step keeps the wake-up promise.
LEMMA WakeStep ==
    ASSUME TInv, TryOnly, Roused, OpenWhileAsleep, [QueueNext]_queueVars
    PROVE  Roused'
<1>0. queue # <<>> => queue[1].from \in Sender
  BY FirstFrom DEF TInv
<1>1. ASSUME NEW s \in Sender, SendOpen(s) \/ SendLoad(s) \/ DropCount(s)
      PROVE  Roused'
  <2>1. \A t \in Sender : at[t] \in {"len", "notify"} => at'[t] = at[t]
    BY <1>1 DEF SendOpen, SendLoad, DropCount, TxTo, TInv, SendersOK
  <2> QED
    BY <1>0, <1>1, <2>1 DEF SendOpen, SendLoad, DropCount, Roused, Crossed
<1>2. ASSUME NEW s \in Sender, SendPush(s) PROVE Roused'
  BY <1>2, PushWakes
<1>3. ASSUME NEW s \in Sender, SendLen(s) PROVE Roused'
  <2>1. at' = [at EXCEPT ![s] = IF Len(queue) = 1 THEN "notify" ELSE "idle"]
        /\ at[s] = "len" /\ at \in [Sender -> TxStep]
        /\ UNCHANGED <<queue, rx, permit, broadcast>>
    BY <1>3 DEF SendLen, TxTo, TInv, SendersOK
  <2>2. Len(queue) = 1 => at'[s] = "notify"
    BY <2>1
  <2>3. \A t \in Sender : at[t] = "notify" => at'[t] = "notify"
    BY <2>1
  <2> QED
    BY <2>1, <2>2, <2>3 DEF Roused, Crossed
<1>4. ASSUME NEW s \in Sender, SendNotify(s) \/ DropNotify(s) PROVE Roused'
  BY <1>4 DEF SendNotify, DropNotify, Roused
<1>5. ASSUME NEW s \in Sender, Steal(s) PROVE Roused'
  BY <1>5 DEF Steal, OpenWhileAsleep, Roused
<1>6. CASE RecvClosed \/ Cancel \/ UNCHANGED queueVars
  <2>1. UNCHANGED <<queue, permit, broadcast, at>>
        /\ (rx' \in {"closed2", "wait"} => rx \in {"closed2", "wait"})
    BY <1>6 DEF RecvClosed, Cancel, queueVars
  <2> QED
    BY <2>1 DEF Roused, Crossed
<1>7. CASE TryRecv
  BY <1>7 DEF TryRecv, Roused
<1>8. CASE RecvStart \/ RecvArm \/ RecvWake \/ RecvAbandon \/ ResumeClose \/ ResumePurge \/ ResumeOpen
           \/ DropReceiver
  BY <1>8 DEF RecvStart, RecvArm, RecvWake, RecvAbandon, ResumeClose, ResumePurge, ResumeOpen,
              DropReceiver, Roused
<1> QED
  BY <1>1, <1>2, <1>3, <1>4, <1>5, <1>6, <1>7, <1>8 DEF QueueNext, SenderStep, ReceiverStep

\* A queue is closed only by its receiver going away.
LEMMA OpenStep == OpenWhileAsleep /\ [QueueNext]_queueVars => OpenWhileAsleep'
BY DEF OpenWhileAsleep, QueueNext, queueVars, SenderStep, SendOpen, SendLoad, SendPush, SendLen,
       SendNotify, Steal, DropCount, DropNotify, ReceiverStep, RecvStart, TryRecv, RecvClosed,
       RecvArm, RecvWake, ResumePurge, ResumeOpen, RecvAbandon, ResumeClose, DropReceiver, Cancel

\* For any number of try_send and force_send handles the receiver never sleeps
\* on a packet without a wake-up stored or on its way, except behind the first
\* packets of two try_sends that crossed: the missing notification of send_inner
\* has no other cause.
THEOREM NoLostWakeupHolds == QueueSpec => []NoLostWakeup
<1> DEFINE WInv == TInv /\ TryOnly /\ OpenWhileAsleep /\ Roused
<1>1. QueueInit => WInv
  BY TypeInit DEF QueueInit, TryOnly, OpenWhileAsleep, Roused
<1>2. WInv /\ [QueueNext]_queueVars => WInv'
  BY TypeStep, TryOnlyStep, OpenStep, WakeStep
<1>3. WInv => NoLostWakeup
  <2> SUFFICES ASSUME TInv, Roused PROVE NoLostWakeup
    OBVIOUS
  <2>1. queue # <<>> => queue[1].from \in Sender
    BY FirstFrom DEF TInv
  <2> QED
    BY <2>1 DEF Roused, NoLostWakeup, Waker
<1> QED
  BY <1>1, <1>2, <1>3, PTL DEF QueueSpec

-----------------------------------------------------------------------------
(* Epochs.                                                                 *)

\* No packet of an earlier epoch is ever returned, for any number of senders
\* racing with any number of resumes.
THEOREM NoReplayHolds == QueueSpec => []NoReplay
<1>1. QueueInit => TInv /\ NoReplay
  BY TypeInit DEF QueueInit, NoReplay
<1>2. TInv /\ NoReplay /\ [QueueNext]_queueVars => TInv' /\ NoReplay'
  <2> SUFFICES ASSUME TInv, NoReplay, [QueueNext]_queueVars PROVE NoReplay'
    BY TypeStep
  <2>1. CASE delivered' = delivered
    BY <2>1 DEF NoReplay
  <2>2. CASE delivered' # delivered
    <3> DEFINE d == [packet |-> Head(queue), during |-> state.epoch]
    <3>1. TryRecv
      BY <2>2 DEF QueueNext, SenderStep, ReceiverStep, queueVars, SendOpen, SendLoad, SendPush, SendLen,
                  SendNotify, Steal, DropCount, DropNotify, RecvStart, RecvClosed, RecvArm,
                  RecvWake, ResumePurge, ResumeOpen, RecvAbandon, ResumeClose, DropReceiver, Cancel
    <3>2. delivered' = Append(delivered, d) /\ d.packet.epoch = d.during
      BY <2>2, <3>1 DEF TryRecv
    <3> HIDE DEF d
    <3>3. delivered \in Seq(Delivery)
      BY DEF TInv, DeliveredOK
    <3>4. \A i \in DOMAIN delivered' : delivered'[i] = d \/ (i \in DOMAIN delivered /\ delivered'[i] = delivered[i])
      BY <3>2, <3>3
    <3> QED
      BY <3>2, <3>4 DEF NoReplay
  <2> QED
    BY <2>1, <2>2
<1> QED
  BY <1>1, <1>2, PTL DEF QueueSpec


-----------------------------------------------------------------------------
(* Order.                                                                  *)

\* The packets of each handle are queued in the order of their numbers.
Sorted(q) == \A i, j \in DOMAIN q : i < j /\ q[i].from = q[j].from => q[i].n < q[j].n

\* What is queued of a handle is newer than what was delivered of it.
Behind(q) ==
    \A i \in DOMAIN delivered, j \in DOMAIN q :
        delivered[i].packet.from = q[j].from => delivered[i].packet.n < q[j].n

\* p was pushed by a send that has begun, and before the one that is to push.
Past(p) ==
    /\ p.n <= sends[p.from]
    /\ at[p.from] \in {"load", "push"} => p.n < sends[p.from]

\* The same of p after the step.
PastThen(p) ==
    /\ p.n <= sends'[p.from]
    /\ at'[p.from] \in {"load", "push"} => p.n < sends'[p.from]

AllPast ==
    /\ \A i \in DOMAIN queue : Past(queue[i])
    /\ \A i \in DOMAIN delivered : Past(delivered[i].packet)

Order == Sorted(queue) /\ Behind(queue) /\ AllPast /\ SenderOrder

\* Pushed and delivered packets carry the numbers of their handles.
LEMMA PacketParts ==
    ASSUME TInv
    PROVE  /\ \A i \in DOMAIN queue : /\ queue[i].from \in Sender /\ queue[i].n \in Nat
           /\ \A i \in DOMAIN delivered : /\ delivered[i].packet.from \in Sender
                                          /\ delivered[i].packet.n \in Nat
           /\ \A s \in Sender : sends[s] \in Nat
<1>1. queue \in Seq(QueuedPacket) /\ delivered \in Seq(Delivery)
  BY DEF TInv, QueueOK, DeliveredOK
<1>2. \A i \in DOMAIN queue : queue[i] \in QueuedPacket
  BY <1>1
<1>3. \A i \in DOMAIN delivered : delivered[i] \in Delivery
  BY <1>1
<1>4. \A d \in Delivery : d.packet \in QueuedPacket
  BY DEF Delivery
<1>5. \A p \in QueuedPacket : p.from \in Sender /\ p.n \in Nat
  BY QueueAssumption DEF QueuedPacket
<1>6. \A s \in Sender : sends[s] \in Nat
  BY QueueAssumption DEF TInv, SendersOK
<1> QED BY <1>2, <1>3, <1>4, <1>5, <1>6

\* Taking out the oldest packet leaves the others in order, and newer.
LEMMA TailSorted ==
    ASSUME NEW q \in Seq(QueuedPacket), q # <<>>, Sorted(q)
    PROVE  /\ Sorted(Tail(q))
           /\ \A j \in DOMAIN Tail(q) : \E k \in DOMAIN q : k > 1 /\ Tail(q)[j] = q[k]
           /\ \A j \in DOMAIN Tail(q) : Head(q).from = Tail(q)[j].from => Head(q).n < Tail(q)[j].n
           /\ 1 \in DOMAIN q /\ Head(q) = q[1]
<1> DEFINE t == Tail(q)
<1>1. /\ DOMAIN q = 1 .. Len(q) /\ Len(q) \in Nat /\ Len(q) > 0 /\ DOMAIN t = 1 .. Len(q) - 1
      /\ \A j \in 1 .. Len(q) - 1 : t[j] = q[j + 1]
      /\ Head(q) = q[1]
  BY TailOK
<1> HIDE DEF t
<1>2. \A j \in DOMAIN t : j + 1 \in DOMAIN q /\ j + 1 > 1 /\ t[j] = q[j + 1] /\ j \in Nat
  BY <1>1
<1>3. 1 \in DOMAIN q
  BY <1>1
<1>4. \A i, j \in DOMAIN t : i < j => i + 1 < j + 1
  BY <1>2
<1>5. Sorted(t)
  BY <1>2, <1>4 DEF Sorted
<1>6. \A j \in DOMAIN t : \E k \in DOMAIN q : k > 1 /\ t[j] = q[k]
  BY <1>2
<1> QED BY <1>1, <1>3, <1>5, <1>6 DEF Sorted, t

\* A packet newer than all of its handle may be appended.
LEMMA AppendSorted ==
    ASSUME NEW q \in Seq(QueuedPacket), Sorted(q), NEW p \in QueuedPacket,
           \A i \in DOMAIN q : q[i].from = p.from => q[i].n < p.n
    PROVE  /\ Sorted(Append(q, p))
           /\ \A j \in DOMAIN Append(q, p) :
                  Append(q, p)[j] = p \/ \E k \in DOMAIN q : Append(q, p)[j] = q[k]
<1> DEFINE u == Append(q, p)
<1>1. /\ DOMAIN q = 1 .. Len(q) /\ Len(q) \in Nat /\ DOMAIN u = 1 .. Len(q) + 1
      /\ \A i \in 1 .. Len(q) : u[i] = q[i]
      /\ u[Len(q) + 1] = p
  OBVIOUS
<1> HIDE DEF u
<1>2. \A j \in DOMAIN u : (j = Len(q) + 1 /\ u[j] = p) \/ (j \in DOMAIN q /\ u[j] = q[j])
  BY <1>1
<1>3. \A i, j \in DOMAIN u : i < j => i \in DOMAIN q
  BY <1>1
<1>4. \A j \in DOMAIN q : j # Len(q) + 1
  BY <1>1
<1>5. Sorted(u)
  <2> SUFFICES ASSUME NEW i \in DOMAIN u, NEW j \in DOMAIN u, i < j, u[i].from = u[j].from
               PROVE  u[i].n < u[j].n
    BY DEF Sorted
  <2>1. i \in DOMAIN q /\ u[i] = q[i]
    BY <1>2, <1>3, <1>4
  <2> QED BY <1>2, <2>1 DEF Sorted
<1> QED BY <1>2, <1>5 DEF u

\* What may happen to the ring: nothing, the oldest goes, or the packet of a
\* send that is to push is appended, to all of it or without the oldest.
Pushed(s) == [from |-> s, n |-> sends[s], epoch |-> seen[s]]

\* Pushing keeps the order.
LEMMA PushOrder ==
    ASSUME TInv, Order, NEW s \in Sender, SendPush(s)
    PROVE  Order'
<1> DEFINE packet == Pushed(s)
<1>1. at[s] = "push" /\ packet \in QueuedPacket /\ packet.from = s /\ packet.n = sends[s]
      /\ queue \in Seq(QueuedPacket)
  BY PushedPacketOK DEF SendPush, Pushed, TInv, QueueOK
<1>2. /\ \/ queue' = queue
         \/ queue' = Append(queue, packet)
         \/ queue' = Append(Tail(queue), packet) /\ queue # <<>>
      /\ UNCHANGED <<sends, delivered>>
      /\ \E step \in {"notify", "idle", "len"} : at' = [at EXCEPT ![s] = step]
  <2>1. Len(queue) = Capacity => queue # <<>>
    BY <1>1, LenZero, QueueAssumption
  <2> QED BY <2>1 DEF SendPush, Pushed, TxTo, TxData
<1> HIDE DEF packet
<1>3. \A p : p.from \in Sender /\ Past(p) => PastThen(p)
  BY <1>2 DEF Past, PastThen, TInv, SendersOK
<1>4. /\ \A i \in DOMAIN queue : queue[i].from = packet.from => queue[i].n < packet.n
      /\ \A i \in DOMAIN delivered :
            delivered[i].packet.from = packet.from => delivered[i].packet.n < packet.n
  BY <1>1 DEF Order, AllPast, Past
<1>5. PastThen(packet)
  <2>1. at'[s] \notin {"load", "push"} /\ sends'[s] \in Nat /\ sends' = sends
    BY <1>2, PacketParts DEF TInv, SendersOK
  <2> QED BY <1>1, <2>1 DEF PastThen
<1> DEFINE Rest(q) == /\ q \in Seq(QueuedPacket) /\ Sorted(q)
                      /\ \A j \in DOMAIN q : \E k \in DOMAIN queue : q[j] = queue[k]
<1>6. Rest(queue) /\ (queue # <<>> => Rest(Tail(queue)))
  BY <1>1, TailOK, TailSorted DEF Order
<1>7. PICK q : Rest(q) /\ (queue' = q \/ queue' = Append(q, packet))
  BY <1>2, <1>6
<1>8. /\ Sorted(queue')
      /\ \A j \in DOMAIN queue' : queue'[j] = packet \/ \E k \in DOMAIN queue : queue'[j] = queue[k]
  <2>1. \A i \in DOMAIN q : q[i].from = packet.from => q[i].n < packet.n
    BY <1>4, <1>7
  <2>2. CASE queue' = q
    BY <1>7, <2>2
  <2>3. CASE queue' = Append(q, packet)
    BY <1>1, <1>7, <2>1, <2>3, AppendSorted
  <2> QED BY <1>7, <2>2, <2>3
<1>9. Sorted(queue)'
  BY <1>8 DEF Sorted
<1>10. Behind(queue)'
  BY <1>2, <1>4, <1>8 DEF Behind, Order
<1>11. AllPast'
  <2>1. \A j \in DOMAIN queue' : PastThen(queue'[j])
    BY <1>3, <1>5, <1>8, PacketParts DEF Order, AllPast
  <2>2. \A j \in DOMAIN delivered' : PastThen(delivered'[j].packet)
    BY <1>2, <1>3, PacketParts DEF Order, AllPast
  <2> QED BY <2>1, <2>2 DEF AllPast, Past, PastThen
<1> QED BY <1>2, <1>9, <1>10, <1>11 DEF Order, SenderOrder

\* So does taking the oldest packet, delivered or not.
LEMMA PopOrder ==
    ASSUME TInv, Order, queue # <<>>, queue' = Tail(queue), sends' = sends,
           \A s \in Sender : at'[s] \in {"load", "push"} => at[s] \in {"load", "push"},
           \/ delivered' = delivered
           \/ \E e : delivered' = Append(delivered, [packet |-> Head(queue), during |-> e])
    PROVE  Order'
<1>1. queue \in Seq(QueuedPacket) /\ delivered \in Seq(Delivery)
  BY DEF TInv, QueueOK, DeliveredOK
<1>2. /\ Sorted(Tail(queue))
      /\ \A j \in DOMAIN Tail(queue) : \E k \in DOMAIN queue : k > 1 /\ Tail(queue)[j] = queue[k]
      /\ \A j \in DOMAIN Tail(queue) :
            Head(queue).from = Tail(queue)[j].from => Head(queue).n < Tail(queue)[j].n
      /\ 1 \in DOMAIN queue /\ Head(queue) = queue[1]
  BY <1>1, TailSorted DEF Order
<1>3. \A p : p.from \in Sender /\ Past(p) => PastThen(p)
  BY DEF Past, PastThen
<1> DEFINE h == Head(queue)
           n == Len(delivered)
<1>4. h.from \in Sender /\ Past(h) /\ h.n \in Nat
      /\ \A i \in DOMAIN delivered : delivered[i].packet.from = h.from => delivered[i].packet.n < h.n
  BY <1>2, PacketParts DEF Order, AllPast, Behind
<1> HIDE DEF h
<1>5. \/ delivered' = delivered
      \/ /\ DOMAIN delivered' = DOMAIN delivered \cup {n + 1} /\ n \in Nat
         /\ DOMAIN delivered = 1 .. n
         /\ \A i \in DOMAIN delivered : delivered'[i] = delivered[i]
         /\ delivered'[n + 1].packet = h
  <2>1. CASE delivered' = delivered
    BY <2>1
  <2>2. CASE \E e : delivered' = Append(delivered, [packet |-> Head(queue), during |-> e])
    <3>1. PICK e : delivered' = Append(delivered, [packet |-> h, during |-> e])
      BY <2>2 DEF h
    <3> DEFINE x == [packet |-> h, during |-> e]
    <3>2. x.packet = h
      OBVIOUS
    <3> HIDE DEF x
    <3>3. /\ n \in Nat /\ DOMAIN delivered = 1 .. n /\ DOMAIN Append(delivered, x) = 1 .. n + 1
          /\ Append(delivered, x)[n + 1] = x
          /\ \A i \in 1 .. n : Append(delivered, x)[i] = delivered[i]
      BY <1>1
    <3>4. 1 .. n + 1 = 1 .. n \cup {n + 1}
      BY <3>3
    <3> QED BY <3>1, <3>2, <3>3, <3>4, Zenon DEF x
  <2> QED BY <2>1, <2>2, SMTT(30)
<1>6. \A i \in DOMAIN delivered' : \/ i \in DOMAIN delivered /\ delivered'[i] = delivered[i]
                                   \/ i = n + 1 /\ delivered'[i].packet = h
  BY <1>5
<1> HIDE DEF n
<1>7. Sorted(queue)'
  BY <1>2 DEF Sorted
<1>8. Behind(queue)'
  <2>1. \A j \in DOMAIN queue' : \E k \in DOMAIN queue : queue'[j] = queue[k]
    BY <1>2
  <2>2. \A j \in DOMAIN queue' : h.from = queue'[j].from => h.n < queue'[j].n
    BY <1>2 DEF h
  <2> QED BY <1>6, <2>1, <2>2 DEF Behind, Order
<1>9. AllPast'
  <2>1. \A j \in DOMAIN queue' : PastThen(queue'[j])
    BY <1>2, <1>3, PacketParts DEF Order, AllPast
  <2>2. \A j \in DOMAIN delivered' : PastThen(delivered'[j].packet)
    BY <1>3, <1>4, <1>6, PacketParts DEF Order, AllPast
  <2> QED BY <2>1, <2>2 DEF AllPast, Past, PastThen
<1>10. SenderOrder'
  <2>1. CASE delivered' = delivered
    BY <2>1 DEF Order, SenderOrder
  <2>2. CASE delivered' # delivered
    <3>1. \A i, j \in DOMAIN delivered' : i < j => i \in DOMAIN delivered
      BY <1>5, <2>2
    <3>2. \A i \in DOMAIN delivered : i # n + 1 /\ delivered'[i] = delivered[i]
      BY <1>5, <2>2
    <3> QED BY <1>4, <1>6, <3>1, <3>2 DEF Order, SenderOrder
  <2> QED BY <2>1, <2>2
<1> QED BY <1>7, <1>8, <1>9, <1>10 DEF Order

\* Nothing is pushed or popped: a send that begins takes a new number.
LEMMA RestOrder ==
    ASSUME TInv, Order, queue' = queue, delivered' = delivered,
           \A s \in Sender : \/ sends'[s] = sends[s] + 1
                             \/ /\ sends'[s] = sends[s]
                                /\ at'[s] \in {"load", "push"} => at[s] \in {"load", "push"}
    PROVE  Order'
<1>1. \A p : p.from \in Sender /\ p.n \in Nat /\ Past(p) => PastThen(p)
  <2> TAKE p
  <2> HAVE p.from \in Sender /\ p.n \in Nat /\ Past(p)
  <2>1. sends[p.from] \in Nat
    BY PacketParts
  <2> QED BY <2>1 DEF Past, PastThen
<1>2. AllPast'
  BY <1>1, PacketParts DEF Order, AllPast, Past, PastThen
<1> QED BY <1>2 DEF Order, Sorted, Behind, SenderOrder

\* Every step keeps the order.
LEMMA OrderStep == TInv /\ Order /\ [QueueNext]_queueVars => Order'
<1> SUFFICES ASSUME TInv, Order, [QueueNext]_queueVars PROVE Order'
  OBVIOUS
<1>1. ASSUME NEW s \in Sender, SendOpen(s) PROVE Order'
  <2>1. \A t \in Sender : \/ sends'[t] = sends[t] + 1
                          \/ sends'[t] = sends[t] /\ at'[t] = at[t]
    BY <1>1 DEF SendOpen, TxTo, TInv, SendersOK
  <2> QED BY <1>1, <2>1, RestOrder DEF SendOpen
<1>2. ASSUME NEW s \in Sender,
             SendLoad(s) \/ SendLen(s) \/ SendNotify(s) \/ DropCount(s) \/ DropNotify(s)
      PROVE  Order'
  <2>1. queue' = queue /\ delivered' = delivered /\ sends' = sends
    BY <1>2 DEF SendLoad, SendLen, SendNotify, DropCount, DropNotify, TxData
  <2>2. \A t \in Sender : at'[t] \in {"load", "push"} => at[t] \in {"load", "push"}
    BY <1>2 DEF SendLoad, SendLen, SendNotify, DropCount, DropNotify, TxTo, TInv, SendersOK
  <2> QED BY <2>1, <2>2, RestOrder
<1>3. ASSUME NEW s \in Sender, SendPush(s) PROVE Order'
  BY <1>3, PushOrder
<1>4. ASSUME NEW s \in Sender, Steal(s) PROVE Order'
  <2>1. delivered' = delivered /\ sends' = sends
    BY <1>4 DEF Steal, TxData
  <2>2. \A t \in Sender : at'[t] \in {"load", "push"} => at[t] \in {"load", "push"}
    BY <1>4 DEF Steal, TxTo, TInv, SendersOK
  <2>3. CASE queue = <<>>
    BY <1>4, <2>1, <2>2, <2>3, RestOrder DEF Steal
  <2>4. CASE queue # <<>>
    BY <1>4, <2>1, <2>2, <2>4, PopOrder DEF Steal
  <2> QED BY <2>3, <2>4
<1>5. CASE TryRecv
  <2>1. sends' = sends /\ at' = at
    BY <1>5 DEF TryRecv, TxData
  <2>2. CASE queue = <<>>
    BY <1>5, <2>1, <2>2, RestOrder DEF TryRecv
  <2>3. CASE queue # <<>>
    BY <1>5, <2>1, <2>3, PopOrder DEF TryRecv
  <2> QED BY <2>2, <2>3
<1>6. CASE ResumePurge
  BY <1>6, PopOrder DEF ResumePurge, TxData
<1>7. CASE \/ RecvStart \/ RecvClosed \/ RecvArm \/ RecvWake \/ ResumeOpen \/ RecvAbandon
           \/ ResumeClose \/ DropReceiver \/ Cancel \/ UNCHANGED queueVars
  <2>1. queue' = queue /\ delivered' = delivered /\ sends' = sends /\ at' = at
    BY <1>7 DEF RecvStart, RecvClosed, RecvArm, RecvWake, ResumeOpen, RecvAbandon, ResumeClose,
                DropReceiver, Cancel, TxData, queueVars
  <2> QED BY <2>1, RestOrder
<1> QED
  BY <1>1, <1>2, <1>3, <1>4, <1>5, <1>6, <1>7 DEF QueueNext, SenderStep, ReceiverStep

\* For any number of handles, any capacity and any number of resumes: what one
\* handle sends is received in the order it was sends and never twice, whatever
\* force_push evicts, resume purges or a steal takes.
THEOREM SenderOrderHolds == QueueSpec => []SenderOrder
<1>1. QueueInit => Order
  BY DEF QueueInit, Order, Sorted, Behind, AllPast, SenderOrder
<1>2. Order => SenderOrder
  BY DEF Order
<1> QED
  BY <1>1, <1>2, TypeInit, TypeStep, OrderStep, PTL DEF QueueSpec
-----------------------------------------------------------------------------
(* Dispatch: the order of the published vector.                            *)

\* The least number of a set.
LEMMA Least ==
    ASSUME NEW T, T \subseteq Nat, T # {}
    PROVE  \E x \in T : \A y \in T : x <= y
<1> DEFINE R == {p \in Nat \X Nat : p[1] < p[2]}
<1>1. IsWellFoundedOn(R, Nat)
  BY NatLessThanWellFounded DEF OpToRel
<1>2. PICK x \in T : \A y \in T : ~ (<<y, x>> \in R)
  <2> HIDE DEF R
  <2> QED BY <1>1, WFMin
<1>3. \A y \in T : ~ (y < x)
  BY <1>2
<1> QED BY <1>2, <1>3

\* Counting an interval.
LEMMA UpTo ==
    ASSUME NEW n \in Nat
    PROVE  /\ IsFiniteSet(0 .. n - 1) /\ Cardinality(0 .. n - 1) = n
           /\ IsFiniteSet(1 .. n) /\ Cardinality(1 .. n) = n
<1>1. n - 1 \in Int /\ 0 \in Int /\ 1 \in Int /\ n \in Int
  OBVIOUS
<1>2. IsFiniteSet(0 .. n - 1) /\ Cardinality(0 .. n - 1) = IF 0 > n - 1 THEN 0 ELSE (n - 1) - 0 + 1
  BY <1>1, FS_Interval, Zenon
<1>3. IsFiniteSet(1 .. n) /\ Cardinality(1 .. n) = IF 1 > n THEN 0 ELSE n - 1 + 1
  BY <1>1, FS_Interval, Zenon
<1> QED BY <1>2, <1>3

\* A set of sessions whose workers are all different.
Distinct(ch, S) ==
    /\ IsFiniteSet(S)
    /\ \A i \in S : ch[i].id \in Nat /\ ch[i].path \in Nat
    /\ \A i, j \in S : i # j => ch[i].id # ch[j].id

\* The workers of i's path with a smaller id.
Lower(ch, i, S) == {j \in S : ch[j].path = ch[i].path /\ ch[j].id < ch[i].id}

\* A rank counts the workers of the same path with a smaller id.
LEMMA RankType ==
    ASSUME NEW ch, NEW S, Distinct(ch, S), NEW i
    PROVE  /\ Rank(ch, i, S) = Cardinality(Lower(ch, i, S))
           /\ IsFiniteSet(Lower(ch, i, S)) /\ Rank(ch, i, S) \in Nat
<1>1. Lower(ch, i, S) \in SUBSET S
  BY DEF Lower
<1>2. IsFiniteSet(Lower(ch, i, S))
  BY <1>1, FS_Subset DEF Distinct
<1>3. Rank(ch, i, S) = Cardinality(Lower(ch, i, S))
  BY DEF Rank, Lower
<1> QED BY <1>2, <1>3, FS_CardinalityType

\* Among the workers of one path the rank grows with the id.
LEMMA RankGrows ==
    ASSUME NEW ch, NEW S, Distinct(ch, S), NEW i \in S, NEW j \in S,
           ch[i].path = ch[j].path, ch[i].id < ch[j].id
    PROVE  Rank(ch, i, S) < Rank(ch, j, S)
<1> DEFINE A == Lower(ch, i, S)
           B == Lower(ch, j, S)
<1>1. /\ IsFiniteSet(A) /\ Rank(ch, i, S) = Cardinality(A) /\ Cardinality(A) \in Nat
      /\ IsFiniteSet(B) /\ Rank(ch, j, S) = Cardinality(B) /\ Cardinality(B) \in Nat
  BY RankType
<1>2. A \cup {i} \subseteq B /\ i \notin A
  <2>1. /\ \A k \in S : ch[k].id \in Nat
        /\ i \notin A
    BY DEF Distinct, Lower
  <2>2. ASSUME NEW k \in A \cup {i} PROVE k \in B
    BY <2>1 DEF Lower
  <2> QED BY <2>1, <2>2
<1> HIDE DEF A, B
<1>3. Cardinality(A \cup {i}) = Cardinality(A) + 1
  BY <1>1, <1>2, FS_AddElement
<1>4. Cardinality(A \cup {i}) <= Cardinality(B)
  BY <1>1, <1>2, FS_Subset
<1> QED BY <1>1, <1>3, <1>4

\* Before is a strict linear order.
LEMMA BeforeLinear ==
    ASSUME NEW ch, NEW S, Distinct(ch, S)
    PROVE  /\ \A i, j \in S : i # j => Before(ch, S, i, j) \/ Before(ch, S, j, i)
           /\ \A i \in S : ~Before(ch, S, i, i)
           /\ \A i, j, k \in S :
                 Before(ch, S, i, j) /\ Before(ch, S, j, k) => Before(ch, S, i, k)
<1>1. \A i \in S : Rank(ch, i, S) \in Nat
  BY RankType
<1>2. \A i \in S : ch[i].id \in Nat /\ ch[i].path \in Nat
  BY DEF Distinct
<1>3. ASSUME NEW i \in S, NEW j \in S, i # j
      PROVE  Before(ch, S, i, j) \/ Before(ch, S, j, i)
  <2>1. CASE ch[i].path = ch[j].path
    <3>1. ch[i].id < ch[j].id \/ ch[j].id < ch[i].id
      BY <1>2, <1>3 DEF Distinct
    <3>2. Rank(ch, i, S) < Rank(ch, j, S) \/ Rank(ch, j, S) < Rank(ch, i, S)
      BY <2>1, <3>1, RankGrows
    <3> QED BY <3>2 DEF Before
  <2>2. CASE ch[i].path # ch[j].path
    BY <1>1, <1>2, <2>2 DEF Before
  <2> QED BY <2>1, <2>2
<1>4. \A i \in S : ~Before(ch, S, i, i)
  BY <1>1, <1>2 DEF Before
<1>5. ASSUME NEW i \in S, NEW j \in S, NEW k \in S,
             Before(ch, S, i, j), Before(ch, S, j, k)
      PROVE  Before(ch, S, i, k)
  BY <1>1, <1>2, <1>5 DEF Before
<1> QED BY <1>3, <1>4, <1>5

\* The place of worker i, counted from 0.
Place(ch, S, i) == Cardinality({j \in S : Before(ch, S, j, i)})

\* A place counts the workers that come earlier.
LEMMA PlaceType ==
    ASSUME NEW ch, NEW S, Distinct(ch, S), NEW i \in S
    PROVE  /\ IsFiniteSet({j \in S : Before(ch, S, j, i)})
           /\ Cardinality(S) \in Nat
           /\ Place(ch, S, i) \in 0 .. Cardinality(S) - 1
<1> DEFINE A == {j \in S : Before(ch, S, j, i)}
<1>1. A \in SUBSET (S \ {i})
  BY BeforeLinear
<1>2. IsFiniteSet(S)
  BY DEF Distinct
<1>3. IsFiniteSet(S \ {i}) /\ Cardinality(S \ {i}) = Cardinality(S) - 1 /\ Cardinality(S) \in Nat
  BY <1>2, FS_RemoveElement, FS_CardinalityType
<1> HIDE DEF A
<1>4. IsFiniteSet(A) /\ Cardinality(A) <= Cardinality(S) - 1 /\ Cardinality(A) \in Nat
  BY <1>1, <1>3, FS_Subset, FS_CardinalityType
<1>5. Place(ch, S, i) \in 0 .. Cardinality(S) - 1
  BY <1>3, <1>4 DEF A, Place
<1> QED BY <1>3, <1>4, <1>5 DEF A

\* A worker that comes later has a larger place.
LEMMA PlaceGrows ==
    ASSUME NEW ch, NEW S, Distinct(ch, S), NEW i \in S, NEW j \in S, Before(ch, S, i, j)
    PROVE  Place(ch, S, i) < Place(ch, S, j)
<1> DEFINE A == {k \in S : Before(ch, S, k, i)}
           B == {k \in S : Before(ch, S, k, j)}
<1>1. IsFiniteSet(A) /\ IsFiniteSet(B)
  BY PlaceType
<1>2. A \cup {i} \in SUBSET B
  BY BeforeLinear
<1>3. i \notin A
  BY BeforeLinear
<1>4. Place(ch, S, i) = Cardinality(A) /\ Place(ch, S, j) = Cardinality(B)
  BY DEF Place
<1> HIDE DEF A, B
<1>5. Cardinality(A \cup {i}) = Cardinality(A) + 1
  BY <1>1, <1>3, FS_AddElement
<1>6. Cardinality(A \cup {i}) <= Cardinality(B)
  BY <1>1, <1>2, FS_Subset
<1>7. Cardinality(A) \in Nat /\ Cardinality(B) \in Nat
  BY <1>1, FS_CardinalityType
<1> QED BY <1>4, <1>5, <1>6, <1>7

\* interleave_turn_paths lists every worker exactly once, in order.
LEMMA Interleaved ==
    ASSUME NEW ch, NEW S, Distinct(ch, S), NEW r, r = interleave_turn_paths(ch, S)
    PROVE  /\ Cardinality(S) \in Nat
           /\ r \in [1 .. Cardinality(S) -> S]
           /\ \A i \in S : \E m \in DOMAIN r : r[m] = i
           /\ \A m, n \in DOMAIN r : m < n => Before(ch, S, r[m], r[n])
           /\ \A m, n \in DOMAIN r : m # n => r[m] # r[n]
<1> DEFINE N == Cardinality(S)
           f == [i \in S |-> Place(ch, S, i)]
<1>1. IsFiniteSet(S) /\ N \in Nat
  BY FS_CardinalityType DEF Distinct
<1>2. \A i \in S : Place(ch, S, i) \in 0 .. N - 1
  BY PlaceType
<1>3. ASSUME NEW i \in S, NEW j \in S, i # j
      PROVE  Place(ch, S, i) # Place(ch, S, j)
  <2>1. Before(ch, S, i, j) \/ Before(ch, S, j, i)
    BY <1>3, BeforeLinear
  <2>2. Place(ch, S, i) < Place(ch, S, j) \/ Place(ch, S, j) < Place(ch, S, i)
    BY <2>1, PlaceGrows
  <2>3. Place(ch, S, i) \in Nat /\ Place(ch, S, j) \in Nat
    BY <1>1, <1>2
  <2> QED BY <2>2, <2>3
<1>4. f \in Injection(S, 0 .. N - 1)
  BY <1>2, <1>3 DEF Injection, IsInjective
<1>5. IsFiniteSet(0 .. N - 1) /\ Cardinality(0 .. N - 1) = N
  BY <1>1, UpTo
<1>6. f \in Surjection(S, 0 .. N - 1)
  <2> HIDE DEF f
  <2> QED BY <1>4, <1>5, FS_Injection
<1>7. \A k \in 0 .. N - 1 : \E i \in S : Place(ch, S, i) = k
  BY <1>6 DEF Surjection
<1>8. r = [m \in 1 .. N |-> CHOOSE i \in S : Place(ch, S, i) = m - 1]
  BY DEF interleave_turn_paths, Place
<1> HIDE DEF N, f
<1>9. ASSUME NEW m \in 1 .. N
      PROVE  r[m] \in S /\ Place(ch, S, r[m]) = m - 1
  <2>1. m - 1 \in 0 .. N - 1
    BY <1>1
  <2>2. \E i \in S : Place(ch, S, i) = m - 1
    BY <1>7, <2>1
  <2>3. r[m] = CHOOSE i \in S : Place(ch, S, i) = m - 1
    BY <1>8
  <2> QED BY <2>2, <2>3
<1>10. r \in [1 .. N -> S] /\ DOMAIN r = 1 .. N
  BY <1>8, <1>9
<1>11. ASSUME NEW i \in S PROVE \E m \in DOMAIN r : r[m] = i
  <2>1. Place(ch, S, i) + 1 \in 1 .. N /\ (Place(ch, S, i) + 1) - 1 = Place(ch, S, i)
    BY <1>1, <1>2
  <2>2. /\ r[Place(ch, S, i) + 1] \in S
        /\ Place(ch, S, r[Place(ch, S, i) + 1]) = Place(ch, S, i)
    BY <1>9, <2>1
  <2> QED BY <1>3, <1>10, <2>1, <2>2
<1>12. ASSUME NEW m \in DOMAIN r, NEW n \in DOMAIN r, m < n
       PROVE  Before(ch, S, r[m], r[n])
  <2>1. r[m] \in S /\ r[n] \in S /\ Place(ch, S, r[m]) < Place(ch, S, r[n])
        /\ Place(ch, S, r[m]) \in Nat /\ Place(ch, S, r[n]) \in Nat
    BY <1>1, <1>2, <1>9, <1>10, <1>12
  <2>2. r[m] # r[n] /\ ~(Place(ch, S, r[n]) < Place(ch, S, r[m]))
    BY <2>1
  <2>3. ~Before(ch, S, r[n], r[m])
    BY <2>1, <2>2, PlaceGrows
  <2> QED BY <2>1, <2>2, <2>3, BeforeLinear
<1>13. ASSUME NEW m \in DOMAIN r, NEW n \in DOMAIN r, m # n
       PROVE  r[m] # r[n]
  <2>1. Place(ch, S, r[m]) = m - 1 /\ Place(ch, S, r[n]) = n - 1 /\ m \in Int /\ n \in Int
    BY <1>9, <1>10
  <2> QED BY <1>13, <2>1
<1> QED BY <1>1, <1>10, <1>11, <1>12, <1>13 DEF N

\* The ranks of a path's workers leave no gap.
LEMMA RanksBelow ==
    ASSUME NEW ch, NEW S, Distinct(ch, S), NEW z \in S, NEW a \in Nat, a <= Rank(ch, z, S)
    PROVE  \E x \in S : ch[x].path = ch[z].path /\ Rank(ch, x, S) = a
<1> DEFINE L == Lower(ch, z, S)
           R == Rank(ch, z, S)
           f == [x \in L |-> Rank(ch, x, S)]
<1>1. IsFiniteSet(L) /\ Cardinality(L) = R /\ R \in Nat
  BY RankType
<1>2. \A x \in L : x \in S /\ ch[x].path = ch[z].path /\ ch[x].id < ch[z].id
  BY DEF Lower
<1>3. ASSUME NEW x \in L PROVE Rank(ch, x, S) \in 0 .. R - 1
  <2>1. Rank(ch, x, S) \in Nat /\ Rank(ch, x, S) < R
    BY <1>2, RankType, RankGrows
  <2> QED BY <1>1, <2>1
<1>4. ASSUME NEW x \in L, NEW y \in L, x # y
      PROVE  Rank(ch, x, S) # Rank(ch, y, S)
  <2>1. /\ x \in S /\ y \in S /\ ch[x].path = ch[y].path
        /\ ch[x].id < ch[y].id \/ ch[y].id < ch[x].id
    BY <1>2, <1>4 DEF Distinct
  <2>2. Rank(ch, x, S) < Rank(ch, y, S) \/ Rank(ch, y, S) < Rank(ch, x, S)
    BY <2>1, RankGrows
  <2>3. Rank(ch, x, S) \in Nat /\ Rank(ch, y, S) \in Nat
    BY RankType
  <2> QED BY <2>2, <2>3
<1>5. f \in Injection(L, 0 .. R - 1)
  BY <1>3, <1>4 DEF Injection, IsInjective
<1>6. IsFiniteSet(0 .. R - 1) /\ Cardinality(0 .. R - 1) = R
  BY <1>1, UpTo
<1>7. f \in Surjection(L, 0 .. R - 1)
  <2> HIDE DEF f, L, R
  <2> QED BY <1>1, <1>5, <1>6, FS_Injection
<1>8. CASE a = R
  BY <1>8
<1>9. CASE a # R
  <2>1. a \in 0 .. R - 1
    BY <1>1, <1>9
  <2>2. \E x \in L : Rank(ch, x, S) = a
    BY <1>7, <2>1 DEF Surjection
  <2> QED BY <1>2, <2>2
<1> QED BY <1>8, <1>9

\* Between two workers of one path there is one of every path that still has
\* a worker further on.
LEMMA Spread ==
    ASSUME NEW ch, NEW S, Distinct(ch, S), NEW r, r = interleave_turn_paths(ch, S),
           NEW m \in DOMAIN r, NEW n \in DOMAIN r, NEW l \in DOMAIN r, m < n, n < l,
           ch[r[m]].path = ch[r[n]].path, ch[r[l]].path # ch[r[n]].path
    PROVE  \E k \in m + 1 .. n - 1 : ch[r[k]].path = ch[r[l]].path
<1> DEFINE Bef(i, j) == Before(ch, S, i, j)
           Rk(i) == Rank(ch, i, S)
<1>1. /\ DOMAIN r = 1 .. Cardinality(S) /\ Cardinality(S) \in Nat
      /\ r[m] \in S /\ r[n] \in S /\ r[l] \in S
      /\ \A i \in S : \E k \in DOMAIN r : r[k] = i
      /\ \A k, k2 \in DOMAIN r : k < k2 => Bef(r[k], r[k2])
  BY Interleaved
<1>2. Bef(r[m], r[n]) /\ Bef(r[n], r[l])
  BY <1>1
<1>3. \A i \in S : Rk(i) \in Nat /\ ch[i].path \in Nat
  BY RankType DEF Distinct
<1>4. Rk(r[m]) < Rk(r[n]) /\ Rk(r[n]) <= Rk(r[l])
  BY <1>1, <1>2, <1>3 DEF Before
<1>5. \E x \in S : ch[x].path = ch[r[l]].path /\ Bef(r[m], x) /\ Bef(x, r[n])
  <2>1. CASE ch[r[n]].path < ch[r[l]].path
    <3>1. Rk(r[m]) \in Nat /\ Rk(r[m]) <= Rk(r[l])
      BY <1>1, <1>3, <1>4
    <3>2. PICK x \in S : ch[x].path = ch[r[l]].path /\ Rk(x) = Rk(r[m])
      BY <1>1, <3>1, RanksBelow
    <3>3. Bef(r[m], x) /\ Bef(x, r[n])
      BY <1>1, <1>3, <1>4, <2>1, <3>2 DEF Before
    <3> QED BY <3>2, <3>3
  <2>2. CASE ch[r[l]].path < ch[r[n]].path
    <3>1. Rk(r[n]) \in Nat /\ Rk(r[n]) <= Rk(r[l])
      BY <1>1, <1>3, <1>4
    <3>2. PICK x \in S : ch[x].path = ch[r[l]].path /\ Rk(x) = Rk(r[n])
      BY <1>1, <3>1, RanksBelow
    <3>3. Bef(r[m], x) /\ Bef(x, r[n])
      BY <1>1, <1>3, <1>4, <2>2, <3>2 DEF Before
    <3> QED BY <3>2, <3>3
  <2> QED BY <1>1, <1>3, <2>1, <2>2
<1>6. PICK x \in S : ch[x].path = ch[r[l]].path /\ Bef(r[m], x) /\ Bef(x, r[n])
  BY <1>5
<1>7. PICK k \in DOMAIN r : r[k] = x
  BY <1>1
<1>8. ~Bef(x, r[m]) /\ ~Bef(r[n], x) /\ x # r[m] /\ x # r[n]
  BY <1>1, <1>6, BeforeLinear
<1> HIDE DEF Bef
<1>9. ~(k < m) /\ ~(n < k) /\ k # m /\ k # n
  BY <1>1, <1>7, <1>8
<1> QED BY <1>1, <1>6, <1>7, <1>9

\* What InterleaveSpreads says of a vector r of the workers S.
SpreadsEvenly(path, S, r) ==
    /\ Range(r) = S /\ Len(r) = Cardinality(S)
    /\ \A m, n, l \in DOMAIN r :
          (m < n /\ n < l /\ path[r[m]] = path[r[n]] /\ path[r[l]] # path[r[n]])
          => \E k \in m + 1 .. n - 1 : path[r[k]] = path[r[l]]

\* The instance that InterleaveSpreads quantifies over.
LEMMA SpreadOfFour ==
    ASSUME NEW path \in [1 .. 4 -> 1 .. 3], NEW S \in SUBSET (1 .. 4),
           NEW ch, \A i \in 1 .. 4 : ch[i].id = 5 - i /\ ch[i].path = path[i]
    PROVE  SpreadsEvenly(path, S, interleave_turn_paths(ch, S))
<1> DEFINE r == interleave_turn_paths(ch, S)
<1>1. \A i \in 1 .. 4 : path[i] \in 1 .. 3
  OBVIOUS
<1>2. IsFiniteSet(S)
  <2>1. IsFiniteSet(1 .. 4)
    BY UpTo
  <2> QED BY <2>1, FS_Subset
<1>3. Distinct(ch, S)
  BY <1>1, <1>2 DEF Distinct
<1> HIDE DEF r
<1>4. /\ r \in [1 .. Cardinality(S) -> S] /\ Cardinality(S) \in Nat
      /\ \A i \in S : \E m \in DOMAIN r : r[m] = i
  BY <1>3, Interleaved DEF r
<1>5. Range(r) = S
  <2>1. \A m \in DOMAIN r : r[m] \in S
    BY <1>4
  <2>2. \A i \in S : \E m \in DOMAIN r : i = r[m]
    BY <1>4
  <2> QED BY <2>1, <2>2, Zenon DEF Range
<1>6. Len(r) = Cardinality(S)
  BY <1>4
<1>7. ASSUME NEW m \in DOMAIN r, NEW n \in DOMAIN r, NEW l \in DOMAIN r, m < n, n < l,
             path[r[m]] = path[r[n]], path[r[l]] # path[r[n]]
      PROVE  \E k \in m + 1 .. n - 1 : path[r[k]] = path[r[l]]
  <2>1. \A k \in DOMAIN r : ch[r[k]].path = path[r[k]]
    BY <1>1, <1>4
  <2>2. ch[r[m]].path = ch[r[n]].path /\ ch[r[l]].path # ch[r[n]].path
    BY <1>7, <2>1
  <2>3. PICK k \in m + 1 .. n - 1 : ch[r[k]].path = ch[r[l]].path
    BY <1>3, <1>7, <2>2, Spread DEF r
  <2>4. k \in DOMAIN r
    BY <1>4, <2>3
  <2> QED BY <2>1, <2>3, <2>4
<1>8. SpreadsEvenly(path, S, r)
  BY <1>5, <1>6, <1>7 DEF SpreadsEvenly
<1> QED BY <1>8 DEF r

\* interleave_turn_paths spreads the paths.
LEMMA SpreadsHere == InterleaveSpreads
<1> DEFINE ch(path) == [i \in 1 .. 4 |-> [id |-> 5 - i, path |-> path[i]]]
<1>1. ASSUME NEW path \in [1 .. 4 -> 1 .. 3], NEW S \in SUBSET (1 .. 4)
      PROVE  SpreadsEvenly(path, S, interleave_turn_paths(ch(path), S))
  <2>1. \A i \in 1 .. 4 : ch(path)[i].id = 5 - i /\ ch(path)[i].path = path[i]
    OBVIOUS
  <2> HIDE DEF ch
  <2> QED BY <2>1, SpreadOfFour, Zenon
<1> QED BY <1>1, Zenon DEF InterleaveSpreads, SpreadsEvenly

-----------------------------------------------------------------------------
(* Dispatch: the inductive invariant behind ScheduleConsistent.            *)

Stage == {"none", "live", "ending", "handing", "gone"}

Session ==
    [id : Id, path : Nat, racers : Nat, healthy : BOOLEAN, open : BOOLEAN,
     q : [Class -> Seq(Packet)], stage : Stage, drained : Seq(Packet)]

Searching ==
    [on : {TRUE}, pkt : Packet, workers : Seq(Inc), slot : Nat, evict : BOOLEAN, width : Nat,
     pos : Nat, at : {"look", "push", "evict", "force"}, target : Inc \cup {NoInc}, least : Nat]

Ticket == [pkt : Packet, slot : Nat]

SessionsOK ==
    /\ chan \in [Inc -> Session]
    /\ \A i \in Inc, c \in Class : Len(chan[i].q[c]) <= Cap[c]

\* Neither the flags nor the queues of a session that has ended are open.
FlagsOK == \A i \in Inc :
    /\ chan[i].stage \in {"none", "handing", "gone"} => ~chan[i].open
    /\ chan[i].stage # "live" => ~chan[i].healthy

RegistryOK == registry \in Seq(Inc) /\ RegistryExact

\* A stripe that has begun belongs to a scheduler that has workers.
SchedOK ==
    /\ sched \in [workers : Seq(Inc), count : Nat, current : [Class -> Nat],
                  remaining : [Class -> Nat]]
    /\ sched.count = Len(sched.workers)
    /\ \A c \in Class : IF sched.count = 0 THEN sched.remaining[c] = 0
                                           ELSE sched.current[c] < sched.count

\* What is left of a stripe bounds how long its snapshot can stay outdated.
LagOK == lag \in [Class -> Nat] /\ \A c \in Class : lag[c] + sched.remaining[c] < Chunk[c]

UplinkOK ==
    /\ uplink \in [latency : Seq(Packet), queue : Seq(Packet)]
    /\ Len(uplink.latency) <= LatencyCap /\ Len(uplink.queue) <= UplinkCap

SearchOK ==
    /\ search \in [Actor -> {Idle} \cup Searching]
    /\ \A a \in Actor : search[a].on =>
          /\ search[a].slot < Len(search[a].workers)
          /\ search[a].width > 0
          /\ search[a].at \in {"push", "force"} => search[a].target \in Inc

SpareOK ==
    \/ spare = <<>>
    \/ \E t \in Ticket : spare = <<t>> /\ t.slot < Len(sched.workers)

TrackerOK == DOMAIN tracker \subseteq Kind /\ tracker \in [DOMAIN tracker -> Nat]

CountsOK ==
    /\ sent \in [1 .. MaxPackets -> Nat]
    /\ injected \in Seq(Kind) /\ Len(injected) <= MaxPackets

Typed ==
    /\ SessionsOK /\ FlagsOK /\ RegistryOK /\ SchedOK /\ LagOK /\ UplinkOK
    /\ SearchOK /\ SpareOK /\ TrackerOK /\ CountsOK

\* A push that may evict the oldest packet of a full queue.
LEMMA ForcedIn ==
    ASSUME NEW P, NEW s \in Seq(P), NEW p \in P, NEW n \in Nat \ {0}, Len(s) <= n
    PROVE  LET t == Append(IF Len(s) = n THEN Tail(s) ELSE s, p)
           IN  t \in Seq(P) /\ Len(t) <= n
<1>1. CASE Len(s) = n
  <2>1. s # <<>>
    BY <1>1
  <2>2. Tail(s) \in Seq(P) /\ Len(Tail(s)) = Len(s) - 1
    BY <2>1, TailOK
  <2> QED BY <1>1, <2>2, AppendOK
<1>2. CASE Len(s) # n
  <2>1. Len(s) \in Nat
    OBVIOUS
  <2> QED BY <1>2, <2>1, AppendOK
<1> QED BY <1>1, <1>2

\* packet_class gives every kind a class.
LEMMA ClassOf == \A k \in AllKinds : packet_class(k) \in Class
BY DEF AllKinds, packet_class, Class

\* The class, the kind and the number of a packet.
LEMMA PacketClass ==
    ASSUME NEW p \in Packet
    PROVE  packet_class(p.kind) \in Class /\ p.kind \in Kind /\ p.n \in 1 .. MaxPackets
BY ClassOf, ConstantsAssumption DEF Packet

\* A legal slot names a session.
LEMMA CandidateOK ==
    ASSUME NEW s, s.workers \in Seq(Inc), s.slot \in Nat, s.width \in Nat, s.width > 0,
           s.slot < Len(s.workers), NEW pos \in Nat
    PROVE  Candidate(s, pos) \in Inc
<1>1. pos % s.width \in Nat
  OBVIOUS
<1> DEFINE x == s.slot + (pos % s.width)
           n == Len(s.workers)
<1>2. x \in Nat /\ n \in Nat /\ n > 0
  BY <1>1
<1>3. Candidate(s, pos) = s.workers[(x % n) + 1]
  BY DEF Candidate
<1> HIDE DEF x
<1>4. (x % n) + 1 \in 1 .. n
  <2> HIDE DEF n
  <2>1. x % n \in Nat /\ x % n < n
    BY <1>2
  <2> QED BY <1>2, <2>1
<1> QED BY <1>3, <1>4

\* Worker ids and their paths.
LEMMA WorkerIds ==
    /\ \A id \in Id : PathOf[id] \in Nat /\ id \in Nat
    /\ (CHOOSE id \in Id : TRUE) \in Id
    /\ NoInc \notin Inc
BY ConstantsAssumption DEF Inc, NoInc

\* A new WorkerChannels has empty queues and is open.
LEMMA NewChannelsOK ==
    ASSUME NEW id \in Id
    PROVE  /\ NewChannels(id) \in Session
           /\ \A c \in Class : NewChannels(id).q[c] = <<>>
           /\ NewChannels(id).stage = "live" /\ NewChannels(id).id = id
           /\ NewChannels(id).healthy = TRUE /\ NewChannels(id).open = TRUE
<1>1. PathOf[id] \in Nat
  BY WorkerIds
<1>2. <<>> \in Seq(Packet)
  OBVIOUS
<1> QED BY <1>1, <1>2 DEF NewChannels, Session, Stage

\* Session i turned into x.
LEMMA SessionBecomes ==
    ASSUME SessionsOK, FlagsOK, NEW i \in Inc, NEW x \in Session,
           chan' = [chan EXCEPT ![i] = x],
           \A c \in Class : Len(x.q[c]) <= Cap[c],
           x.stage \in {"none", "handing", "gone"} => ~x.open,
           x.stage # "live" => ~x.healthy
    PROVE  /\ SessionsOK' /\ FlagsOK'
           /\ chan'[i] = x /\ \A j \in Inc : j # i => chan'[j] = chan[j]
<1>1. chan'[i] = x /\ \A j \in Inc : j # i => chan'[j] = chan[j]
  BY DEF SessionsOK
<1>2. SessionsOK'
  <2>1. chan' \in [Inc -> Session]
    BY DEF SessionsOK
  <2>2. ASSUME NEW j \in Inc, NEW c \in Class PROVE Len(chan'[j].q[c]) <= Cap[c]
    BY <1>1 DEF SessionsOK
  <2> QED BY <2>1, <2>2 DEF SessionsOK
<1>3. FlagsOK'
  BY <1>1 DEF FlagsOK
<1> QED BY <1>1, <1>2, <1>3

\* There are finitely many sessions and actors.
LEMMA IncFinite == IsFiniteSet(Inc) /\ IsFiniteSet(Actor) /\ Inc \subseteq Actor /\ Reader \in Actor
<1>1. IsFiniteSet(Inc)
  BY UpTo, ConstantsAssumption DEF Inc
<1>2. IsFiniteSet({Reader} \cup Inc)
  BY <1>1, FS_Singleton, FS_Union
<1> QED BY <1>1, <1>2 DEF Actor

\* The published vector stays right while no session starts or ends.
LEMMA RegistryStays ==
    ASSUME RegistryOK, registry' = registry,
           \A j \in Inc : chan'[j].id = chan[j].id /\ (Ended(j)' <=> Ended(j))
    PROVE  RegistryOK'
<1>1. registry \in Seq(Inc) /\ \A m \in DOMAIN registry : registry[m] \in Inc
  BY DEF RegistryOK
<1>2. Range(registry) = {i \in Inc : ~Ended(i)}
  BY DEF RegistryOK, RegistryExact
<1>3. {i \in Inc : ~Ended(i)'} = {i \in Inc : ~Ended(i)}
  OBVIOUS
<1>4. \A m, n \in DOMAIN registry : m # n => chan'[registry[m]].id # chan'[registry[n]].id
  BY <1>1 DEF RegistryOK, RegistryExact
<1> QED BY <1>1, <1>2, <1>3, <1>4 DEF RegistryOK, RegistryExact

\* A change of a session that neither starts nor ends it.
LEMMA SessionWorks ==
    ASSUME SessionsOK, FlagsOK, RegistryOK, NEW i \in Inc, NEW x \in Session,
           chan' = [chan EXCEPT ![i] = x], registry' = registry,
           \A c \in Class : Len(x.q[c]) <= Cap[c],
           x.stage \in {"none", "handing", "gone"} => ~x.open,
           x.stage # "live" => ~x.healthy,
           x.id = chan[i].id,
           x.stage \in {"none", "gone"} <=> chan[i].stage \in {"none", "gone"}
    PROVE  SessionsOK' /\ FlagsOK' /\ RegistryOK'
<1>1. /\ SessionsOK' /\ FlagsOK'
      /\ chan'[i] = x /\ \A j \in Inc : j # i => chan'[j] = chan[j]
  BY SessionBecomes
<1>2. \A j \in Inc : chan'[j].id = chan[j].id /\ (Ended(j)' <=> Ended(j))
  BY <1>1 DEF Ended
<1> QED BY <1>1, <1>2, RegistryStays

\* A session's end and the steps of its writer.
LEMMA WriterTyped ==
    ASSUME Typed, NEW i \in Inc, WriterSends(i) \/ WriterFails(i)
    PROVE  Typed'
<1> DEFINE c == FirstClass(i)
           s == chan[i].q[c]
           k == BatchSize(i)
           q == QueuesAfterBatch(i)
<1>1. c \in Class /\ chan[i] \in Session
  BY DEF FirstClass, Class, Typed, SessionsOK
<1>2. s \in Seq(Packet) /\ Len(s) <= Cap[c] /\ chan[i].q \in [Class -> Seq(Packet)]
  BY <1>1 DEF Typed, SessionsOK, Session
<1>3. k \in 0 .. Len(s)
  BY <1>1, <1>2, ConstantsAssumption DEF BatchSize, Queued
<1>4. SubSeq(s, k + 1, Len(s)) \in Seq(Packet) /\ Len(SubSeq(s, k + 1, Len(s))) <= Len(s)
  BY <1>2, <1>3
<1>5. q = [chan[i].q EXCEPT ![c] = SubSeq(s, k + 1, Len(s))]
  BY DEF QueuesAfterBatch
<1> HIDE DEF c, s, k, q
<1>6. q \in [Class -> Seq(Packet)] /\ \A d \in Class : Len(q[d]) <= Cap[d]
  <2>1. q \in [Class -> Seq(Packet)]
    BY <1>1, <1>2, <1>4, <1>5
  <2>2. ASSUME NEW d \in Class PROVE Len(q[d]) <= Cap[d]
    <3>1. CASE d = c
      <4>1. q[d] = SubSeq(s, k + 1, Len(s))
        BY <1>1, <1>2, <1>5, <3>1
      <4>2. Cap[d] \in Nat
        BY ConstantsAssumption
      <4> QED BY <1>2, <1>4, <3>1, <4>1, <4>2
    <3>2. CASE d # c
      BY <1>2, <1>5, <3>2 DEF Typed, SessionsOK
    <3> QED BY <3>1, <3>2
  <2> QED BY <2>1, <2>2
<1>7. PICK o \in BOOLEAN : chan' = [chan EXCEPT ![i] = [chan[i] EXCEPT !.q = q, !.open = o]]
  <2>1. CASE WriterSends(i)
    <3>1. chan' = [chan EXCEPT ![i].q = q]
      BY <2>1 DEF WriterSends, q
    <3>2. [chan[i] EXCEPT !.q = q, !.open = chan[i].open] = [chan[i] EXCEPT !.q = q]
      BY <1>1 DEF Session
    <3> QED BY <1>1, <3>1, <3>2, Zenon DEF Session
  <2>2. CASE WriterFails(i)
    BY <2>2, Zenon DEF WriterFails, q
  <2> QED BY <2>1, <2>2, Zenon
<1> DEFINE x == [chan[i] EXCEPT !.q = q, !.open = o]
<1>8. x \in Session /\ x.q = q /\ x.id = chan[i].id /\ x.stage = chan[i].stage
      /\ x.healthy = chan[i].healthy
  BY <1>1, <1>6 DEF Session
<1>9. chan[i].stage \in {"live", "ending"}
  BY DEF WriterSends, WriterFails, WriterRuns
<1>10. FlagsOK /\ SessionsOK /\ RegistryOK
  BY DEF Typed
<1> HIDE DEF x
<1>11. SessionsOK' /\ FlagsOK' /\ RegistryOK'
  <2>1. chan' = [chan EXCEPT ![i] = x] /\ registry' = registry
    BY <1>7 DEF x, WriterSends, WriterFails
  <2>2. x.stage # "live" => ~x.healthy
    BY <1>8, <1>10 DEF FlagsOK
  <2> QED BY <1>6, <1>8, <1>9, <1>10, <2>1, <2>2, SessionWorks
<1>12. SchedOK' /\ LagOK' /\ UplinkOK' /\ SearchOK' /\ SpareOK' /\ TrackerOK'
  BY DEF WriterSends, WriterFails, Typed, SchedOK, LagOK, UplinkOK, SearchOK, SpareOK, TrackerOK
<1>13. CountsOK'
  <2>1. CASE WriterFails(i)
    BY <2>1 DEF WriterFails, Typed, CountsOK
  <2>2. CASE WriterSends(i)
    <3>1. \A n : Occurrences(TakenBatch(i), n) \in Nat
      <4> TAKE n
      <4> DEFINE t == TakenBatch(i)
      <4>1. t \in Seq(Packet)
        BY <1>2, <1>3 DEF TakenBatch, s, c, k
      <4> HIDE DEF t
      <4>2. IsFiniteSet(1 .. Len(t)) /\ DOMAIN t = 1 .. Len(t)
        BY <4>1, UpTo
      <4>3. IsFiniteSet({m \in DOMAIN t : t[m].n = n})
        BY <4>2, FS_Subset
      <4> QED BY <4>3, FS_CardinalityType DEF Occurrences, t
    <3>2. sent' \in [1 .. MaxPackets -> Nat]
      BY <2>2, <3>1 DEF WriterSends, Typed, CountsOK
    <3> QED BY <2>2, <3>2 DEF WriterSends, Typed, CountsOK
  <2> QED BY <2>1, <2>2
<1> QED BY <1>11, <1>12, <1>13 DEF Typed

\* mark_unhealthy keeps the invariant.
LEMMA MarkTyped ==
    ASSUME Typed, NEW i \in Inc, MarkUnhealthy(i)
    PROVE  Typed'
<1> DEFINE x == [chan[i] EXCEPT !.healthy = FALSE, !.stage = "ending"]
<1>1. chan[i] \in Session /\ SessionsOK /\ FlagsOK /\ RegistryOK
  BY DEF Typed, SessionsOK
<1>2. x \in Session /\ x.q = chan[i].q /\ x.id = chan[i].id /\ x.stage = "ending" /\ x.healthy = FALSE
  BY <1>1 DEF Session, Stage
<1>3. chan' = [chan EXCEPT ![i] = x] /\ registry' = registry /\ chan[i].stage = "live"
  BY DEF MarkUnhealthy
<1>4. \A c \in Class : Len(x.q[c]) <= Cap[c]
  BY <1>1, <1>2 DEF SessionsOK
<1> HIDE DEF x
<1>5. SessionsOK' /\ FlagsOK' /\ RegistryOK'
  BY <1>1, <1>2, <1>3, <1>4, SessionWorks
<1>6. SchedOK' /\ LagOK' /\ UplinkOK' /\ SearchOK' /\ SpareOK' /\ TrackerOK' /\ CountsOK'
  BY DEF MarkUnhealthy, Typed, SchedOK, LagOK, UplinkOK, SearchOK, SpareOK, TrackerOK, CountsOK
<1> QED BY <1>5, <1>6 DEF Typed

\* The queues a session's end may find: those it had, or those left after the
\* batch its writer was sending.
LEMMA AfterBatchOK ==
    ASSUME SessionsOK, NEW i \in Inc
    PROVE  /\ chan[i].q \in [Class -> Seq(Packet)]
           /\ QueuesAfterBatch(i) \in [Class -> Seq(Packet)]
           /\ FirstClass(i) \in Class
           /\ BatchSize(i) \in 0 .. Len(chan[i].q[FirstClass(i)])
<1>1. FirstClass(i) \in Class /\ chan[i].q \in [Class -> Seq(Packet)]
  BY DEF FirstClass, Class, SessionsOK, Session
<1> DEFINE s == chan[i].q[FirstClass(i)]
<1>2. s \in Seq(Packet)
  BY <1>1
<1>3. BatchSize(i) \in 0 .. Len(s)
  BY <1>1, <1>2, ConstantsAssumption DEF BatchSize, Queued
<1>4. SubSeq(s, BatchSize(i) + 1, Len(s)) \in Seq(Packet)
  BY <1>2, <1>3, SMTT(30)
<1> QED BY <1>1, <1>3, <1>4 DEF QueuesAfterBatch

\* stop_session_tasks and drain_uplink keep the invariant.
LEMMA StopTyped ==
    ASSUME Typed, NEW i \in Inc, StopAndDrain(i)
    PROVE  Typed'
<1>1. chan[i] \in Session /\ SessionsOK /\ FlagsOK /\ RegistryOK
  BY DEF Typed, SessionsOK
<1>2. PICK q \in {chan[i].q} \cup (IF chan[i].open THEN {QueuesAfterBatch(i)} ELSE {}) :
          chan' = [chan EXCEPT ![i].open = FALSE, ![i].stage = "handing",
                               ![i].drained = q["small"] \o q["medium"] \o q["bulk"],
                               ![i].q = [c \in Class |-> <<>>],
                               ![i].racers = Cardinality({a \in Actor : Aiming(a, i)})]
  BY Zenon DEF StopAndDrain
<1>3. q \in [Class -> Seq(Packet)]
  BY <1>1, AfterBatchOK
<1> DEFINE d == q["small"] \o q["medium"] \o q["bulk"]
           r == Cardinality({a \in Actor : Aiming(a, i)})
           e == [c \in Class |-> <<>>]
           x == [chan[i] EXCEPT !.open = FALSE, !.stage = "handing", !.drained = d, !.q = e,
                                !.racers = r]
<1>4. d \in Seq(Packet)
  <2>1. q["small"] \in Seq(Packet) /\ q["medium"] \in Seq(Packet) /\ q["bulk"] \in Seq(Packet)
    BY <1>3 DEF Class
  <2> QED BY <2>1
<1>5. r \in Nat
  <2>1. {a \in Actor : Aiming(a, i)} \in SUBSET Actor
    OBVIOUS
  <2>2. IsFiniteSet({a \in Actor : Aiming(a, i)})
    BY <2>1, IncFinite, FS_Subset
  <2> QED BY <2>2, FS_CardinalityType
<1>6. e \in [Class -> Seq(Packet)] /\ \A c \in Class : Len(e[c]) <= Cap[c]
  BY ConstantsAssumption
<1>7. chan' = [chan EXCEPT ![i] = x]
  BY <1>2
<1> HIDE DEF d, r, e
<1>8. x \in Session /\ x.q = e /\ x.id = chan[i].id /\ x.stage = "handing" /\ x.open = FALSE
      /\ x.healthy = chan[i].healthy
  BY <1>1, <1>4, <1>5, <1>6 DEF Session, Stage
<1>9. chan[i].stage = "ending" /\ ~chan[i].healthy /\ registry' = registry
  BY <1>1 DEF StopAndDrain, FlagsOK
<1> HIDE DEF x
<1>10. SessionsOK' /\ FlagsOK' /\ RegistryOK'
  BY <1>1, <1>6, <1>7, <1>8, <1>9, SessionWorks
<1>11. SchedOK' /\ LagOK' /\ UplinkOK' /\ SearchOK' /\ SpareOK' /\ TrackerOK' /\ CountsOK'
  BY DEF StopAndDrain, Typed, SchedOK, LagOK, UplinkOK, SearchOK, SpareOK, TrackerOK, CountsOK
<1> QED BY <1>10, <1>11 DEF Typed

\* A search that starts in a legal slot.
LEMMA StartSearchOK ==
    ASSUME NEW p \in Packet, NEW ws \in Seq(Inc), NEW slot \in Nat, slot < Len(ws),
           NEW evict \in BOOLEAN
    PROVE  LET s == StartSearch(p, ws, slot, evict)
           IN  /\ s \in Searching /\ s.on /\ s.at = "look" /\ s.pkt = p
               /\ s.slot = slot /\ s.workers = ws /\ s.width > 0
<1> DEFINE w == IF slot + 1 \in DOMAIN ws /\ chan[ws[slot + 1]].healthy /\ Len(ws) > 3
                THEN 3 ELSE Len(ws)
<1>1. w \in Nat /\ w > 0
  OBVIOUS
<1>2. StartSearch(p, ws, slot, evict) =
        [on |-> TRUE, pkt |-> p, workers |-> ws, slot |-> slot, evict |-> evict,
         width |-> w, pos |-> 0, at |-> "look", target |-> NoInc, least |-> 0]
  BY DEF StartSearch
<1> HIDE DEF w
<1> QED BY <1>1, <1>2 DEF Searching

\* Actor a's search becomes x.
LEMMA SearchBecomes ==
    ASSUME SearchOK, NEW a \in Actor, NEW x \in Searching \cup {Idle},
           search' = [search EXCEPT ![a] = x],
           x.on => /\ x.slot < Len(x.workers)
                   /\ x.width > 0
                   /\ x.at \in {"push", "force"} => x.target \in Inc
    PROVE  /\ SearchOK'
           /\ search'[a] = x /\ \A b \in Actor : b # a => search'[b] = search[b]
<1>1. search'[a] = x /\ \A b \in Actor : b # a => search'[b] = search[b]
  BY DEF SearchOK
<1>2. search' \in [Actor -> {Idle} \cup Searching]
  BY DEF SearchOK
<1> QED BY <1>1, <1>2 DEF SearchOK

\* The order depends on nothing but ids and paths.
LEMMA SameOrder ==
    ASSUME NEW c, NEW d, NEW S,
           \A j \in S : d[j].id = c[j].id /\ d[j].path = c[j].path
    PROVE  interleave_turn_paths(d, S) = interleave_turn_paths(c, S)
<1>1. ASSUME NEW i \in S PROVE Rank(d, i, S) = Rank(c, i, S)
  <2>1. {j \in S : d[j].path = d[i].path /\ d[j].id < d[i].id} =
            {j \in S : c[j].path = c[i].path /\ c[j].id < c[i].id}
    OBVIOUS
  <2> QED BY <2>1 DEF Rank
<1>2. ASSUME NEW i \in S, NEW j \in S PROVE Before(d, S, i, j) <=> Before(c, S, i, j)
  BY <1>1 DEF Before
<1>3. ASSUME NEW i \in S
      PROVE  {j \in S : Before(d, S, j, i)} = {j \in S : Before(c, S, j, i)}
  BY <1>2
<1>4. ASSUME NEW m \in 1 .. Cardinality(S)
      PROVE  (CHOOSE i \in S : Cardinality({j \in S : Before(d, S, j, i)}) = m - 1) =
             (CHOOSE i \in S : Cardinality({j \in S : Before(c, S, j, i)}) = m - 1)
  <2>1. \A i \in S : Cardinality({j \in S : Before(d, S, j, i)}) = m - 1
                        <=> Cardinality({j \in S : Before(c, S, j, i)}) = m - 1
    BY <1>3
  <2> QED BY <2>1
<1> DEFINE At(e, m) == CHOOSE i \in S : Cardinality({j \in S : Before(e, S, j, i)}) = m - 1
<1>5. \A m \in 1 .. Cardinality(S) : At(d, m) = At(c, m)
  BY <1>4
<1>6. \A e : interleave_turn_paths(e, S) = [m \in 1 .. Cardinality(S) |-> At(e, m)]
  BY DEF interleave_turn_paths
<1> HIDE DEF At
<1>7. [m \in 1 .. Cardinality(S) |-> At(d, m)] = [m \in 1 .. Cardinality(S) |-> At(c, m)]
  BY <1>5
<1> QED BY <1>6, <1>7
\* redispatch starts its search in slot 0 of a nonempty vector.
LEMMA RedispatchTyped ==
    ASSUME Typed, NEW i \in Inc, Redispatch(i)
    PROVE  Typed'
<1> DEFINE s == StartSearch(Head(chan[i].drained), registry, 0, TRUE)
           x == [chan[i] EXCEPT !.drained = Tail(@)]
<1>1. /\ chan[i] \in Session /\ SessionsOK /\ FlagsOK /\ RegistryOK /\ SearchOK
      /\ chan[i].stage = "handing" /\ chan[i].drained # <<>>
      /\ chan' = [chan EXCEPT ![i] = x] /\ search' = [search EXCEPT ![i] = s]
      /\ registry' = registry
  BY DEF Redispatch, Typed, SessionsOK
<1>2. /\ Head(chan[i].drained) \in Packet /\ Tail(chan[i].drained) \in Seq(Packet)
  <2>1. chan[i].drained \in Seq(Packet)
    BY <1>1 DEF Session
  <2> QED BY <1>1, <2>1, TailOK
<1>3. x \in Session /\ x.q = chan[i].q /\ x.id = chan[i].id /\ x.stage = "handing"
      /\ x.open = chan[i].open /\ x.healthy = chan[i].healthy
  BY <1>1, <1>2 DEF Session
<1>4. registry \in Seq(Inc) /\ Len(registry) > 0
  <2>1. registry \in Seq(Inc) /\ i \in Range(registry)
    BY <1>1 DEF RegistryOK, RegistryExact, Ended
  <2> QED BY <2>1 DEF Range
<1>5. /\ s \in Searching /\ s.on /\ s.at = "look"
      /\ s.slot < Len(s.workers) /\ s.width > 0
  <2> DEFINE p == Head(chan[i].drained)
  <2>1. p \in Packet /\ TRUE \in BOOLEAN /\ 0 \in Nat /\ 0 < Len(registry) /\ registry \in Seq(Inc)
    BY <1>2, <1>4
  <2> HIDE DEF p, s
  <2>2. /\ s \in Searching /\ s.on /\ s.at = "look"
        /\ s.slot = 0 /\ s.workers = registry /\ s.width > 0
    BY <2>1, StartSearchOK, Zenon DEF p, s
  <2> QED BY <2>1, <2>2
<1> HIDE DEF s, x
<1>6. SessionsOK' /\ FlagsOK' /\ RegistryOK'
  <2>1. /\ x.stage \in {"none", "handing", "gone"} => ~x.open
        /\ x.stage # "live" => ~x.healthy
        /\ \A c \in Class : Len(x.q[c]) <= Cap[c]
        /\ x.stage \in {"none", "gone"} <=> chan[i].stage \in {"none", "gone"}
    BY <1>1, <1>3 DEF FlagsOK, SessionsOK
  <2> QED BY <1>1, <1>3, <2>1, SessionWorks
<1>7. SearchOK'
  BY <1>1, <1>5, IncFinite, SearchBecomes
<1>8. SchedOK' /\ LagOK' /\ UplinkOK' /\ SpareOK' /\ TrackerOK' /\ CountsOK'
  BY DEF Redispatch, Typed, SchedOK, LagOK, UplinkOK, SpareOK, TrackerOK, CountsOK
<1> QED BY <1>6, <1>7, <1>8 DEF Typed

\* Sessions in the vector belong to different workers.
LEMMA RegisteredDistinct ==
    ASSUME SessionsOK, RegistryOK
    PROVE  /\ Range(registry) \subseteq Inc
           /\ \A i, j \in Range(registry) : i # j => chan[i].id # chan[j].id
<1>1. ASSUME NEW i \in Range(registry), NEW j \in Range(registry), i # j
      PROVE  chan[i].id # chan[j].id
  <2>1. PICK m \in DOMAIN registry, n \in DOMAIN registry : i = registry[m] /\ j = registry[n]
    BY DEF Range
  <2>2. m # n
    BY <1>1, <2>1
  <2> QED BY <2>1, <2>2 DEF RegistryOK, RegistryExact
<1>2. Range(registry) \subseteq Inc
  BY DEF RegistryOK, Range
<1> QED BY <1>1, <1>2

\* A vector interleaved from sessions of different workers.
ListsAll(ch, S, r) ==
    /\ r \in Seq(Inc) /\ Range(r) = S
    /\ \A m, n \in DOMAIN r : m # n => ch[r[m]].id # ch[r[n]].id

\* interleave_turn_paths returns each worker once.
LEMMA VectorOK ==
    ASSUME NEW ch, NEW S \in SUBSET Inc, Distinct(ch, S)
    PROVE  ListsAll(ch, S, interleave_turn_paths(ch, S))
<1>0. PICK r : r = interleave_turn_paths(ch, S)
  OBVIOUS
<1>1. /\ Cardinality(S) \in Nat
      /\ r \in [1 .. Cardinality(S) -> S]
      /\ \A i \in S : \E m \in DOMAIN r : r[m] = i
      /\ \A m, n \in DOMAIN r : m # n => r[m] # r[n]
  BY <1>0, Interleaved
<1>2. r \in Seq(Inc)
  BY <1>1
<1>3. \A m \in DOMAIN r : r[m] \in S
  BY <1>1
<1>4. Range(r) = S
  <2>1. \A i \in S : \E m \in DOMAIN r : i = r[m]
    BY <1>1
  <2> QED BY <1>3, <2>1, Zenon DEF Range
<1>5. \A m, n \in DOMAIN r : m # n => ch[r[m]].id # ch[r[n]].id
  BY <1>1, <1>3 DEF Distinct
<1>6. ListsAll(ch, S, r)
  BY <1>2, <1>4, <1>5 DEF ListsAll
<1> QED BY <1>0, <1>6

\* The published vector rebuilt from the sessions that are registered now.
LEMMA RegistryRebuilt ==
    ASSUME SessionsOK', NEW S, S = {j \in Inc : ~Ended(j)'},
           \A i, j \in S : i # j => chan'[i].id # chan'[j].id,
           registry' = interleave_turn_paths(chan', S)
    PROVE  RegistryOK'
<1> DEFINE ch == chan'
           r == registry'
<1>1. IsFiniteSet(S) /\ S \in SUBSET Inc
  BY IncFinite, FS_Subset
<1>2. Distinct(ch, S)
  <2>1. \A i \in S : chan'[i].id \in Id /\ chan'[i].path \in Nat
    BY <1>1 DEF SessionsOK, Session
  <2> QED BY <1>1, <2>1, WorkerIds DEF Distinct
<1>3. r = interleave_turn_paths(ch, S)
  OBVIOUS
<1>4. ListsAll(ch, S, r)
  <2> HIDE DEF ch, r
  <2>1. ListsAll(ch, S, interleave_turn_paths(ch, S))
    BY <1>1, <1>2, VectorOK, Zenon
  <2> QED BY <1>3, <2>1
<1>5. RegistryExact'
  BY <1>4 DEF RegistryExact, ListsAll
<1> QED BY <1>4, <1>5 DEF RegistryOK, ListsAll

\* unregister takes one session out of the published vector.
LEMMA UnregisterTyped ==
    ASSUME Typed, NEW i \in Inc, Unregister(i)
    PROVE  Typed'
<1> DEFINE x == [chan[i] EXCEPT !.stage = "gone"]
<1>1. /\ chan[i] \in Session /\ SessionsOK /\ FlagsOK /\ RegistryOK
      /\ chan[i].stage = "handing" /\ chan' = [chan EXCEPT ![i] = x]
      /\ registry' = interleave_turn_paths(chan, Range(registry) \ {i})
  BY DEF Unregister, Typed, SessionsOK
<1>2. x \in Session /\ x.q = chan[i].q /\ x.id = chan[i].id /\ x.path = chan[i].path
      /\ x.stage = "gone" /\ x.open = chan[i].open /\ x.healthy = chan[i].healthy
  BY <1>1 DEF Session, Stage
<1>3. /\ x.stage \in {"none", "handing", "gone"} => ~x.open
      /\ x.stage # "live" => ~x.healthy
      /\ \A c \in Class : Len(x.q[c]) <= Cap[c]
  BY <1>1, <1>2 DEF FlagsOK, SessionsOK
<1> HIDE DEF x
<1>4. /\ SessionsOK' /\ FlagsOK'
      /\ chan'[i] = x /\ \A j \in Inc : j # i => chan'[j] = chan[j]
  BY <1>1, <1>2, <1>3, SessionBecomes
<1> DEFINE S == Range(registry) \ {i}
<1>5. S = {j \in Inc : ~Ended(j)'}
  <2>1. Range(registry) = {j \in Inc : ~Ended(j)}
    BY <1>1 DEF RegistryOK, RegistryExact
  <2>2. \A j \in Inc : ~Ended(j)' <=> (~Ended(j) /\ j # i)
    BY <1>1, <1>2, <1>4 DEF Ended
  <2> QED BY <2>1, <2>2
<1>6. S \subseteq Inc /\ S \subseteq Range(registry) /\ i \notin S
  BY <1>1, RegisteredDistinct
<1>7. \A j \in S : chan'[j] = chan[j]
  BY <1>4, <1>6
<1>8. interleave_turn_paths(chan', S) = interleave_turn_paths(chan, S)
  <2>1. \A j \in S : chan'[j].id = chan[j].id /\ chan'[j].path = chan[j].path
    BY <1>7
  <2> HIDE DEF S
  <2> DEFINE c == chan
             d == chan'
  <2>2. \A j \in S : d[j].id = c[j].id /\ d[j].path = c[j].path
    BY <2>1
  <2> HIDE DEF c, d
  <2>3. interleave_turn_paths(d, S) = interleave_turn_paths(c, S)
    BY <2>2, SameOrder
  <2> QED BY <2>3 DEF c, d
<1>9. \A j, k \in S : j # k => chan'[j].id # chan'[k].id
  BY <1>1, <1>6, <1>7, RegisteredDistinct
<1>10. RegistryOK'
  <2>1. registry' = interleave_turn_paths(chan', S)
    BY <1>1, <1>8
  <2> HIDE DEF S
  <2> QED BY <1>4, <1>5, <1>9, <2>1, RegistryRebuilt
<1>11. SchedOK' /\ LagOK' /\ UplinkOK' /\ SearchOK' /\ SpareOK' /\ TrackerOK' /\ CountsOK'
  BY DEF Unregister, Typed, SchedOK, LagOK, UplinkOK, SearchOK, SpareOK, TrackerOK, CountsOK
<1> QED BY <1>4, <1>10, <1>11 DEF Typed

\* register puts the new session in the place of the old one of its worker.
LEMMA StartTyped ==
    ASSUME Typed, NEW id \in Id, StartSession(id)
    PROVE  Typed'
<1> DEFINE new == {i \in Inc : chan[i].stage = "none"}
           i == CHOOSE n \in new : \A m \in new : n <= m
           kept == {j \in Range(registry) : chan[j].id # id}
           x == NewChannels(id)
<1>1. /\ new # {} /\ SessionsOK /\ FlagsOK /\ RegistryOK
      /\ \A j \in Inc : chan[j].id = id => Ended(j)
      /\ chan' = [chan EXCEPT ![i] = x]
      /\ registry' = interleave_turn_paths(chan', kept \cup {i})
  BY DEF StartSession, Typed
<1>2. i \in new
  <2>1. new \subseteq Nat
    BY DEF Inc
  <2> HIDE DEF new
  <2>2. \E n \in new : \A m \in new : n <= m
    BY <1>1, <2>1, Least
  <2> QED BY <2>2
<1>3. i \in Inc /\ chan[i].stage = "none"
  BY <1>2
<1> HIDE DEF i, new
<1>4. /\ x \in Session /\ x.stage = "live" /\ x.id = id /\ x.open = TRUE
      /\ \A c \in Class : Len(x.q[c]) <= Cap[c]
  <2>1. /\ x \in Session /\ x.stage = "live" /\ x.id = id /\ x.open = TRUE
        /\ \A c \in Class : x.q[c] = <<>>
    BY NewChannelsOK
  <2>2. \A c \in Class : Len(x.q[c]) = 0 /\ Cap[c] \in Nat
    <3> HIDE DEF x
    <3> QED BY <2>1, ConstantsAssumption
  <2> HIDE DEF x
  <2> QED BY <2>1, <2>2
<1> HIDE DEF x
<1>5. /\ SessionsOK' /\ FlagsOK'
      /\ chan'[i] = x /\ \A j \in Inc : j # i => chan'[j] = chan[j]
  BY <1>1, <1>3, <1>4, SessionBecomes
<1> DEFINE S == kept \cup {i}
<1>6. Range(registry) = {j \in Inc : ~Ended(j)}
  BY <1>1 DEF RegistryOK, RegistryExact
<1>7. kept = Range(registry) /\ i \notin kept
  BY <1>1, <1>3, <1>6 DEF Ended
<1>8. S = {j \in Inc : ~Ended(j)'}
  <2>1. \A j \in Inc : ~Ended(j)' <=> (~Ended(j) \/ j = i)
    BY <1>3, <1>4, <1>5 DEF Ended
  <2> QED BY <1>3, <1>6, <1>7, <2>1
<1>9. \A j, k \in S : j # k => chan'[j].id # chan'[k].id
  <2>1. \A j \in kept : chan'[j] = chan[j] /\ chan[j].id # id
    BY <1>5, <1>6, <1>7
  <2>2. \A j, k \in kept : j # k => chan[j].id # chan[k].id
    BY <1>1, <1>7, RegisteredDistinct
  <2> QED BY <1>4, <1>5, <2>1, <2>2
<1>10. RegistryOK'
  <2>1. registry' = interleave_turn_paths(chan', S)
    BY <1>1
  <2> HIDE DEF S
  <2> QED BY <1>5, <1>8, <1>9, <2>1, RegistryRebuilt
<1>11. SchedOK' /\ LagOK' /\ UplinkOK' /\ SearchOK' /\ SpareOK' /\ TrackerOK' /\ CountsOK'
  BY DEF StartSession, Typed, SchedOK, LagOK, UplinkOK, SearchOK, SpareOK, TrackerOK, CountsOK
<1> QED BY <1>5, <1>10, <1>11 DEF Typed

\* inject_packet respects the capacities of the bridge.
LEMMA InjectTyped ==
    ASSUME Typed, NEW k \in Kind, Inject(k)
    PROVE  Typed'
<1> DEFINE p == [n |-> Len(injected) + 1, kind |-> k]
<1>1. /\ injected \in Seq(Kind) /\ Len(injected) < MaxPackets /\ Len(injected) \in Nat
      /\ injected' = Append(injected, k) /\ MaxPackets \in Nat
      /\ uplink' \in {uplink, enqueue_uplink(p)}
  BY ConstantsAssumption DEF Inject, Typed, CountsOK
<1>2. p \in Packet
  BY <1>1 DEF Packet
<1> HIDE DEF p
<1>3. CountsOK'
  <2>1. injected' \in Seq(Kind) /\ Len(injected') = Len(injected) + 1
    BY <1>1, AppendOK
  <2> QED BY <1>1, <2>1 DEF CountsOK, Inject, Typed
<1> DEFINE l == uplink.latency
           q == uplink.queue
           l2 == Append(IF Len(l) = LatencyCap THEN Tail(l) ELSE l, p)
           q2 == IF Len(q) = UplinkCap THEN q ELSE Append(q, p)
<1>4. /\ l \in Seq(Packet) /\ q \in Seq(Packet) /\ Len(l) <= LatencyCap /\ Len(q) <= UplinkCap
      /\ uplink \in [latency : Seq(Packet), queue : Seq(Packet)]
  BY DEF Typed, UplinkOK
<1>5. LatencyCap \in Nat \ {0} /\ UplinkCap \in Nat \ {0}
  BY ConstantsAssumption
<1>6. l2 \in Seq(Packet) /\ Len(l2) <= LatencyCap
  <2> HIDE DEF l
  <2> QED BY <1>2, <1>4, <1>5, ForcedIn
<1>7. q2 \in Seq(Packet) /\ Len(q2) <= UplinkCap
  <2> HIDE DEF q
  <2>1. CASE Len(q) = UplinkCap
    BY <1>4, <2>1
  <2>2. CASE Len(q) # UplinkCap
    BY <1>2, <1>4, <1>5, <2>2, AppendOK
  <2> QED BY <2>1, <2>2
<1>8. enqueue_uplink(p) \in {[uplink EXCEPT !.latency = l2], [uplink EXCEPT !.queue = q2]}
  BY DEF enqueue_uplink
<1>9. UplinkOK'
  <2> HIDE DEF l2, q2
  <2>1. CASE uplink' = uplink
    BY <1>4, <2>1 DEF UplinkOK
  <2>2. CASE uplink' = [uplink EXCEPT !.latency = l2]
    BY <1>4, <1>6, <2>2 DEF UplinkOK
  <2>3. CASE uplink' = [uplink EXCEPT !.queue = q2]
    BY <1>4, <1>7, <2>3 DEF UplinkOK
  <2> QED BY <1>1, <1>8, <2>1, <2>2, <2>3
<1>10. SessionsOK' /\ FlagsOK'
  BY DEF Inject, Typed, SessionsOK, FlagsOK
<1>11. RegistryOK'
  <2>1. RegistryOK /\ registry' = registry /\ chan' = chan
    BY DEF Inject, Typed
  <2>2. \A j \in Inc : chan'[j].id = chan[j].id /\ (Ended(j)' <=> Ended(j))
    BY <2>1 DEF Ended
  <2> QED BY <2>1, <2>2, RegistryStays
<1>12. SchedOK' /\ LagOK' /\ SearchOK' /\ SpareOK' /\ TrackerOK'
  BY DEF Inject, Typed, SchedOK, LagOK, SearchOK, SpareOK, TrackerOK
<1> QED BY <1>3, <1>9, <1>10, <1>11, <1>12 DEF Typed

\* What the steps of a search keep when only the search changes.
LEMMA OnlySearch ==
    ASSUME Typed, SearchOK',
           UNCHANGED <<chan, registry, sched, uplink, spare, tracker, sent, injected, lag>>
    PROVE  Typed'
<1>1. SessionsOK' /\ FlagsOK'
  BY DEF Typed, SessionsOK, FlagsOK
<1>2. RegistryOK'
  <2>1. RegistryOK
    BY DEF Typed
  <2>2. \A j \in Inc : chan'[j].id = chan[j].id /\ (Ended(j)' <=> Ended(j))
    BY DEF Ended
  <2> QED BY <2>1, <2>2, RegistryStays
<1>3. SchedOK' /\ LagOK' /\ UplinkOK' /\ SpareOK' /\ TrackerOK' /\ CountsOK'
  BY DEF Typed, SchedOK, LagOK, UplinkOK, SpareOK, TrackerOK, CountsOK
<1> QED BY <1>1, <1>2, <1>3 DEF Typed

\* What is known of a search that is on.
LEMMA SearchFacts ==
    ASSUME Typed, NEW a \in Actor, search[a].on
    PROVE  /\ search[a] \in Searching /\ search[a].slot < Len(search[a].workers)
           /\ search[a].width > 0 /\ search[a].pkt \in Packet
           /\ search[a].at \in {"push", "force"} => search[a].target \in Inc
<1>1. search[a] \in {Idle} \cup Searching
  BY DEF Typed, SearchOK
<1>2. search[a] \in Searching
  BY <1>1 DEF Idle
<1> QED BY <1>2 DEF Typed, SearchOK, Searching

\* A search after a look or a failed push: it has its packet, snapshot and slot
\* still, and is aimed only at a session that was open when it was looked at.
Onto(s, x) ==
    /\ x \in Searching \cup {Idle}
    /\ x.on => /\ x.pkt = s.pkt /\ x.slot = s.slot /\ x.workers = s.workers /\ x.width = s.width
               /\ x.at \in {"push", "force"} => x.target \in Inc /\ chan[x.target].open

\* Moving on aims at nothing.
LEMMA OnwardOnto ==
    ASSUME Typed, NEW s \in Searching
    PROVE  Onto(s, Onward(s)) /\ (Onward(s).on => Onward(s).at \notin {"push", "force"})
<1> DEFINE p == s.pos + 1
           x == [s EXCEPT !.at = "look", !.pos = p, !.target = NoInc]
           y == [s EXCEPT !.at = "evict", !.pos = 0, !.target = NoInc]
<1>1. Onward(s) \in {x, y, Idle}
  BY DEF Onward
<1>2. p \in Nat
  <2>1. s.pos \in Nat
    BY DEF Searching
  <2> QED BY <2>1
<1> HIDE DEF p
<1>3. /\ x \in Searching /\ x.pkt = s.pkt /\ x.slot = s.slot /\ x.workers = s.workers
      /\ x.width = s.width /\ x.at = "look"
  BY <1>2 DEF Searching
<1>4. /\ y \in Searching /\ y.pkt = s.pkt /\ y.slot = s.slot /\ y.workers = s.workers
      /\ y.width = s.width /\ y.at = "evict"
  BY DEF Searching
<1>5. ~Idle.on
  BY DEF Idle
<1> HIDE DEF x, y
<1> QED BY <1>1, <1>3, <1>4, <1>5 DEF Onto

\* A look at one candidate, at one worker of the scan or at its victim.
LEMMA LookCases ==
    ASSUME Typed, NEW a \in Actor, Look(a) \/ ScanVictim(a) \/ ChooseVictim(a)
    PROVE  /\ search[a].on /\ search[a] \in Searching
           /\ UNCHANGED <<chan, registry, sched, uplink, spare, tracker, sent, injected, lag>>
           /\ \E x : search' = [search EXCEPT ![a] = x] /\ Onto(search[a], x)
<1> DEFINE s == search[a]
<1>1. /\ s.on /\ UNCHANGED <<chan, registry, sched, uplink, spare, tracker, sent, injected, lag>>
  BY Zenon DEF Look, ScanVictim, ChooseVictim, SearchTo
<1>2. s \in Searching /\ s.workers \in Seq(Inc) /\ s.slot < Len(s.workers) /\ s.width > 0
      /\ s.pos \in Nat /\ s.slot \in Nat /\ s.width \in Nat /\ s.pkt \in Packet
  BY <1>1, SearchFacts DEF Searching
<1>3. Onto(s, Idle)
  BY DEF Onto, Idle
<1>4. CASE Look(a)
  <2> DEFINE t == Candidate(s, s.pos)
             x == [s EXCEPT !.at = "push", !.target = t]
  <2>1. \/ Eligible(s, s.pos) /\ search' = [search EXCEPT ![a] = x]
        \/ search' = [search EXCEPT ![a] = Onward(s)]
    BY <1>4, Zenon DEF Look, SearchTo
  <2>2. ASSUME Eligible(s, s.pos) PROVE Onto(s, x)
    <3>1. t \in Inc /\ chan[t].open
      BY <1>2, <2>2, CandidateOK, Zenon DEF Eligible
    <3> HIDE DEF t
    <3>2. /\ x \in Searching /\ x.pkt = s.pkt /\ x.slot = s.slot /\ x.workers = s.workers
          /\ x.width = s.width /\ x.target = t
      BY <1>2, <3>1 DEF Searching
    <3> HIDE DEF x
    <3> QED BY <3>1, <3>2 DEF Onto
  <2>3. Onto(s, Onward(s))
    BY <1>2, OnwardOnto
  <2> HIDE DEF x
  <2>4. \E y : search' = [search EXCEPT ![a] = y] /\ Onto(s, y)
    BY <2>1, <2>2, <2>3, Zenon
  <2> QED BY <1>1, <1>2, <2>4, Zenon
<1>5. CASE ScanVictim(a)
  <2> DEFINE i == s.workers[s.pos + 1]
             n == Queued(i, packet_class(s.pkt.kind))
             p == s.pos + 1
             x == [s EXCEPT !.pos = p, !.target = i, !.least = n]
             y == [s EXCEPT !.pos = p]
  <2>1. s.at = "evict" /\ s.pos < Len(s.workers)
    BY <1>5, Zenon DEF ScanVictim
  <2>2. search' = [search EXCEPT ![a] = x] \/ search' = [search EXCEPT ![a] = y]
    BY <1>5, Zenon DEF ScanVictim, SearchTo
  <2>3. i \in Inc /\ p \in Nat
    BY <1>2, <2>1
  <2>4. n \in Nat
    <3>1. packet_class(s.pkt.kind) \in Class
      BY <1>2, PacketClass
    <3> HIDE DEF i
    <3> QED BY <2>3, <3>1 DEF Queued, Typed, SessionsOK, Session
  <2> HIDE DEF i, n, p
  <2>5. /\ x \in Searching /\ x.pkt = s.pkt /\ x.slot = s.slot /\ x.workers = s.workers
        /\ x.width = s.width /\ x.at = "evict"
    BY <1>2, <2>1, <2>3, <2>4 DEF Searching
  <2>6. /\ y \in Searching /\ y.pkt = s.pkt /\ y.slot = s.slot /\ y.workers = s.workers
        /\ y.width = s.width /\ y.at = "evict"
    BY <1>2, <2>1, <2>3 DEF Searching
  <2> HIDE DEF x, y
  <2>7. Onto(s, x) /\ Onto(s, y)
    BY <2>5, <2>6 DEF Onto
  <2> QED BY <1>1, <1>2, <2>2, <2>7, Zenon
<1>6. CASE ChooseVictim(a)
  <2> DEFINE x == [s EXCEPT !.at = "force", !.least = 0]
  <2>1. \/ s.target # NoInc /\ chan[s.target].open /\ search' = [search EXCEPT ![a] = x]
        \/ search' = [search EXCEPT ![a] = Idle]
    BY <1>6, Zenon DEF ChooseVictim, SearchTo
  <2>2. ASSUME s.target # NoInc, chan[s.target].open PROVE Onto(s, x)
    <3>1. s.target \in Inc
      BY <1>2, <2>2 DEF Searching
    <3>2. /\ x \in Searching /\ x.pkt = s.pkt /\ x.slot = s.slot /\ x.workers = s.workers
          /\ x.width = s.width /\ x.target = s.target
      BY <1>2 DEF Searching
    <3> HIDE DEF x
    <3> QED BY <2>2, <3>1, <3>2 DEF Onto
  <2> HIDE DEF x
  <2> QED BY <1>1, <1>2, <1>3, <2>1, <2>2, Zenon
<1> QED BY <1>4, <1>5, <1>6, Zenon

\* A look aims the search at a session of its snapshot.
LEMMA LookTyped ==
    ASSUME Typed, NEW a \in Actor, Look(a) \/ ScanVictim(a) \/ ChooseVictim(a)
    PROVE  Typed'
<1>1. /\ search[a].slot < Len(search[a].workers) /\ search[a].width > 0 /\ SearchOK
      /\ UNCHANGED <<chan, registry, sched, uplink, spare, tracker, sent, injected, lag>>
  BY LookCases, SearchFacts, Zenon DEF Typed
<1>2. PICK x : search' = [search EXCEPT ![a] = x] /\ Onto(search[a], x)
  BY LookCases, Zenon
<1>3. SearchOK'
  BY <1>1, <1>2, SearchBecomes DEF Onto
<1> QED BY <1>1, <1>3, OnlySearch

\* A packet pushed to queue c of session i.
LEMMA PushedTo ==
    ASSUME Typed, NEW i \in Inc, NEW c \in Class, NEW s \in Seq(Packet), Len(s) <= Cap[c],
           chan' = [chan EXCEPT ![i].q[c] = s], registry' = registry
    PROVE  SessionsOK' /\ FlagsOK' /\ RegistryOK'
<1> DEFINE q == [chan[i].q EXCEPT ![c] = s]
           x == [chan[i] EXCEPT !.q = q]
<1>1. chan[i] \in Session /\ SessionsOK /\ FlagsOK /\ RegistryOK
  BY DEF Typed, SessionsOK
<1>2. q \in [Class -> Seq(Packet)] /\ \A d \in Class : q[d] = IF d = c THEN s ELSE chan[i].q[d]
  BY <1>1 DEF Session
<1>3. \A d \in Class : Len(q[d]) <= Cap[d]
  BY <1>1, <1>2 DEF SessionsOK
<1>4. chan' = [chan EXCEPT ![i] = x]
  OBVIOUS
<1> HIDE DEF q
<1>5. x \in Session /\ x.q = q /\ x.id = chan[i].id /\ x.stage = chan[i].stage
      /\ x.open = chan[i].open /\ x.healthy = chan[i].healthy
  BY <1>1, <1>2 DEF Session
<1> HIDE DEF x
<1>6. /\ x.stage \in {"none", "handing", "gone"} => ~x.open
      /\ x.stage # "live" => ~x.healthy
      /\ x.stage \in {"none", "gone"} <=> chan[i].stage \in {"none", "gone"}
  BY <1>1, <1>5 DEF FlagsOK
<1> QED BY <1>1, <1>3, <1>4, <1>5, <1>6, SessionWorks

\* A push respects the capacity of the queue.
LEMMA PushTyped ==
    ASSUME Typed, NEW a \in Actor, Push(a)
    PROVE  Typed'
<1> DEFINE s == search[a]
           i == s.target
           c == packet_class(s.pkt.kind)
           q == Append(chan[i].q[c], s.pkt)
<1>1. s \in Searching /\ s.slot < Len(s.workers) /\ s.width > 0 /\ s.pkt \in Packet /\ i \in Inc
  BY SearchFacts DEF Push
<1>2. c \in Class
  BY <1>1, PacketClass
<1>3. SearchOK
  BY SMTT(30) DEF Typed
<1>4. CASE Queued(i, c) < Cap[c]
  <2>1. chan' = [chan EXCEPT ![i].q[c] = q] /\ search' = [search EXCEPT ![a] = Idle]
        /\ registry' = registry
    BY <1>4 DEF Push
  <2>2. q \in Seq(Packet) /\ Len(q) <= Cap[c]
    <3>1. chan[i].q[c] \in Seq(Packet) /\ Cap[c] \in Nat
      BY <1>1, <1>2, ConstantsAssumption DEF Typed, SessionsOK, Session
    <3> QED BY <1>1, <1>4, <3>1, AppendOK DEF Queued
  <2> HIDE DEF q, c, i, s
  <2>3. SessionsOK' /\ FlagsOK' /\ RegistryOK'
    BY <1>1, <1>2, <2>1, <2>2, PushedTo
  <2>4. SearchOK'
    BY <1>3, <2>1, SearchBecomes DEF Idle
  <2>5. SchedOK' /\ LagOK' /\ UplinkOK' /\ SpareOK' /\ TrackerOK' /\ CountsOK'
    BY SMTT(30) DEF Push, Typed, SchedOK, LagOK, UplinkOK, SpareOK, TrackerOK, CountsOK
  <2> QED BY <2>3, <2>4, <2>5 DEF Typed
<1>5. CASE ~(Queued(i, c) < Cap[c])
  <2>1. search' = [search EXCEPT ![a] = Onward(s)] /\ UNCHANGED chan
    BY <1>5 DEF Push
  <2>2. Onto(s, Onward(s)) /\ (Onward(s).on => Onward(s).at \notin {"push", "force"})
    BY <1>1, OnwardOnto
  <2> HIDE DEF s
  <2>3. SearchOK'
    BY <1>1, <1>3, <2>1, <2>2, SearchBecomes DEF Onto
  <2> QED BY <2>1, <2>3, OnlySearch DEF Push
<1> QED BY <1>4, <1>5, SMTT(30)

\* force_push respects the capacity of the queue.
LEMMA ForceTyped ==
    ASSUME Typed, NEW a \in Actor, ForcePush(a)
    PROVE  Typed'
<1> DEFINE s == search[a]
           i == s.target
           c == packet_class(s.pkt.kind)
           o == chan[i].q[c]
           q == Append(IF Len(o) = Cap[c] THEN Tail(o) ELSE o, s.pkt)
<1>1. s.pkt \in Packet /\ i \in Inc
  BY SearchFacts, Zenon DEF ForcePush
<1>2. c \in Class
  BY <1>1, PacketClass, SMTT(30)
<1>3. SearchOK
  BY DEF Typed
<1>4. chan' = [chan EXCEPT ![i].q[c] = q] /\ search' = [search EXCEPT ![a] = Idle]
      /\ registry' = registry
  BY Zenon DEF ForcePush
<1>5. q \in Seq(Packet) /\ Len(q) <= Cap[c]
  <2>1. o \in Seq(Packet) /\ Cap[c] \in Nat \ {0} /\ Len(o) <= Cap[c]
    BY <1>1, <1>2, ConstantsAssumption DEF Typed, SessionsOK, Session
  <2> HIDE DEF o, c, s
  <2> QED BY <1>1, <2>1, ForcedIn
<1> HIDE DEF q, c, i, s
<1>6. SessionsOK' /\ FlagsOK' /\ RegistryOK'
  BY <1>1, <1>2, <1>4, <1>5, PushedTo, Zenon
<1>7. SearchOK'
  BY <1>3, <1>4, SearchBecomes DEF Idle
<1>8. SchedOK' /\ LagOK' /\ UplinkOK' /\ SpareOK' /\ TrackerOK' /\ CountsOK'
  BY Zenon DEF ForcePush, Typed, SchedOK, LagOK, UplinkOK, SpareOK, TrackerOK, CountsOK
<1> QED BY <1>6, <1>7, <1>8 DEF Typed

\* The search for the second copy starts in the spare's slot.
LEMMA SpareTyped ==
    ASSUME Typed, SpareSearch
    PROVE  Typed'
<1>1. PICK t \in Ticket : spare = <<t>> /\ t.slot < Len(sched.workers)
  BY DEF SpareSearch, Typed, SpareOK
<1> DEFINE s == StartSearch(t.pkt, sched.workers, t.slot, FALSE)
<1>2. t.pkt \in Packet /\ t.slot \in Nat /\ sched.workers \in Seq(Inc)
  BY <1>1 DEF Ticket, Typed, SchedOK
<1>3. search' = [search EXCEPT ![Reader] = s]
  BY <1>1 DEF SpareSearch
<1> DEFINE ws == sched.workers
           slot == t.slot
           p == t.pkt
<1>4. s \in Searching /\ s.at = "look" /\ s.slot = slot /\ s.workers = ws /\ s.width > 0
  <2>1. p \in Packet /\ ws \in Seq(Inc) /\ slot \in Nat /\ slot < Len(ws) /\ FALSE \in BOOLEAN
    BY <1>1, <1>2
  <2>2. s = StartSearch(p, ws, slot, FALSE)
    OBVIOUS
  <2> HIDE DEF p, ws, slot, s
  <2> QED BY <2>1, <2>2, StartSearchOK, ZenonT(40)
<1>5. SearchOK'
  <2>1. SearchOK /\ slot < Len(ws)
    BY <1>1 DEF Typed
  <2> HIDE DEF s, ws, slot
  <2> QED BY <1>3, <1>4, <2>1, IncFinite, SearchBecomes
<1>6. SessionsOK' /\ FlagsOK'
  BY DEF SpareSearch, Typed, SessionsOK, FlagsOK
<1>7. RegistryOK'
  <2>1. RegistryOK /\ registry' = registry /\ chan' = chan
    BY DEF SpareSearch, Typed
  <2>2. \A j \in Inc : chan'[j].id = chan[j].id /\ (Ended(j)' <=> Ended(j))
    BY <2>1 DEF Ended
  <2> QED BY <2>1, <2>2, RegistryStays
<1>8. SchedOK' /\ LagOK' /\ UplinkOK' /\ SpareOK' /\ TrackerOK' /\ CountsOK'
  BY DEF SpareSearch, Typed, SchedOK, LagOK, UplinkOK, SpareOK, TrackerOK, CountsOK
<1> QED BY <1>5, <1>6, <1>7, <1>8 DEF Typed

\* The tracker maps kinds to numbers.
LEMMA TrackerStep ==
    ASSUME TrackerOK, NEW k \in Kind
    PROVE  /\ DOMAIN TrackerAfter(k) \subseteq Kind
           /\ TrackerAfter(k) \in [DOMAIN TrackerAfter(k) -> Nat]
<1> DEFINE n == IF k \in DOMAIN tracker THEN tracker[k] ELSE 0
           m == IF n < QuicPerFlow THEN n + 1 ELSE n
           D == DOMAIN tracker \cup {k}
           t == [f \in D |-> IF f # k THEN tracker[f] ELSE m]
           young == {f \in D : t[f] < QuicPerFlow}
<1>1. m \in Nat
  BY DEF TrackerOK
<1>2. t \in [D -> Nat] /\ D \subseteq Kind
  <2> HIDE DEF m
  <2> QED BY <1>1 DEF TrackerOK
<1>3. TrackerAfter(k) \in {t, [f \in young |-> t[f]], [f \in {k} |-> 1]}
  BY DEF TrackerAfter
<1> HIDE DEF t, D
<1>4. DOMAIN t = D /\ young \subseteq D /\ [f \in young |-> t[f]] \in [young -> Nat]
  BY <1>2
<1> HIDE DEF young
<1> QED BY <1>2, <1>3, <1>4

\* The scheduler begin works with, reloaded or not, is as good as the
\* reader's, and current at the start of a stripe.
LEMMA KeptLoaded ==
    ASSUME Typed, NEW c \in Class, NEW s, s = Reloaded(c)
    PROVE  /\ s \in [workers : Seq(Inc), count : Nat, current : [Class -> Nat],
                     remaining : [Class -> Nat]]
           /\ s.count = Len(s.workers)
           /\ \A d \in Class : IF s.count = 0 THEN s.remaining[d] = 0
                                              ELSE s.current[d] < s.count
           /\ \A d \in Class : lag[d] + s.remaining[d] < Chunk[d]
           /\ s.remaining[c] = 0 => s.workers = registry
<1>1. SchedOK /\ LagOK /\ registry \in Seq(Inc) /\ Len(registry) \in Nat
  BY DEF Typed, RegistryOK
<1>2. CASE sched.remaining[c] # 0
  <2>1. s = sched
    BY <1>2 DEF Reloaded
  <2> QED BY <1>1, <1>2, <2>1 DEF SchedOK, LagOK
<1>3. CASE sched.remaining[c] = 0
  <2> DEFINE cur == IF Len(registry) # sched.count THEN Zero ELSE sched.current
             rem == IF Len(registry) # sched.count THEN Zero ELSE sched.remaining
  <2>1. s = [workers |-> registry, count |-> Len(registry), current |-> cur, remaining |-> rem]
    BY <1>3 DEF Reloaded, Loaded
  <2>2. Zero \in [Class -> Nat] /\ \A d \in Class : Zero[d] = 0
    BY DEF Zero
  <2>3. cur \in [Class -> Nat] /\ rem \in [Class -> Nat]
    BY <1>1, <2>2 DEF SchedOK
  <2>4. \A d \in Class : IF Len(registry) = 0 THEN rem[d] = 0 ELSE cur[d] < Len(registry)
    BY <1>1, <2>2 DEF SchedOK
  <2>5. \A d \in Class : lag[d] + rem[d] < Chunk[d]
    <3> TAKE d \in Class
    <3>1. sched.remaining[d] \in Nat /\ lag[d] \in Nat /\ Chunk[d] \in Nat
      BY <1>1, ConstantsAssumption DEF SchedOK, LagOK
    <3>2. lag[d] + sched.remaining[d] < Chunk[d]
      BY <1>1 DEF LagOK
    <3> QED BY <2>2, <3>1, <3>2
  <2> HIDE DEF cur, rem
  <2> QED BY <1>1, <2>1, <2>3, <2>4, <2>5
<1> QED BY <1>2, <1>3

\* A stripe goes on, or the next one begins at the next slot.
LEMMA AdvancedOK ==
    ASSUME NEW c \in Class,
           NEW s \in [workers : Seq(Inc), count : Nat, current : [Class -> Nat],
                      remaining : [Class -> Nat]],
           s.count > 0, \A d \in Class : s.current[d] < s.count,
           NEW t, t = Advanced(s, c)
    PROVE  /\ t \in [workers : Seq(Inc), count : Nat, current : [Class -> Nat],
                     remaining : [Class -> Nat]]
           /\ t.workers = s.workers /\ t.count = s.count
           /\ \A d \in Class : t.current[d] < t.count
           /\ \A d \in Class : d # c => t.remaining[d] = s.remaining[d]
           /\ t.remaining[c] = (IF s.remaining[c] = 0 THEN Chunk[c] ELSE s.remaining[c]) - 1
<1> DEFINE left == (IF s.remaining[c] = 0 THEN Chunk[c] ELSE s.remaining[c]) - 1
           next == IF s.current[c] + 1 = s.count THEN 0 ELSE s.current[c] + 1
           cur == [s.current EXCEPT ![c] = IF left = 0 THEN next ELSE @]
           rem == [s.remaining EXCEPT ![c] = left]
<1>1. left \in Nat /\ next \in Nat /\ next < s.count
  <2>1. s.remaining[c] \in Nat /\ Chunk[c] \in Nat \ {0} /\ s.current[c] \in Nat /\ s.count \in Nat
    BY ConstantsAssumption
  <2> QED BY <2>1
<1>2. t = [s EXCEPT !.remaining = rem, !.current = cur]
  BY DEF Advanced
<1> HIDE DEF left, next
<1>3. cur \in [Class -> Nat] /\ rem \in [Class -> Nat] /\ \A d \in Class : cur[d] < s.count
  BY <1>1
<1>4. rem[c] = left /\ \A d \in Class : d # c => rem[d] = s.remaining[d]
  BY <1>1
<1> HIDE DEF cur, rem
<1> QED BY <1>2, <1>3, <1>4 DEF left

\* What the scheduler may work with: its vector, reloaded if it is due.
Works == {Reloaded(c) : c \in Class}

\* What ReaderTake does, in parts.
LEMMA TakeParts ==
    ASSUME Typed, ReaderTake
    PROVE  \E p \in Packet, c \in Class, s \in Works :
              /\ c = packet_class(p.kind) /\ s = Reloaded(c)
              /\ ~search[Reader].on /\ spare = <<>>
              /\ \/ /\ uplink.latency # <<>> /\ p = Head(uplink.latency)
                    /\ uplink' = [uplink EXCEPT !.latency = Tail(@)]
                 \/ /\ uplink.queue # <<>> /\ p = Head(uplink.queue)
                    /\ uplink' = [uplink EXCEPT !.queue = Tail(@)]
              /\ \/ s.count = 0 /\ sched' = s /\ UNCHANGED <<search, spare, tracker>>
                 \/ /\ s.count # 0 /\ sched' = Advanced(s, c)
                    /\ search' = [search EXCEPT ![Reader] =
                                      StartSearch(p, s.workers, s.current[c], TRUE)]
                    /\ \/ spare' = <<>>
                       \/ /\ WantsSpare(p.kind) /\ s.count > 1
                          /\ spare' = <<[pkt |-> p,
                                         slot |-> (s.current[c] + s.count \div 2) % s.count]>>
                    /\ tracker' \in {tracker, TrackerAfter(p.kind)}
              /\ lag' = [lag EXCEPT ![c] = IF s.workers # registry THEN @ + 1 ELSE 0]
              /\ UNCHANGED <<chan, registry, sent, injected>>
<1> DEFINE fromLatency == uplink.latency # <<>>
           p == IF fromLatency THEN Head(uplink.latency) ELSE Head(uplink.queue)
           c == packet_class(p.kind)
           s == Reloaded(c)
<1>1. p \in Packet
  <2>1. uplink.latency \in Seq(Packet) /\ uplink.queue \in Seq(Packet)
    BY DEF Typed, UplinkOK
  <2>2. uplink.latency # <<>> \/ uplink.queue # <<>>
    BY DEF ReaderTake
  <2> QED BY <2>1, <2>2, TailOK
<1>2. c \in Class
  BY <1>1, PacketClass
<1>3. \/ /\ uplink.latency # <<>> /\ p = Head(uplink.latency)
         /\ uplink' = [uplink EXCEPT !.latency = Tail(@)]
      \/ /\ uplink.queue # <<>> /\ p = Head(uplink.queue)
         /\ uplink' = [uplink EXCEPT !.queue = Tail(@)]
  BY DEF ReaderTake
<1>4. /\ ~search[Reader].on /\ spare = <<>>
      /\ lag' = [lag EXCEPT ![c] = IF s.workers # registry THEN @ + 1 ELSE 0]
      /\ UNCHANGED <<chan, registry, sent, injected>>
  BY SMTT(30) DEF ReaderTake
<1>5. \/ s.count = 0 /\ sched' = s /\ UNCHANGED <<search, spare, tracker>>
      \/ /\ s.count # 0 /\ sched' = Advanced(s, c)
         /\ search' = [search EXCEPT ![Reader] =
                           StartSearch(p, s.workers, s.current[c], TRUE)]
         /\ \/ spare' = <<>>
            \/ /\ WantsSpare(p.kind) /\ s.count > 1
               /\ spare' = <<[pkt |-> p, slot |-> (s.current[c] + s.count \div 2) % s.count]>>
         /\ tracker' \in {tracker, TrackerAfter(p.kind)}
  BY DEF ReaderTake
<1>6. s \in Works
  BY <1>2 DEF Works
<1> HIDE DEF p, s
<1> QED BY <1>1, <1>2, <1>3, <1>4, <1>5, <1>6 DEF s

\* One turn of read_bridge keeps the invariant.
LEMMA TakeTyped ==
    ASSUME Typed, ReaderTake
    PROVE  Typed'
<1>1. PICK p \in Packet, c \in Class, s \in Works :
              /\ c = packet_class(p.kind) /\ s = Reloaded(c)
              /\ ~search[Reader].on /\ spare = <<>>
              /\ \/ /\ uplink.latency # <<>> /\ p = Head(uplink.latency)
                    /\ uplink' = [uplink EXCEPT !.latency = Tail(@)]
                 \/ /\ uplink.queue # <<>> /\ p = Head(uplink.queue)
                    /\ uplink' = [uplink EXCEPT !.queue = Tail(@)]
              /\ \/ s.count = 0 /\ sched' = s /\ UNCHANGED <<search, spare, tracker>>
                 \/ /\ s.count # 0 /\ sched' = Advanced(s, c)
                    /\ search' = [search EXCEPT ![Reader] =
                                      StartSearch(p, s.workers, s.current[c], TRUE)]
                    /\ \/ spare' = <<>>
                       \/ /\ WantsSpare(p.kind) /\ s.count > 1
                          /\ spare' = <<[pkt |-> p,
                                         slot |-> (s.current[c] + s.count \div 2) % s.count]>>
                    /\ tracker' \in {tracker, TrackerAfter(p.kind)}
              /\ lag' = [lag EXCEPT ![c] = IF s.workers # registry THEN @ + 1 ELSE 0]
              /\ UNCHANGED <<chan, registry, sent, injected>>
  BY TakeParts
<1>2. /\ s \in [workers : Seq(Inc), count : Nat, current : [Class -> Nat],
                remaining : [Class -> Nat]]
      /\ s.count = Len(s.workers)
      /\ \A d \in Class : IF s.count = 0 THEN s.remaining[d] = 0
                                         ELSE s.current[d] < s.count
      /\ \A d \in Class : lag[d] + s.remaining[d] < Chunk[d]
      /\ s.remaining[c] = 0 => s.workers = registry
  <2>1. s = Reloaded(c)
    BY <1>1
  <2> QED BY <2>1, KeptLoaded
<1>3. /\ lag \in [Class -> Nat] /\ SearchOK /\ TrackerOK /\ UplinkOK
      /\ lag' = [lag EXCEPT ![c] = IF s.workers # registry THEN @ + 1 ELSE 0]
      /\ Chunk[c] \in Nat \ {0} /\ p.kind \in Kind
  BY <1>1, PacketClass, ConstantsAssumption DEF Typed, LagOK
<1>4. lag' \in [Class -> Nat] /\ lag'[c] = (IF s.workers # registry THEN lag[c] + 1 ELSE 0)
      /\ \A d \in Class : d # c => lag'[d] = lag[d]
  BY <1>3
<1>5. UplinkOK'
  <2> DEFINE l == uplink.latency
             q == uplink.queue
             U == [latency : Seq(Packet), queue : Seq(Packet)]
  <2>1. /\ uplink \in U /\ l \in Seq(Packet) /\ q \in Seq(Packet)
        /\ Len(l) <= LatencyCap /\ Len(q) <= UplinkCap
        /\ LatencyCap \in Nat /\ UplinkCap \in Nat
    BY <1>3, ConstantsAssumption DEF UplinkOK
  <2>2. CASE uplink.latency # <<>> /\ uplink' = [uplink EXCEPT !.latency = Tail(@)]
    <3> DEFINE t == Tail(l)
    <3>1. t \in Seq(Packet) /\ Len(t) = Len(l) - 1 /\ Len(l) \in Nat
      BY <2>1, <2>2, TailOK
    <3>2. uplink' = [uplink EXCEPT !.latency = t]
      BY <2>2
    <3> HIDE DEF t
    <3>3. uplink' \in U /\ uplink'.latency = t /\ uplink'.queue = q
      BY <2>1, <3>1, <3>2
    <3> QED BY <2>1, <3>1, <3>3 DEF UplinkOK
  <2>3. CASE uplink.queue # <<>> /\ uplink' = [uplink EXCEPT !.queue = Tail(@)]
    <3> DEFINE t == Tail(q)
    <3>1. t \in Seq(Packet) /\ Len(t) = Len(q) - 1 /\ Len(q) \in Nat
      BY <2>1, <2>3, TailOK
    <3>2. uplink' = [uplink EXCEPT !.queue = t]
      BY <2>3
    <3> HIDE DEF t
    <3>3. uplink' \in U /\ uplink'.queue = t /\ uplink'.latency = l
      BY <2>1, <3>1, <3>2
    <3> QED BY <2>1, <3>1, <3>3 DEF UplinkOK
  <2> QED BY <1>1, <2>2, <2>3
<1>6. SchedOK' /\ LagOK' /\ SearchOK' /\ SpareOK' /\ TrackerOK'
  <2>1. CASE s.count = 0 /\ sched' = s /\ UNCHANGED <<search, spare, tracker>>
    <3>1. SchedOK'
      BY <1>2, <2>1 DEF SchedOK
    <3>2. SearchOK' /\ SpareOK' /\ TrackerOK'
      BY <1>1, <1>3, <2>1 DEF SearchOK, SpareOK, TrackerOK
    <3>3. lag'[c] = 0 /\ s.remaining[c] = 0
      BY <1>2, <1>4, <2>1
    <3>4. \A d \in Class : lag'[d] + s.remaining[d] < Chunk[d]
      BY <1>2, <1>3, <1>4, <3>3
    <3> QED BY <1>4, <2>1, <3>1, <3>2, <3>4 DEF LagOK
  <2>2. CASE /\ s.count # 0 /\ sched' = Advanced(s, c)
             /\ search' = [search EXCEPT ![Reader] =
                               StartSearch(p, s.workers, s.current[c], TRUE)]
             /\ \/ spare' = <<>>
                \/ /\ WantsSpare(p.kind) /\ s.count > 1
                   /\ spare' = <<[pkt |-> p, slot |-> (s.current[c] + s.count \div 2) % s.count]>>
             /\ tracker' \in {tracker, TrackerAfter(p.kind)}
    <3> DEFINE t == Advanced(s, c)
    <3>1. s.count > 0 /\ \A d \in Class : s.current[d] < s.count
      BY <1>2, <2>2
    <3>2. /\ t \in [workers : Seq(Inc), count : Nat, current : [Class -> Nat],
                    remaining : [Class -> Nat]]
          /\ t.workers = s.workers /\ t.count = s.count
          /\ \A d \in Class : t.current[d] < t.count
          /\ \A d \in Class : d # c => t.remaining[d] = s.remaining[d]
          /\ t.remaining[c] = (IF s.remaining[c] = 0 THEN Chunk[c] ELSE s.remaining[c]) - 1
      BY <1>2, <3>1, AdvancedOK
    <3> HIDE DEF t
    <3>3. sched' = t
      BY <2>2 DEF t
    <3>4. SchedOK'
      BY <1>2, <3>1, <3>2, <3>3 DEF SchedOK
    <3>5. LagOK'
      <4>1. lag'[c] + t.remaining[c] < Chunk[c]
        <5>1. lag[c] \in Nat /\ s.remaining[c] \in Nat /\ lag[c] + s.remaining[c] < Chunk[c]
          BY <1>2, <1>3
        <5>2. CASE s.remaining[c] = 0
          <6>1. lag'[c] = 0 /\ t.remaining[c] = Chunk[c] - 1
            BY <1>2, <1>4, <3>2, <5>2
          <6> QED BY <1>3, <6>1
        <5>3. CASE s.remaining[c] # 0
          <6>1. t.remaining[c] = s.remaining[c] - 1 /\ lag'[c] \in Nat /\ lag'[c] <= lag[c] + 1
            BY <1>4, <3>2, <5>1, <5>3
          <6> QED BY <1>3, <5>1, <5>3, <6>1
        <5> QED BY <5>2, <5>3
      <4>2. \A d \in Class : d # c => lag'[d] + t.remaining[d] < Chunk[d]
        BY <1>2, <1>4, <3>2
      <4> QED BY <1>4, <3>3, <4>1, <4>2 DEF LagOK
    <3>6. SearchOK'
      <4> DEFINE slot == s.current[c]
                 ws == s.workers
                 x == StartSearch(p, ws, slot, TRUE)
      <4>1. ws \in Seq(Inc) /\ slot \in Nat /\ slot < Len(ws) /\ TRUE \in BOOLEAN
        BY <1>2, <3>1
      <4>2. search' = [search EXCEPT ![Reader] = x]
        BY <2>2
      <4>3. x = StartSearch(p, ws, slot, TRUE)
        OBVIOUS
      <4> HIDE DEF ws, slot, x
      <4>4. x \in Searching /\ x.at = "look" /\ x.slot = slot /\ x.workers = ws /\ x.width > 0
        BY <4>1, <4>3, StartSearchOK, ZenonT(40)
      <4> QED BY <1>3, <4>1, <4>2, <4>4, IncFinite, SearchBecomes
    <3>7. SpareOK'
      <4>1. CASE spare' = <<>>
        BY <4>1 DEF SpareOK
      <4>2. CASE spare' = <<[pkt |-> p, slot |-> (s.current[c] + s.count \div 2) % s.count]>>
        <5> DEFINE k == (s.current[c] + s.count \div 2) % s.count
        <5>1. k \in Nat /\ k < s.count
          <6>1. s.current[c] + s.count \div 2 \in Nat /\ s.count \in Nat
            BY <1>2, <3>1
          <6> QED BY <3>1, <6>1
        <5> HIDE DEF k
        <5>2. [pkt |-> p, slot |-> k] \in Ticket
          BY <5>1 DEF Ticket
        <5>3. sched'.workers = s.workers /\ Len(s.workers) = s.count
          BY <1>2, <3>2, <3>3
        <5>4. spare' = <<[pkt |-> p, slot |-> k]>>
          BY <4>2 DEF k
        <5> QED BY <5>1, <5>2, <5>3, <5>4 DEF SpareOK
      <4> QED BY <2>2, <4>1, <4>2
    <3>8. TrackerOK'
      <4>1. TrackerOK /\ tracker' \in {tracker, TrackerAfter(p.kind)}
        BY <1>3, <2>2
      <4>2. CASE tracker' = tracker
        BY <4>1, <4>2 DEF TrackerOK
      <4>3. CASE tracker' = TrackerAfter(p.kind)
        BY <1>3, <4>3, TrackerStep DEF TrackerOK
      <4> QED BY <4>1, <4>2, <4>3
    <3> QED BY <3>4, <3>5, <3>6, <3>7, <3>8
  <2> QED BY <1>1, <2>1, <2>2
<1>7. SessionsOK' /\ FlagsOK'
  BY <1>1 DEF Typed, SessionsOK, FlagsOK
<1>8. RegistryOK'
  <2>1. RegistryOK /\ registry' = registry /\ chan' = chan
    BY <1>1 DEF Typed
  <2>2. \A j \in Inc : chan'[j].id = chan[j].id /\ (Ended(j)' <=> Ended(j))
    BY <2>1 DEF Ended
  <2> QED BY <2>1, <2>2, RegistryStays
<1>9. CountsOK'
  BY <1>1 DEF Typed, CountsOK
<1> QED BY <1>5, <1>6, <1>7, <1>8, <1>9 DEF Typed

\* A step that changes nothing, and the initial state.
LEMMA IdleTyped ==
    ASSUME Typed, UNCHANGED vars
    PROVE  Typed'
<1>1. UNCHANGED <<chan, registry, sched, uplink, spare, tracker, sent, injected, lag>>
      /\ search' = search
  BY DEF vars
<1>2. SearchOK'
  BY <1>1 DEF Typed, SearchOK
<1> QED BY <1>1, <1>2, OnlySearch

\* The initial state satisfies the invariant.
LEMMA InitTyped ==
    ASSUME Init
    PROVE  Typed
<1> DEFINE x == CHOOSE id \in Id : TRUE
           fresh == NewChannels(x)
           none == [fresh EXCEPT !.healthy = FALSE, !.open = FALSE, !.stage = "none"]
<1>1. x \in Id
  BY WorkerIds
<1> HIDE DEF x
<1>2. fresh \in Session /\ \A c \in Class : fresh.q[c] = <<>>
  BY <1>1, NewChannelsOK
<1>3. chan = [i \in Inc |-> none]
  BY Zenon DEF Init, InitialChannels, x
<1> HIDE DEF fresh
<1>4. /\ none \in Session /\ none.q = fresh.q /\ none.stage = "none"
      /\ none.open = FALSE /\ none.healthy = FALSE
  BY <1>2 DEF Session, Stage
<1> HIDE DEF none
<1>5. \A i \in Inc : chan[i] = none
  BY <1>3
<1>6. SessionsOK
  <2>1. chan \in [Inc -> Session]
    BY <1>3, <1>4
  <2>2. \A c \in Class : Len(none.q[c]) <= Cap[c]
    BY <1>2, <1>4, ConstantsAssumption
  <2> QED BY <1>5, <2>1, <2>2 DEF SessionsOK
<1>7. FlagsOK
  BY <1>4, <1>5 DEF FlagsOK
<1>8. RegistryOK
  <2>1. registry = <<>>
    BY DEF Init
  <2>2. \A i \in Inc : Ended(i)
    BY <1>4, <1>5 DEF Ended
  <2>3. registry \in Seq(Inc) /\ DOMAIN registry = {}
    BY <2>1
  <2> QED BY <2>2, <2>3 DEF RegistryOK, RegistryExact, Range
<1>9. Zero \in [Class -> Nat] /\ \A c \in Class : Zero[c] = 0
  BY DEF Zero
<1>10. SchedOK /\ LagOK
  <2>1. sched = [workers |-> <<>>, count |-> 0, current |-> Zero, remaining |-> Zero]
        /\ lag = Zero
    BY DEF Init
  <2>2. \A c \in Class : Chunk[c] \in Nat \ {0}
    BY ConstantsAssumption
  <2> DEFINE z == Zero
  <2>3. sched = [workers |-> <<>>, count |-> 0, current |-> z, remaining |-> z] /\ lag = z
        /\ z \in [Class -> Nat] /\ \A c \in Class : z[c] = 0
    BY <1>9, <2>1
  <2> HIDE DEF z
  <2>4. SchedOK
    <3> DEFINE e == <<>>
    <3>1. e \in Seq(Inc) /\ Len(e) = 0 /\ sched.workers = e /\ sched.count = 0
          /\ sched.remaining = z
      BY <2>3
    <3>2. sched = [workers |-> e, count |-> 0, current |-> z, remaining |-> z]
      BY <2>3
    <3> HIDE DEF e
    <3>3. sched \in [workers : Seq(Inc), count : Nat, current : [Class -> Nat],
                     remaining : [Class -> Nat]]
      BY <2>3, <3>1, <3>2
    <3>4. \A c \in Class : sched.remaining[c] = 0
      BY <2>3, <3>1
    <3> QED BY <3>1, <3>3, <3>4 DEF SchedOK
  <2>5. LagOK
    <3>1. lag \in [Class -> Nat] /\ sched.remaining = z
      BY <2>3
    <3>2. \A c \in Class : lag[c] = 0 /\ sched.remaining[c] = 0
      BY <2>3, <3>1
    <3>3. \A c \in Class : lag[c] + sched.remaining[c] < Chunk[c]
      BY <2>2, <3>2
    <3> QED BY <3>1, <3>3 DEF LagOK
  <2> QED BY <2>4, <2>5
<1>11. UplinkOK
  BY ConstantsAssumption DEF Init, UplinkOK
<1>12. SearchOK
  BY DEF Init, SearchOK, Idle
<1>13. SpareOK
  BY DEF Init, SpareOK
<1>14. TrackerOK
  <2>1. tracker = <<>>
    BY DEF Init
  <2>2. DOMAIN tracker = {} /\ tracker \in [DOMAIN tracker -> Nat]
    BY <2>1
  <2> QED BY <2>2 DEF TrackerOK
<1>15. CountsOK
  BY ConstantsAssumption DEF Init, CountsOK
<1> QED BY <1>6, <1>7, <1>8, <1>10, <1>11, <1>12, <1>13, <1>14, <1>15 DEF Typed

\* A step of enqueue_selected_worker.
LEMMA SearchTyped ==
    ASSUME Typed, NEW a \in Actor, SearchStep(a)
    PROVE  Typed'
BY LookTyped, PushTyped, ForceTyped DEF SearchStep

\* Every step of the dispatcher, its callers and its sessions keeps the
\* invariant.
LEMMA TypedStep ==
    ASSUME Typed, [Next]_vars
    PROVE  Typed'
<1>1. CASE \E id \in Id : StartSession(id)
  BY <1>1, StartTyped
<1>2. CASE \E k \in Kind : Inject(k)
  BY <1>2, InjectTyped
<1>3. CASE ReaderStep
  BY <1>3, TakeTyped, SpareTyped, SearchTyped, IncFinite DEF ReaderStep
<1>4. ASSUME NEW i \in Inc, WriterSends(i) \/ WriterFails(i) \/ MarkUnhealthy(i) \/ Teardown(i)
      PROVE  Typed'
  <2>1. i \in Actor
    BY IncFinite
  <2>2. CASE Teardown(i)
    BY <2>1, <2>2, StopTyped, RedispatchTyped, SearchTyped, UnregisterTyped DEF Teardown
  <2> QED BY <1>4, <2>2, WriterTyped, MarkTyped
<1>5. CASE UNCHANGED vars
  BY <1>5, IdleTyped
<1> QED BY <1>1, <1>2, <1>3, <1>4, <1>5 DEF Next

\* The invariant says what ScheduleConsistent asks for.
LEMMA TypedSuffices ==
    ASSUME Typed
    PROVE  ScheduleConsistent
<1>1. SessionsOK /\ RegistryOK /\ SchedOK /\ LagOK /\ UplinkOK /\ SearchOK /\ TrackerOK
      /\ CountsOK
  BY DEF Typed
<1>2. \A s \in Seq(Packet) : Range(s) \subseteq Packet
  BY DEF Range
<1>3. \A s \in Seq(Inc) : Range(s) \subseteq Inc
  BY DEF Range
<1>4. TypeOK
  <2>1. ASSUME NEW i \in Inc
        PROVE  /\ chan[i].id \in Id
               /\ chan[i].healthy \in BOOLEAN /\ chan[i].open \in BOOLEAN
               /\ \A c \in Class : /\ Range(chan[i].q[c]) \subseteq Packet
                                   /\ Queued(i, c) <= Cap[c]
               /\ Range(chan[i].drained) \subseteq Packet
               /\ chan[i].stage \in {"none", "live", "ending", "handing", "gone"}
    <3> DEFINE s == chan[i]
    <3>1. s \in Session
      BY <1>1 DEF SessionsOK
    <3>2. \A c \in Class : Queued(i, c) <= Cap[c]
      BY <1>1 DEF SessionsOK, Queued
    <3> HIDE DEF s
    <3>3. s.id \in Id /\ s.healthy \in BOOLEAN /\ s.open \in BOOLEAN
          /\ s.q \in [Class -> Seq(Packet)] /\ s.drained \in Seq(Packet)
          /\ s.stage \in {"none", "live", "ending", "handing", "gone"}
      BY <3>1 DEF Session, Stage
    <3>4. \A c \in Class : Range(s.q[c]) \subseteq Packet
      BY <1>2, <3>3
    <3> QED BY <1>2, <3>2, <3>3, <3>4 DEF s
  <2>2. Range(registry) \cup Range(sched.workers) \subseteq Inc
    BY <1>1, <1>3 DEF RegistryOK, SchedOK
  <2> QED BY <1>1, <2>1, <2>2 DEF TypeOK, UplinkOK, TrackerOK, CountsOK
<1>5. CursorInRange
  BY <1>1 DEF SchedOK, SearchOK, CursorInRange
<1>6. RegistryExact
  BY <1>1 DEF RegistryOK
<1>7. StaleWithinStripe
  <2>1. ASSUME NEW c \in Class PROVE lag[c] < Chunk[c]
    <3>1. lag[c] \in Nat /\ sched.remaining[c] \in Nat /\ Chunk[c] \in Nat
          /\ lag[c] + sched.remaining[c] < Chunk[c]
      BY <1>1, ConstantsAssumption DEF LagOK, SchedOK
    <3> QED BY <3>1
  <2> QED BY <2>1 DEF StaleWithinStripe
<1> QED BY <1>4, <1>5, <1>6, <1>7, SpreadsHere DEF ScheduleConsistent

\* The invariant holds in every behaviour.
LEMMA TypedHolds == Spec => []Typed
<1>1. Init => Typed
  BY InitTyped
<1>2. Typed /\ [Next]_vars => Typed'
  BY TypedStep
<1> QED BY <1>1, <1>2, PTL DEF Spec

\* For every set of workers, paths, capacities and stripe lengths, the
\* dispatcher works on a legal view of the workers: register and unregister
\* keep the published vector exact, FastPathScheduler never points past the
\* end of its snapshot and never keeps an outdated one longer than a stripe.
THEOREM ScheduleConsistentHolds == Spec => []ScheduleConsistent
<1>1. Typed => ScheduleConsistent
  BY TypedSuffices
<1> QED BY <1>1, TypedHolds, PTL

-----------------------------------------------------------------------------
(* Dispatch: what a dead session's queues can still receive.               *)

Closed(i) == chan[i].stage \in {"handing", "gone"}

\* The actors that may still push a packet to session i, and the packets its
\* queues hold.
Racing(i) == {a \in Actor : Aiming(a, i)}

Stranded(i) == Queued(i, "small") + Queued(i, "medium") + Queued(i, "bulk")

\* A race that is still open counts as a packet left behind.
StrandInv == \A i \in Inc : Closed(i) => Stranded(i) + Cardinality(Racing(i)) <= chan[i].racers

\* The counts of StrandInv are numbers.
LEMMA StrandTypes ==
    ASSUME Typed, NEW i \in Inc
    PROVE  /\ \A c \in Class : Queued(i, c) \in Nat
           /\ Stranded(i) \in Nat /\ chan[i].racers \in Nat
           /\ IsFiniteSet(Racing(i)) /\ Cardinality(Racing(i)) \in Nat
<1>1. chan[i] \in Session
  BY DEF Typed, SessionsOK
<1>2. \A c \in Class : Queued(i, c) \in Nat
  BY <1>1 DEF Session, Queued
<1>3. Stranded(i) \in Nat
  BY <1>2 DEF Stranded, Class
<1>4. IsFiniteSet(Racing(i))
  <2>1. Racing(i) \in SUBSET Actor
    BY DEF Racing
  <2> QED BY <2>1, IncFinite, FS_Subset
<1> QED BY <1>1, <1>2, <1>3, <1>4, FS_CardinalityType DEF Session

\* A step that neither fills the queues of a closed session nor aims at one.
LEMMA Quiet ==
    ASSUME Typed, StrandInv,
           \A i \in Inc : Closed(i)' => /\ Closed(i) /\ chan'[i].q = chan[i].q
                                        /\ chan'[i].racers = chan[i].racers,
           \A i \in Inc, a \in Actor : Closed(i)' /\ Aiming(a, i)' => Aiming(a, i)
    PROVE  StrandInv'
<1>1. ASSUME NEW i \in Inc, Closed(i)'
      PROVE  Stranded(i)' + Cardinality(Racing(i)') <= chan'[i].racers
  <2>1. Closed(i) /\ Stranded(i)' = Stranded(i) /\ chan'[i].racers = chan[i].racers
    BY <1>1 DEF Stranded, Queued
  <2>2. Racing(i)' \in SUBSET Racing(i)
    BY <1>1 DEF Racing
  <2>3. IsFiniteSet(Racing(i)) /\ Stranded(i) \in Nat /\ chan[i].racers \in Nat
        /\ Cardinality(Racing(i)) \in Nat
    BY StrandTypes
  <2>4. Cardinality(Racing(i)') <= Cardinality(Racing(i)) /\ Cardinality(Racing(i)') \in Nat
    BY <2>2, <2>3, FS_Subset, FS_CardinalityType
  <2>5. Stranded(i) + Cardinality(Racing(i)) <= chan[i].racers
    BY <2>1 DEF StrandInv
  <2> QED BY <2>1, <2>3, <2>4, <2>5
<1> QED BY <1>1 DEF StrandInv

\* A search that does not aim anywhere.
LEMMA AimsNowhere ==
    ASSUME Typed, NEW a \in Actor, NEW x, search' = [search EXCEPT ![a] = x],
           ~x.on \/ x.at \notin {"push", "force"}
    PROVE  \A i \in Inc, b \in Actor : Aiming(b, i)' => Aiming(b, i)
<1>1. \A b \in Actor : search'[b] = IF b = a THEN x ELSE search[b]
  BY DEF Typed, SearchOK
<1> QED BY <1>1 DEF Aiming

\* A packet that reaches queue c of session i ends the race of its actor.
LEMMA RaceEnds ==
    ASSUME Typed, StrandInv, NEW a \in Actor, NEW i \in Inc, Aiming(a, i), NEW c \in Class,
           NEW s \in Seq(Packet), Len(s) <= Queued(i, c) + 1,
           chan' = [chan EXCEPT ![i].q[c] = s], search' = [search EXCEPT ![a] = Idle]
    PROVE  StrandInv'
<1> DEFINE q == [chan[i].q EXCEPT ![c] = s]
<1>1. chan \in [Inc -> Session] /\ search \in [Actor -> {Idle} \cup Searching]
      /\ chan[i] \in Session
  BY DEF Typed, SessionsOK, SearchOK
<1>2. \A b \in Actor : search'[b] = IF b = a THEN Idle ELSE search[b]
  BY <1>1
<1>3. \A j \in Inc, b \in Actor : Aiming(b, j)' <=> Aiming(b, j) /\ b # a
  BY <1>2 DEF Aiming, Idle
<1>4. /\ chan'[i] = [chan[i] EXCEPT !.q = q]
      /\ \A j \in Inc : j # i => chan'[j] = chan[j]
  BY <1>1
<1>5. chan'[i].stage = chan[i].stage /\ chan'[i].racers = chan[i].racers
      /\ \A d \in Class : Queued(i, d)' = IF d = c THEN Len(s) ELSE Queued(i, d)
  BY <1>1, <1>4 DEF Session, Queued
<1>6. ASSUME NEW j \in Inc, Closed(j)'
      PROVE  Stranded(j)' + Cardinality(Racing(j)') <= chan'[j].racers
  <2>0. Closed(j) /\ chan'[j].racers = chan[j].racers
    BY <1>4, <1>5, <1>6 DEF Closed
  <2>1. Racing(j)' = Racing(j) \ {a}
    BY <1>3 DEF Racing
  <2>2. /\ \A d \in Class : Queued(j, d) \in Nat
        /\ IsFiniteSet(Racing(j)) /\ Cardinality(Racing(j)) \in Nat
        /\ Stranded(j) \in Nat /\ chan[j].racers \in Nat
    BY StrandTypes
  <2>3. Stranded(j) + Cardinality(Racing(j)) <= chan[j].racers
    BY <2>0 DEF StrandInv
  <2>4. CASE j # i
    <3>1. Racing(j)' \in SUBSET Racing(j)
      BY <2>1
    <3>2. Cardinality(Racing(j)') <= Cardinality(Racing(j)) /\ Cardinality(Racing(j)') \in Nat
      BY <2>2, <3>1, FS_Subset, FS_CardinalityType
    <3>3. Stranded(j)' = Stranded(j)
      BY <1>4, <2>4 DEF Stranded, Queued
    <3> QED BY <2>0, <2>2, <2>3, <3>2, <3>3
  <2>5. CASE j = i
    <3>1. a \in Racing(j)
      BY <2>5 DEF Racing
    <3>2. Cardinality(Racing(j)') = Cardinality(Racing(j)) - 1
      BY <2>1, <2>2, <3>1, FS_RemoveElement
    <3>3. Stranded(j)' <= Stranded(j) + 1 /\ Stranded(j)' \in Nat
      <4>1. Len(s) \in Nat
        OBVIOUS
      <4>2. c \in {"small", "medium", "bulk"}
        BY DEF Class
      <4>3. /\ Queued(i, "small") \in Nat /\ Queued(i, "medium") \in Nat /\ Queued(i, "bulk") \in Nat
            /\ Queued(i, "small")' = (IF c = "small" THEN Len(s) ELSE Queued(i, "small"))
            /\ Queued(i, "medium")' = (IF c = "medium" THEN Len(s) ELSE Queued(i, "medium"))
            /\ Queued(i, "bulk")' = (IF c = "bulk" THEN Len(s) ELSE Queued(i, "bulk"))
        BY <1>5, <2>2, <2>5 DEF Class
      <4> QED BY <2>5, <4>1, <4>2, <4>3 DEF Stranded
    <3> QED BY <2>0, <2>2, <2>3, <3>2, <3>3
  <2> QED BY <2>4, <2>5
<1> QED BY <1>6 DEF StrandInv

\* Session i becomes x; the closed sessions stay what they were.
LEMMA ClosedStay ==
    ASSUME Typed, NEW i \in Inc, NEW x, chan' = [chan EXCEPT ![i] = x],
           x.stage \in {"handing", "gone"} => /\ Closed(i) /\ x.q = chan[i].q
                                              /\ x.racers = chan[i].racers
    PROVE  \A j \in Inc : Closed(j)' => /\ Closed(j) /\ chan'[j].q = chan[j].q
                                        /\ chan'[j].racers = chan[j].racers
<1>1. chan'[i] = x /\ \A j \in Inc : j # i => chan'[j] = chan[j]
  BY DEF Typed, SessionsOK
<1> QED BY <1>1 DEF Closed

\* The steps of a session that do not touch the searches.
LEMMA SessionStrand ==
    ASSUME Typed, StrandInv, NEW i \in Inc,
           WriterSends(i) \/ WriterFails(i) \/ MarkUnhealthy(i) \/ Unregister(i)
    PROVE  StrandInv'
<1>1. search' = search /\ \A j \in Inc, a \in Actor : Aiming(a, j)' => Aiming(a, j)
  BY DEF WriterSends, WriterFails, MarkUnhealthy, Unregister, Aiming
<1>2. chan[i] \in Session
  BY DEF Typed, SessionsOK
<1>3. \E x : /\ chan' = [chan EXCEPT ![i] = x]
             /\ x.stage \in {"handing", "gone"} => /\ Closed(i) /\ x.q = chan[i].q
                                                   /\ x.racers = chan[i].racers
  <2>1. CASE WriterSends(i)
    <3> DEFINE q == QueuesAfterBatch(i)
               x == [chan[i] EXCEPT !.q = q]
    <3>1. chan' = [chan EXCEPT ![i] = x] /\ chan[i].stage \in {"live", "ending"}
      BY <2>1 DEF WriterSends, WriterRuns
    <3> HIDE DEF q
    <3>2. x.stage = chan[i].stage
      BY <1>2 DEF Session
    <3> HIDE DEF x
    <3> QED BY <3>1, <3>2
  <2>2. CASE WriterFails(i)
    <3> DEFINE q == QueuesAfterBatch(i)
               x == [chan[i] EXCEPT !.q = q, !.open = FALSE]
    <3>1. chan' = [chan EXCEPT ![i] = x] /\ chan[i].stage \in {"live", "ending"}
      BY <2>2 DEF WriterFails, WriterRuns
    <3> HIDE DEF q
    <3>2. x.stage = chan[i].stage
      BY <1>2 DEF Session
    <3> HIDE DEF x
    <3> QED BY <3>1, <3>2
  <2>3. CASE MarkUnhealthy(i)
    <3> DEFINE x == [chan[i] EXCEPT !.healthy = FALSE, !.stage = "ending"]
    <3>1. chan' = [chan EXCEPT ![i] = x]
      BY <2>3 DEF MarkUnhealthy
    <3>2. x.stage = "ending"
      BY <1>2 DEF Session
    <3> HIDE DEF x
    <3> QED BY <3>1, <3>2
  <2>4. CASE Unregister(i)
    <3> DEFINE x == [chan[i] EXCEPT !.stage = "gone"]
    <3>1. chan' = [chan EXCEPT ![i] = x] /\ Closed(i)
      BY <2>4 DEF Unregister, Closed
    <3>2. x.q = chan[i].q /\ x.racers = chan[i].racers
      BY <1>2 DEF Session
    <3> HIDE DEF x
    <3> QED BY <3>1, <3>2
  <2> QED BY <2>1, <2>2, <2>3, <2>4
<1>4. \A j \in Inc : Closed(j)' => /\ Closed(j) /\ chan'[j].q = chan[j].q
                                   /\ chan'[j].racers = chan[j].racers
  BY <1>3, ClosedStay
<1> QED BY <1>1, <1>4, Quiet

\* stop_session_tasks counts the actors that are about to push.
LEMMA StopStrand ==
    ASSUME Typed, StrandInv, NEW i \in Inc, StopAndDrain(i)
    PROVE  StrandInv'
<1>1. chan \in [Inc -> Session] /\ search' = search
  BY DEF Typed, SessionsOK, StopAndDrain
<1>2. \A j \in Inc : Racing(j)' = Racing(j)
  BY <1>1 DEF Racing, Aiming
<1> DEFINE e == [c \in Class |-> <<>>]
<1>3. /\ chan'[i].racers = Cardinality(Racing(i)) /\ chan'[i].q = e
      /\ \A j \in Inc : j # i => chan'[j] = chan[j]
  <2>1. PICK q : chan' = [chan EXCEPT ![i].open = FALSE, ![i].stage = "handing",
                               ![i].drained = q["small"] \o q["medium"] \o q["bulk"],
                               ![i].q = [c \in Class |-> <<>>],
                               ![i].racers = Cardinality({a \in Actor : Aiming(a, i)})]
    BY Zenon DEF StopAndDrain
  <2> DEFINE d == q["small"] \o q["medium"] \o q["bulk"]
             r == Cardinality({a \in Actor : Aiming(a, i)})
             x == [chan[i] EXCEPT !.open = FALSE, !.stage = "handing", !.drained = d, !.q = e,
                                  !.racers = r]
  <2>2. chan' = [chan EXCEPT ![i] = x]
    BY <2>1
  <2>3. r = Cardinality(Racing(i))
    BY DEF Racing
  <2> HIDE DEF d, r, e
  <2>4. chan[i] \in Session
    BY <1>1
  <2>5. x.racers = r /\ x.q = e
    BY <2>4 DEF Session
  <2> HIDE DEF x
  <2>6. chan'[i] = x /\ \A j \in Inc : j # i => chan'[j] = chan[j]
    BY <1>1, <2>2
  <2> QED BY <2>3, <2>5, <2>6, SMTT(30) DEF e
<1>4. ASSUME NEW j \in Inc, Closed(j)'
      PROVE  Stranded(j)' + Cardinality(Racing(j)') <= chan'[j].racers
  <2>1. CASE j = i
    <3>1. Stranded(j)' = 0
      <4>1. chan'[j].q = e /\ Len(<<>>) = 0
        BY <1>3, <2>1
      <4>2. e["small"] = <<>> /\ e["medium"] = <<>> /\ e["bulk"] = <<>>
        BY DEF Class
      <4> HIDE DEF e
      <4> QED BY <4>1, <4>2 DEF Stranded, Queued
    <3>2. Cardinality(Racing(i)) \in Nat
      BY StrandTypes
    <3> QED BY <1>2, <1>3, <2>1, <3>1, <3>2
  <2>2. CASE j # i
    <3>1. Closed(j) /\ Stranded(j)' = Stranded(j) /\ chan'[j].racers = chan[j].racers
      BY <1>3, <1>4, <2>2 DEF Closed, Stranded, Queued
    <3> QED BY <1>2, <3>1 DEF StrandInv
  <2> QED BY <2>1, <2>2
<1> QED BY <1>4 DEF StrandInv

\* A session that starts is not closed.
LEMMA StartStrand ==
    ASSUME Typed, StrandInv, NEW id \in Id, StartSession(id)
    PROVE  StrandInv'
<1>1. \A j \in Inc, a \in Actor : Aiming(a, j)' => Aiming(a, j)
  BY DEF StartSession, Aiming
<1> DEFINE x == NewChannels(id)
<1>2. PICK i : chan' = [chan EXCEPT ![i] = x]
  BY DEF StartSession
<1>3. x.stage = "live"
  BY NewChannelsOK
<1> HIDE DEF x
<1>4. \A j \in Inc : chan'[j] = IF j = i THEN x ELSE chan[j]
  BY <1>2 DEF Typed, SessionsOK
<1>5. \A j \in Inc : Closed(j)' => /\ Closed(j) /\ chan'[j].q = chan[j].q
                                   /\ chan'[j].racers = chan[j].racers
  BY <1>3, <1>4 DEF Closed
<1> QED BY <1>1, <1>5, Quiet

\* The steps of the searches aim only at open sessions.
LEMMA LookStrand ==
    ASSUME Typed, StrandInv, NEW a \in Actor, Look(a) \/ ScanVictim(a) \/ ChooseVictim(a)
    PROVE  StrandInv'
<1>1. chan' = chan /\ search \in [Actor -> {Idle} \cup Searching]
  BY LookCases, Zenon DEF Typed, SearchOK
<1>3. \A j \in Inc : chan[j].open => ~Closed(j)
  BY DEF Typed, FlagsOK, Closed
<1>4. \E x : /\ search' = [search EXCEPT ![a] = x]
             /\ ~x.on \/ x.at \notin {"push", "force"} \/ chan[x.target].open
  BY LookCases, Zenon DEF Onto
<1>5. PICK x : /\ search' = [search EXCEPT ![a] = x]
               /\ ~x.on \/ x.at \notin {"push", "force"} \/ chan[x.target].open
  BY <1>4
<1>6. \A b \in Actor : search'[b] = IF b = a THEN x ELSE search[b]
  BY <1>1, <1>5
<1>7. \A j \in Inc, b \in Actor : Closed(j)' /\ Aiming(b, j)' => Aiming(b, j)
  BY <1>1, <1>3, <1>5, <1>6 DEF Aiming, Closed
<1>8. \A j \in Inc : Closed(j)' => /\ Closed(j) /\ chan'[j].q = chan[j].q
                                   /\ chan'[j].racers = chan[j].racers
  BY <1>1 DEF Closed
<1> QED BY <1>7, <1>8, Quiet, SMTT(30)

\* A search that starts or restarts looks before it pushes.
LEMMA BeginStrand ==
    ASSUME Typed, StrandInv, ReaderTake \/ SpareSearch
    PROVE  StrandInv'
<1>1. chan' = chan /\ Reader \in Actor
  BY IncFinite DEF ReaderTake, SpareSearch
<1>2. \A j \in Inc, b \in Actor : Aiming(b, j)' => Aiming(b, j)
  <2>1. CASE search' = search
    BY <2>1 DEF Aiming
  <2>2. CASE \E x : search' = [search EXCEPT ![Reader] = x] /\ x.at = "look"
    <3>1. PICK x : search' = [search EXCEPT ![Reader] = x] /\ x.at = "look"
      BY <2>2
    <3> QED BY <1>1, <3>1, AimsNowhere
  <2>3. CASE ReaderTake
    <3>1. search' = search
             \/ \E p, ws, slot : search' = [search EXCEPT ![Reader] =
                                                StartSearch(p, ws, slot, TRUE)]
      BY <2>3, TakeParts
    <3>2. ASSUME NEW p, NEW ws, NEW slot,
                 search' = [search EXCEPT ![Reader] = StartSearch(p, ws, slot, TRUE)]
          PROVE  \E x : search' = [search EXCEPT ![Reader] = x] /\ x.at = "look"
      <4> DEFINE x == StartSearch(p, ws, slot, TRUE)
      <4>1. search' = [search EXCEPT ![Reader] = x] /\ x.at = "look"
        BY <3>2 DEF StartSearch
      <4> HIDE DEF x
      <4> QED BY <4>1
    <3> QED BY <2>1, <2>2, <3>1, <3>2
  <2>4. CASE SpareSearch
    <3> DEFINE x == StartSearch(spare[1].pkt, sched.workers, spare[1].slot, FALSE)
    <3>1. search' = [search EXCEPT ![Reader] = x] /\ x.at = "look"
      BY <2>4 DEF SpareSearch, StartSearch
    <3> HIDE DEF x
    <3> QED BY <2>2, <3>1
  <2> QED BY <2>3, <2>4
<1>3. \A j \in Inc : Closed(j)' => /\ Closed(j) /\ chan'[j].q = chan[j].q
                                   /\ chan'[j].racers = chan[j].racers
  BY <1>1 DEF Closed
<1> QED BY <1>2, <1>3, Quiet

\* redispatch aims nowhere yet.
LEMMA RedispatchStrand ==
    ASSUME Typed, StrandInv, NEW i \in Inc, Redispatch(i)
    PROVE  StrandInv'
<1> DEFINE t == Tail(chan[i].drained)
           x == [chan[i] EXCEPT !.drained = t]
           y == StartSearch(Head(chan[i].drained), registry, 0, TRUE)
<1>1. chan' = [chan EXCEPT ![i] = x] /\ search' = [search EXCEPT ![i] = y] /\ Closed(i)
  BY DEF Redispatch, Closed
<1>2. y.at = "look"
  BY DEF StartSearch
<1>3. chan[i] \in Session /\ i \in Actor
  BY IncFinite DEF Typed, SessionsOK
<1> HIDE DEF t, y
<1>4. x.q = chan[i].q /\ x.racers = chan[i].racers
  BY <1>3 DEF Session
<1> HIDE DEF x
<1>5. \A j \in Inc : Closed(j)' => /\ Closed(j) /\ chan'[j].q = chan[j].q
                                   /\ chan'[j].racers = chan[j].racers
  BY <1>1, <1>4, ClosedStay
<1>6. \A j \in Inc, b \in Actor : Aiming(b, j)' => Aiming(b, j)
  BY <1>1, <1>2, <1>3, AimsNowhere
<1> QED BY <1>5, <1>6, Quiet

\* A push: either the packet lands and the race is over, or the search goes on.
LEMMA PushStrand ==
    ASSUME Typed, StrandInv, NEW a \in Actor, Push(a) \/ ForcePush(a)
    PROVE  StrandInv'
<1> DEFINE s == search[a]
           i == s.target
           c == packet_class(s.pkt.kind)
           o == chan[i].q[c]
<1>1. s \in Searching /\ s.pkt \in Packet /\ i \in Inc /\ Aiming(a, i)
  BY SearchFacts, Zenon DEF Push, ForcePush, Aiming
<1>2. c \in Class
  BY <1>1, PacketClass
<1>3. o \in Seq(Packet) /\ Len(o) <= Cap[c] /\ Cap[c] \in Nat \ {0}
  BY <1>1, <1>2, ConstantsAssumption DEF Typed, SessionsOK, Session
<1>4. CASE ForcePush(a)
  <2> DEFINE f == IF Len(o) = Cap[c] THEN Tail(o) ELSE o
             q == Append(f, s.pkt)
  <2>1. chan' = [chan EXCEPT ![i].q[c] = q] /\ search' = [search EXCEPT ![a] = Idle]
    BY <1>4, Zenon DEF ForcePush
  <2>2. q \in Seq(Packet) /\ Len(q) <= Queued(i, c) + 1
    <3>1. f \in Seq(Packet) /\ Len(f) <= Len(o)
      <4>1. CASE Len(o) = Cap[c]
        <5>1. o # <<>>
          BY <1>3, <4>1
        <5> HIDE DEF o, c, s, i
        <5> QED BY <1>3, <4>1, <5>1, TailOK
      <4> HIDE DEF o, c, s, i
      <4>2. CASE Len(o) # Cap[c]
        BY <1>3, <4>2
      <4> QED BY <4>1, <4>2
    <3> HIDE DEF f, s
    <3>2. q \in Seq(Packet) /\ Len(q) = Len(f) + 1 /\ Len(f) \in Nat
      BY <1>1, <3>1, AppendOK, SMTT(30) DEF s
    <3>3. Len(o) \in Nat /\ Queued(i, c) = Len(o)
      BY <1>3, SMTT(30) DEF Queued
    <3> HIDE DEF o, c, i, q
    <3> QED BY <3>1, <3>2, <3>3
  <2> HIDE DEF q, c, i, s
  <2> QED BY <1>1, <1>2, <2>1, <2>2, RaceEnds, Zenon
<1>5. CASE Push(a) /\ Queued(i, c) < Cap[c]
  <2> DEFINE q == Append(o, s.pkt)
  <2>1. chan' = [chan EXCEPT ![i].q[c] = q] /\ search' = [search EXCEPT ![a] = Idle]
    BY <1>5 DEF Push
  <2>2. q \in Seq(Packet) /\ Len(q) <= Queued(i, c) + 1
    <3>1. Queued(i, c) = Len(o)
      BY DEF Queued
    <3> HIDE DEF o, s
    <3>2. q \in Seq(Packet) /\ Len(q) = Len(o) + 1 /\ Len(o) \in Nat
      BY <1>1, <1>3, AppendOK DEF s
    <3> HIDE DEF c, i, q
    <3> QED BY <3>1, <3>2
  <2> HIDE DEF q, c, i, s
  <2> QED BY <1>1, <1>2, <2>1, <2>2, RaceEnds, Zenon
<1>6. CASE Push(a) /\ ~(Queued(i, c) < Cap[c])
  <2> DEFINE x == Onward(s)
  <2>1. search' = [search EXCEPT ![a] = x] /\ chan' = chan
    BY <1>6 DEF Push
  <2>2. ~x.on \/ x.at \notin {"push", "force"}
    BY <1>1, OnwardOnto
  <2> HIDE DEF x
  <2>3. \A j \in Inc, b \in Actor : Aiming(b, j)' => Aiming(b, j)
    BY <2>1, <2>2, AimsNowhere
  <2>4. \A j \in Inc : Closed(j)' => /\ Closed(j) /\ chan'[j].q = chan[j].q
                                     /\ chan'[j].racers = chan[j].racers
    BY <2>1 DEF Closed
  <2> QED BY <2>3, <2>4, Quiet
<1> QED BY <1>4, <1>5, <1>6

\* Every step keeps the bound on what a closed session can receive.
LEMMA StrandStep ==
    ASSUME Typed, StrandInv, [Next]_vars
    PROVE  StrandInv'
<1>1. CASE \E id \in Id : StartSession(id)
  BY <1>1, StartStrand
<1>2. CASE (\E k \in Kind : Inject(k)) \/ UNCHANGED vars
  <2>1. chan' = chan /\ search' = search
    BY <1>2 DEF Inject, vars
  <2>2. \A j \in Inc, b \in Actor : Aiming(b, j)' => Aiming(b, j)
    BY <2>1 DEF Aiming
  <2>3. \A j \in Inc : Closed(j)' => /\ Closed(j) /\ chan'[j].q = chan[j].q
                                     /\ chan'[j].racers = chan[j].racers
    BY <2>1 DEF Closed
  <2> QED BY <2>2, <2>3, Quiet
<1>3. ASSUME NEW a \in Actor, SearchStep(a) PROVE StrandInv'
  BY <1>3, LookStrand, PushStrand DEF SearchStep
<1>4. CASE ReaderStep
  BY <1>3, <1>4, BeginStrand, IncFinite DEF ReaderStep
<1>5. ASSUME NEW i \in Inc, WriterSends(i) \/ WriterFails(i) \/ MarkUnhealthy(i) \/ Teardown(i)
      PROVE  StrandInv'
  <2>1. i \in Actor
    BY IncFinite
  <2>2. CASE Teardown(i)
    BY <1>3, <2>1, <2>2, StopStrand, RedispatchStrand, SessionStrand DEF Teardown
  <2> QED BY <1>5, <2>2, SessionStrand
<1> QED BY <1>1, <1>2, <1>4, <1>5 DEF Next

\* However many sessions die while packets are on their way to them, what a
\* dead session's queues still hold was pushed by the actors that had already
\* chosen it when stop_session_tasks drained them, one packet each.
THEOREM StrandedBoundedHolds == Spec => []StrandedBounded
<1>1. Init => StrandInv
  <2> SUFFICES ASSUME Init PROVE StrandInv
    OBVIOUS
  <2>1. \A i \in Inc : chan[i].stage = "none"
    BY NewChannelsOK, WorkerIds, Zenon DEF Init, InitialChannels, Session
  <2> QED BY <2>1 DEF StrandInv, Closed
<1>2. Typed /\ StrandInv /\ [Next]_vars => StrandInv'
  BY StrandStep
<1>3. Typed /\ StrandInv => StrandedBounded
  <2> SUFFICES ASSUME Typed, StrandInv, NEW i \in Inc, Closed(i)
               PROVE  Stranded(i) <= chan[i].racers
    BY DEF StrandedBounded, Closed, Stranded
  <2>1. Stranded(i) \in Nat /\ Cardinality(Racing(i)) \in Nat /\ chan[i].racers \in Nat
    BY StrandTypes
  <2>2. Stranded(i) + Cardinality(Racing(i)) <= chan[i].racers
    BY DEF StrandInv
  <2> QED BY <2>1, <2>2
<1> QED BY <1>1, <1>2, <1>3, TypedHolds, PTL DEF Spec

-----------------------------------------------------------------------------
(* Dispatch: the copies of a packet.                                       *)

\* Two sets whose elements correspond to each other are equally large.
LEMMA Relabelled ==
    ASSUME NEW S, NEW T, IsFiniteSet(S), NEW f \in [S -> T],
           \A x, y \in S : f[x] = f[y] => x = y,
           \A y \in T : \E x \in S : f[x] = y
    PROVE  IsFiniteSet(T) /\ Cardinality(T) = Cardinality(S)
<1>1. f \in Bijection(S, T)
  BY DEF Bijection, Injection, Surjection, IsInjective
<1> QED BY <1>1, FS_Bijection DEF ExistsBijection

\* The positions of packet n in a queue.
Places(s, n) == {m \in DOMAIN s : s[m].n = n}

One(b) == IF b THEN 1 ELSE 0

\* Occurrences is a number.
LEMMA PlacesFinite ==
    ASSUME NEW s \in Seq(Packet), NEW n
    PROVE  /\ IsFiniteSet(Places(s, n)) /\ Occurrences(s, n) = Cardinality(Places(s, n))
           /\ Occurrences(s, n) \in Nat
<1>1. IsFiniteSet(DOMAIN s)
  BY UpTo
<1>2. Places(s, n) \in SUBSET (DOMAIN s)
  BY DEF Places
<1> QED BY <1>1, <1>2, FS_Subset, FS_CardinalityType DEF Occurrences, Places

\* There is nothing in an empty queue.
LEMMA NoneInEmpty ==
    ASSUME NEW n
    PROVE  Occurrences(<<>>, n) = 0
<1>1. Places(<<>>, n) = {}
  BY DEF Places
<1> QED BY <1>1, FS_EmptySet DEF Occurrences, Places

\* A packet appended to a queue is one more occurrence of its number.
LEMMA InAppended ==
    ASSUME NEW s \in Seq(Packet), NEW p \in Packet, NEW n
    PROVE  Occurrences(Append(s, p), n) = Occurrences(s, n) + One(p.n = n)
<1> DEFINE t == Append(s, p)
           k == Len(s) + 1
<1>1. /\ t \in Seq(Packet) /\ DOMAIN t = DOMAIN s \cup {k} /\ t[k] = p /\ k \notin DOMAIN s
      /\ \A m \in DOMAIN s : t[m] = s[m]
  OBVIOUS
<1> HIDE DEF t, k
<1>2. IsFiniteSet(Places(s, n)) /\ Cardinality(Places(s, n)) \in Nat
      /\ Occurrences(s, n) = Cardinality(Places(s, n))
      /\ Occurrences(t, n) = Cardinality(Places(t, n))
  BY <1>1, PlacesFinite
<1>3. CASE p.n = n
  <2>1. Places(t, n) = Places(s, n) \cup {k} /\ k \notin Places(s, n)
    BY <1>1, <1>3 DEF Places
  <2> QED BY <1>2, <1>3, <2>1, FS_AddElement DEF One, t
<1>4. CASE p.n # n
  <2>1. Places(t, n) = Places(s, n)
    BY <1>1, <1>4 DEF Places
  <2> QED BY <1>2, <1>4, <2>1 DEF One, t
<1> QED BY <1>3, <1>4

\* The occurrences in two queues put together add up.
LEMMA InConcat ==
    ASSUME NEW s \in Seq(Packet), NEW t \in Seq(Packet), NEW n
    PROVE  Occurrences(s \o t, n) = Occurrences(s, n) + Occurrences(t, n)
<1> DEFINE u == s \o t
           k == Len(s)
           shifted == {k + m : m \in Places(t, n)}
<1>1. /\ u \in Seq(Packet) /\ k \in Nat /\ DOMAIN s = 1 .. k /\ DOMAIN t = 1 .. Len(t)
      /\ Len(t) \in Nat /\ DOMAIN u = 1 .. k + Len(t)
      /\ \A m \in 1 .. k : u[m] = s[m]
      /\ \A m \in 1 .. Len(t) : u[k + m] = t[m]
  OBVIOUS
<1> HIDE DEF u, k
<1>2. Places(t, n) \subseteq Nat /\ \A m \in Places(t, n) : m > 0
  BY <1>1 DEF Places
<1>3. IsFiniteSet(Places(t, n)) /\ IsFiniteSet(Places(s, n))
  BY PlacesFinite
<1>4. IsFiniteSet(shifted) /\ Cardinality(shifted) = Cardinality(Places(t, n))
  <2> DEFINE f == [m \in Places(t, n) |-> k + m]
  <2>1. f \in [Places(t, n) -> shifted]
    OBVIOUS
  <2>2. \A x, y \in Places(t, n) : f[x] = f[y] => x = y
    BY <1>1, <1>2
  <2>3. \A y \in shifted : \E x \in Places(t, n) : f[x] = y
    OBVIOUS
  <2> HIDE DEF f, shifted
  <2> QED BY <1>3, <2>1, <2>2, <2>3, Relabelled
<1>5. Places(u, n) = Places(s, n) \cup shifted
  <2>1. ASSUME NEW m \in Places(u, n) PROVE m \in Places(s, n) \cup shifted
    <3>1. m \in 1 .. k + Len(t) /\ u[m].n = n
      BY <1>1 DEF Places
    <3>2. CASE m <= k
      BY <1>1, <3>1, <3>2 DEF Places
    <3>3. CASE m > k
      <4>1. m - k \in 1 .. Len(t) /\ k + (m - k) = m
        BY <1>1, <3>1, <3>3
      <4>2. m - k \in Places(t, n)
        BY <1>1, <3>1, <4>1 DEF Places
      <4> QED BY <4>1, <4>2
    <3> QED BY <1>1, <3>1, <3>2, <3>3
  <2>2. ASSUME NEW m \in Places(s, n) PROVE m \in Places(u, n)
    BY <1>1 DEF Places
  <2>3. ASSUME NEW m \in Places(t, n) PROVE k + m \in Places(u, n)
    <3>1. m \in 1 .. Len(t) /\ t[m].n = n
      BY <1>1 DEF Places
    <3>2. k + m \in 1 .. k + Len(t)
      BY <1>1, <3>1
    <3> QED BY <1>1, <3>1, <3>2 DEF Places
  <2> QED BY <2>1, <2>2, <2>3
<1>6. Places(s, n) \cap shifted = {}
  BY <1>1, <1>2 DEF Places
<1> HIDE DEF shifted
<1>7. Cardinality(Places(u, n)) = Cardinality(Places(s, n)) + Cardinality(Places(t, n)) - 0
  BY <1>3, <1>4, <1>5, <1>6, FS_Union, FS_EmptySet
<1>8. Cardinality(Places(s, n)) \in Nat /\ Cardinality(Places(t, n)) \in Nat
  BY <1>3, FS_CardinalityType
<1>9. /\ Occurrences(u, n) = Cardinality(Places(u, n))
      /\ Occurrences(s, n) = Cardinality(Places(s, n))
      /\ Occurrences(t, n) = Cardinality(Places(t, n))
  BY <1>1, PlacesFinite
<1>10. Occurrences(u, n) = Occurrences(s, n) + Occurrences(t, n)
  BY <1>7, <1>8, <1>9
<1> QED BY <1>10 DEF u

\* What is left of a queue and what was taken from it.
LEMMA InTail ==
    ASSUME NEW s \in Seq(Packet), s # <<>>, NEW n
    PROVE  Occurrences(s, n) = Occurrences(Tail(s), n) + One(Head(s).n = n)
<1> DEFINE p == Head(s)
           t == Tail(s)
           h == Append(<<>>, p)
<1>1. p \in Packet /\ t \in Seq(Packet)
  BY TailOK
<1>2. h \in Seq(Packet) /\ h = SubSeq(s, 1, 1) /\ t = SubSeq(s, 2, Len(s))
  <2>1. Len(s) \in Nat /\ Len(s) >= 1 /\ p = s[1]
    BY TailOK
  <2>2. SubSeq(s, 1, 1) = <<s[1]>> \o SubSeq(s, 2, 1)
    BY <2>1, SubSeqRecursiveFirst
  <2>3. SubSeq(s, 2, 1) = <<>>
    BY SubSeqEmpty
  <2>4. <<p>> \in Seq(Packet) /\ h = <<p>>
    BY <1>1
  <2>5. <<p>> \o <<>> = <<p>>
    BY <2>4, ConcatEmptySeq
  <2> QED BY <2>1, <2>2, <2>3, <2>4, <2>5, TailIsSubSeq
<1>3. s = h \o t
  <2>1. Len(s) \in Nat /\ Len(s) >= 1
    BY TailOK
  <2>2. SubSeq(s, 1, 1) \o SubSeq(s, 1 + 1, Len(s)) = SubSeq(s, 1, Len(s))
    <3>1. 1 \in 1 .. Len(s) + 1 /\ 1 \in 1 - 1 .. Len(s) /\ Len(s) \in 1 .. Len(s)
      BY <2>1
    <3> QED BY <3>1, ConcatAdjacentSubSeq
  <2>3. SubSeq(s, 1, Len(s)) = s
    BY SubSeqFull
  <2> HIDE DEF h, t
  <2> QED BY <1>2, <2>2, <2>3
<1> HIDE DEF h, t, p
<1>4. Occurrences(h, n) = One(p.n = n)
  <2> DEFINE e == <<>>
  <2>1. e \in Seq(Packet)
    OBVIOUS
  <2>2. h = Append(e, p)
    BY DEF h
  <2>3. Occurrences(e, n) = 0
    BY NoneInEmpty
  <2> HIDE DEF e
  <2>4. Occurrences(h, n) = Occurrences(e, n) + One(p.n = n)
    BY <1>1, <2>1, <2>2, InAppended
  <2> QED BY <2>3, <2>4 DEF One
<1>5. Occurrences(h \o t, n) = Occurrences(h, n) + Occurrences(t, n)
  BY <1>1, <1>2, InConcat
<1>6. Occurrences(t, n) \in Nat /\ One(p.n = n) \in Nat
  BY <1>1, PlacesFinite DEF One
<1>7. Occurrences(s, n) = Occurrences(t, n) + One(p.n = n)
  BY <1>3, <1>4, <1>5, <1>6
<1> QED BY <1>7 DEF t, p

\* The occurrences in a batch and in the rest of its queue add up.
LEMMA InBatch ==
    ASSUME NEW s \in Seq(Packet), NEW k \in 0 .. Len(s), NEW n
    PROVE  /\ SubSeq(s, 1, k) \in Seq(Packet) /\ SubSeq(s, k + 1, Len(s)) \in Seq(Packet)
           /\ Occurrences(s, n) = Occurrences(SubSeq(s, 1, k), n)
                                      + Occurrences(SubSeq(s, k + 1, Len(s)), n)
<1> DEFINE a == SubSeq(s, 1, k)
           b == SubSeq(s, k + 1, Len(s))
<1>1. a \in Seq(Packet) /\ b \in Seq(Packet)
  <2>1. Len(s) \in Nat /\ \A m \in 1 .. Len(s) : s[m] \in Packet
    OBVIOUS
  <2>2. \A m \in 1 .. k : s[m] \in Packet
    BY <2>1
  <2>3. \A m \in k + 1 .. Len(s) : s[m] \in Packet
    BY <2>1
  <2> QED BY <2>1, <2>2, <2>3, SubSeqProperties
<1>2. s = a \o b
  <2>1. Len(s) \in Nat /\ 1 \in 1 .. Len(s) + 1 /\ k \in 1 - 1 .. Len(s) /\ Len(s) \in k .. Len(s)
    OBVIOUS
  <2>2. a \o b = SubSeq(s, 1, Len(s))
    BY <2>1, ConcatAdjacentSubSeq
  <2> QED BY <2>2, SubSeqFull
<1> HIDE DEF a, b
<1>3. Occurrences(a \o b, n) = Occurrences(a, n) + Occurrences(b, n)
  BY <1>1, InConcat
<1> QED BY <1>1, <1>2, <1>3 DEF a, b

\* The places of packet n in a family of queues.
Slots(Q, n) == UNION {{<<x, m>> : m \in Places(Q[x], n)} : x \in DOMAIN Q}

\* The elements of Slots.
LEMMA SlotIs ==
    ASSUME NEW Q, NEW n, NEW t
    PROVE  t \in Slots(Q, n) <=> \E x \in DOMAIN Q : \E m \in Places(Q[x], n) : t = <<x, m>>
BY DEF Slots

\* The places in one queue of a family.
SlotsAt(x, s, n) == {<<x, m>> : m \in Places(s, n)}

\* A queue has one slot for every occurrence.
LEMMA SlotsAtOne ==
    ASSUME NEW x, NEW s \in Seq(Packet), NEW n
    PROVE  IsFiniteSet(SlotsAt(x, s, n)) /\ Cardinality(SlotsAt(x, s, n)) = Occurrences(s, n)
<1> DEFINE P == Places(s, n)
           T == SlotsAt(x, s, n)
           f == [m \in P |-> <<x, m>>]
<1>1. IsFiniteSet(P) /\ Cardinality(P) = Occurrences(s, n)
  BY PlacesFinite
<1>2. f \in [P -> T] /\ \A y \in T : \E m \in P : f[m] = y
  BY DEF SlotsAt
<1>3. \A m, k \in P : f[m] = f[k] => m = k
  OBVIOUS
<1> HIDE DEF f, P, T
<1>4. IsFiniteSet(T) /\ Cardinality(T) = Cardinality(P)
  BY <1>1, <1>2, <1>3, Relabelled
<1> QED BY <1>1, <1>4 DEF T

\* One queue of a family replaced by another.
LEMMA SlotsChange ==
    ASSUME NEW D, NEW Q, DOMAIN Q = D, NEW x \in D, Q[x] \in Seq(Packet), NEW s \in Seq(Packet),
           NEW n, IsFiniteSet(Slots(Q, n)),
           NEW R, DOMAIN R = D, R[x] = s, \A y \in D : y # x => R[y] = Q[y]
    PROVE  /\ IsFiniteSet(Slots(R, n))
           /\ Cardinality(Slots(Q, n)) \in Nat /\ Cardinality(Slots(R, n)) \in Nat
           /\ Cardinality(Slots(R, n)) + Occurrences(Q[x], n)
                 = Cardinality(Slots(Q, n)) + Occurrences(s, n)
<1> DEFINE rest == {t \in Slots(Q, n) : t[1] # x}
           old == SlotsAt(x, Q[x], n)
           new == SlotsAt(x, s, n)
<1>1. /\ IsFiniteSet(old) /\ Cardinality(old) = Occurrences(Q[x], n)
      /\ IsFiniteSet(new) /\ Cardinality(new) = Occurrences(s, n)
  BY SlotsAtOne
<1>2. IsFiniteSet(rest)
  <2>1. rest \in SUBSET Slots(Q, n)
    OBVIOUS
  <2> HIDE DEF rest
  <2> QED BY <2>1, FS_Subset
<1>3. Slots(Q, n) = rest \cup old
  <2>1. ASSUME NEW t \in Slots(Q, n) PROVE t \in rest \cup old
    <3>1. PICK y \in DOMAIN Q : \E m \in Places(Q[y], n) : t = <<y, m>>
      BY SlotIs
    <3> QED BY <3>1 DEF SlotsAt
  <2>2. ASSUME NEW t \in old PROVE t \in Slots(Q, n)
    BY SlotIs DEF SlotsAt
  <2> QED BY <2>1, <2>2
<1>4. Slots(R, n) = rest \cup new
  <2>1. ASSUME NEW t \in Slots(R, n) PROVE t \in rest \cup new
    <3>1. PICK y \in DOMAIN R : \E m \in Places(R[y], n) : t = <<y, m>>
      BY SlotIs
    <3>2. CASE y = x
      BY <3>1, <3>2 DEF SlotsAt
    <3>3. CASE y # x
      <4>1. t \in Slots(Q, n)
        BY <3>1, <3>3, SlotIs
      <4> QED BY <3>1, <3>3, <4>1
    <3> QED BY <3>2, <3>3
  <2>2. ASSUME NEW t \in new PROVE t \in Slots(R, n)
    BY SlotIs DEF SlotsAt
  <2>3. ASSUME NEW t \in rest PROVE t \in Slots(R, n)
    <3>1. PICK y \in DOMAIN Q : \E m \in Places(Q[y], n) : t = <<y, m>>
      BY SlotIs
    <3>2. y # x
      BY <3>1
    <3> QED BY <3>1, <3>2, SlotIs
  <2> QED BY <2>1, <2>2, <2>3
<1>5. rest \cap old = {} /\ rest \cap new = {}
  BY DEF SlotsAt
<1> HIDE DEF rest, old, new
<1>6. /\ Cardinality(Slots(Q, n)) = Cardinality(rest) + Cardinality(old) - 0
      /\ IsFiniteSet(Slots(R, n))
      /\ Cardinality(Slots(R, n)) = Cardinality(rest) + Cardinality(new) - 0
  BY <1>1, <1>2, <1>3, <1>4, <1>5, FS_Union, FS_EmptySet
<1>7. /\ Cardinality(rest) \in Nat /\ Cardinality(old) \in Nat /\ Cardinality(new) \in Nat
  BY <1>1, <1>2, FS_CardinalityType
<1>8. Occurrences(Q[x], n) \in Nat /\ Occurrences(s, n) \in Nat
  BY PlacesFinite
<1> QED BY <1>1, <1>6, <1>7, <1>8

\* The queues of the sessions, and the packets stolen from them.
WorkerQueues == [x \in Inc \X Class |-> chan[x[1]].q[x[2]]]
Stolen == [i \in Inc |-> chan[i].drained]

SlotsFinite(n) == IsFiniteSet(Slots(WorkerQueues, n)) /\ IsFiniteSet(Slots(Stolen, n))
InChannels(n) == Cardinality(Slots(WorkerQueues, n)) + Cardinality(Slots(Stolen, n))

\* The copies of n in one session.
Waiting(q, n) ==
    Occurrences(q["small"], n) + Occurrences(q["medium"], n) + Occurrences(q["bulk"], n)
Inside(s, n) == Waiting(s.q, n) + Occurrences(s.drained, n)

\* The copies in a session are a number.
LEMMA InsideType ==
    ASSUME NEW s \in Session, NEW n
    PROVE  Inside(s, n) \in Nat /\ Waiting(s.q, n) \in Nat /\ Occurrences(s.drained, n) \in Nat
<1>1. /\ s.q["small"] \in Seq(Packet) /\ s.q["medium"] \in Seq(Packet)
      /\ s.q["bulk"] \in Seq(Packet) /\ s.drained \in Seq(Packet)
  BY DEF Session, Class
<1>2. /\ Occurrences(s.q["small"], n) \in Nat /\ Occurrences(s.q["medium"], n) \in Nat
      /\ Occurrences(s.q["bulk"], n) \in Nat /\ Occurrences(s.drained, n) \in Nat
  BY <1>1, PlacesFinite
<1> QED BY <1>2 DEF Inside, Waiting

\* The three queues of a session replaced by those of another.
LEMMA QueuesReplaced ==
    ASSUME SessionsOK, NEW n, SlotsFinite(n), NEW i \in Inc, NEW x \in Session,
           chan' = [chan EXCEPT ![i] = x]
    PROVE  /\ IsFiniteSet(Slots(WorkerQueues', n))
           /\ Cardinality(Slots(WorkerQueues, n)) \in Nat
           /\ Cardinality(Slots(WorkerQueues', n)) \in Nat
           /\ Cardinality(Slots(WorkerQueues', n)) + Waiting(chan[i].q, n)
                 = Cardinality(Slots(WorkerQueues, n)) + Waiting(x.q, n)
<1> DEFINE D == Inc \X Class
           a == <<i, "small">>
           b == <<i, "medium">>
           c == <<i, "bulk">>
           Q0 == WorkerQueues
           Q1 == [Q0 EXCEPT ![a] = x.q["small"]]
           Q2 == [Q1 EXCEPT ![b] = x.q["medium"]]
           Q3 == WorkerQueues'
<1>1. chan \in [Inc -> Session] /\ chan[i] \in Session
  BY DEF SessionsOK
<1>2. chan'[i] = x /\ \A j \in Inc : j # i => chan'[j] = chan[j]
  BY <1>1
<1>3. a \in D /\ b \in D /\ c \in D /\ a # b /\ b # c /\ a # c
  BY DEF Class
<1>4. /\ DOMAIN Q0 = D /\ DOMAIN Q3 = D
      /\ Q0[a] = chan[i].q["small"] /\ Q0[b] = chan[i].q["medium"] /\ Q0[c] = chan[i].q["bulk"]
      /\ Q3[a] = x.q["small"] /\ Q3[b] = x.q["medium"] /\ Q3[c] = x.q["bulk"]
  BY <1>2, <1>3 DEF WorkerQueues
<1>5. \A y \in D : y \notin {a, b, c} => Q3[y] = Q0[y]
  <2>1. ASSUME NEW y \in D, y \notin {a, b, c} PROVE y[1] \in Inc /\ y[1] # i
    BY <2>1 DEF Class
  <2> QED BY <1>2, <2>1 DEF WorkerQueues
<1>6. /\ \A d \in Class : x.q[d] \in Seq(Packet) /\ chan[i].q[d] \in Seq(Packet)
      /\ "small" \in Class /\ "medium" \in Class /\ "bulk" \in Class
  BY <1>1 DEF Session, Class
<1> HIDE DEF D, a, b, c, Q0, Q3
<1>7. /\ DOMAIN Q1 = D /\ Q1[a] = x.q["small"] /\ \A y \in D : y # a => Q1[y] = Q0[y]
  BY <1>3, <1>4
<1> HIDE DEF Q1
<1>8. /\ DOMAIN Q2 = D /\ Q2[b] = x.q["medium"] /\ \A y \in D : y # b => Q2[y] = Q1[y]
  BY <1>3, <1>7
<1> HIDE DEF Q2
<1>9. \A y \in D : y # c => Q3[y] = Q2[y]
  BY <1>3, <1>4, <1>5, <1>7, <1>8
<1>10. Q1[b] = chan[i].q["medium"] /\ Q2[c] = chan[i].q["bulk"]
  BY <1>3, <1>4, <1>7, <1>8
<1>11. /\ IsFiniteSet(Slots(Q1, n)) /\ Cardinality(Slots(Q0, n)) \in Nat
       /\ Cardinality(Slots(Q1, n)) \in Nat
       /\ Cardinality(Slots(Q1, n)) + Occurrences(chan[i].q["small"], n)
             = Cardinality(Slots(Q0, n)) + Occurrences(x.q["small"], n)
  <2>1. IsFiniteSet(Slots(Q0, n))
    BY DEF SlotsFinite, Q0
  <2>2. Q0[a] = chan[i].q["small"] /\ Q0[a] \in Seq(Packet) /\ x.q["small"] \in Seq(Packet)
    BY <1>4, <1>6
  <2> QED BY <1>3, <1>4, <1>7, <2>1, <2>2, SlotsChange
<1>12. /\ IsFiniteSet(Slots(Q2, n)) /\ Cardinality(Slots(Q2, n)) \in Nat
       /\ Cardinality(Slots(Q2, n)) + Occurrences(chan[i].q["medium"], n)
             = Cardinality(Slots(Q1, n)) + Occurrences(x.q["medium"], n)
  <2>1. Q1[b] = chan[i].q["medium"] /\ Q1[b] \in Seq(Packet) /\ x.q["medium"] \in Seq(Packet)
    BY <1>6, <1>10
  <2> QED BY <1>3, <1>7, <1>8, <1>11, <2>1, SlotsChange
<1>13. /\ IsFiniteSet(Slots(Q3, n)) /\ Cardinality(Slots(Q3, n)) \in Nat
       /\ Cardinality(Slots(Q3, n)) + Occurrences(chan[i].q["bulk"], n)
             = Cardinality(Slots(Q2, n)) + Occurrences(x.q["bulk"], n)
  <2>1. Q2[c] = chan[i].q["bulk"] /\ Q2[c] \in Seq(Packet) /\ x.q["bulk"] \in Seq(Packet)
        /\ Q3[c] = x.q["bulk"]
    BY <1>4, <1>6, <1>10
  <2> QED BY <1>3, <1>4, <1>8, <1>9, <1>12, <2>1, SlotsChange
<1>14. \A d \in Class : Occurrences(x.q[d], n) \in Nat /\ Occurrences(chan[i].q[d], n) \in Nat
  BY <1>6, PlacesFinite
<1>15. Cardinality(Slots(Q3, n)) + Waiting(chan[i].q, n)
             = Cardinality(Slots(Q0, n)) + Waiting(x.q, n)
  <2> DEFINE y == chan[i].q
             z == x.q
  <2>1. /\ Occurrences(y["small"], n) \in Nat /\ Occurrences(z["small"], n) \in Nat
        /\ Occurrences(y["medium"], n) \in Nat /\ Occurrences(z["medium"], n) \in Nat
        /\ Occurrences(y["bulk"], n) \in Nat /\ Occurrences(z["bulk"], n) \in Nat
    BY <1>6, <1>14
  <2>2. /\ Cardinality(Slots(Q1, n)) + Occurrences(y["small"], n)
             = Cardinality(Slots(Q0, n)) + Occurrences(z["small"], n)
        /\ Cardinality(Slots(Q2, n)) + Occurrences(y["medium"], n)
             = Cardinality(Slots(Q1, n)) + Occurrences(z["medium"], n)
        /\ Cardinality(Slots(Q3, n)) + Occurrences(y["bulk"], n)
             = Cardinality(Slots(Q2, n)) + Occurrences(z["bulk"], n)
    BY <1>11, <1>12, <1>13
  <2> HIDE DEF y, z
  <2>3. Cardinality(Slots(Q3, n)) + Waiting(y, n) = Cardinality(Slots(Q0, n)) + Waiting(z, n)
    BY <1>11, <1>12, <1>13, <2>1, <2>2 DEF Waiting
  <2> QED BY <2>3 DEF y, z
<1> QED BY <1>11, <1>13, <1>15 DEF Q0, Q3

\* Session i turned into x.
LEMMA SessionReplaced ==
    ASSUME SessionsOK, NEW n, SlotsFinite(n), NEW i \in Inc, NEW x \in Session,
           chan' = [chan EXCEPT ![i] = x]
    PROVE  /\ SlotsFinite(n)' /\ InChannels(n) \in Nat /\ InChannels(n)' \in Nat
           /\ Inside(chan[i], n) \in Nat /\ Inside(x, n) \in Nat
           /\ InChannels(n)' + Inside(chan[i], n) = InChannels(n) + Inside(x, n)
<1> DEFINE Q == Stolen
           R == Stolen'
           d == x.drained
<1>1. chan \in [Inc -> Session] /\ chan[i] \in Session
  BY DEF SessionsOK
<1>2. chan'[i] = x /\ \A j \in Inc : j # i => chan'[j] = chan[j]
  BY <1>1
<1>3. /\ DOMAIN Q = Inc /\ DOMAIN R = Inc /\ R[i] = d /\ Q[i] = chan[i].drained
      /\ \A j \in Inc : j # i => R[j] = Q[j]
  BY <1>2 DEF Stolen
<1>4. Q[i] \in Seq(Packet) /\ d \in Seq(Packet)
  BY <1>1, <1>3 DEF Session
<1>5. IsFiniteSet(Slots(Q, n))
  BY DEF SlotsFinite
<1> HIDE DEF Q, R, d
<1>6. /\ IsFiniteSet(Slots(R, n))
      /\ Cardinality(Slots(Q, n)) \in Nat /\ Cardinality(Slots(R, n)) \in Nat
      /\ Cardinality(Slots(R, n)) + Occurrences(Q[i], n)
            = Cardinality(Slots(Q, n)) + Occurrences(d, n)
  BY <1>3, <1>4, <1>5, SlotsChange
<1>7. /\ IsFiniteSet(Slots(WorkerQueues', n))
      /\ Cardinality(Slots(WorkerQueues, n)) \in Nat
      /\ Cardinality(Slots(WorkerQueues', n)) \in Nat
      /\ Cardinality(Slots(WorkerQueues', n)) + Waiting(chan[i].q, n)
            = Cardinality(Slots(WorkerQueues, n)) + Waiting(x.q, n)
  BY QueuesReplaced
<1>8. /\ Inside(chan[i], n) = Waiting(chan[i].q, n) + Occurrences(Q[i], n)
      /\ Inside(x, n) = Waiting(x.q, n) + Occurrences(d, n)
  BY <1>3 DEF Inside, d
<1>9. /\ Waiting(chan[i].q, n) \in Nat /\ Waiting(x.q, n) \in Nat
      /\ Occurrences(Q[i], n) \in Nat /\ Occurrences(d, n) \in Nat
  BY <1>1, <1>4, InsideType, PlacesFinite
<1>10. /\ InChannels(n) = Cardinality(Slots(WorkerQueues, n)) + Cardinality(Slots(Q, n))
       /\ InChannels(n)' = Cardinality(Slots(WorkerQueues', n)) + Cardinality(Slots(R, n))
  BY DEF InChannels, Q, R
<1>11. SlotsFinite(n)'
  BY <1>6, <1>7 DEF SlotsFinite, R
<1> QED BY <1>6, <1>7, <1>8, <1>9, <1>10, <1>11

\* The searches that carry packet n.
Holds(s, n) == s.on /\ s.pkt.n = n
Held(n) == {a \in Actor : Holds(search[a], n)}

SpareCopy(n) == One(spare # <<>> /\ spare[1].pkt.n = n)
InUplink(n) == Occurrences(uplink.latency, n) + Occurrences(uplink.queue, n)

\* The copies of n that the dispatcher has made, and those still in the bridge.
Afloat(n) == sent[n] + InChannels(n) + Cardinality(Held(n)) + SpareCopy(n)
Copies(n) == Afloat(n) + InUplink(n)

\* A packet still in the bridge has one copy, whatever its kind.
Limit(n) ==
    IF n > Len(injected) THEN 0
    ELSE IF injected[n] \in {"dns", "quic1", "quic2"} /\ InUplink(n) = 0 THEN 2 ELSE 1

\* The bridge knows the kinds of the packets it holds.
KindsOK == \A q \in {uplink.latency, uplink.queue} : \A m \in DOMAIN q :
    q[m].n <= Len(injected) /\ q[m].kind = injected[q[m].n]

CopiesOK == KindsOK /\ \A n \in 1 .. MaxPackets : SlotsFinite(n) /\ Copies(n) <= Limit(n)

\* The searches that carry a packet are a number.
LEMMA HeldFinite ==
    ASSUME NEW n
    PROVE  IsFiniteSet(Held(n)) /\ Cardinality(Held(n)) \in Nat
<1>1. Held(n) \in SUBSET Actor
  BY DEF Held
<1> QED BY <1>1, IncFinite, FS_Subset, FS_CardinalityType

\* The summands of Copies are numbers.
LEMMA CopyTypes ==
    ASSUME Typed, NEW n \in 1 .. MaxPackets, SlotsFinite(n)
    PROVE  /\ sent[n] \in Nat /\ InChannels(n) \in Nat /\ InUplink(n) \in Nat
           /\ Cardinality(Held(n)) \in Nat /\ SpareCopy(n) \in Nat /\ Afloat(n) \in Nat
<1>1. sent[n] \in Nat
  BY DEF Typed, CountsOK
<1>2. InChannels(n) \in Nat
  BY FS_CardinalityType DEF SlotsFinite, InChannels
<1>3. InUplink(n) \in Nat
  <2>1. uplink.latency \in Seq(Packet) /\ uplink.queue \in Seq(Packet)
    BY DEF Typed, UplinkOK
  <2>2. Occurrences(uplink.latency, n) \in Nat /\ Occurrences(uplink.queue, n) \in Nat
    BY <2>1, PlacesFinite
  <2> QED BY <2>2 DEF InUplink
<1>4. SpareCopy(n) \in Nat
  BY DEF SpareCopy, One
<1> QED BY <1>1, <1>2, <1>3, <1>4, HeldFinite DEF Afloat

\* A step of the dispatcher that makes no copy.
LEMMA Conserved ==
    ASSUME Typed, Typed', CopiesOK, uplink' = uplink, injected' = injected,
           \A n \in 1 .. MaxPackets : SlotsFinite(n)' /\ Afloat(n)' <= Afloat(n)
    PROVE  CopiesOK'
<1>1. KindsOK'
  BY DEF CopiesOK, KindsOK
<1>2. ASSUME NEW n \in 1 .. MaxPackets PROVE Copies(n)' <= Limit(n)'
  <2>1. SlotsFinite(n) /\ SlotsFinite(n)' /\ Copies(n) <= Limit(n)
    BY DEF CopiesOK
  <2>2. Afloat(n) \in Nat /\ InUplink(n) \in Nat /\ InUplink(n)' = InUplink(n)
    BY <2>1, CopyTypes DEF InUplink
  <2>3. Afloat(n)' \in Nat
    <3>1. sent'[n] \in Nat
      BY DEF Typed, CountsOK
    <3>2. InChannels(n)' \in Nat
      BY <2>1, FS_CardinalityType DEF SlotsFinite, InChannels
    <3>3. Cardinality(Held(n)') \in Nat
      <4>1. Held(n)' \in SUBSET Actor
        BY DEF Held
      <4> QED BY <4>1, IncFinite, FS_Subset, FS_CardinalityType
    <3>4. SpareCopy(n)' \in Nat
      BY DEF SpareCopy, One
    <3> QED BY <3>1, <3>2, <3>3, <3>4 DEF Afloat
  <2>4. Limit(n)' = Limit(n) /\ Limit(n) \in Nat
    BY <2>2 DEF Limit
  <2>5. Afloat(n)' <= Afloat(n)
    OBVIOUS
  <2> QED BY <2>1, <2>2, <2>3, <2>4, <2>5 DEF Copies
<1> QED BY <1>1, <1>2 DEF CopiesOK

\* One search replaced by another.
LEMMA SearchReplaced ==
    ASSUME SearchOK, NEW a \in Actor, NEW x, search' = [search EXCEPT ![a] = x], NEW n
    PROVE  /\ Cardinality(Held(n)) \in Nat /\ Cardinality(Held(n)') \in Nat
           /\ Cardinality(Held(n)') + One(Holds(search[a], n))
                 = Cardinality(Held(n)) + One(Holds(x, n))
<1> DEFINE H == Held(n)
           G == Held(n)'
<1>1. \A b \in Actor : search'[b] = IF b = a THEN x ELSE search[b]
  BY DEF SearchOK
<1>2. /\ H \ {a} = G \ {a}
      /\ a \in H <=> Holds(search[a], n)
      /\ a \in G <=> Holds(x, n)
  BY <1>1 DEF Held
<1>3. IsFiniteSet(H) /\ IsFiniteSet(G)
  <2>1. H \in SUBSET Actor /\ G \in SUBSET Actor
    BY DEF Held
  <2> HIDE DEF H, G
  <2> QED BY <2>1, IncFinite, FS_Subset
<1> HIDE DEF H, G
<1>4. Cardinality(H) \in Nat /\ Cardinality(G) \in Nat
  BY <1>3, FS_CardinalityType
<1>5. /\ Cardinality(H \ {a}) = IF a \in H THEN Cardinality(H) - 1 ELSE Cardinality(H)
      /\ Cardinality(G \ {a}) = IF a \in G THEN Cardinality(G) - 1 ELSE Cardinality(G)
  BY <1>3, FS_RemoveElement
<1>6. Cardinality(G) + One(a \in H) = Cardinality(H) + One(a \in G)
  <2>1. Cardinality(H \ {a}) = Cardinality(G \ {a})
    BY <1>2
  <2>2. Cardinality(H) = Cardinality(H \ {a}) + One(a \in H)
    BY <1>4, <1>5 DEF One
  <2>3. Cardinality(G) = Cardinality(G \ {a}) + One(a \in G)
    BY <1>4, <1>5 DEF One
  <2>4. One(a \in H) \in {0, 1} /\ One(a \in G) \in {0, 1}
    BY DEF One
  <2>5. Cardinality(H \ {a}) \in Nat
    BY <1>3, FS_RemoveElement, FS_CardinalityType
  <2> QED BY <2>1, <2>2, <2>3, <2>4, <2>5
<1>7. One(Holds(search[a], n)) = One(a \in H) /\ One(Holds(x, n)) = One(a \in G)
  BY <1>2 DEF One
<1>8. Cardinality(G) + One(Holds(search[a], n)) = Cardinality(H) + One(Holds(x, n))
  BY <1>6, <1>7
<1> QED BY <1>4, <1>8 DEF H, G

\* A step of one session: what it has sent and what it still holds.
LEMMA SessionCopies ==
    ASSUME Typed, Typed', CopiesOK, UNCHANGED <<uplink, injected, search, spare>>,
           NEW i \in Inc, NEW x \in Session, chan' = [chan EXCEPT ![i] = x],
           \A n \in 1 .. MaxPackets : sent'[n] + Inside(x, n) <= sent[n] + Inside(chan[i], n)
    PROVE  CopiesOK'
<1>1. ASSUME NEW n \in 1 .. MaxPackets PROVE SlotsFinite(n)' /\ Afloat(n)' <= Afloat(n)
  <2>1. SlotsFinite(n) /\ SessionsOK
    BY DEF CopiesOK, Typed
  <2>2. /\ SlotsFinite(n)' /\ InChannels(n) \in Nat /\ InChannels(n)' \in Nat
        /\ Inside(chan[i], n) \in Nat /\ Inside(x, n) \in Nat
        /\ InChannels(n)' + Inside(chan[i], n) = InChannels(n) + Inside(x, n)
    BY <2>1, SessionReplaced
  <2>3. Held(n)' = Held(n) /\ SpareCopy(n)' = SpareCopy(n)
    BY DEF Held, SpareCopy
  <2>4. sent[n] \in Nat /\ sent'[n] \in Nat
    BY DEF Typed, CountsOK
  <2>5. Cardinality(Held(n)) \in Nat /\ SpareCopy(n) \in Nat
    BY <2>1, CopyTypes
  <2>6. sent'[n] + Inside(x, n) <= sent[n] + Inside(chan[i], n)
    OBVIOUS
  <2>7. Afloat(n)' = sent'[n] + InChannels(n)' + Cardinality(Held(n)) + SpareCopy(n)
    BY <2>3 DEF Afloat
  <2> QED BY <2>2, <2>4, <2>5, <2>6, <2>7 DEF Afloat
<1> QED BY <1>1, Conserved

\* A step of one search that changes no session.
LEMMA SearchCopies ==
    ASSUME Typed, Typed', CopiesOK, UNCHANGED <<uplink, injected, chan, spare, sent>>,
           NEW a \in Actor, NEW y, search' = [search EXCEPT ![a] = y],
           \A n \in 1 .. MaxPackets : Holds(y, n) => Holds(search[a], n)
    PROVE  CopiesOK'
<1>1. ASSUME NEW n \in 1 .. MaxPackets PROVE SlotsFinite(n)' /\ Afloat(n)' <= Afloat(n)
  <2>1. SlotsFinite(n) /\ SearchOK
    BY DEF CopiesOK, Typed
  <2>2. /\ Cardinality(Held(n)) \in Nat /\ Cardinality(Held(n)') \in Nat
        /\ Cardinality(Held(n)') + One(Holds(search[a], n))
              = Cardinality(Held(n)) + One(Holds(y, n))
    BY <2>1, SearchReplaced
  <2>3. One(Holds(y, n)) <= One(Holds(search[a], n))
        /\ One(Holds(y, n)) \in Nat /\ One(Holds(search[a], n)) \in Nat
    BY DEF One
  <2>4. Cardinality(Held(n)') <= Cardinality(Held(n))
    BY <2>2, <2>3
  <2>5. SlotsFinite(n)' /\ InChannels(n)' = InChannels(n) /\ SpareCopy(n)' = SpareCopy(n)
    BY <2>1 DEF SlotsFinite, InChannels, SpareCopy, WorkerQueues, Stolen
  <2>6. Afloat(n)' = sent[n] + InChannels(n) + Cardinality(Held(n)') + SpareCopy(n)
    BY <2>5 DEF Afloat
  <2>7. sent[n] \in Nat /\ InChannels(n) \in Nat /\ SpareCopy(n) \in Nat
    BY <2>1, CopyTypes
  <2> QED BY <2>2, <2>4, <2>5, <2>6, <2>7 DEF Afloat
<1> QED BY <1>1, Conserved

\* A step of one search that changes one session.
LEMMA MoveCopies ==
    ASSUME Typed, Typed', CopiesOK, UNCHANGED <<uplink, injected, spare, sent>>,
           NEW a \in Actor, NEW y, search' = [search EXCEPT ![a] = y],
           NEW i \in Inc, NEW x \in Session, chan' = [chan EXCEPT ![i] = x],
           \A n \in 1 .. MaxPackets :
              Inside(x, n) + One(Holds(y, n)) <= Inside(chan[i], n) + One(Holds(search[a], n))
    PROVE  CopiesOK'
<1>1. ASSUME NEW n \in 1 .. MaxPackets PROVE SlotsFinite(n)' /\ Afloat(n)' <= Afloat(n)
  <2>1. SlotsFinite(n) /\ SessionsOK /\ SearchOK
    BY DEF CopiesOK, Typed
  <2>2. /\ SlotsFinite(n)' /\ InChannels(n) \in Nat /\ InChannels(n)' \in Nat
        /\ Inside(chan[i], n) \in Nat /\ Inside(x, n) \in Nat
        /\ InChannels(n)' + Inside(chan[i], n) = InChannels(n) + Inside(x, n)
    BY <2>1, SessionReplaced
  <2>3. /\ Cardinality(Held(n)) \in Nat /\ Cardinality(Held(n)') \in Nat
        /\ Cardinality(Held(n)') + One(Holds(search[a], n))
              = Cardinality(Held(n)) + One(Holds(y, n))
    BY <2>1, SearchReplaced
  <2>4. One(Holds(y, n)) \in Nat /\ One(Holds(search[a], n)) \in Nat
    BY DEF One
  <2>5. Inside(x, n) + One(Holds(y, n)) <= Inside(chan[i], n) + One(Holds(search[a], n))
    OBVIOUS
  <2>6. SpareCopy(n)' = SpareCopy(n)
    BY DEF SpareCopy
  <2>7. InChannels(n)' + Cardinality(Held(n)') <= InChannels(n) + Cardinality(Held(n))
    BY <2>2, <2>3, <2>4, <2>5
  <2>8. sent[n] \in Nat /\ SpareCopy(n) \in Nat
    BY <2>1, CopyTypes
  <2>9. Afloat(n)' = sent[n] + InChannels(n)' + Cardinality(Held(n)') + SpareCopy(n)
    BY <2>6 DEF Afloat
  <2> QED BY <2>2, <2>3, <2>7, <2>8, <2>9 DEF Afloat
<1> QED BY <1>1, Conserved

\* What a writer takes leaves the queues.
LEMMA BatchWaiting ==
    ASSUME SessionsOK, NEW i \in Inc, NEW n
    PROVE  /\ Waiting(chan[i].q, n) = Waiting(QueuesAfterBatch(i), n) + Occurrences(TakenBatch(i), n)
           /\ Waiting(QueuesAfterBatch(i), n) \in Nat /\ Occurrences(TakenBatch(i), n) \in Nat
<1> DEFINE q == chan[i].q
           r == QueuesAfterBatch(i)
           c == FirstClass(i)
           s == q[c]
           k == BatchSize(i)
           a == SubSeq(s, 1, k)
           b == SubSeq(s, k + 1, Len(s))
<1>1. /\ q \in [Class -> Seq(Packet)] /\ r \in [Class -> Seq(Packet)]
      /\ c \in Class /\ k \in 0 .. Len(s)
  BY AfterBatchOK
<1>2. r = [q EXCEPT ![c] = b] /\ TakenBatch(i) = a
  BY DEF QueuesAfterBatch, TakenBatch
<1> HIDE DEF q, r, c, k
<1>3. s \in Seq(Packet)
  BY <1>1
<1>4. /\ a \in Seq(Packet) /\ b \in Seq(Packet)
      /\ Occurrences(s, n) = Occurrences(a, n) + Occurrences(b, n)
  <2> HIDE DEF s
  <2> QED BY <1>1, <1>3, InBatch
<1> HIDE DEF a, b
<1>5. \A d \in Class : r[d] = IF d = c THEN b ELSE q[d]
  BY <1>1, <1>2
<1>6. \A d \in Class : Occurrences(q[d], n) \in Nat
  BY <1>1, PlacesFinite
<1>7. Occurrences(a, n) \in Nat /\ Occurrences(b, n) \in Nat
  BY <1>4, PlacesFinite
<1>8. \A d \in Class : Occurrences(q[d], n)
        = Occurrences(r[d], n) + (IF d = c THEN Occurrences(a, n) ELSE 0)
  <2> TAKE d \in Class
  <2>1. CASE d = c
    <3>1. r[d] = b /\ q[d] = s
      BY <1>5, <2>1
    <3> QED BY <1>4, <1>7, <2>1, <3>1
  <2>2. CASE d # c
    <3>1. r[d] = q[d] /\ Occurrences(q[d], n) \in Nat
      BY <1>5, <1>6, <2>2
    <3> QED BY <2>2, <3>1
  <2> QED BY <2>1, <2>2
<1>9. \A d \in Class : Occurrences(r[d], n) \in Nat
  BY <1>5, <1>6, <1>7
<1>10. c \in {"small", "medium", "bulk"} /\ "small" \in Class /\ "medium" \in Class /\ "bulk" \in Class
  BY <1>1 DEF Class
<1>11. Waiting(q, n) = Waiting(r, n) + Occurrences(a, n)
  <2> DEFINE o(d) == Occurrences(r[d], n)
             z == Occurrences(a, n)
  <2>1. /\ Occurrences(q["small"], n) = o("small") + (IF "small" = c THEN z ELSE 0)
        /\ Occurrences(q["medium"], n) = o("medium") + (IF "medium" = c THEN z ELSE 0)
        /\ Occurrences(q["bulk"], n) = o("bulk") + (IF "bulk" = c THEN z ELSE 0)
    BY <1>8, <1>10
  <2>2. o("small") \in Nat /\ o("medium") \in Nat /\ o("bulk") \in Nat /\ z \in Nat
    BY <1>7, <1>9, <1>10
  <2>3. Waiting(r, n) = o("small") + o("medium") + o("bulk")
    BY DEF Waiting
  <2> HIDE DEF o, z
  <2>4. Waiting(q, n) = Waiting(r, n) + z
    BY <1>10, <2>1, <2>2, <2>3 DEF Waiting
  <2> QED BY <2>4 DEF z
<1>12. Waiting(r, n) \in Nat
  BY <1>9, <1>10 DEF Waiting
<1> QED BY <1>2, <1>7, <1>11, <1>12 DEF q, r

\* What a writer takes it sends or drops.
LEMMA WriterCopies ==
    ASSUME Typed, Typed', CopiesOK, NEW i \in Inc, WriterSends(i) \/ WriterFails(i)
    PROVE  CopiesOK'
<1> DEFINE q == QueuesAfterBatch(i)
<1>1. chan[i] \in Session /\ SessionsOK /\ q \in [Class -> Seq(Packet)]
  BY AfterBatchOK DEF Typed, SessionsOK
<1>2. UNCHANGED <<uplink, injected, search, spare>>
  BY DEF WriterSends, WriterFails
<1>3. ASSUME NEW x \in Session, x.q = q, x.drained = chan[i].drained, NEW n
      PROVE  /\ Inside(chan[i], n) = Inside(x, n) + Occurrences(TakenBatch(i), n)
             /\ Inside(x, n) \in Nat /\ Occurrences(TakenBatch(i), n) \in Nat
  <2>1. /\ Waiting(chan[i].q, n) = Waiting(q, n) + Occurrences(TakenBatch(i), n)
        /\ Occurrences(TakenBatch(i), n) \in Nat
    BY <1>1, BatchWaiting
  <2>2. Inside(x, n) \in Nat /\ Waiting(x.q, n) \in Nat /\ Occurrences(x.drained, n) \in Nat
    BY InsideType
  <2> HIDE DEF q
  <2> QED BY <1>3, <2>1, <2>2 DEF Inside
<1>4. CASE WriterSends(i)
  <2> DEFINE x == [chan[i] EXCEPT !.q = q]
  <2>1. chan' = [chan EXCEPT ![i] = x]
    BY <1>4 DEF WriterSends
  <2> HIDE DEF q
  <2>2. x \in Session /\ x.q = q /\ x.drained = chan[i].drained
    BY <1>1 DEF Session
  <2> HIDE DEF x
  <2>3. ASSUME NEW n \in 1 .. MaxPackets
        PROVE  sent'[n] + Inside(x, n) <= sent[n] + Inside(chan[i], n)
    <3>1. sent'[n] = sent[n] + Occurrences(TakenBatch(i), n) /\ sent[n] \in Nat
      BY <1>4 DEF WriterSends, Typed, CountsOK
    <3>2. /\ Inside(chan[i], n) = Inside(x, n) + Occurrences(TakenBatch(i), n)
          /\ Inside(x, n) \in Nat /\ Occurrences(TakenBatch(i), n) \in Nat
      BY <1>3, <2>2
    <3> QED BY <3>1, <3>2
  <2> QED BY <1>2, <2>1, <2>2, <2>3, SessionCopies
<1>5. CASE WriterFails(i)
  <2> DEFINE x == [chan[i] EXCEPT !.q = q, !.open = FALSE]
  <2>1. chan' = [chan EXCEPT ![i] = x] /\ sent' = sent
    BY <1>5 DEF WriterFails
  <2> HIDE DEF q
  <2>2. x \in Session /\ x.q = q /\ x.drained = chan[i].drained
    BY <1>1 DEF Session
  <2> HIDE DEF x
  <2>3. ASSUME NEW n \in 1 .. MaxPackets
        PROVE  sent'[n] + Inside(x, n) <= sent[n] + Inside(chan[i], n)
    <3>1. sent'[n] = sent[n] /\ sent[n] \in Nat
      BY <2>1 DEF Typed, CountsOK
    <3>2. /\ Inside(chan[i], n) = Inside(x, n) + Occurrences(TakenBatch(i), n)
          /\ Inside(x, n) \in Nat /\ Occurrences(TakenBatch(i), n) \in Nat
      BY <1>3, <2>2
    <3> QED BY <3>1, <3>2
  <2> QED BY <1>2, <2>1, <2>2, <2>3, SessionCopies
<1> QED BY <1>4, <1>5

\* The end of a session neither makes a copy of a packet nor forgets one.
LEMMA EndCopies ==
    ASSUME Typed, Typed', CopiesOK, NEW i \in Inc, MarkUnhealthy(i) \/ Unregister(i)
    PROVE  CopiesOK'
<1>1. chan[i] \in Session
  BY DEF Typed, SessionsOK
<1>2. UNCHANGED <<uplink, injected, search, spare>> /\ sent' = sent
  BY DEF MarkUnhealthy, Unregister
<1>3. \E x \in Session : /\ chan' = [chan EXCEPT ![i] = x]
                         /\ x.q = chan[i].q /\ x.drained = chan[i].drained
  <2>1. CASE MarkUnhealthy(i)
    <3> DEFINE x == [chan[i] EXCEPT !.healthy = FALSE, !.stage = "ending"]
    <3>1. chan' = [chan EXCEPT ![i] = x]
      BY <2>1 DEF MarkUnhealthy
    <3>2. x \in Session /\ x.q = chan[i].q /\ x.drained = chan[i].drained
      BY <1>1 DEF Session, Stage
    <3> HIDE DEF x
    <3> QED BY <3>1, <3>2
  <2>2. CASE Unregister(i)
    <3> DEFINE x == [chan[i] EXCEPT !.stage = "gone"]
    <3>1. chan' = [chan EXCEPT ![i] = x]
      BY <2>2 DEF Unregister
    <3>2. x \in Session /\ x.q = chan[i].q /\ x.drained = chan[i].drained
      BY <1>1 DEF Session, Stage
    <3> HIDE DEF x
    <3> QED BY <3>1, <3>2
  <2> QED BY <2>1, <2>2
<1>4. PICK x \in Session : /\ chan' = [chan EXCEPT ![i] = x]
                           /\ x.q = chan[i].q /\ x.drained = chan[i].drained
  BY <1>3
<1>5. ASSUME NEW n \in 1 .. MaxPackets
      PROVE  sent'[n] + Inside(x, n) <= sent[n] + Inside(chan[i], n)
  <2>1. Inside(x, n) = Inside(chan[i], n) /\ Inside(x, n) \in Nat
    BY <1>4, InsideType DEF Inside
  <2>2. sent'[n] = sent[n] /\ sent[n] \in Nat
    BY <1>2 DEF Typed, CountsOK
  <2> QED BY <2>1, <2>2
<1> QED BY <1>2, <1>4, <1>5, SessionCopies

\* drain_uplink puts what it finds in one line.
LEMMA StopCopies ==
    ASSUME Typed, Typed', CopiesOK, NEW i \in Inc, StopAndDrain(i)
    PROVE  CopiesOK'
<1>1. chan[i] \in Session /\ SessionsOK /\ UNCHANGED <<uplink, injected, search, spare>>
      /\ sent' = sent
  BY DEF Typed, SessionsOK, StopAndDrain
<1>2. PICK q \in {chan[i].q} \cup (IF chan[i].open THEN {QueuesAfterBatch(i)} ELSE {}) :
          chan' = [chan EXCEPT ![i].open = FALSE, ![i].stage = "handing",
                               ![i].drained = q["small"] \o q["medium"] \o q["bulk"],
                               ![i].q = [c \in Class |-> <<>>],
                               ![i].racers = Cardinality({a \in Actor : Aiming(a, i)})]
  BY Zenon DEF StopAndDrain
<1>3. q \in [Class -> Seq(Packet)]
  BY <1>1, AfterBatchOK
<1> DEFINE u == q["small"] \o q["medium"]
           d == u \o q["bulk"]
           r == Cardinality({a \in Actor : Aiming(a, i)})
           e == [c \in Class |-> <<>>]
           x == [chan[i] EXCEPT !.open = FALSE, !.stage = "handing", !.drained = d, !.q = e,
                                !.racers = r]
<1>4. /\ q["small"] \in Seq(Packet) /\ q["medium"] \in Seq(Packet) /\ q["bulk"] \in Seq(Packet)
      /\ u \in Seq(Packet) /\ d \in Seq(Packet)
  <2>1. q["small"] \in Seq(Packet) /\ q["medium"] \in Seq(Packet) /\ q["bulk"] \in Seq(Packet)
    BY <1>3 DEF Class
  <2> QED BY <2>1
<1>5. chan' = [chan EXCEPT ![i] = x]
  BY <1>2
<1>6. r \in Nat
  <2>1. Racing(i) = {a \in Actor : Aiming(a, i)}
    BY DEF Racing
  <2> QED BY <2>1, StrandTypes
<1>7. e \in [Class -> Seq(Packet)]
  OBVIOUS
<1>8. ASSUME NEW n PROVE Waiting(e, n) = 0 /\ Occurrences(d, n) = Waiting(q, n)
  <2>1. Waiting(e, n) = 0
    <3>1. e["small"] = <<>> /\ e["medium"] = <<>> /\ e["bulk"] = <<>>
      BY DEF Class
    <3> HIDE DEF e
    <3> QED BY <3>1, NoneInEmpty DEF Waiting
  <2>2. Occurrences(u, n) = Occurrences(q["small"], n) + Occurrences(q["medium"], n)
    BY <1>4, InConcat
  <2> HIDE DEF u
  <2>3. Occurrences(d, n) = Occurrences(u, n) + Occurrences(q["bulk"], n)
    BY <1>4, InConcat
  <2> HIDE DEF d
  <2> QED BY <2>1, <2>2, <2>3 DEF Waiting
<1> HIDE DEF u, d, r, e
<1>9. x \in Session /\ x.q = e /\ x.drained = d
  BY <1>1, <1>4, <1>6, <1>7 DEF Session, Stage
<1> HIDE DEF x
<1>10. ASSUME NEW n \in 1 .. MaxPackets
       PROVE  sent'[n] + Inside(x, n) <= sent[n] + Inside(chan[i], n)
  <2>1. Inside(x, n) = 0 + Waiting(q, n)
    BY <1>8, <1>9 DEF Inside
  <2>2. Waiting(q, n) <= Waiting(chan[i].q, n) /\ Waiting(q, n) \in Nat
    <3>1. CASE q = chan[i].q
      BY <1>1, <3>1, InsideType
    <3>2. CASE q = QueuesAfterBatch(i)
      BY <1>1, <3>2, BatchWaiting
    <3> QED BY <1>2, <3>1, <3>2
  <2>3. /\ Inside(chan[i], n) = Waiting(chan[i].q, n) + Occurrences(chan[i].drained, n)
        /\ Waiting(chan[i].q, n) \in Nat /\ Occurrences(chan[i].drained, n) \in Nat
    BY <1>1, InsideType DEF Inside
  <2>4. sent'[n] = sent[n] /\ sent[n] \in Nat
    BY <1>1 DEF Typed, CountsOK
  <2> QED BY <2>1, <2>2, <2>3, <2>4
<1> QED BY <1>1, <1>5, <1>9, <1>10, SessionCopies

\* A new session starts with empty queues.
LEMMA StartCopies ==
    ASSUME Typed, Typed', CopiesOK, NEW id \in Id, StartSession(id)
    PROVE  CopiesOK'
<1> DEFINE new == {i \in Inc : chan[i].stage = "none"}
           i == CHOOSE n \in new : \A m \in new : n <= m
           x == NewChannels(id)
<1>1. new # {} /\ chan' = [chan EXCEPT ![i] = x]
      /\ UNCHANGED <<uplink, injected, search, spare>> /\ sent' = sent
  BY DEF StartSession
<1>2. i \in Inc
  <2>1. new \subseteq Nat /\ new \subseteq Inc
    BY DEF Inc
  <2> HIDE DEF new
  <2>2. \E n \in new : \A m \in new : n <= m
    BY <1>1, <2>1, Least
  <2> QED BY <2>1, <2>2
<1> HIDE DEF i, new
<1>3. x \in Session /\ \A c \in Class : x.q[c] = <<>>
  BY NewChannelsOK
<1>4. x.drained = <<>>
  BY DEF NewChannels
<1> HIDE DEF x
<1>5. chan[i] \in Session
  BY <1>2 DEF Typed, SessionsOK
<1>6. ASSUME NEW n \in 1 .. MaxPackets
      PROVE  sent'[n] + Inside(x, n) <= sent[n] + Inside(chan[i], n)
  <2>1. x.q["small"] = <<>> /\ x.q["medium"] = <<>> /\ x.q["bulk"] = <<>>
    BY <1>3 DEF Class
  <2>2. Inside(x, n) = 0
    BY <1>4, <2>1, NoneInEmpty DEF Inside, Waiting
  <2>3. sent'[n] = sent[n] /\ sent[n] \in Nat /\ Inside(chan[i], n) \in Nat
    BY <1>1, <1>5, InsideType DEF Typed, CountsOK
  <2> QED BY <2>2, <2>3
<1> QED BY <1>1, <1>2, <1>3, <1>6, SessionCopies

\* A search carries its packet from look to look.
LEMMA LookCopies ==
    ASSUME Typed, Typed', CopiesOK, NEW a \in Actor, Look(a) \/ ScanVictim(a) \/ ChooseVictim(a)
    PROVE  CopiesOK'
<1>1. UNCHANGED <<uplink, injected, chan, spare, sent>> /\ search[a].on
  BY LookCases, Zenon
<1>3. \E y : /\ search' = [search EXCEPT ![a] = y]
             /\ ~y.on \/ y.pkt = search[a].pkt
  BY LookCases, Zenon DEF Onto
<1>4. PICK y : search' = [search EXCEPT ![a] = y] /\ (~y.on \/ y.pkt = search[a].pkt)
  BY <1>3
<1>5. \A n \in 1 .. MaxPackets : Holds(y, n) => Holds(search[a], n)
  BY <1>1, <1>4 DEF Holds
<1> QED BY <1>1, <1>4, <1>5, SearchCopies

\* A packet that reaches a queue leaves its search.
LEMMA PushCopies ==
    ASSUME Typed, Typed', CopiesOK, NEW a \in Actor, Push(a) \/ ForcePush(a)
    PROVE  CopiesOK'
<1> DEFINE s == search[a]
           p == s.pkt
           i == s.target
           c == packet_class(s.pkt.kind)
           o == chan[i].q[c]
           f == IF Len(o) = Cap[c] THEN Tail(o) ELSE o
<1>1. s \in Searching /\ p \in Packet /\ i \in Inc /\ s.on
  BY SearchFacts, Zenon DEF Push, ForcePush
<1>2. c \in Class
  BY <1>1, PacketClass
<1>3. chan[i] \in Session /\ o \in Seq(Packet) /\ Cap[c] \in Nat \ {0}
  BY <1>1, <1>2, ConstantsAssumption, SMTT(30) DEF Typed, SessionsOK, Session
<1>4. UNCHANGED <<uplink, injected, spare, sent>>
  BY Zenon DEF Push, ForcePush
<1>5. ASSUME NEW g \in Seq(Packet), \A n : Occurrences(g, n) <= Occurrences(o, n),
             chan' = [chan EXCEPT ![i].q[c] = Append(g, p)],
             search' = [search EXCEPT ![a] = Idle]
      PROVE  CopiesOK'
  <2> DEFINE t == Append(g, p)
             q == [chan[i].q EXCEPT ![c] = t]
             x == [chan[i] EXCEPT !.q = q]
  <2>1. t \in Seq(Packet)
    BY <1>1, <1>5, AppendOK
  <2>2. chan' = [chan EXCEPT ![i] = x]
    BY <1>5
  <2>3. ASSUME NEW n
        PROVE  Occurrences(t, n) <= Occurrences(o, n) + One(p.n = n)
               /\ Occurrences(t, n) \in Nat /\ Occurrences(o, n) \in Nat /\ One(p.n = n) \in Nat
    <3>1. Occurrences(t, n) = Occurrences(g, n) + One(p.n = n)
      BY <1>1, <1>5, InAppended
    <3>2. Occurrences(g, n) <= Occurrences(o, n) /\ One(p.n = n) \in Nat
      BY <1>5 DEF One
    <3>3. Occurrences(g, n) \in Nat /\ Occurrences(o, n) \in Nat /\ Occurrences(t, n) \in Nat
      BY <1>3, <1>5, <2>1, PlacesFinite
    <3> QED BY <3>1, <3>2, <3>3
  <2> HIDE DEF t
  <2>4. q \in [Class -> Seq(Packet)] /\ \A d \in Class : q[d] = IF d = c THEN t ELSE chan[i].q[d]
    BY <1>3, <2>1 DEF Session
  <2> HIDE DEF q
  <2>5. x \in Session /\ x.q = q /\ x.drained = chan[i].drained
    BY <1>3, <2>4 DEF Session
  <2> HIDE DEF x
  <2>6. ASSUME NEW n \in 1 .. MaxPackets
        PROVE  Inside(x, n) + One(Holds(Idle, n)) <= Inside(chan[i], n) + One(Holds(s, n))
    <3> DEFINE y == chan[i].q
               z == One(p.n = n)
    <3>1. c \in {"small", "medium", "bulk"} /\ "small" \in Class /\ "medium" \in Class
          /\ "bulk" \in Class
      BY <1>2 DEF Class
    <3>2. /\ q["small"] = (IF c = "small" THEN t ELSE y["small"])
          /\ q["medium"] = (IF c = "medium" THEN t ELSE y["medium"])
          /\ q["bulk"] = (IF c = "bulk" THEN t ELSE y["bulk"])
      BY <2>4, <3>1
    <3>3. /\ Occurrences(y["small"], n) \in Nat /\ Occurrences(y["medium"], n) \in Nat
          /\ Occurrences(y["bulk"], n) \in Nat
      BY <1>3, <3>1, PlacesFinite DEF Session
    <3>4. Occurrences(t, n) <= Occurrences(y[c], n) + z /\ Occurrences(t, n) \in Nat /\ z \in Nat
      BY <2>3
    <3> HIDE DEF y, z
    <3>5. Waiting(q, n) <= Waiting(y, n) + z
      <4>1. CASE c = "small"
        BY <3>2, <3>3, <3>4, <4>1 DEF Waiting
      <4>2. CASE c = "medium"
        BY <3>2, <3>3, <3>4, <4>2 DEF Waiting
      <4>3. CASE c = "bulk"
        BY <3>2, <3>3, <3>4, <4>3 DEF Waiting
      <4> QED BY <3>1, <4>1, <4>2, <4>3
    <3>6. One(Holds(Idle, n)) = 0 /\ One(Holds(s, n)) = z
      BY <1>1 DEF One, Holds, Idle, z
    <3>7. /\ Inside(x, n) = Waiting(q, n) + Occurrences(chan[i].drained, n)
          /\ Inside(chan[i], n) = Waiting(y, n) + Occurrences(chan[i].drained, n)
      BY <2>5 DEF Inside, y
    <3>8. /\ Waiting(q, n) \in Nat /\ Waiting(y, n) \in Nat
          /\ Occurrences(chan[i].drained, n) \in Nat
      BY <1>3, <2>5, InsideType DEF y
    <3> QED BY <3>4, <3>5, <3>6, <3>7, <3>8
  <2> HIDE DEF s, i, c, o, p
  <2>7. \A n \in 1 .. MaxPackets :
           Inside(x, n) + One(Holds(Idle, n)) <= Inside(chan[i], n) + One(Holds(search[a], n))
    BY <2>6 DEF s
  <2> QED BY <1>1, <1>4, <1>5, <2>2, <2>5, <2>7, MoveCopies
<1>6. CASE ForcePush(a)
  <2>1. chan' = [chan EXCEPT ![i].q[c] = Append(f, p)] /\ search' = [search EXCEPT ![a] = Idle]
    BY <1>6, Zenon DEF ForcePush
  <2>2. f \in Seq(Packet) /\ \A n : Occurrences(f, n) <= Occurrences(o, n)
    <3>1. CASE Len(o) = Cap[c]
      <4>1. o # <<>>
        BY <1>3, <3>1
      <4> DEFINE l == o
      <4> HIDE DEF l
      <4>2. l \in Seq(Packet) /\ l # <<>>
        BY <1>3, <4>1 DEF l
      <4>3. Tail(l) \in Seq(Packet)
        BY <4>2, TailOK
      <4>4. ASSUME NEW n PROVE Occurrences(Tail(l), n) <= Occurrences(l, n)
        <5>1. Occurrences(l, n) = Occurrences(Tail(l), n) + One(Head(l).n = n)
          BY <4>2, InTail
        <5>2. Occurrences(Tail(l), n) \in Nat /\ One(Head(l).n = n) \in Nat
          BY <4>3, PlacesFinite DEF One
        <5> QED BY <5>1, <5>2
      <4>5. f = Tail(l)
        BY <3>1 DEF l
      <4> HIDE DEF f, o, c, s, i
      <4> QED BY <4>3, <4>4, <4>5 DEF l
    <3>2. CASE Len(o) # Cap[c]
      <4>1. f = o
        BY <3>2
      <4> HIDE DEF f, o, c, s, i
      <4>2. \A n : Occurrences(o, n) \in Nat
        BY <1>3, PlacesFinite
      <4> QED BY <1>3, <4>1, <4>2
    <3> QED BY <3>1, <3>2
  <2> HIDE DEF f, o, c, s, i, p
  <2> QED BY <1>5, <2>1, <2>2, ZenonT(40)
<1>7. CASE Push(a) /\ Queued(i, c) < Cap[c]
  <2>1. chan' = [chan EXCEPT ![i].q[c] = Append(o, p)] /\ search' = [search EXCEPT ![a] = Idle]
    BY <1>7 DEF Push
  <2> HIDE DEF o, c, s, i, p
  <2>2. \A n : Occurrences(o, n) \in Nat
    BY <1>3, PlacesFinite
  <2>3. \A n : Occurrences(o, n) <= Occurrences(o, n)
    BY <2>2
  <2> QED BY <1>3, <1>5, <2>1, <2>3
<1>8. CASE Push(a) /\ ~(Queued(i, c) < Cap[c])
  <2> DEFINE y == Onward(search[a])
  <2>1. search' = [search EXCEPT ![a] = y] /\ chan' = chan
    BY <1>8 DEF Push
  <2>2. (y.on => y.pkt = search[a].pkt) /\ search[a].on
    BY <1>1, OnwardOnto DEF Onto
  <2> HIDE DEF y, s, p
  <2>3. \A n \in 1 .. MaxPackets : Holds(y, n) => Holds(search[a], n)
    BY <2>2 DEF Holds
  <2> QED BY <1>4, <2>1, <2>3, SearchCopies
<1> QED BY <1>6, <1>7, <1>8

\* redispatch: a stolen packet goes from its line to a search.
LEMMA RedispatchCopies ==
    ASSUME Typed, Typed', CopiesOK, NEW i \in Inc, Redispatch(i)
    PROVE  CopiesOK'
<1> DEFINE l == chan[i].drained
           t == Tail(l)
           x == [chan[i] EXCEPT !.drained = t]
           y == StartSearch(Head(l), registry, 0, TRUE)
<1>1. /\ chan' = [chan EXCEPT ![i] = x] /\ search' = [search EXCEPT ![i] = y]
      /\ l # <<>> /\ ~search[i].on /\ UNCHANGED <<uplink, injected, spare, sent>>
  BY DEF Redispatch
<1>2. y.on /\ y.pkt = Head(l)
  BY DEF StartSearch
<1> HIDE DEF y
<1>3. chan[i] \in Session /\ i \in Actor
  BY IncFinite DEF Typed, SessionsOK
<1>4. l \in Seq(Packet)
  BY <1>3 DEF Session
<1>5. t \in Seq(Packet)
  <2> HIDE DEF l
  <2> QED BY <1>1, <1>4, TailOK
<1> HIDE DEF t
<1>6. x \in Session /\ x.q = chan[i].q /\ x.drained = t
  BY <1>3, <1>5 DEF Session
<1> HIDE DEF x
<1>7. ASSUME NEW n \in 1 .. MaxPackets
      PROVE  Inside(x, n) + One(Holds(y, n)) <= Inside(chan[i], n) + One(Holds(search[i], n))
  <2>1. Occurrences(l, n) = Occurrences(t, n) + One(Head(l).n = n)
    <3> HIDE DEF l
    <3> QED BY <1>1, <1>4, InTail DEF t
  <2>2. One(Holds(y, n)) = One(Head(l).n = n) /\ One(Holds(search[i], n)) = 0
        /\ One(Head(l).n = n) \in Nat
    BY <1>1, <1>2 DEF Holds, One
  <2>3. Inside(x, n) = Waiting(chan[i].q, n) + Occurrences(t, n)
        /\ Inside(chan[i], n) = Waiting(chan[i].q, n) + Occurrences(l, n)
    BY <1>6 DEF Inside
  <2>4. Waiting(chan[i].q, n) \in Nat /\ Occurrences(t, n) \in Nat
    BY <1>3, <1>5, InsideType, PlacesFinite
  <2> QED BY <2>1, <2>2, <2>3, <2>4
<1> QED BY <1>1, <1>3, <1>6, <1>7, MoveCopies

\* The second copy of a packet is searched a place for in its turn.
LEMMA SpareCopies ==
    ASSUME Typed, Typed', CopiesOK, SpareSearch
    PROVE  CopiesOK'
<1>1. PICK t \in Ticket : spare = <<t>>
  BY DEF SpareSearch, Typed, SpareOK
<1> DEFINE y == StartSearch(t.pkt, sched.workers, t.slot, FALSE)
<1>2. /\ search' = [search EXCEPT ![Reader] = y] /\ spare' = <<>> /\ ~search[Reader].on
      /\ UNCHANGED <<chan, uplink, sent, injected>>
  BY <1>1 DEF SpareSearch
<1>3. y.on /\ y.pkt = t.pkt
  BY DEF StartSearch
<1> HIDE DEF y
<1>4. ASSUME NEW n \in 1 .. MaxPackets PROVE SlotsFinite(n)' /\ Afloat(n)' <= Afloat(n)
  <2>1. SlotsFinite(n) /\ SearchOK
    BY DEF CopiesOK, Typed
  <2>2. SlotsFinite(n)' /\ InChannels(n)' = InChannels(n) /\ sent' = sent
    BY <1>2, <2>1 DEF SlotsFinite, InChannels, WorkerQueues, Stolen
  <2>3. /\ Cardinality(Held(n)) \in Nat /\ Cardinality(Held(n)') \in Nat
        /\ Cardinality(Held(n)') + One(Holds(search[Reader], n))
              = Cardinality(Held(n)) + One(Holds(y, n))
    BY <1>2, <2>1, IncFinite, SearchReplaced
  <2>4. One(Holds(search[Reader], n)) = 0 /\ One(Holds(y, n)) = One(t.pkt.n = n)
        /\ One(t.pkt.n = n) \in Nat
    BY <1>2, <1>3 DEF One, Holds
  <2>5. SpareCopy(n) = One(t.pkt.n = n) /\ SpareCopy(n)' = 0
    BY <1>1, <1>2 DEF SpareCopy, One
  <2>6. sent[n] \in Nat /\ InChannels(n) \in Nat
    BY <2>1, CopyTypes
  <2>7. Afloat(n)' = sent[n] + InChannels(n) + Cardinality(Held(n)') + 0
    BY <2>2, <2>5 DEF Afloat
  <2> QED BY <2>2, <2>3, <2>4, <2>5, <2>6, <2>7 DEF Afloat
<1> QED BY <1>2, <1>4, Conserved

\* A queue that loses its first packet.
LEMMA TailKept ==
    ASSUME NEW l \in Seq(Packet), l # <<>>
    PROVE  /\ Tail(l) \in Seq(Packet)
           /\ \A m \in DOMAIN Tail(l) : \E k \in DOMAIN l : Tail(l)[m] = l[k]
           /\ 1 \in DOMAIN l /\ Head(l) = l[1]
<1>1. /\ Tail(l) \in Seq(Packet) /\ Len(Tail(l)) = Len(l) - 1 /\ Len(l) \in Nat /\ Len(l) > 0
  BY TailOK
<1>2. \A m \in 1 .. Len(Tail(l)) : Tail(l)[m] = l[m + 1]
  BY HeadTailProperties
<1>3. DOMAIN Tail(l) = 1 .. Len(Tail(l)) /\ DOMAIN l = 1 .. Len(l)
  BY <1>1
<1>4. ASSUME NEW m \in DOMAIN Tail(l) PROVE \E k \in DOMAIN l : Tail(l)[m] = l[k]
  <2>1. m + 1 \in DOMAIN l
    BY <1>1, <1>3
  <2> QED BY <1>2, <1>3, <2>1
<1> QED BY <1>1, <1>3, <1>4

\* What the reader takes from the bridge is one packet of a known kind.
LEMMA TakenFromBridge ==
    ASSUME Typed, KindsOK, NEW p,
           \/ /\ uplink.latency # <<>> /\ p = Head(uplink.latency)
              /\ uplink' = [uplink EXCEPT !.latency = Tail(@)]
           \/ /\ uplink.queue # <<>> /\ p = Head(uplink.queue)
              /\ uplink' = [uplink EXCEPT !.queue = Tail(@)],
           injected' = injected
    PROVE  /\ KindsOK' /\ p.n <= Len(injected) /\ p.kind = injected[p.n]
           /\ \A n : InUplink(n) = InUplink(n)' + One(p.n = n) /\ InUplink(n)' \in Nat
<1> DEFINE l == uplink.latency
           q == uplink.queue
<1>1. l \in Seq(Packet) /\ q \in Seq(Packet) /\ DOMAIN uplink = {"latency", "queue"}
  BY DEF Typed, UplinkOK
<1>2. \A m \in DOMAIN l : l[m].n <= Len(injected) /\ l[m].kind = injected[l[m].n]
  BY DEF KindsOK
<1>3. \A m \in DOMAIN q : q[m].n <= Len(injected) /\ q[m].kind = injected[q[m].n]
  BY DEF KindsOK
<1>4. \A n : Occurrences(l, n) \in Nat /\ Occurrences(q, n) \in Nat
  <2> HIDE DEF l, q
  <2> QED BY <1>1, PlacesFinite
<1>5. CASE /\ uplink.latency # <<>> /\ p = Head(uplink.latency)
           /\ uplink' = [uplink EXCEPT !.latency = Tail(@)]
  <2> DEFINE t == Tail(l)
  <2>1. uplink'.latency = t /\ uplink'.queue = q
    BY <1>1, <1>5
  <2>2. /\ t \in Seq(Packet) /\ \A m \in DOMAIN t : \E k \in DOMAIN l : t[m] = l[k]
        /\ 1 \in DOMAIN l /\ p = l[1]
    <3> HIDE DEF l
    <3>1. l # <<>> /\ p = Head(l)
      BY <1>5 DEF l
    <3> QED BY <1>1, <3>1, TailKept
  <2>3. \A n : Occurrences(l, n) = Occurrences(t, n) + One(p.n = n)
    <3> HIDE DEF l
    <3>1. l # <<>> /\ p = Head(l)
      BY <1>5 DEF l
    <3> QED BY <1>1, <3>1, InTail
  <2> HIDE DEF t
  <2>4. \A n : Occurrences(t, n) \in Nat
    BY <2>2, PlacesFinite
  <2>5. \A m \in DOMAIN t : t[m].n <= Len(injected) /\ t[m].kind = injected[t[m].n]
    BY <1>2, <2>2
  <2>6. KindsOK'
    BY <1>3, <2>1, <2>5 DEF KindsOK
  <2> HIDE DEF l, q
  <2>7. ASSUME NEW n PROVE InUplink(n) = InUplink(n)' + One(p.n = n) /\ InUplink(n)' \in Nat
    <3>1. InUplink(n) = Occurrences(l, n) + Occurrences(q, n)
          /\ InUplink(n)' = Occurrences(t, n) + Occurrences(q, n)
      BY <2>1 DEF InUplink, l, q
    <3>2. One(p.n = n) \in Nat
      BY DEF One
    <3>3. Occurrences(l, n) = Occurrences(t, n) + One(p.n = n)
      BY <2>3
    <3> QED BY <1>4, <2>4, <3>1, <3>2, <3>3
  <2> QED BY <1>2, <2>2, <2>6, <2>7
<1>6. CASE /\ uplink.queue # <<>> /\ p = Head(uplink.queue)
           /\ uplink' = [uplink EXCEPT !.queue = Tail(@)]
  <2> DEFINE t == Tail(q)
  <2>1. uplink'.queue = t /\ uplink'.latency = l
    BY <1>1, <1>6
  <2>2. /\ t \in Seq(Packet) /\ \A m \in DOMAIN t : \E k \in DOMAIN q : t[m] = q[k]
        /\ 1 \in DOMAIN q /\ p = q[1]
    <3> HIDE DEF q
    <3>1. q # <<>> /\ p = Head(q)
      BY <1>6 DEF q
    <3> QED BY <1>1, <3>1, TailKept
  <2>3. \A n : Occurrences(q, n) = Occurrences(t, n) + One(p.n = n)
    <3> HIDE DEF q
    <3>1. q # <<>> /\ p = Head(q)
      BY <1>6 DEF q
    <3> QED BY <1>1, <3>1, InTail
  <2> HIDE DEF t
  <2>4. \A n : Occurrences(t, n) \in Nat
    BY <2>2, PlacesFinite
  <2>5. \A m \in DOMAIN t : t[m].n <= Len(injected) /\ t[m].kind = injected[t[m].n]
    BY <1>3, <2>2
  <2>6. KindsOK'
    BY <1>2, <2>1, <2>5 DEF KindsOK
  <2> HIDE DEF l, q
  <2>7. ASSUME NEW n PROVE InUplink(n) = InUplink(n)' + One(p.n = n) /\ InUplink(n)' \in Nat
    <3>1. InUplink(n) = Occurrences(l, n) + Occurrences(q, n)
          /\ InUplink(n)' = Occurrences(l, n) + Occurrences(t, n)
      BY <2>1 DEF InUplink, l, q
    <3>2. One(p.n = n) \in Nat
      BY DEF One
    <3>3. Occurrences(q, n) = Occurrences(t, n) + One(p.n = n)
      BY <2>3
    <3> QED BY <1>4, <2>4, <3>1, <3>2, <3>3
  <2> QED BY <1>3, <2>2, <2>6, <2>7
<1> QED BY <1>5, <1>6

\* dispatch_now sends a packet on its way once, twice for the kinds that are
\* given a spare.
LEMMA TakeCopies ==
    ASSUME Typed, Typed', CopiesOK, ReaderTake
    PROVE  CopiesOK'
<1>1. PICK p \in Packet :
         /\ ~search[Reader].on /\ spare = <<>>
         /\ \/ /\ uplink.latency # <<>> /\ p = Head(uplink.latency)
               /\ uplink' = [uplink EXCEPT !.latency = Tail(@)]
            \/ /\ uplink.queue # <<>> /\ p = Head(uplink.queue)
               /\ uplink' = [uplink EXCEPT !.queue = Tail(@)]
         /\ \/ UNCHANGED <<search, spare>>
            \/ \E y : /\ search' = [search EXCEPT ![Reader] = y] /\ y.on /\ y.pkt = p
                      /\ \/ spare' = <<>>
                         \/ WantsSpare(p.kind) /\ \E slot : spare' = <<[pkt |-> p, slot |-> slot]>>
         /\ UNCHANGED <<chan, sent, injected>>
  <2>1. ASSUME NEW p, NEW ws, NEW slot
        PROVE  StartSearch(p, ws, slot, TRUE).on /\ StartSearch(p, ws, slot, TRUE).pkt = p
    BY DEF StartSearch
  <2>2. PICK p \in Packet, c \in Class, s \in Works :
              /\ ~search[Reader].on /\ spare = <<>>
              /\ \/ /\ uplink.latency # <<>> /\ p = Head(uplink.latency)
                    /\ uplink' = [uplink EXCEPT !.latency = Tail(@)]
                 \/ /\ uplink.queue # <<>> /\ p = Head(uplink.queue)
                    /\ uplink' = [uplink EXCEPT !.queue = Tail(@)]
              /\ \/ UNCHANGED <<search, spare>>
                 \/ /\ search' = [search EXCEPT ![Reader] =
                                      StartSearch(p, s.workers, s.current[c], TRUE)]
                    /\ \/ spare' = <<>>
                       \/ /\ WantsSpare(p.kind)
                          /\ spare' = <<[pkt |-> p,
                                         slot |-> (s.current[c] + s.count \div 2) % s.count]>>
              /\ UNCHANGED <<chan, sent, injected>>
    BY TakeParts, ZenonT(40)
  <2> DEFINE y == StartSearch(p, s.workers, s.current[c], TRUE)
             k == (s.current[c] + s.count \div 2) % s.count
  <2>3. y.on /\ y.pkt = p
    BY DEF StartSearch
  <2>4. \/ UNCHANGED <<search, spare>>
        \/ /\ search' = [search EXCEPT ![Reader] = y]
           /\ spare' = <<>> \/ (WantsSpare(p.kind) /\ spare' = <<[pkt |-> p, slot |-> k]>>)
    BY <2>2
  <2> HIDE DEF y, k
  <2> QED BY <2>2, <2>3, <2>4
<1>2. KindsOK /\ SearchOK
  BY DEF CopiesOK, Typed
<1>3. /\ KindsOK' /\ p.n <= Len(injected) /\ p.kind = injected[p.n]
      /\ \A n : InUplink(n) = InUplink(n)' + One(p.n = n) /\ InUplink(n)' \in Nat
  BY <1>1, <1>2, TakenFromBridge
<1>4. ASSUME NEW n \in 1 .. MaxPackets PROVE SlotsFinite(n)' /\ Copies(n)' <= Limit(n)'
  <2>1. SlotsFinite(n) /\ Copies(n) <= Limit(n)
    BY DEF CopiesOK
  <2>2. SlotsFinite(n)' /\ InChannels(n)' = InChannels(n) /\ sent' = sent
    BY <1>1, <2>1 DEF SlotsFinite, InChannels, WorkerQueues, Stolen
  <2>3. /\ sent[n] \in Nat /\ InChannels(n) \in Nat /\ InUplink(n) \in Nat
        /\ Cardinality(Held(n)) \in Nat
    BY <2>1, CopyTypes
  <2>4. SpareCopy(n) = 0
    BY <1>1 DEF SpareCopy, One
  <2> DEFINE h == Cardinality(Held(n)')
             v == SpareCopy(n)'
             b == Cardinality(Held(n))
             z == One(p.n = n)
  <2>5. /\ h \in Nat /\ v \in Nat /\ v <= z /\ z \in {0, 1} /\ h <= b + z
        /\ v # 0 => WantsSpare(p.kind)
    <3>1. z \in {0, 1}
      BY DEF One
    <3>2. CASE UNCHANGED <<search, spare>>
      <4>1. h = b /\ v = 0
        BY <2>4, <3>2 DEF Held, SpareCopy
      <4> HIDE DEF h, v, b, z
      <4> QED BY <2>3, <3>1, <4>1 DEF b
    <3>3. CASE ~(UNCHANGED <<search, spare>>)
      <4>1. PICK y : /\ search' = [search EXCEPT ![Reader] = y] /\ y.on /\ y.pkt = p
                     /\ \/ spare' = <<>>
                        \/ WantsSpare(p.kind) /\ \E slot : spare' = <<[pkt |-> p, slot |-> slot]>>
        BY <1>1, <3>3
      <4>2. h \in Nat /\ h + One(Holds(search[Reader], n)) = b + One(Holds(y, n))
        BY <1>2, <4>1, IncFinite, SearchReplaced
      <4>3. One(Holds(search[Reader], n)) = 0 /\ One(Holds(y, n)) = z
        BY <1>1, <4>1 DEF One, Holds
      <4>4. CASE spare' = <<>>
        <5>1. v = 0
          BY <4>4 DEF SpareCopy, One
        <5> HIDE DEF h, v, b, z
        <5> QED BY <2>3, <3>1, <4>2, <4>3, <5>1 DEF b
      <4>5. CASE WantsSpare(p.kind) /\ \E slot : spare' = <<[pkt |-> p, slot |-> slot]>>
        <5>1. v = z
          BY <4>5 DEF SpareCopy, One
        <5> HIDE DEF h, v, b, z
        <5> QED BY <2>3, <3>1, <4>2, <4>3, <4>5, <5>1 DEF b
      <4> QED BY <4>1, <4>4, <4>5
    <3> QED BY <3>2, <3>3
  <2>6. /\ InUplink(n) = InUplink(n)' + z /\ InUplink(n)' \in Nat
    BY <1>3
  <2>7. /\ Copies(n) = sent[n] + InChannels(n) + b + 0 + InUplink(n)
        /\ Copies(n)' = sent[n] + InChannels(n) + h + v + InUplink(n)'
    BY <2>2, <2>4 DEF Copies, Afloat
  <2>8. CASE p.n # n
    <3>1. z = 0
      BY <2>8 DEF One
    <3> HIDE DEF h, v, b, z
    <3>2. InUplink(n)' = InUplink(n) /\ v = 0 /\ h <= b
      BY <2>3, <2>5, <2>6, <3>1 DEF b
    <3>3. Limit(n)' = Limit(n) /\ Limit(n) \in Nat
      BY <1>1, <3>2 DEF Limit
    <3> QED BY <2>1, <2>2, <2>3, <2>5, <2>7, <3>2, <3>3 DEF b
  <2>9. CASE p.n = n
    <3>1. z = 1
      BY <2>9 DEF One
    <3> HIDE DEF h, v, b, z
    <3>2. InUplink(n) # 0 /\ Limit(n) <= 1 /\ Limit(n) \in Nat
      <4>1. InUplink(n) # 0
        BY <2>6, <3>1
      <4> QED BY <4>1 DEF Limit
    <3>3. sent[n] + InChannels(n) + b = 0 /\ InUplink(n)' = 0
      <4> DEFINE u == InUplink(n)'
                 w == InUplink(n)
                 s == sent[n]
                 i == InChannels(n)
      <4>1. /\ s \in Nat /\ i \in Nat /\ w \in Nat /\ b \in Nat /\ u \in Nat
            /\ w = u + 1 /\ s + i + b + 0 + w <= 1
        <5>1. Copies(n) <= 1
          <6>1. Copies(n) \in Nat
            BY <2>3, <2>7 DEF b
          <6> QED BY <2>1, <3>2, <6>1
        <5> QED BY <2>3, <2>6, <2>7, <3>1, <5>1 DEF b
      <4> HIDE DEF u, w, s, i
      <4>2. s + i + b = 0 /\ u = 0
        BY <4>1
      <4> QED BY <4>2 DEF u, s, i
    <3>4. Copies(n)' <= 1 + v
      BY <2>3, <2>5, <2>7, <3>1, <3>3 DEF b
    <3>5. injected' = injected /\ ~(n > Len(injected)) /\ injected[n] = p.kind
      <4>1. Len(injected) \in Nat /\ p.n \in Nat
        BY DEF Typed, CountsOK, Packet
      <4> QED BY <1>1, <1>3, <2>9, <4>1
    <3>6. Limit(n)' = IF p.kind \in {"dns", "quic1", "quic2"} THEN 2 ELSE 1
      BY <3>3, <3>5 DEF Limit
    <3>7. v # 0 => p.kind \in {"dns", "quic1", "quic2"}
      BY <2>5 DEF WantsSpare, should_duplicate, is_quic_initial_sized
    <3>8. v \in {0, 1}
      BY <2>5, <3>1
    <3>9. Copies(n)' \in Nat
      BY <2>2, <2>3, <2>5, <2>6, <2>7
    <3> QED BY <2>2, <3>4, <3>6, <3>7, <3>8, <3>9
  <2> QED BY <2>8, <2>9
<1> QED BY <1>3, <1>4 DEF CopiesOK

\* A packet that may push the oldest out of a bridge queue.
LEMMA Enqueued ==
    ASSUME NEW l \in Seq(Packet), NEW p \in Packet,
           NEW r, r = l \/ r = Append(l, p) \/ (l # <<>> /\ r = Append(Tail(l), p))
    PROVE  /\ r \in Seq(Packet)
           /\ \A n : Occurrences(r, n) <= Occurrences(l, n) + One(p.n = n)
           /\ \A n : Occurrences(r, n) \in Nat
           /\ \A m \in DOMAIN r : r[m] = p \/ \E k \in DOMAIN l : r[m] = l[k]
<1>1. \A n : One(p.n = n) \in Nat /\ Occurrences(l, n) \in Nat
  BY PlacesFinite DEF One
<1>2. ASSUME NEW g \in Seq(Packet), r = Append(g, p),
             \A n : Occurrences(g, n) <= Occurrences(l, n),
             \A m \in DOMAIN g : \E k \in DOMAIN l : g[m] = l[k]
      PROVE  /\ r \in Seq(Packet)
             /\ \A n : Occurrences(r, n) <= Occurrences(l, n) + One(p.n = n)
             /\ \A n : Occurrences(r, n) \in Nat
             /\ \A m \in DOMAIN r : r[m] = p \/ \E k \in DOMAIN l : r[m] = l[k]
  <2>1. r \in Seq(Packet)
    BY <1>2, AppendOK
  <2>2. ASSUME NEW n PROVE Occurrences(r, n) <= Occurrences(l, n) + One(p.n = n)
    <3>1. Occurrences(r, n) = Occurrences(g, n) + One(p.n = n)
      BY <1>2, InAppended
    <3>2. Occurrences(g, n) <= Occurrences(l, n) /\ Occurrences(g, n) \in Nat
      BY <1>2, PlacesFinite
    <3> QED BY <1>1, <3>1, <3>2
  <2>3. \A m \in DOMAIN r : r[m] = p \/ (m \in DOMAIN g /\ r[m] = g[m])
    BY <1>2
  <2>4. \A n : Occurrences(r, n) \in Nat
    BY <2>1, PlacesFinite
  <2> QED BY <1>2, <2>1, <2>2, <2>3, <2>4
<1>3. CASE r = l
  BY <1>1, <1>3
<1>4. CASE r = Append(l, p)
  <2>1. \A n : Occurrences(l, n) <= Occurrences(l, n)
    BY <1>1
  <2> QED BY <1>2, <1>4, <2>1
<1>5. CASE l # <<>> /\ r = Append(Tail(l), p)
  <2> DEFINE g == Tail(l)
  <2>1. g \in Seq(Packet) /\ \A m \in DOMAIN g : \E k \in DOMAIN l : g[m] = l[k]
    BY <1>5, TailKept
  <2>2. ASSUME NEW n PROVE Occurrences(g, n) <= Occurrences(l, n)
    <3>1. Occurrences(l, n) = Occurrences(g, n) + One(Head(l).n = n)
      BY <1>5, InTail
    <3>2. Occurrences(g, n) \in Nat /\ One(Head(l).n = n) \in Nat
      BY <2>1, PlacesFinite DEF One
    <3> QED BY <3>1, <3>2
  <2>3. r = Append(g, p)
    BY <1>5
  <2> HIDE DEF g
  <2> QED BY <1>2, <2>1, <2>2, <2>3
<1> QED BY <1>3, <1>4, <1>5

\* enqueue_uplink changes one of the two queues of the bridge.
LEMMA InjectParts ==
    ASSUME Typed, NEW k \in Kind, Inject(k), NEW p, p = [n |-> Len(injected) + 1, kind |-> k]
    PROVE  LET l == uplink.latency
               q == uplink.queue
               r == uplink'.latency
               t == uplink'.queue
           IN  /\ p \in Packet /\ l \in Seq(Packet) /\ q \in Seq(Packet)
               /\ r = l \/ r = Append(l, p) \/ (l # <<>> /\ r = Append(Tail(l), p))
               /\ t = q \/ t = Append(q, p)
               /\ r = l \/ t = q
<1> DEFINE l == uplink.latency
           q == uplink.queue
           l2 == Append(IF Len(l) = LatencyCap THEN Tail(l) ELSE l, p)
           q2 == IF Len(q) = UplinkCap THEN q ELSE Append(q, p)
<1>1. /\ injected \in Seq(Kind) /\ Len(injected) < MaxPackets /\ Len(injected) \in Nat
      /\ MaxPackets \in Nat /\ uplink' \in {uplink, enqueue_uplink(p)}
  BY ConstantsAssumption DEF Inject, Typed, CountsOK
<1>2. p \in Packet
  BY <1>1 DEF Packet
<1>3. /\ l \in Seq(Packet) /\ q \in Seq(Packet) /\ LatencyCap \in Nat \ {0}
      /\ uplink \in [latency : Seq(Packet), queue : Seq(Packet)]
  BY ConstantsAssumption DEF Typed, UplinkOK
<1>4. enqueue_uplink(p) \in {[uplink EXCEPT !.latency = l2], [uplink EXCEPT !.queue = q2]}
  BY DEF enqueue_uplink
<1>5. l2 = Append(l, p) \/ (l # <<>> /\ l2 = Append(Tail(l), p))
  <2>1. CASE Len(l) = LatencyCap
    <3>1. l # <<>>
      BY <1>3, <2>1
    <3>2. l2 = Append(Tail(l), p)
      BY <2>1
    <3> QED BY <3>1, <3>2
  <2>2. CASE Len(l) # LatencyCap
    <3>1. l2 = Append(l, p)
      BY <2>2
    <3> QED BY <3>1
  <2> QED BY <2>1, <2>2
<1>6. q2 = q \/ q2 = Append(q, p)
  OBVIOUS
<1> HIDE DEF l2, q2
<1>7. CASE uplink' = uplink
  BY <1>2, <1>3, <1>7
<1>8. CASE uplink' = [uplink EXCEPT !.latency = l2]
  <2>1. uplink'.latency = l2 /\ uplink'.queue = q
    BY <1>3, <1>8
  <2> QED BY <1>2, <1>3, <1>5, <2>1
<1>9. CASE uplink' = [uplink EXCEPT !.queue = q2]
  <2>1. uplink'.latency = l /\ uplink'.queue = q2
    BY <1>3, <1>9
  <2> QED BY <1>2, <1>3, <1>6, <2>1
<1> QED BY <1>1, <1>4, <1>7, <1>8, <1>9

\* inject_packet: the first copy of a packet.
LEMMA InjectCopies ==
    ASSUME Typed, CopiesOK, NEW k \in Kind, Inject(k)
    PROVE  CopiesOK'
<1>1. PICK p : p = [n |-> Len(injected) + 1, kind |-> k]
  OBVIOUS
<1> DEFINE N == Len(injected) + 1
           l == uplink.latency
           q == uplink.queue
           r == uplink'.latency
           t == uplink'.queue
<1>2. /\ p \in Packet /\ l \in Seq(Packet) /\ q \in Seq(Packet)
      /\ r = l \/ r = Append(l, p) \/ (l # <<>> /\ r = Append(Tail(l), p))
      /\ t = q \/ t = Append(q, p)
      /\ r = l \/ t = q
  BY <1>1, InjectParts
<1>3. p.n = N /\ p.kind = k
  BY <1>1
<1>4. /\ injected \in Seq(Kind) /\ Len(injected) \in Nat /\ N \in 1 .. MaxPackets
      /\ injected' = Append(injected, k) /\ Len(injected') = N /\ injected'[N] = k
      /\ \A m \in 1 .. Len(injected) : injected'[m] = injected[m]
  BY ConstantsAssumption DEF Inject, Typed, CountsOK
<1>5. UNCHANGED <<chan, search, spare, sent>>
  BY DEF Inject
<1> HIDE DEF N, l, q, r, t
<1>6. /\ \A n : Occurrences(r, n) <= Occurrences(l, n) + One(N = n)
      /\ \A n : Occurrences(r, n) \in Nat
      /\ \A m \in DOMAIN r : r[m] = p \/ \E j \in DOMAIN l : r[m] = l[j]
  <2>1. /\ \A n : Occurrences(r, n) <= Occurrences(l, n) + One(p.n = n)
        /\ \A n : Occurrences(r, n) \in Nat
        /\ \A m \in DOMAIN r : r[m] = p \/ \E j \in DOMAIN l : r[m] = l[j]
    BY <1>2, Enqueued
  <2> QED BY <1>3, <2>1
<1>7. /\ \A n : Occurrences(t, n) <= Occurrences(q, n) + One(N = n)
      /\ \A n : Occurrences(t, n) \in Nat
      /\ \A m \in DOMAIN t : t[m] = p \/ \E j \in DOMAIN q : t[m] = q[j]
  <2>1. /\ \A n : Occurrences(t, n) <= Occurrences(q, n) + One(p.n = n)
        /\ \A n : Occurrences(t, n) \in Nat
        /\ \A m \in DOMAIN t : t[m] = p \/ \E j \in DOMAIN q : t[m] = q[j]
    BY <1>2, Enqueued
  <2> QED BY <1>3, <2>1
<1>8. \A n : Occurrences(l, n) \in Nat /\ Occurrences(q, n) \in Nat
  BY <1>2, PlacesFinite
<1>9. KindsOK'
  <2>1. ASSUME NEW u \in Packet, u.n <= Len(injected), u.kind = injected[u.n]
        PROVE  u.n <= Len(injected') /\ u.kind = injected'[u.n]
    <3>1. u.n \in Nat /\ u.n >= 1
      BY DEF Packet
    <3> QED BY <1>4, <2>1, <3>1 DEF N
  <2>2. p.n <= Len(injected') /\ p.kind = injected'[p.n]
    BY <1>3, <1>4
  <2>3. ASSUME NEW m \in DOMAIN r PROVE r[m].n <= Len(injected') /\ r[m].kind = injected'[r[m].n]
    <3>1. CASE \E j \in DOMAIN l : r[m] = l[j]
      <4>1. PICK j \in DOMAIN l : r[m] = l[j]
        BY <3>1
      <4>2. l[j] \in Packet /\ l[j].n <= Len(injected) /\ l[j].kind = injected[l[j].n]
        BY <1>2 DEF CopiesOK, KindsOK, l
      <4> QED BY <2>1, <4>1, <4>2
    <3> QED BY <1>6, <2>2, <3>1
  <2>4. ASSUME NEW m \in DOMAIN t PROVE t[m].n <= Len(injected') /\ t[m].kind = injected'[t[m].n]
    <3>1. CASE \E j \in DOMAIN q : t[m] = q[j]
      <4>1. PICK j \in DOMAIN q : t[m] = q[j]
        BY <3>1
      <4>2. q[j] \in Packet /\ q[j].n <= Len(injected) /\ q[j].kind = injected[q[j].n]
        BY <1>2 DEF CopiesOK, KindsOK, q
      <4> QED BY <2>1, <4>1, <4>2
    <3> QED BY <1>7, <2>2, <3>1
  <2> QED BY <2>3, <2>4 DEF KindsOK, r, t
<1>10. ASSUME NEW n \in 1 .. MaxPackets PROVE SlotsFinite(n)' /\ Copies(n)' <= Limit(n)'
  <2>1. SlotsFinite(n) /\ Copies(n) <= Limit(n)
    BY DEF CopiesOK
  <2>2. SlotsFinite(n)' /\ Afloat(n)' = Afloat(n)
    BY <1>5, <2>1 DEF SlotsFinite, Afloat, InChannels, WorkerQueues, Stolen, Held, SpareCopy
  <2>3. Afloat(n) \in Nat /\ InUplink(n) \in Nat
    BY <2>1, CopyTypes
  <2> DEFINE u == InUplink(n)'
             w == InUplink(n)
             s == Afloat(n)
  <2>4. u \in Nat /\ u <= w + One(N = n)
    <3>1. u = Occurrences(r, n) + Occurrences(t, n) /\ w = Occurrences(l, n) + Occurrences(q, n)
      BY DEF InUplink, l, q, r, t
    <3> HIDE DEF u, w
    <3>2. One(N = n) \in Nat
      BY DEF One
    <3>3. CASE r = l
      BY <1>7, <1>8, <3>1, <3>2, <3>3
    <3>4. CASE t = q
      BY <1>6, <1>8, <3>1, <3>2, <3>4
    <3> QED BY <1>2, <3>3, <3>4
  <2>5. Copies(n)' = s + u /\ Copies(n) = s + w
    BY <2>2 DEF Copies
  <2>6. CASE n = N
    <3>1. Limit(n) = 0 /\ One(N = n) = 1
      BY <1>4, <2>6 DEF Limit, One, N
    <3>2. Limit(n)' >= 1
      <4>1. ~(n > Len(injected'))
        BY <1>4, <2>6
      <4> QED BY <4>1 DEF Limit
    <3>3. s + w <= 0
      BY <2>1, <2>5, <3>1
    <3>4. Limit(n)' \in Nat
      BY DEF Limit
    <3> HIDE DEF u, w, s
    <3>5. s + u <= 1 /\ s + u \in Nat
      BY <2>3, <2>4, <3>1, <3>3 DEF s, w
    <3> QED BY <2>2, <2>5, <3>2, <3>4, <3>5
  <2>7. CASE n # N
    <3>1. One(N = n) = 0
      BY <2>7 DEF One
    <3>2. u <= w
      <4> HIDE DEF u, w
      <4> QED BY <2>3, <2>4, <3>1 DEF w
    <3>3. Limit(n) <= Limit(n)' /\ Limit(n) \in Nat /\ Limit(n)' \in Nat
      <4>1. CASE n > Len(injected)
        BY <4>1 DEF Limit
      <4>2. CASE ~(n > Len(injected))
        <5>1. ~(n > Len(injected')) /\ injected'[n] = injected[n]
          BY <1>4, <4>2 DEF N
        <5>2. w = 0 => u = 0
          <6> HIDE DEF u, w
          <6> QED BY <2>3, <2>4, <3>2
        <5> QED BY <4>2, <5>1, <5>2 DEF Limit
      <4> QED BY <4>1, <4>2
    <3>4. s + w <= Limit(n)
      BY <2>1, <2>5
    <3> HIDE DEF u, w, s
    <3>5. s + u <= Limit(n)'
      BY <2>3, <2>4, <3>2, <3>3, <3>4 DEF s, w
    <3> QED BY <2>2, <2>5, <3>5
  <2> QED BY <2>6, <2>7
<1> QED BY <1>9, <1>10 DEF CopiesOK

\* Every step keeps the bound on the copies.
LEMMA CopiesStep ==
    ASSUME Typed, CopiesOK, [Next]_vars
    PROVE  CopiesOK'
<1>1. Typed'
  BY TypedStep
<1>2. CASE \E id \in Id : StartSession(id)
  BY <1>1, <1>2, StartCopies
<1>3. CASE \E k \in Kind : Inject(k)
  BY <1>3, InjectCopies
<1>4. ASSUME NEW a \in Actor, SearchStep(a) PROVE CopiesOK'
  BY <1>1, <1>4, LookCopies, PushCopies DEF SearchStep
<1>5. CASE ReaderStep
  BY <1>1, <1>4, <1>5, TakeCopies, SpareCopies, IncFinite DEF ReaderStep
<1>6. ASSUME NEW i \in Inc, WriterSends(i) \/ WriterFails(i) \/ MarkUnhealthy(i) \/ Teardown(i)
      PROVE  CopiesOK'
  <2>1. i \in Actor
    BY IncFinite
  <2>2. CASE Teardown(i)
    BY <1>1, <1>4, <2>1, <2>2, StopCopies, RedispatchCopies, EndCopies DEF Teardown
  <2> QED BY <1>1, <1>6, <2>2, WriterCopies, EndCopies
<1>7. CASE UNCHANGED vars
  <2>1. UNCHANGED <<chan, uplink, search, spare, sent, injected>>
    BY <1>7 DEF vars
  <2>2. ASSUME NEW n \in 1 .. MaxPackets PROVE SlotsFinite(n)' /\ Afloat(n)' <= Afloat(n)
    <3>1. SlotsFinite(n)
      BY DEF CopiesOK
    <3>2. SlotsFinite(n)' /\ Afloat(n)' = Afloat(n)
      BY <2>1, <3>1 DEF SlotsFinite, Afloat, InChannels, WorkerQueues, Stolen, Held, SpareCopy
    <3> QED BY <3>1, <3>2, CopyTypes
  <2> QED BY <1>1, <2>1, <2>2, Conserved
<1> QED BY <1>2, <1>3, <1>5, <1>6, <1>7 DEF Next

\* Nothing has been sent, queued or injected at first.
LEMMA CopiesInit ==
    ASSUME Init
    PROVE  CopiesOK
<1>1. Typed
  BY InitTyped
<1>2. \A i \in Inc : chan[i].drained = <<>> /\ \A c \in Class : chan[i].q[c] = <<>>
  <2> DEFINE x == CHOOSE id \in Id : TRUE
             fresh == NewChannels(x)
  <2>1. fresh \in Session /\ fresh.drained = <<>> /\ \A c \in Class : fresh.q[c] = <<>>
    BY WorkerIds, NewChannelsOK DEF NewChannels
  <2>2. chan = [i \in Inc |->
                   [fresh EXCEPT !.healthy = FALSE, !.open = FALSE, !.stage = "none"]]
    BY Zenon DEF Init, InitialChannels
  <2> HIDE DEF fresh
  <2> QED BY <2>1, <2>2 DEF Session
<1>3. \A n : Places(<<>>, n) = {}
  BY DEF Places
<1>4. ASSUME NEW n PROVE Slots(WorkerQueues, n) = {} /\ Slots(Stolen, n) = {}
  <2>1. \A x \in Inc \X Class : WorkerQueues[x] = <<>>
    BY <1>2 DEF WorkerQueues
  <2>2. \A i \in Inc : Stolen[i] = <<>>
    BY <1>2 DEF Stolen
  <2>3. DOMAIN WorkerQueues = Inc \X Class /\ DOMAIN Stolen = Inc
    BY DEF WorkerQueues, Stolen
  <2> QED BY <1>3, <2>1, <2>2, <2>3 DEF Slots
<1>5. KindsOK
  <2>1. uplink.latency = <<>> /\ uplink.queue = <<>>
    BY DEF Init
  <2> QED BY <2>1 DEF KindsOK
<1>6. ASSUME NEW n \in 1 .. MaxPackets PROVE SlotsFinite(n) /\ Copies(n) <= Limit(n)
  <2>1. SlotsFinite(n) /\ InChannels(n) = 0
    BY <1>4, FS_EmptySet DEF SlotsFinite, InChannels
  <2>2. sent[n] = 0 /\ SpareCopy(n) = 0
    BY DEF Init, SpareCopy, One
  <2>3. Cardinality(Held(n)) = 0
    <3>1. Held(n) = {}
      BY DEF Init, Held, Holds, Idle
    <3> QED BY <3>1, FS_EmptySet
  <2>4. InUplink(n) = 0
    <3>1. uplink.latency = <<>> /\ uplink.queue = <<>>
      BY DEF Init
    <3> QED BY <3>1, NoneInEmpty DEF InUplink
  <2>5. Limit(n) = 0
    BY DEF Limit, Init
  <2> QED BY <2>1, <2>2, <2>3, <2>4, <2>5 DEF Copies, Afloat
<1> QED BY <1>5, <1>6 DEF CopiesOK

\* What the property counts is counted by Copies.
LEMMA CopiesSuffice ==
    ASSUME Typed, CopiesOK
    PROVE  NoDuplicates
<1>1. ASSUME NEW n \in DOMAIN injected
      PROVE  sent[n] + CopiesQueued(n) + CopiesInSessions(n)
                <= IF injected[n] \in {"dns", "quic1", "quic2"} THEN 2 ELSE 1
  <2>1. n \in 1 .. MaxPackets /\ ~(n > Len(injected))
    BY ConstantsAssumption DEF Typed, CountsOK
  <2>2. SlotsFinite(n) /\ Copies(n) <= Limit(n)
    BY <2>1 DEF CopiesOK
  <2>3. Limit(n) <= IF injected[n] \in {"dns", "quic1", "quic2"} THEN 2 ELSE 1
    BY <2>1 DEF Limit
  <2> DEFINE S == {t \in QueueCopies : chan[t[1]].q[t[2]][t[3]].n = n}
             T == Slots(WorkerQueues, n)
             H == {a \in Actor : search[a].on /\ search[a].pkt.n = n}
             M == {m \in DOMAIN spare : spare[m].pkt.n = n}
  <2>4. IsFiniteSet(T) /\ Cardinality(S) <= Cardinality(T) /\ Cardinality(S) \in Nat
        /\ Cardinality(T) \in Nat
    <3> DEFINE f == [t \in S |-> <<<<t[1], t[2]>>, t[3]>>]
    <3>1. IsFiniteSet(T)
      BY <2>2 DEF SlotsFinite
    <3>2. ASSUME NEW t \in S
          PROVE  \E i \in Inc, c \in Class : \E m \in 1 .. Queued(i, c) :
                    t = <<i, c, m>> /\ chan[i].q[c][m].n = n
      <4>1. t \in QueueCopies /\ chan[t[1]].q[t[2]][t[3]].n = n
        OBVIOUS
      <4>2. PICK i \in Inc, c \in Class : \E m \in 1 .. Queued(i, c) : t = <<i, c, m>>
        BY <4>1 DEF QueueCopies
      <4>3. PICK m \in 1 .. Queued(i, c) : t = <<i, c, m>>
        BY <4>2
      <4> QED BY <4>1, <4>3
    <3>3. ASSUME NEW t \in S PROVE f[t] \in T
      <4>1. PICK i \in Inc, c \in Class : \E m \in 1 .. Queued(i, c) :
                    t = <<i, c, m>> /\ chan[i].q[c][m].n = n
        BY <3>2
      <4>2. PICK m \in 1 .. Queued(i, c) : t = <<i, c, m>> /\ chan[i].q[c][m].n = n
        BY <4>1
      <4> DEFINE x == <<i, c>>
      <4>3. x \in DOMAIN WorkerQueues /\ WorkerQueues[x] = chan[i].q[c]
        BY DEF WorkerQueues
      <4>4. chan[i].q[c] \in Seq(Packet)
        BY DEF Typed, SessionsOK, Session
      <4>5. m \in Places(WorkerQueues[x], n)
        BY <4>2, <4>3, <4>4, SMTT(30) DEF Places, Queued
      <4>6. f[t] = <<x, m>>
        BY <4>2, Zenon
      <4> HIDE DEF f, x
      <4> QED BY <4>3, <4>5, <4>6, SlotIs
    <3>4. ASSUME NEW t \in S, NEW u \in S, f[t] = f[u] PROVE t = u
      <4>1. \E i, c, m : t = <<i, c, m>>
        BY <3>2
      <4>2. \E i, c, m : u = <<i, c, m>>
        BY <3>2, SMTT(30)
      <4>3. /\ f[t] = <<<<t[1], t[2]>>, t[3]>>
            /\ f[u] = <<<<u[1], u[2]>>, u[3]>>
        BY ZenonT(40)
      <4>4. t[1] = u[1] /\ t[2] = u[2] /\ t[3] = u[3]
        BY <3>4, <4>3, ZenonT(40)
      <4> QED BY <4>1, <4>2, <4>4
    <3>5. f \in [S -> T]
      BY <3>3
    <3> HIDE DEF f, S, T
    <3>6. f \in Injection(S, T)
      BY <3>4, <3>5 DEF Injection, IsInjective
    <3>7. IsFiniteSet(S) /\ Cardinality(S) <= Cardinality(T)
      BY <3>1, <3>6, FS_Injection
    <3> QED BY <3>1, <3>7, FS_CardinalityType
  <2>5. H = Held(n)
    BY DEF Held, Holds
  <2>6. Cardinality(M) = SpareCopy(n)
    <3>1. CASE spare = <<>>
      <4>1. M = {} /\ SpareCopy(n) = 0
        BY <3>1 DEF SpareCopy, One
      <4> HIDE DEF M
      <4> QED BY <4>1, FS_EmptySet
    <3>2. CASE \E t \in Ticket : spare = <<t>>
      <4>1. PICK t \in Ticket : spare = <<t>>
        BY <3>2
      <4>2. SpareCopy(n) = One(t.pkt.n = n)
        BY <4>1 DEF SpareCopy
      <4>3. M = IF t.pkt.n = n THEN {1} ELSE {}
        BY <4>1
      <4> HIDE DEF M
      <4> QED BY <4>2, <4>3, FS_EmptySet, FS_Singleton DEF One
    <3> QED BY <3>1, <3>2 DEF Typed, SpareOK
  <2>7. CopiesInSessions(n) = Cardinality(Slots(Stolen, n))
    <3>1. DOMAIN Stolen = Inc /\ \A i \in Inc : Stolen[i] = chan[i].drained
      BY DEF Stolen
    <3>2. Slots(Stolen, n) = UNION {{<<i, m>> : m \in Places(Stolen[i], n)} : i \in Inc}
      BY <3>1 DEF Slots
    <3>3. UNION {{<<i, m>> : m \in Places(Stolen[i], n)} : i \in Inc}
            = UNION {{<<i, m>> : m \in {l \in DOMAIN chan[i].drained : chan[i].drained[l].n = n}}
                     : i \in Inc}
      BY <3>1 DEF Places
    <3> QED BY <3>2, <3>3 DEF CopiesInSessions
  <2>8. CopiesQueued(n) = Cardinality(S) + Occurrences(uplink.latency, n)
           + Occurrences(uplink.queue, n) + Cardinality(H) + Cardinality(M)
    BY DEF CopiesQueued
  <2>9. /\ sent[n] \in Nat /\ Cardinality(Slots(Stolen, n)) \in Nat /\ SpareCopy(n) \in Nat
        /\ Cardinality(Held(n)) \in Nat
        /\ Occurrences(uplink.latency, n) \in Nat /\ Occurrences(uplink.queue, n) \in Nat
    <3>1. uplink.latency \in Seq(Packet) /\ uplink.queue \in Seq(Packet)
      BY DEF Typed, UplinkOK
    <3>2. Cardinality(Slots(Stolen, n)) \in Nat
      BY <2>2, FS_CardinalityType DEF SlotsFinite
    <3> QED BY <2>1, <2>2, <3>1, <3>2, CopyTypes, PlacesFinite
  <2> HIDE DEF S, T, H, M
  <2>10. sent[n] + CopiesQueued(n) + CopiesInSessions(n) <= Copies(n)
    <3>1. Copies(n) = sent[n] + (Cardinality(T) + Cardinality(Slots(Stolen, n)))
              + Cardinality(Held(n)) + SpareCopy(n)
              + (Occurrences(uplink.latency, n) + Occurrences(uplink.queue, n))
      BY DEF Copies, Afloat, InChannels, InUplink, T
    <3> QED BY <2>4, <2>5, <2>6, <2>7, <2>8, <2>9, <3>1
  <2>11. sent[n] + CopiesQueued(n) + CopiesInSessions(n) \in Nat /\ Copies(n) \in Nat
         /\ Limit(n) \in Nat
    <3>1. Copies(n) \in Nat
      BY <2>1, <2>2, CopyTypes DEF Copies
    <3>2. Limit(n) \in Nat
      BY DEF Limit
    <3> QED BY <2>4, <2>5, <2>6, <2>7, <2>8, <2>9, <3>1, <3>2
  <2> QED BY <2>2, <2>3, <2>10, <2>11
<1> QED BY <1>1 DEF NoDuplicates

\* However packets are striped, evicted, stolen and dispatched again, at most
\* one copy of each exists or has been sent, two for the kinds that udp_spare
\* and quic_initial_spare_allow duplicate, for any number of workers and packets.
THEOREM NoDuplicatesHolds == Spec => []NoDuplicates
<1>1. Init => CopiesOK
  BY CopiesInit
<1>2. Typed /\ CopiesOK /\ [Next]_vars => CopiesOK'
  BY CopiesStep
<1>3. Typed /\ CopiesOK => NoDuplicates
  BY CopiesSuffice
<1> QED BY <1>1, <1>2, <1>3, TypedHolds, PTL DEF Spec
=============================================================================
