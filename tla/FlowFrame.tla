------------------------------ MODULE FlowFrame ------------------------------
(***************************************************************************)
(* Per-flow framing of striped TCP traffic (shared/flow_frame.rs).         *)
(*                                                                         *)
(* A FlowSequencer numbers the packets of each TCP flow; the packets are   *)
(* striped over many TURN paths, which lose, duplicate and reorder them;   *)
(* the FlowReassembler of the receiving end (ReturnReorder in              *)
(* dispatcher.rs) restores the order, holding early packets back for at    *)
(* most GapReleaseAfter time units and within two memory limits.           *)
(*                                                                         *)
(* A packet's payload is abstracted to "val", its position in its flow;    *)
(* "seq" is the u32 the frame header carries for it.                       *)
(***************************************************************************)
EXTENDS Integers, Sequences, FiniteSets

CONSTANTS Flow,               \* TCP flow ids (tcp_flow_id)
          SeqMod,             \* 2^32: sequence numbers are 0..SeqMod-1
          MaxTrackedFlows,    \* MAX_TRACKED_FLOWS, sequencer and reassembler
          MaxPendingPerFlow,  \* MAX_PENDING_PER_FLOW
          MaxPendingTotal,    \* MAX_PENDING_TOTAL
          GapReleaseAfter,    \* GAP_RELEASE_AFTER_MS
          MaxSent,            \* bound: frames sent per flow and sender id
          MaxSender,          \* bound: sender ids used
          MaxTime             \* bound: clock

ASSUME ConstantsAssumption ==
    /\ SeqMod \in Nat \ {0, 1}
    /\ MaxTrackedFlows \in Nat \ {0}
    /\ MaxPendingPerFlow \in Nat \ {0}
    /\ MaxPendingTotal \in Nat \ {0}
    /\ GapReleaseAfter \in Nat
    /\ MaxSent \in Nat /\ MaxSender \in Nat \ {0} /\ MaxTime \in Nat

\* A flow sends fewer than 2^31 frames before its entry is replaced: a frame
\* is_forward takes for a late one really is late.
ASSUME NoWrapAssumption == 2 * MaxSent <= SeqMod

VARIABLES senderId,      \* FlowSequencer.sender_id
          sequences,     \* FlowSequencer.sequences: tracked flow -> next number
          net,           \* frames handed to the TURN paths
          flows,         \* FlowReassembler.flows: tracked key -> FlowState
          pendingTotal,  \* FlowReassembler.pending_total
          now            \* milliseconds since the reassembler started

vars == <<senderId, sequences, net, flows, pendingTotal, now>>

NoGap == -1              \* gap_started_ms = None
SeqNo == 0 .. SeqMod - 1
Key == (1 .. MaxSender) \X Flow
Frame == [key : Key, seq : SeqNo, val : Nat]
Pending == [seq : SeqNo, val : Nat]

-----------------------------------------------------------------------------
(* Arithmetic on u32 sequence numbers: wrapping_add, wrapping_sub.         *)

WrapAdd(s, k) == IF s + k >= SeqMod THEN s + k - SeqMod ELSE s + k

Distance(s, e) == IF s >= e THEN s - e ELSE s - e + SeqMod

IsForwardNoHalf(s, e) == s # e

IsForward(s, e) == s # e /\ Distance(s, e) < SeqMod \div 2

-----------------------------------------------------------------------------
(* One flow of the reassembler.  "released" is a history of the values     *)
(* moved to the output since the flow's entry was created.                 *)

NewFlowState == [expected |-> 0, gap |-> NoGap, pending |-> {}, released |-> <<>>]

Waiting(st, k) == \E p \in st.pending : p.seq = WrapAdd(st.expected, k)

\* The number of pending frames that follow on from the expected one.
RunLength(st) ==
    CHOOSE n \in SeqNo : ~Waiting(st, n) /\ \A k \in 0 .. n - 1 : Waiting(st, k)

ValueAt(st, k) == (CHOOSE p \in st.pending : p.seq = WrapAdd(st.expected, k)).val

DrainContiguous(st) ==
    LET n == RunLength(st)
    IN  [st EXCEPT
            !.expected = WrapAdd(@, n),
            !.pending = {p \in @ : \A k \in 0 .. n - 1 : p.seq # WrapAdd(st.expected, k)},
            !.released = @ \o [i \in 1 .. n |-> ValueAt(st, i - 1)]]

Forward(st) == {p \in st.pending : IsForward(p.seq, st.expected)}

Lowest(st) ==
    CHOOSE p \in Forward(st) :
        \A q \in Forward(st) : Distance(p.seq, st.expected) <= Distance(q.seq, st.expected)

\* Give up on the gap: release the lowest pending frame and what follows it.
ReleaseLowest(st) ==
    IF Forward(st) = {}
    THEN [st EXCEPT !.gap = NoGap]
    ELSE LET p == Lowest(st)
             r == DrainContiguous([st EXCEPT !.expected = WrapAdd(p.seq, 1),
                                             !.pending = @ \ {p},
                                             !.released = Append(@, p.val)])
         IN  [r EXCEPT !.gap = IF r.pending = {} THEN NoGap ELSE now]

ReleaseExpired(st) ==
    IF st.gap # NoGap /\ now - st.gap >= GapReleaseAfter THEN ReleaseLowest(st) ELSE st

\* pending_total after a release step that took st to st2 (saturating_sub).
Settle(total, st, st2) ==
    LET n == Cardinality(st.pending) - Cardinality(st2.pending)
    IN  IF n > total THEN 0 ELSE total - n

-----------------------------------------------------------------------------
(* FlowReassembler::push_at, on the flow's state and the shared counter.   *)

\* What push_at does with the frame the flow is waiting for.
PushExpected(st, total, fr) ==
    LET s1 == [st EXCEPT !.expected = WrapAdd(@, 1), !.gap = NoGap,
                         !.released = Append(@, fr.val)]
        s2 == DrainContiguous(s1)
    IN  [st |-> s2, total |-> Settle(total, s1, s2)]

\* Store an early frame, then restore the global limit and the gap timer.
StorePending(st, total, fr) ==
    LET s1 == [st EXCEPT !.pending = @ \cup {[seq |-> fr.seq, val |-> fr.val]}]
        s2 == IF total + 1 > MaxPendingTotal THEN ReleaseLowest(s1) ELSE s1
        s3 == IF s2.gap = NoGap THEN [s2 EXCEPT !.gap = now] ELSE s2
        s4 == ReleaseExpired(s3)
    IN  [st |-> s4, total |-> Settle(Settle(total + 1, s1, s2), s3, s4)]

\* The global limit is reached: make room in this flow, or pass the frame on.
PushAtTotalLimit(st, total, fr) ==
    IF st.pending = {}
    THEN [st |-> [st EXCEPT !.expected = WrapAdd(fr.seq, 1), !.gap = NoGap,
                            !.released = Append(@, fr.val)],
          total |-> total]
    ELSE LET s1 == ReleaseLowest(st)
         IN  StorePending(s1, Settle(total, st, s1), fr)

PushEarlyUnlimited(st, total, fr) ==
    LET s1 == IF Cardinality(st.pending) = MaxPendingPerFlow THEN ReleaseLowest(st) ELSE st
    IN  [st |-> [s1 EXCEPT !.pending = @ \cup {[seq |-> fr.seq, val |-> fr.val]}, !.gap = now],
         total |-> Settle(total, st, s1) + 1]

PushEarly(st, total, fr) ==
    LET s1 == IF Cardinality(st.pending) = MaxPendingPerFlow THEN ReleaseLowest(st) ELSE st
        t1 == Settle(total, st, s1)
    IN  IF t1 = MaxPendingTotal THEN PushAtTotalLimit(s1, t1, fr)
                                ELSE StorePending(s1, t1, fr)

PushFrame(st0, total0, fr) ==
    LET st == ReleaseExpired(st0)
        total == Settle(total0, st0, st)
        late == ~IsForward(fr.seq, st.expected)
        duplicate == \E p \in st.pending : p.seq = fr.seq
    IN  IF fr.seq = st.expected THEN PushExpected(st, total, fr)
        ELSE IF late \/ duplicate THEN [st |-> st, total |-> total]
        ELSE PushEarly(st, total, fr)

-----------------------------------------------------------------------------
Init ==
    /\ senderId = 1
    /\ sequences = <<>>
    /\ net = {}
    /\ flows = <<>>
    /\ pendingTotal = 0
    /\ now = 0

\* FlowSequencer::next: number the next packet of flow f.  A full table is
\* dropped and a new sender id opens fresh flows at the receiver.
Send(f) ==
    LET full == Cardinality(DOMAIN sequences) = MaxTrackedFlows /\ f \notin DOMAIN sequences
        kept == IF full THEN <<>> ELSE sequences
        n == IF f \in DOMAIN kept THEN kept[f] ELSE [seq |-> 0, val |-> 0]
    IN  /\ n.val < MaxSent
        /\ full => senderId < MaxSender
        /\ senderId' = IF full THEN senderId + 1 ELSE senderId
        /\ sequences' = [g \in DOMAIN kept \cup {f} |->
                            IF g = f THEN [seq |-> WrapAdd(n.seq, 1), val |-> n.val + 1]
                                     ELSE kept[g]]
        /\ net' = net \cup {[key |-> <<senderId', f>>, seq |-> n.seq, val |-> n.val]}
        /\ UNCHANGED <<flows, pendingTotal, now>>

\* FlowReassembler::push for a frame some TURN path brings in.  The frame
\* stays in net: paths duplicate, reorder and (by never delivering) lose.
PushLeavesCounter(fr) ==
    LET full == Cardinality(DOMAIN flows) = MaxTrackedFlows /\ fr.key \notin DOMAIN flows
        kept == IF full THEN <<>> ELSE flows
        st == IF fr.key \in DOMAIN kept THEN kept[fr.key] ELSE NewFlowState
        r == PushFrame(st, pendingTotal, fr)
    IN  /\ flows' = [k \in DOMAIN kept \cup {fr.key} |-> IF k = fr.key THEN r.st ELSE kept[k]]
        /\ pendingTotal' = r.total
        /\ UNCHANGED <<senderId, sequences, net, now>>

Push(fr) ==
    LET full == Cardinality(DOMAIN flows) = MaxTrackedFlows /\ fr.key \notin DOMAIN flows
        kept == IF full THEN <<>> ELSE flows
        total == IF full THEN 0 ELSE pendingTotal
        st == IF fr.key \in DOMAIN kept THEN kept[fr.key] ELSE NewFlowState
        r == PushFrame(st, total, fr)
    IN  /\ flows' = [k \in DOMAIN kept \cup {fr.key} |-> IF k = fr.key THEN r.st ELSE kept[k]]
        /\ pendingTotal' = r.total
        /\ UNCHANGED <<senderId, sequences, net, now>>

Tick ==
    /\ now < MaxTime
    /\ now' = now + 1
    /\ UNCHANGED <<senderId, sequences, net, flows, pendingTotal>>

Next ==
    \/ \E f \in Flow : Send(f)
    \/ \E fr \in net : Push(fr)
    \/ Tick

Spec == Init /\ [][Next]_vars

-----------------------------------------------------------------------------
(* Properties.                                                             *)

FlowState == [expected : SeqNo, gap : {NoGap} \cup Nat, pending : SUBSET Pending,
              released : Seq(Nat)]

\* Every variable has the shape its Rust type gives it.
TypeOK ==
    /\ senderId \in 1 .. MaxSender
    /\ DOMAIN sequences \subseteq Flow
    /\ \A f \in DOMAIN sequences : sequences[f] \in [seq : SeqNo, val : 0 .. MaxSent]
    /\ net \subseteq Frame
    /\ DOMAIN flows \subseteq Key
    /\ \A k \in DOMAIN flows : flows[k] \in FlowState
    /\ pendingTotal \in Nat
    /\ now \in Nat

StrictlyIncreasing(s) == \A i, j \in DOMAIN s : i < j => s[i] < s[j]

\* While a flow stays in the reassembler's table its packets leave in the
\* order they were sent and none leaves twice, whatever the paths lose,
\* duplicate or reorder and whichever limit or timeout forces a release.
OrderedDelivery == \A k \in DOMAIN flows : StrictlyIncreasing(flows[k].released)

\* pending_total, adjusted at six places of push_at, is exactly the number of
\* packet buffers held back in all tracked flows.
PendingTotalExact ==
    pendingTotal = Cardinality(UNION {{k} \X flows[k].pending : k \in DOMAIN flows})

\* The packets held back never exceed the global limit after a push, although
\* one flow's room cannot be reclaimed from another flow.
PendingTotalBounded == pendingTotal <= MaxPendingTotal

\* Both hash tables stay within MAX_TRACKED_FLOWS.
TablesBounded ==
    /\ Cardinality(DOMAIN sequences) <= MaxTrackedFlows
    /\ Cardinality(DOMAIN flows) <= MaxTrackedFlows

\* The books of both ends are right: every variable has its type, the shared
\* counter is the number of packets held back, whichever table was cleared or
\* limit met, and neither table outgrows its limit.
Consistent == TypeOK /\ PendingTotalExact /\ TablesBounded
=============================================================================
