-------------------------- MODULE FlowFrameProofs --------------------------
(***************************************************************************)
(* Proofs about FlowFrame: whatever the paths lose, duplicate or reorder,  *)
(* a tracked flow's packets leave the reassembler in the order they were   *)
(* sent, and the packets held back are counted exactly and never exceed    *)
(* the global limit.  Beside it the replay window, which MCFlowFrame adds: *)
(* what it accepts, for windows and laps of any size.                      *)
(***************************************************************************)
EXTENDS MCFlowFrame, FiniteSetTheorems, WellFoundedInduction, TLAPS

(* The invariant of one flow: numbers are positions in the flow, and what  *)
(* was released lies below "expected".                                     *)
Positions(P) == \A p \in P : p.seq = p.val /\ p.val < MaxSent

FlowOK(st) ==
    /\ st \in FlowState
    /\ st.expected <= MaxSent
    /\ Positions(st.pending)
    /\ IsFiniteSet(st.pending)
    /\ \A i \in DOMAIN st.released : st.released[i] < st.expected
    /\ StrictlyIncreasing(st.released)

\* What release steps do to the held-back packets.
Shrinks(st, r) ==
    /\ r.pending \subseteq st.pending
    /\ st.expected <= r.expected

-----------------------------------------------------------------------------
(* Arithmetic.                                                             *)

\* Below the sequence number space's end wrapping_add is addition.
LEMMA WrapAddIsPlus ==
    ASSUME NEW s \in Nat, NEW k \in Nat, s + k < SeqMod
    PROVE  WrapAdd(s, k) = s + k
BY ConstantsAssumption DEF WrapAdd

\* The numbers in use are all below SeqMod.
LEMMA SentBelowMod == MaxSent \in Nat /\ MaxSent < SeqMod /\ SeqMod \in Nat
BY ConstantsAssumption, NoWrapAssumption

\* Among the numbers in use, is_forward is exactly "greater than".
LEMMA ForwardIsGreater ==
    ASSUME NEW s \in Nat, NEW e \in Nat, s <= MaxSent, e <= MaxSent, s < MaxSent
    PROVE  /\ IsForward(s, e) <=> s > e
           /\ s > e => Distance(s, e) = s - e
<1>1. MaxSent <= SeqMod \div 2 /\ SeqMod \div 2 \in Nat /\ 2 * (SeqMod \div 2) <= SeqMod
  BY ConstantsAssumption, NoWrapAssumption
<1>2. SeqMod - MaxSent >= SeqMod \div 2
  BY <1>1, ConstantsAssumption, NoWrapAssumption
<1> QED
  BY <1>1, <1>2, ConstantsAssumption, NoWrapAssumption DEF IsForward, Distance

\* The least-number principle.
LEMMA LeastNatural ==
    ASSUME NEW T, T \subseteq Nat, T # {}
    PROVE  \E x \in T : \A y \in T : x <= y
<1> DEFINE R == {ss \in Nat \X Nat : ss[1] < ss[2]}
<1>1. IsWellFoundedOn(R, Nat)
  BY NatLessThanWellFounded DEF OpToRel
<1>2. PICK x \in T : \A y \in T : ~ (<<y, x>> \in R)
  <2> HIDE DEF R
  <2> QED  BY <1>1, WFMin
<1>3. \A y \in T : ~ (y < x)
  BY <1>2
<1> QED
  BY <1>2, <1>3

\* Appending numbers of [e, e2) in increasing order to numbers below e.
LEMMA ConcatIncreasing ==
    ASSUME NEW s \in Seq(Nat), NEW t \in Seq(Nat), NEW e \in Nat, NEW e2 \in Nat, e <= e2,
           StrictlyIncreasing(s), StrictlyIncreasing(t),
           \A i \in DOMAIN s : s[i] < e,
           \A i \in DOMAIN t : e <= t[i] /\ t[i] < e2
    PROVE  /\ s \o t \in Seq(Nat)
           /\ StrictlyIncreasing(s \o t)
           /\ \A i \in DOMAIN (s \o t) : (s \o t)[i] < e2
<1> DEFINE u == s \o t
           n == Len(s)
           m == Len(t)
<1>1. u \in Seq(Nat) /\ DOMAIN u = 1 .. n + m
  OBVIOUS
<1>2. DOMAIN s = 1 .. n /\ DOMAIN t = 1 .. m /\ n \in Nat /\ m \in Nat
  OBVIOUS
<1>3. /\ \A i \in 1 .. n : u[i] = s[i] /\ s[i] \in Nat
      /\ \A i \in n + 1 .. n + m : u[i] = t[i - n] /\ t[i - n] \in Nat /\ i - n \in 1 .. m
  OBVIOUS
<1> HIDE DEF u, n, m
<1>4. \A i \in DOMAIN u : IF i \in 1 .. n THEN u[i] < e ELSE e <= u[i] /\ u[i] < e2
  <2> TAKE i \in DOMAIN u
  <2>1. CASE i \in 1 .. n
    BY <2>1, <1>2, <1>3
  <2>2. CASE i \notin 1 .. n
    <3>1. i \in n + 1 .. n + m
      BY <2>2, <1>1, <1>2
    <3> QED
      BY <2>2, <3>1, <1>2, <1>3
  <2> QED
    BY <2>1, <2>2
<1>5. \A i \in DOMAIN u : u[i] \in Nat
  <2> TAKE i \in DOMAIN u
  <2>1. i \in 1 .. n \/ i \in n + 1 .. n + m
    BY <1>1, <1>2
  <2> QED
    BY <2>1, <1>3
<1>6. \A i \in DOMAIN u : u[i] < e2
  BY <1>4, <1>5
<1>7. StrictlyIncreasing(u)
  <2> SUFFICES ASSUME NEW i \in DOMAIN u, NEW j \in DOMAIN u, i < j
               PROVE  u[i] < u[j]
    BY DEF StrictlyIncreasing
  <2>1. CASE j \in 1 .. n
    <3>1. i \in 1 .. n
      BY <2>1, <1>1, <1>2
    <3> QED
      BY <2>1, <3>1, <1>2, <1>3 DEF StrictlyIncreasing
  <2>2. CASE i \in 1 .. n /\ j \notin 1 .. n
    BY <2>2, <1>4, <1>5
  <2>3. CASE i \notin 1 .. n
    <3>1. i \in n + 1 .. n + m /\ j \in n + 1 .. n + m
      BY <2>3, <1>1, <1>2
    <3>2. i - n \in DOMAIN t /\ j - n \in DOMAIN t /\ i - n < j - n
      BY <3>1, <1>2
    <3> QED
      BY <3>1, <3>2, <1>3 DEF StrictlyIncreasing
  <2> QED
    BY <2>1, <2>2, <2>3
<1> QED
  BY <1>1, <1>6, <1>7 DEF u

\* Appending one value.
LEMMA AppendIncreasing ==
    ASSUME NEW s \in Seq(Nat), NEW v \in Nat, StrictlyIncreasing(s),
           \A i \in DOMAIN s : s[i] < v
    PROVE  /\ Append(s, v) \in Seq(Nat)
           /\ StrictlyIncreasing(Append(s, v))
           /\ \A i \in DOMAIN Append(s, v) : Append(s, v)[i] < v + 1
<1> DEFINE u == Append(s, v)
<1>1. u \in Seq(Nat) /\ DOMAIN u = 1 .. Len(s) + 1 /\ DOMAIN s = 1 .. Len(s) /\ Len(s) \in Nat
  OBVIOUS
<1>2. \A i \in 1 .. Len(s) + 1 : u[i] = IF i <= Len(s) THEN s[i] ELSE v
  OBVIOUS
<1>3. \A i \in DOMAIN s : s[i] \in Nat
  OBVIOUS
<1> HIDE DEF u
<1>4. \A i \in DOMAIN u : u[i] < v + 1
  BY <1>1, <1>2, <1>3
<1>5. StrictlyIncreasing(u)
  <2> SUFFICES ASSUME NEW i \in DOMAIN u, NEW j \in DOMAIN u, i < j
               PROVE  u[i] < u[j]
    BY DEF StrictlyIncreasing
  <2>1. i \in DOMAIN s
    BY <1>1
  <2>2. CASE j <= Len(s)
    BY <2>1, <2>2, <1>1, <1>2 DEF StrictlyIncreasing
  <2>3. CASE j > Len(s)
    BY <2>1, <2>3, <1>1, <1>2
  <2> QED
    BY <2>2, <2>3, <1>1
<1> QED
  BY <1>1, <1>4, <1>5 DEF u

-----------------------------------------------------------------------------
(* The release steps keep the flow's invariant.                            *)

\* The components of a flow's state.
LEMMA FlowParts ==
    ASSUME NEW st, FlowOK(st)
    PROVE  /\ st = [expected |-> st.expected, gap |-> st.gap, pending |-> st.pending,
                    released |-> st.released]
           /\ st.expected \in Nat /\ st.expected <= MaxSent
           /\ st.gap \in {NoGap} \cup Nat
           /\ \A p \in st.pending : p.seq \in Nat /\ p.val \in Nat /\ p.seq = p.val /\ p.seq < MaxSent
           /\ st.released \in Seq(Nat)
BY SentBelowMod DEF FlowOK, FlowState, SeqNo, Pending, Positions

\* A record with good components is a good flow state.
LEMMA FlowBuild ==
    ASSUME NEW e \in Nat, e <= MaxSent, NEW g \in {NoGap} \cup Nat,
           NEW P \in SUBSET Pending, Positions(P), IsFiniteSet(P),
           NEW r \in Seq(Nat), StrictlyIncreasing(r), \A i \in DOMAIN r : r[i] < e
    PROVE  FlowOK([expected |-> e, gap |-> g, pending |-> P, released |-> r])
BY SentBelowMod DEF FlowOK, FlowState, SeqNo

\* drain_contiguous stops: the run of waiting frames has a length.
LEMMA RunLengthOK ==
    ASSUME NEW st, FlowOK(st)
    PROVE  /\ RunLength(st) \in Nat
           /\ st.expected + RunLength(st) <= MaxSent
           /\ \A k \in 0 .. RunLength(st) - 1 : Waiting(st, k)
<1> DEFINE T == {k \in Nat : ~Waiting(st, k)}
           m == MaxSent - st.expected
<1>1. m \in Nat /\ st.expected \in Nat /\ st.expected + m = MaxSent
  BY FlowParts, SentBelowMod
<1>2. m \in T
  <2>1. WrapAdd(st.expected, m) = MaxSent
    BY <1>1, WrapAddIsPlus, SentBelowMod
  <2> QED
    BY <2>1, <1>1, FlowParts, SentBelowMod DEF Waiting
<1>3. PICK n \in T : \A k \in T : n <= k
  <2> HIDE DEF T
  <2>1. T \subseteq Nat /\ T # {}
    BY <1>2 DEF T
  <2> QED
    BY <2>1, LeastNatural
<1>4. n \in Nat /\ n <= m /\ ~Waiting(st, n)
  BY <1>1, <1>2, <1>3
<1>5. \A k \in 0 .. n - 1 : Waiting(st, k)
  BY <1>3, <1>4
<1>6. n \in SeqNo
  BY <1>1, <1>4, SentBelowMod DEF SeqNo
<1> DEFINE Q(x) == ~Waiting(st, x) /\ \A k \in 0 .. x - 1 : Waiting(st, k)
<1>7. \E x \in SeqNo : Q(x)
  BY <1>4, <1>5, <1>6
<1>8. RunLength(st) \in SeqNo /\ Q(RunLength(st))
  BY <1>7, Zenon DEF RunLength
<1>9. RunLength(st) \in Nat
  BY <1>8 DEF SeqNo
<1>10. RunLength(st) <= m
  <2>1. ~(m \in 0 .. RunLength(st) - 1)
    BY <1>2, <1>8
  <2> QED
    BY <2>1, <1>1, <1>9
<1> QED
  BY <1>1, <1>8, <1>9, <1>10

\* drain_contiguous releases the following frames in order.
LEMMA DrainOK ==
    ASSUME NEW st, FlowOK(st)
    PROVE  /\ FlowOK(DrainContiguous(st))
           /\ Shrinks(st, DrainContiguous(st))
           /\ DrainContiguous(st).gap = st.gap
<1> DEFINE n == RunLength(st)
           e == st.expected
           t == [i \in 1 .. n |-> ValueAt(st, i - 1)]
           P == {p \in st.pending : \A k \in 0 .. n - 1 : p.seq # WrapAdd(st.expected, k)}
<1>1. n \in Nat /\ e \in Nat /\ e + n <= MaxSent
  BY RunLengthOK, FlowParts
<1>2. WrapAdd(e, n) = e + n
  BY <1>1, WrapAddIsPlus, SentBelowMod
<1>3. \A k \in 0 .. n - 1 : ValueAt(st, k) = e + k
  <2> TAKE k \in 0 .. n - 1
  <2>1. WrapAdd(e, k) = e + k
    BY <1>1, WrapAddIsPlus, SentBelowMod
  <2>2. \E p \in st.pending : p.seq = WrapAdd(st.expected, k)
    BY RunLengthOK DEF Waiting
  <2>3. \E p \in st.pending : p.seq = WrapAdd(st.expected, k) /\ ValueAt(st, k) = p.val
    BY <2>2, Zenon DEF ValueAt
  <2> QED
    BY <2>1, <2>3, FlowParts
<1>4. t \in Seq(Nat) /\ DOMAIN t = 1 .. n /\ \A i \in DOMAIN t : t[i] = e + i - 1
  BY <1>1, <1>3
<1>5. StrictlyIncreasing(t) /\ \A i \in DOMAIN t : e <= t[i] /\ t[i] < e + n
  BY <1>1, <1>4 DEF StrictlyIncreasing
<1>6. /\ st.released \o t \in Seq(Nat)
      /\ StrictlyIncreasing(st.released \o t)
      /\ \A i \in DOMAIN (st.released \o t) : (st.released \o t)[i] < e + n
  <2> HIDE DEF t, n, e
  <2>1. st.released \in Seq(Nat) /\ StrictlyIncreasing(st.released) /\ \A i \in DOMAIN st.released : st.released[i] < e
    BY FlowParts DEF FlowOK, e
  <2>2. e + n \in Nat /\ e <= e + n /\ t \in Seq(Nat)
    BY <1>1, <1>4
  <2> QED
    BY <1>1, <1>5, <2>1, <2>2, ConcatIncreasing
<1>7. P \subseteq st.pending /\ P \in SUBSET Pending /\ Positions(P) /\ IsFiniteSet(P)
  <2>1. P \subseteq st.pending
    OBVIOUS
  <2> HIDE DEF P
  <2> QED
    BY <2>1, FS_Subset DEF FlowOK, FlowState, Positions
<1>8. DrainContiguous(st) = [expected |-> e + n, gap |-> st.gap, pending |-> P, released |-> st.released \o t]
  <2>1. DrainContiguous(st) = [st EXCEPT !.expected = WrapAdd(e, n), !.pending = P,
                                         !.released = st.released \o t]
    BY DEF DrainContiguous
  <2>2. st \in FlowState
    BY DEF FlowOK
  <2> HIDE DEF n, e, t, P
  <2> QED
    BY <1>2, <2>1, <2>2 DEF FlowState
<1>9. FlowOK([expected |-> e + n, gap |-> st.gap, pending |-> P, released |-> st.released \o t])
  <2> DEFINE u == st.released \o t
             e2 == e + n
  <2>1. e2 \in Nat /\ e2 <= MaxSent /\ st.gap \in {NoGap} \cup Nat
    BY <1>1, FlowParts
  <2>2. u \in Seq(Nat) /\ StrictlyIncreasing(u) /\ \A i \in DOMAIN u : u[i] < e2
    BY <1>6
  <2> HIDE DEF n, e, t, P, u, e2
  <2>3. FlowOK([expected |-> e2, gap |-> st.gap, pending |-> P, released |-> u])
    BY <1>7, <2>1, <2>2, FlowBuild
  <2> QED
    BY <2>3 DEF e2, u
<1> QED
  <2> HIDE DEF n, t, P
  <2> QED
    BY <1>1, <1>7, <1>8, <1>9 DEF Shrinks

\* When some pending frame lies ahead, Lowest names one.
LEMMA LowestOK ==
    ASSUME NEW st, FlowOK(st), Forward(st) # {}
    PROVE  Lowest(st) \in st.pending /\ Lowest(st).seq > st.expected
<1> DEFINE D(p) == Distance(p.seq, st.expected)
           T == {D(p) : p \in Forward(st)}
<1>1. \A p \in Forward(st) : p \in st.pending /\ p.seq > st.expected /\ D(p) \in Nat
  BY FlowParts, ForwardIsGreater, SentBelowMod DEF Forward
<1>2. T \subseteq Nat /\ T # {}
  BY <1>1
<1>3. PICK d \in T : \A y \in T : d <= y
  <2> HIDE DEF T
  <2> QED  BY <1>2, LeastNatural
<1>4. \E p \in Forward(st) : \A q \in Forward(st) : D(p) <= D(q)
  BY <1>3
<1>5. Lowest(st) \in Forward(st)
  BY <1>4, Zenon DEF Lowest
<1> QED
  BY <1>1, <1>5

\* Releasing one frame ahead of "expected" keeps the flow's invariant.
LEMMA ReleaseOneOK ==
    ASSUME NEW st, FlowOK(st), NEW v \in Nat, v < MaxSent, v >= st.expected,
           NEW g \in {NoGap} \cup Nat, NEW P \in SUBSET st.pending
    PROVE  FlowOK([expected |-> WrapAdd(v, 1), gap |-> g, pending |-> P,
                   released |-> Append(st.released, v)])
<1> DEFINE u == Append(st.released, v)
<1>1. WrapAdd(v, 1) = v + 1
  BY WrapAddIsPlus, SentBelowMod
<1>2. st.released \in Seq(Nat) /\ StrictlyIncreasing(st.released) /\ st.expected \in Nat
  BY FlowParts DEF FlowOK
<1>3. \A i \in DOMAIN st.released : st.released[i] < v
  <2> TAKE i \in DOMAIN st.released
  <2>1. st.released[i] < st.expected /\ st.released[i] \in Nat
    BY <1>2 DEF FlowOK
  <2> QED
    BY <1>2, <2>1
<1>4. u \in Seq(Nat) /\ StrictlyIncreasing(u) /\ \A i \in DOMAIN u : u[i] < v + 1
  BY <1>2, <1>3, AppendIncreasing
<1>5. P \in SUBSET Pending /\ Positions(P) /\ IsFiniteSet(P)
  BY FS_Subset DEF FlowOK, FlowState, Positions
<1> HIDE DEF u
<1>6. FlowOK([expected |-> v + 1, gap |-> g, pending |-> P, released |-> u])
  BY <1>4, <1>5, FlowBuild, SentBelowMod
<1> QED
  BY <1>1, <1>6 DEF u

\* Setting the gap timer keeps the flow's invariant.
LEMMA SetGapOK ==
    ASSUME NEW st, FlowOK(st), NEW g \in {NoGap} \cup Nat
    PROVE  /\ FlowOK([st EXCEPT !.gap = g])
           /\ [st EXCEPT !.gap = g].pending = st.pending
           /\ [st EXCEPT !.gap = g].expected = st.expected
BY DEF FlowOK, FlowState

\* release_lowest removes a frame exactly when one lies ahead.
LEMMA ReleaseLowestOK ==
    ASSUME NEW st, FlowOK(st), now \in Nat
    PROVE  /\ FlowOK(ReleaseLowest(st))
           /\ Shrinks(st, ReleaseLowest(st))
           /\ Forward(st) # {} => ReleaseLowest(st).pending # st.pending
           /\ Forward(st) = {} => /\ ReleaseLowest(st).pending = st.pending
                                  /\ ReleaseLowest(st).expected = st.expected
<1>1. CASE Forward(st) = {}
  <2>1. ReleaseLowest(st) = [st EXCEPT !.gap = NoGap]
    BY <1>1 DEF ReleaseLowest
  <2>2. NoGap \in {NoGap} \cup Nat /\ st.expected \in Nat
    BY FlowParts
  <2>3. /\ FlowOK(ReleaseLowest(st))
        /\ ReleaseLowest(st).pending = st.pending
        /\ ReleaseLowest(st).expected = st.expected
    BY <2>1, <2>2, SetGapOK
  <2> QED
    BY <1>1, <2>2, <2>3 DEF Shrinks
<1>2. CASE Forward(st) # {}
  <2> DEFINE p == Lowest(st)
             s1 == [st EXCEPT !.expected = WrapAdd(p.seq, 1), !.pending = @ \ {p},
                              !.released = Append(@, p.val)]
             r == DrainContiguous(s1)
             g == IF r.pending = {} THEN NoGap ELSE now
  <2>1. /\ p \in st.pending /\ p.seq > st.expected /\ p.seq = p.val /\ p.val \in Nat
        /\ p.val < MaxSent /\ st.expected \in Nat /\ st.gap \in {NoGap} \cup Nat
    BY <1>2, LowestOK, FlowParts
  <2>2. ReleaseLowest(st) = [r EXCEPT !.gap = g]
    BY <1>2 DEF ReleaseLowest
  <2> HIDE DEF p
  <2>3. st \in FlowState /\ WrapAdd(p.val, 1) = p.val + 1
    BY <2>1, WrapAddIsPlus, SentBelowMod DEF FlowOK
  <2>4. s1 = [expected |-> WrapAdd(p.val, 1), gap |-> st.gap, pending |-> st.pending \ {p},
              released |-> Append(st.released, p.val)]
    <3> DEFINE e == WrapAdd(p.seq, 1)
               P == st.pending \ {p}
               u == Append(st.released, p.val)
    <3>1. s1 = [st EXCEPT !.expected = e, !.pending = P, !.released = u]
      OBVIOUS
    <3>2. e = WrapAdd(p.val, 1)
      BY <2>1
    <3> HIDE DEF e, P, u, s1
    <3>3. s1 = [expected |-> e, gap |-> st.gap, pending |-> P, released |-> u]
      BY <3>1, <2>3 DEF FlowState
    <3> QED
      BY <3>2, <3>3 DEF P, u
  <2>5. FlowOK(s1)
    <3> DEFINE P == st.pending \ {p}
    <3>1. P \in SUBSET st.pending /\ p.val >= st.expected
      BY <2>1
    <3> HIDE DEF P
    <3>2. FlowOK([expected |-> WrapAdd(p.val, 1), gap |-> st.gap, pending |-> P,
                  released |-> Append(st.released, p.val)])
      BY <2>1, <3>1, ReleaseOneOK
    <3> QED
      BY <2>4, <3>2 DEF P
  <2>6. s1.pending = st.pending \ {p} /\ s1.expected = p.val + 1
    BY <2>1, <2>3 DEF FlowState
  <2> HIDE DEF s1
  <2>7. FlowOK(r) /\ Shrinks(s1, r)
    BY <2>5, DrainOK
  <2> HIDE DEF r
  <2>8. /\ FlowOK([r EXCEPT !.gap = g])
        /\ [r EXCEPT !.gap = g].pending = r.pending
        /\ [r EXCEPT !.gap = g].expected = r.expected
    BY <2>7, SetGapOK
  <2>9. r.pending \subseteq st.pending \ {p} /\ st.expected <= r.expected
    BY <2>1, <2>6, <2>7, FlowParts DEF Shrinks
  <2> QED
    BY <1>2, <2>1, <2>2, <2>8, <2>9 DEF Shrinks
<1> QED
  BY <1>1, <1>2

\* release_expired either does nothing or releases.
LEMMA ReleaseExpiredOK ==
    ASSUME NEW st, FlowOK(st), now \in Nat
    PROVE  FlowOK(ReleaseExpired(st)) /\ Shrinks(st, ReleaseExpired(st))
BY ReleaseLowestOK, FlowParts DEF ReleaseExpired, Shrinks

\* The counter follows the packets a release step lets go.
LEMMA SettleOK ==
    ASSUME NEW st, NEW r, FlowOK(st), Shrinks(st, r), NEW total \in Nat
    PROVE  /\ Settle(total, st, r) \in Nat
           /\ Settle(total, st, r) <= total
           /\ r.pending # st.pending => Settle(total, st, r) < total \/ total = 0
<1>1. /\ IsFiniteSet(st.pending) /\ IsFiniteSet(r.pending)
      /\ Cardinality(r.pending) <= Cardinality(st.pending)
      /\ r.pending # st.pending => Cardinality(st.pending) # Cardinality(r.pending)
  BY FS_Subset DEF FlowOK, Shrinks
<1>2. Cardinality(st.pending) \in Nat /\ Cardinality(r.pending) \in Nat
  BY <1>1, FS_CardinalityType
<1> QED
  BY <1>1, <1>2 DEF Settle

-----------------------------------------------------------------------------
(* push_at keeps the flow's invariant and the global limit.                *)

FrameOK(fr) == fr \in Frame /\ fr.seq = fr.val /\ fr.val < MaxSent

Result(r) == FlowOK(r.st) /\ r.total \in Nat /\ r.total <= MaxPendingTotal

\* Storing a frame and the releases that follow it.
LEMMA StorePendingOK ==
    ASSUME NEW st, FlowOK(st), NEW fr, FrameOK(fr), now \in Nat,
           NEW total \in Nat, total <= MaxPendingTotal,
           total = MaxPendingTotal => fr.seq > st.expected
    PROVE  Result(StorePending(st, total, fr))
<1> DEFINE p == [seq |-> fr.seq, val |-> fr.val]
           s1 == [st EXCEPT !.pending = @ \cup {p}]
           s2 == IF total + 1 > MaxPendingTotal THEN ReleaseLowest(s1) ELSE s1
           t2 == Settle(total + 1, s1, s2)
           s3 == IF s2.gap = NoGap THEN [s2 EXCEPT !.gap = now] ELSE s2
           s4 == ReleaseExpired(s3)
           t4 == Settle(t2, s3, s4)
<1>1. MaxPendingTotal \in Nat /\ MaxPendingTotal > 0
  BY ConstantsAssumption
<1>2. StorePending(st, total, fr) = [st |-> s4, total |-> t4]
  BY DEF StorePending
<1>3. p \in Pending /\ p.seq = p.val /\ p.val < MaxSent /\ p.seq = fr.seq /\ p.seq \in Nat
  BY SentBelowMod DEF FrameOK, Frame, Pending, SeqNo
<1>4. FlowOK(s1) /\ s1.pending = st.pending \cup {p} /\ s1.expected = st.expected
  <2> HIDE DEF p
  <2> DEFINE P == st.pending \cup {p}
  <2>1. P \in SUBSET Pending /\ Positions(P) /\ IsFiniteSet(P)
    BY <1>3, FS_AddElement DEF FlowOK, FlowState, Positions
  <2> HIDE DEF P
  <2>2. FlowOK([st EXCEPT !.pending = P]) /\ [st EXCEPT !.pending = P].pending = P
        /\ [st EXCEPT !.pending = P].expected = st.expected
    BY <2>1 DEF FlowOK, FlowState
  <2> QED
    BY <2>2 DEF P
<1>5. total = MaxPendingTotal => Forward(s1) # {}
  <2> SUFFICES ASSUME total = MaxPendingTotal PROVE p \in Forward(s1)
    OBVIOUS
  <2> HIDE DEF p, s1
  <2>1. p.seq > s1.expected /\ s1.expected \in Nat /\ s1.expected <= MaxSent
    BY <1>3, <1>4, FlowParts
  <2>2. IsForward(p.seq, s1.expected)
    BY <1>3, <2>1, ForwardIsGreater, SentBelowMod
  <2> QED
    BY <1>4, <2>2 DEF Forward
<1> HIDE DEF p, s1
<1>6. FlowOK(s2) /\ Shrinks(s1, s2) /\ t2 \in Nat /\ t2 <= MaxPendingTotal
  <2>1. CASE total = MaxPendingTotal
    <3>1. s2 = ReleaseLowest(s1)
      BY <1>1, <2>1
    <3>2. FlowOK(s2) /\ Shrinks(s1, s2) /\ s2.pending # s1.pending
      BY <1>4, <1>5, <2>1, <3>1, ReleaseLowestOK
    <3> HIDE DEF s2
    <3>3. t2 \in Nat /\ (t2 < total + 1 \/ total + 1 = 0)
      BY <1>4, <3>2, SettleOK
    <3> QED
      BY <1>1, <2>1, <3>2, <3>3
  <2>2. CASE total # MaxPendingTotal
    <3>1. s2 = s1
      BY <1>1, <2>2
    <3>2. Shrinks(s1, s2)
      BY <1>4, <3>1, FlowParts DEF Shrinks
    <3> HIDE DEF s2
    <3>3. t2 \in Nat /\ t2 <= total + 1
      BY <1>4, <3>2, SettleOK
    <3> QED
      BY <1>1, <1>4, <2>2, <3>1, <3>2, <3>3
  <2> QED
    BY <2>1, <2>2
<1> HIDE DEF s2, t2
<1>7. FlowOK(s3)
  BY <1>6, SetGapOK
<1> HIDE DEF s3
<1>8. FlowOK(s4) /\ Shrinks(s3, s4)
  BY <1>7, ReleaseExpiredOK
<1> HIDE DEF s4
<1>9. t4 \in Nat /\ t4 <= t2
  BY <1>6, <1>7, <1>8, SettleOK
<1> HIDE DEF t4
<1> QED
  BY <1>1, <1>2, <1>6, <1>8, <1>9 DEF Result

\* An early frame: the releases that make room never let the frame be
\* released ahead of what is already out.
LEMMA PushEarlyOK ==
    ASSUME NEW st, FlowOK(st), NEW fr, FrameOK(fr), now \in Nat,
           NEW total \in Nat, total <= MaxPendingTotal,
           fr.seq > st.expected
    PROVE  Result(PushEarly(st, total, fr))
<1> DEFINE s1 == IF Cardinality(st.pending) = MaxPendingPerFlow THEN ReleaseLowest(st) ELSE st
           t1 == Settle(total, st, s1)
<1>1. MaxPendingTotal \in Nat /\ MaxPendingTotal > 0 /\ st.expected \in Nat
  BY ConstantsAssumption, FlowParts
<1>2. PushEarly(st, total, fr) =
        IF t1 = MaxPendingTotal THEN PushAtTotalLimit(s1, t1, fr) ELSE StorePending(s1, t1, fr)
  BY DEF PushEarly
<1>3. /\ FlowOK(s1) /\ Shrinks(st, s1)
      /\ s1.pending = st.pending => s1.expected = st.expected
  BY <1>1, ReleaseLowestOK DEF Shrinks
<1> HIDE DEF s1
<1>4. /\ t1 \in Nat /\ t1 <= MaxPendingTotal
      /\ t1 = MaxPendingTotal => s1.expected = st.expected
  BY <1>1, <1>3, SettleOK
<1> HIDE DEF t1
<1>5. CASE t1 # MaxPendingTotal
  BY <1>2, <1>3, <1>4, <1>5, StorePendingOK
<1>6. CASE t1 = MaxPendingTotal /\ s1.pending = {}
  <2> DEFINE r == [s1 EXCEPT !.expected = WrapAdd(fr.seq, 1), !.gap = NoGap,
                             !.released = Append(@, fr.val)]
  <2>1. PushEarly(st, total, fr) = [st |-> r, total |-> t1]
    BY <1>2, <1>6 DEF PushAtTotalLimit
  <2>2. fr.val \in Nat /\ fr.val < MaxSent /\ fr.val >= s1.expected /\ fr.seq = fr.val
    BY <1>1, <1>4, <1>6, SentBelowMod DEF FrameOK, Frame, SeqNo
  <2>3. FlowOK([expected |-> WrapAdd(fr.val, 1), gap |-> NoGap, pending |-> s1.pending,
                released |-> Append(s1.released, fr.val)])
    BY <1>3, <2>2, ReleaseOneOK
  <2>4. r = [expected |-> WrapAdd(fr.val, 1), gap |-> NoGap, pending |-> s1.pending,
             released |-> Append(s1.released, fr.val)]
    <3> DEFINE e == WrapAdd(fr.seq, 1)
               u == Append(s1.released, fr.val)
    <3>1. e = WrapAdd(fr.val, 1) /\ s1 \in FlowState
      BY <1>3, <2>2 DEF FlowOK
    <3>2. r = [s1 EXCEPT !.expected = e, !.gap = NoGap, !.released = u]
      OBVIOUS
    <3> HIDE DEF e, u, r
    <3>3. r = [expected |-> e, gap |-> NoGap, pending |-> s1.pending, released |-> u]
      BY <3>1, <3>2 DEF FlowState
    <3> QED
      BY <3>1, <3>3 DEF u
  <2> HIDE DEF r
  <2> QED
    BY <1>4, <2>1, <2>3, <2>4 DEF Result
<1>7. CASE t1 = MaxPendingTotal /\ s1.pending # {}
  <2> DEFINE s2 == ReleaseLowest(s1)
             t2 == Settle(t1, s1, s2)
  <2>1. PushEarly(st, total, fr) = StorePending(s2, t2, fr)
    BY <1>2, <1>7 DEF PushAtTotalLimit
  <2>2. /\ FlowOK(s2) /\ Shrinks(s1, s2)
        /\ s2.pending = s1.pending => s2.expected = s1.expected
    BY <1>3, ReleaseLowestOK
  <2> HIDE DEF s2
  <2>3. /\ t2 \in Nat /\ t2 <= t1
        /\ t2 = MaxPendingTotal => s2.pending = s1.pending
    BY <1>1, <1>3, <1>4, <1>7, <2>2, SettleOK
  <2> HIDE DEF t2
  <2>4. t2 <= MaxPendingTotal /\ (t2 = MaxPendingTotal => fr.seq > s2.expected)
    BY <1>1, <1>4, <1>7, <2>2, <2>3
  <2> QED
    BY <2>1, <2>2, <2>3, <2>4, StorePendingOK
<1> QED
  BY <1>5, <1>6, <1>7

\* The frame the flow waits for.
LEMMA PushExpectedOK ==
    ASSUME NEW st, FlowOK(st), NEW fr, FrameOK(fr),
           NEW total \in Nat, total <= MaxPendingTotal,
           fr.seq = st.expected
    PROVE  Result(PushExpected(st, total, fr))
<1> DEFINE s1 == [st EXCEPT !.expected = WrapAdd(@, 1), !.gap = NoGap,
                            !.released = Append(@, fr.val)]
           s2 == DrainContiguous(s1)
           t2 == Settle(total, s1, s2)
<1>1. PushExpected(st, total, fr) = [st |-> s2, total |-> t2]
  BY DEF PushExpected
<1>2. fr.val \in Nat /\ fr.val < MaxSent /\ fr.val = st.expected
  BY FlowParts DEF FrameOK
<1>3. FlowOK([expected |-> WrapAdd(fr.val, 1), gap |-> NoGap, pending |-> st.pending,
              released |-> Append(st.released, fr.val)])
  <2>1. st.pending \in SUBSET st.pending /\ NoGap \in {NoGap} \cup Nat /\ fr.val >= st.expected
    BY <1>2
  <2> QED
    BY <1>2, <2>1, ReleaseOneOK
<1>4. s1 = [expected |-> WrapAdd(fr.val, 1), gap |-> NoGap, pending |-> st.pending,
            released |-> Append(st.released, fr.val)]
  <2> DEFINE e == WrapAdd(st.expected, 1)
             u == Append(st.released, fr.val)
  <2>1. e = WrapAdd(fr.val, 1) /\ st \in FlowState
    BY <1>2 DEF FlowOK
  <2>2. s1 = [st EXCEPT !.expected = e, !.gap = NoGap, !.released = u]
    OBVIOUS
  <2> HIDE DEF e, u, s1
  <2>3. s1 = [expected |-> e, gap |-> NoGap, pending |-> st.pending, released |-> u]
    BY <2>1, <2>2 DEF FlowState
  <2> QED
    BY <2>1, <2>3 DEF u
<1> HIDE DEF s1
<1>5. FlowOK(s1)
  BY <1>3, <1>4
<1>6. FlowOK(s2) /\ Shrinks(s1, s2)
  BY <1>5, DrainOK
<1> HIDE DEF s2
<1>7. t2 \in Nat /\ t2 <= total
  BY <1>5, <1>6, SettleOK
<1> HIDE DEF t2
<1> QED
  BY <1>1, <1>6, <1>7, ConstantsAssumption DEF Result

\* push_at keeps the flow's invariant and the global limit.
LEMMA PushFrameOK ==
    ASSUME NEW st0, FlowOK(st0), NEW fr, FrameOK(fr), now \in Nat,
           NEW total0 \in Nat, total0 <= MaxPendingTotal
    PROVE  Result(PushFrame(st0, total0, fr))
<1> DEFINE st == ReleaseExpired(st0)
           total == Settle(total0, st0, st)
           Dropped == ~IsForward(fr.seq, st.expected) \/ \E p \in st.pending : p.seq = fr.seq
<1>1. FlowOK(st) /\ Shrinks(st0, st)
  BY ReleaseExpiredOK
<1>2. total \in Nat /\ total <= MaxPendingTotal
  <2> HIDE DEF st
  <2>1. total \in Nat /\ total <= total0
    BY <1>1, SettleOK
  <2> QED
    BY <2>1, ConstantsAssumption
<1>3. CASE fr.seq = st.expected
  <2>1. PushFrame(st0, total0, fr) = PushExpected(st, total, fr)
    BY <1>3 DEF PushFrame
  <2> HIDE DEF st, total
  <2> QED
    BY <1>1, <1>2, <1>3, <2>1, PushExpectedOK
<1>4. CASE fr.seq # st.expected /\ Dropped
  <2>1. PushFrame(st0, total0, fr) = [st |-> st, total |-> total]
    BY <1>4 DEF PushFrame
  <2> HIDE DEF st, total
  <2> QED
    BY <1>1, <1>2, <2>1 DEF Result
<1>5. CASE fr.seq # st.expected /\ ~Dropped
  <2>1. PushFrame(st0, total0, fr) = PushEarly(st, total, fr)
    BY <1>5 DEF PushFrame
  <2> HIDE DEF st, total
  <2>2. fr.seq > st.expected
    BY <1>1, <1>5, FlowParts, ForwardIsGreater, SentBelowMod DEF FrameOK, Frame, SeqNo
  <2> QED
    BY <1>1, <1>2, <2>1, <2>2, PushEarlyOK
<1> QED
  BY <1>3, <1>4, <1>5

-----------------------------------------------------------------------------
(* The inductive invariant: numbers are positions everywhere.              *)

SenderOK ==
    /\ senderId \in 1 .. MaxSender
    /\ DOMAIN sequences \subseteq Flow
    /\ \A f \in DOMAIN sequences :
          /\ sequences[f] \in [seq : SeqNo, val : 0 .. MaxSent]
          /\ sequences[f].seq = sequences[f].val

IInv ==
    /\ SenderOK
    /\ \A fr \in net : FrameOK(fr)
    /\ DOMAIN flows \subseteq Key
    /\ \A k \in DOMAIN flows : FlowOK(flows[k])
    /\ pendingTotal \in Nat /\ pendingTotal <= MaxPendingTotal
    /\ now \in Nat

\* FlowSequencer::next numbers a flow's packets by their position.
LEMMA SendOK ==
    ASSUME IInv, NEW f \in Flow, Send(f)
    PROVE  IInv'
<1> DEFINE full == Cardinality(DOMAIN sequences) = MaxTrackedFlows /\ f \notin DOMAIN sequences
           kept == IF full THEN <<>> ELSE sequences
           n == IF f \in DOMAIN kept THEN kept[f] ELSE [seq |-> 0, val |-> 0]
           fr == [key |-> <<senderId', f>>, seq |-> n.seq, val |-> n.val]
<1>1. /\ n.val < MaxSent
      /\ full => senderId < MaxSender
      /\ senderId' = IF full THEN senderId + 1 ELSE senderId
      /\ sequences' = [g \in DOMAIN kept \cup {f} |->
                          IF g = f THEN [seq |-> WrapAdd(n.seq, 1), val |-> n.val + 1] ELSE kept[g]]
      /\ net' = net \cup {fr}
      /\ UNCHANGED <<flows, pendingTotal, now>>
  BY DEF Send
<1>2. MaxSender \in Nat /\ MaxSent \in Nat /\ MaxSent < SeqMod /\ SeqMod \in Nat
  BY SentBelowMod, ConstantsAssumption
<1>3. senderId' \in 1 .. MaxSender
  BY <1>1, <1>2 DEF IInv, SenderOK
<1>4. /\ DOMAIN kept \subseteq Flow
      /\ \A g \in DOMAIN kept : kept[g] \in [seq : SeqNo, val : 0 .. MaxSent] /\ kept[g].seq = kept[g].val
  BY DEF IInv, SenderOK
<1> HIDE DEF kept, full
<1>5. n.seq = n.val /\ n.seq \in Nat
  BY <1>4 DEF SeqNo
<1>6. WrapAdd(n.seq, 1) = n.val + 1
  BY <1>1, <1>2, <1>5, WrapAddIsPlus
<1>7. FrameOK(fr)
  <2>1. <<senderId', f>> \in Key
    BY <1>3 DEF Key
  <2> QED
    BY <2>1, <1>1, <1>2, <1>5 DEF FrameOK, Frame, SeqNo
<1> HIDE DEF n, fr
<1>8. /\ DOMAIN sequences' \subseteq Flow
      /\ \A g \in DOMAIN sequences' :
            /\ sequences'[g] \in [seq : SeqNo, val : 0 .. MaxSent]
            /\ sequences'[g].seq = sequences'[g].val
  BY <1>1, <1>2, <1>4, <1>5, <1>6 DEF SeqNo
<1>9. SenderOK'
  BY <1>3, <1>8 DEF SenderOK
<1>10. (\A x \in net : FrameOK(x))'
  BY <1>1, <1>7 DEF IInv, FrameOK
<1>11. (\A k \in DOMAIN flows : FlowOK(flows[k]))'
  BY <1>1 DEF IInv, FlowOK
<1> QED
  BY <1>1, <1>9, <1>10, <1>11 DEF IInv

\* A flow's entry starts out good.
LEMMA NewFlowOK == FlowOK(NewFlowState)
<1>1. <<>> \in Seq(Nat) /\ DOMAIN <<>> = {} /\ StrictlyIncreasing(<<>>)
  BY DEF StrictlyIncreasing
<1>2. IsFiniteSet({}) /\ {} \in SUBSET Pending /\ Positions({}) /\ 0 <= MaxSent
  BY FS_EmptySet, SentBelowMod DEF Positions
<1> QED
  BY <1>1, <1>2, FlowBuild DEF NewFlowState

\* A push changes one flow's entry, by push_at.
LEMMA PushOK ==
    ASSUME IInv, NEW fr \in net, Push(fr)
    PROVE  IInv'
<1> DEFINE full == Cardinality(DOMAIN flows) = MaxTrackedFlows /\ fr.key \notin DOMAIN flows
           kept == IF full THEN <<>> ELSE flows
           total == IF full THEN 0 ELSE pendingTotal
           st == IF fr.key \in DOMAIN kept THEN kept[fr.key] ELSE NewFlowState
           r == PushFrame(st, total, fr)
<1>1. /\ flows' = [k \in DOMAIN kept \cup {fr.key} |-> IF k = fr.key THEN r.st ELSE kept[k]]
      /\ pendingTotal' = r.total
      /\ UNCHANGED <<senderId, sequences, net, now>>
  BY DEF Push
<1>2. /\ DOMAIN kept \subseteq Key
      /\ \A k \in DOMAIN kept : FlowOK(kept[k])
      /\ total \in Nat /\ total <= MaxPendingTotal
  BY ConstantsAssumption DEF IInv
<1> HIDE DEF kept, total
<1>3. FlowOK(st)
  BY <1>2, NewFlowOK
<1> HIDE DEF st
<1>4. FrameOK(fr) /\ now \in Nat /\ fr.key \in Key
  BY DEF IInv, FrameOK, Frame
<1>5. Result(r)
  BY <1>2, <1>3, <1>4, PushFrameOK
<1> HIDE DEF r
<1>6. DOMAIN flows' \subseteq Key /\ \A k \in DOMAIN flows' : FlowOK(flows'[k])
  BY <1>1, <1>2, <1>4, <1>5 DEF Result
<1>7. (\A k \in DOMAIN flows : FlowOK(flows[k]))'
  BY <1>6 DEF FlowOK
<1>8. SenderOK' /\ (\A x \in net : FrameOK(x))'
  BY <1>1 DEF IInv, SenderOK, FrameOK
<1> QED
  BY <1>1, <1>5, <1>6, <1>7, <1>8 DEF IInv, Result

\* The invariant holds in every reachable state.
LEMMA Inductive == Spec => []IInv
<1>1. Init => IInv
  BY ConstantsAssumption DEF Init, IInv, SenderOK
<1>2. IInv /\ [Next]_vars => IInv'
  <2> SUFFICES ASSUME IInv, [Next]_vars PROVE IInv'
    OBVIOUS
  <2>1. CASE \E f \in Flow : Send(f)
    BY <2>1, SendOK
  <2>2. CASE \E fr \in net : Push(fr)
    BY <2>2, PushOK
  <2>3. CASE Tick
    BY <2>3 DEF Tick, IInv, SenderOK, FrameOK, FlowOK
  <2>4. CASE UNCHANGED vars
    BY <2>4 DEF vars, IInv, SenderOK, FrameOK, FlowOK
  <2> QED
    BY <2>1, <2>2, <2>3, <2>4 DEF Next
<1> QED
  BY <1>1, <1>2, PTL DEF Spec

\* Every variable keeps its type: in particular the reassembler's expected
\* numbers and counters never leave their u32 and usize ranges.
THEOREM TypeCorrect == Spec => []TypeOK
<1>1. IInv => TypeOK
  BY DEF IInv, SenderOK, TypeOK, FrameOK, FlowOK
<1> QED
  BY <1>1, Inductive, PTL

\* Frames of a tracked flow leave the reassembler (push_at) in the order the
\* sequencer numbered them and at most once, for any number of flows, any
\* limits and any loss, duplication and reordering on the paths.
THEOREM OrderedDeliveryHolds == Spec => []OrderedDelivery
<1>1. IInv => OrderedDelivery
  BY DEF IInv, OrderedDelivery, FlowOK
<1> QED
  BY <1>1, Inductive, PTL

\* pending_total never exceeds MAX_PENDING_TOTAL when push_at returns, although
\* a push can only make room in its own flow.
THEOREM PendingTotalBoundedHolds == Spec => []PendingTotalBounded
<1>1. IInv => PendingTotalBounded
  BY DEF IInv, PendingTotalBounded
<1> QED
  BY <1>1, Inductive, PTL


-----------------------------------------------------------------------------
(* The shared counter, exactly.                                            *)

\* The counter is m more than this flow holds back: m is held back by others.
Counts(total, st, m) == total = m + Cardinality(st.pending)

\* The number of packets a flow holds back.
LEMMA PendingCounted ==
    ASSUME NEW st, FlowOK(st)
    PROVE  IsFiniteSet(st.pending) /\ Cardinality(st.pending) \in Nat
  BY FS_CardinalityType DEF FlowOK

\* A counter that is exact stays so when a release step is settled: it never
\* saturates.
LEMMA SettleCounts ==
    ASSUME NEW st, NEW r, FlowOK(st), FlowOK(r), Shrinks(st, r), NEW m \in Nat, NEW total,
           Counts(total, st, m)
    PROVE  Settle(total, st, r) \in Nat /\ Counts(Settle(total, st, r), r, m)
<1>1. Cardinality(r.pending) <= Cardinality(st.pending)
  BY PendingCounted, FS_Subset DEF Shrinks
<1> QED BY <1>1, PendingCounted DEF Settle, Counts

\* One more packet held back.
LEMMA AddCounts ==
    ASSUME NEW st, FlowOK(st), NEW p, p \notin st.pending, NEW m \in Nat, NEW total,
           Counts(total, st, m), NEW r, r.pending = st.pending \cup {p}
    PROVE  Counts(total + 1, r, m)
<1>1. Cardinality(st.pending \cup {p}) = Cardinality(st.pending) + 1
  BY PendingCounted, FS_AddElement
<1> QED BY <1>1, PendingCounted DEF Counts

\* Storing a frame counts it once, and the releases that follow it.
LEMMA StorePendingCounts ==
    ASSUME NEW st, FlowOK(st), NEW fr, FrameOK(fr), now \in Nat, NEW m \in Nat, NEW total,
           Counts(total, st, m), \A p \in st.pending : p.seq # fr.seq
    PROVE  LET x == StorePending(st, total, fr) IN Counts(x.total, x.st, m)
<1> DEFINE p == [seq |-> fr.seq, val |-> fr.val]
           s1 == [st EXCEPT !.pending = @ \cup {p}]
           s2 == IF total + 1 > MaxPendingTotal THEN ReleaseLowest(s1) ELSE s1
           t2 == Settle(total + 1, s1, s2)
           s3 == IF s2.gap = NoGap THEN [s2 EXCEPT !.gap = now] ELSE s2
           s4 == ReleaseExpired(s3)
           t4 == Settle(t2, s3, s4)
<1>1. StorePending(st, total, fr) = [st |-> s4, total |-> t4]
  BY DEF StorePending
<1>2. p \in Pending /\ p.seq = p.val /\ p.val < MaxSent /\ p.seq = fr.seq
  BY SentBelowMod DEF FrameOK, Frame, Pending, SeqNo
<1>3. p \notin st.pending
  BY <1>2
<1>4. FlowOK(s1) /\ s1.pending = st.pending \cup {p}
  <2> HIDE DEF p
  <2> DEFINE P == st.pending \cup {p}
  <2>1. P \in SUBSET Pending /\ Positions(P) /\ IsFiniteSet(P)
    BY <1>2, FS_AddElement DEF FlowOK, FlowState, Positions
  <2> HIDE DEF P
  <2>2. FlowOK([st EXCEPT !.pending = P]) /\ [st EXCEPT !.pending = P].pending = P
    BY <2>1 DEF FlowOK, FlowState
  <2> QED
    BY <2>2 DEF P
<1> HIDE DEF p, s1
<1>5. Counts(total + 1, s1, m)
  BY <1>3, <1>4, AddCounts
<1>6. FlowOK(s2) /\ Shrinks(s1, s2)
  BY <1>4, ReleaseLowestOK, FlowParts DEF Shrinks
<1> HIDE DEF s2
<1>7. t2 \in Nat /\ Counts(t2, s2, m)
  BY <1>4, <1>5, <1>6, SettleCounts
<1> HIDE DEF t2
<1>8. FlowOK(s3) /\ s3.pending = s2.pending
  BY <1>6, SetGapOK
<1> HIDE DEF s3
<1>9. Counts(t2, s3, m)
  BY <1>7, <1>8 DEF Counts
<1>10. FlowOK(s4) /\ Shrinks(s3, s4)
  BY <1>8, ReleaseExpiredOK
<1> HIDE DEF s4
<1>11. Counts(t4, s4, m)
  BY <1>8, <1>9, <1>10, SettleCounts
<1> HIDE DEF t4
<1> QED
  BY <1>1, <1>11

\* An early frame: whichever releases made room, each is counted once.
LEMMA PushEarlyCounts ==
    ASSUME NEW st, FlowOK(st), NEW fr, FrameOK(fr), now \in Nat, NEW m \in Nat, NEW total,
           Counts(total, st, m), \A p \in st.pending : p.seq # fr.seq
    PROVE  LET x == PushEarly(st, total, fr) IN Counts(x.total, x.st, m)
<1> DEFINE s1 == IF Cardinality(st.pending) = MaxPendingPerFlow THEN ReleaseLowest(st) ELSE st
           t1 == Settle(total, st, s1)
<1>1. PushEarly(st, total, fr) =
        IF t1 = MaxPendingTotal THEN PushAtTotalLimit(s1, t1, fr) ELSE StorePending(s1, t1, fr)
  BY DEF PushEarly
<1>2. FlowOK(s1) /\ Shrinks(st, s1)
  BY ReleaseLowestOK, FlowParts DEF Shrinks
<1> HIDE DEF s1
<1>3. t1 \in Nat /\ Counts(t1, s1, m) /\ \A p \in s1.pending : p.seq # fr.seq
  BY <1>2, SettleCounts DEF Shrinks
<1> HIDE DEF t1
<1>4. CASE t1 # MaxPendingTotal
  BY <1>1, <1>2, <1>3, <1>4, StorePendingCounts
<1>5. CASE t1 = MaxPendingTotal /\ s1.pending = {}
  <2> DEFINE e == WrapAdd(fr.seq, 1)
             u == Append(s1.released, fr.val)
             r == [s1 EXCEPT !.expected = e, !.gap = NoGap, !.released = u]
  <2>1. PushEarly(st, total, fr) = [st |-> r, total |-> t1]
    BY <1>1, <1>5 DEF PushAtTotalLimit
  <2>2. r.pending = s1.pending
    <3>1. s1 \in FlowState
      BY <1>2 DEF FlowOK
    <3> HIDE DEF e, u
    <3> QED BY <3>1 DEF FlowState
  <2> HIDE DEF r
  <2> QED BY <1>3, <2>1, <2>2 DEF Counts
<1>6. CASE t1 = MaxPendingTotal /\ s1.pending # {}
  <2> DEFINE s2 == ReleaseLowest(s1)
             t2 == Settle(t1, s1, s2)
  <2>1. PushEarly(st, total, fr) = StorePending(s2, t2, fr)
    BY <1>1, <1>6 DEF PushAtTotalLimit
  <2>2. FlowOK(s2) /\ Shrinks(s1, s2)
    BY <1>2, ReleaseLowestOK
  <2> HIDE DEF s2
  <2>3. t2 \in Nat /\ Counts(t2, s2, m) /\ \A p \in s2.pending : p.seq # fr.seq
    BY <1>2, <1>3, <2>2, SettleCounts DEF Shrinks
  <2> HIDE DEF t2
  <2> QED BY <2>1, <2>2, <2>3, StorePendingCounts
<1> QED
  BY <1>4, <1>5, <1>6

\* The frame the flow waits for is never counted.
LEMMA PushExpectedCounts ==
    ASSUME NEW st, FlowOK(st), NEW fr, FrameOK(fr), fr.seq = st.expected,
           NEW m \in Nat, NEW total, Counts(total, st, m)
    PROVE  LET x == PushExpected(st, total, fr) IN Counts(x.total, x.st, m)
<1> DEFINE e == WrapAdd(st.expected, 1)
           u == Append(st.released, fr.val)
           s1 == [st EXCEPT !.expected = e, !.gap = NoGap, !.released = u]
           s2 == DrainContiguous(s1)
<1>1. PushExpected(st, total, fr) = [st |-> s2, total |-> Settle(total, s1, s2)]
  BY DEF PushExpected
<1>2. fr.val \in Nat /\ fr.val < MaxSent /\ fr.val = st.expected /\ st \in FlowState
      /\ st.pending \in SUBSET st.pending /\ NoGap \in {NoGap} \cup Nat
  BY FlowParts DEF FrameOK, FlowOK
<1>3. FlowOK([expected |-> e, gap |-> NoGap, pending |-> st.pending, released |-> u])
  <2>1. fr.val >= st.expected /\ e = WrapAdd(fr.val, 1)
    BY <1>2
  <2> QED BY <1>2, <2>1, ReleaseOneOK
<1> HIDE DEF e, u
<1>4. s1 = [expected |-> e, gap |-> NoGap, pending |-> st.pending, released |-> u]
  <2>1. st \in FlowState
    BY <1>2
  <2>2. s1 = [st EXCEPT !.expected = e, !.gap = NoGap, !.released = u]
    OBVIOUS
  <2> HIDE DEF s1
  <2> QED BY <2>1, <2>2 DEF FlowState
<1>5. FlowOK(s1) /\ s1.pending = st.pending
  BY <1>3, <1>4
<1> HIDE DEF s1
<1>6. FlowOK(s2) /\ Shrinks(s1, s2)
  BY <1>5, DrainOK
<1> HIDE DEF s2
<1>7. Counts(Settle(total, s1, s2), s2, m)
  BY <1>5, <1>6, SettleCounts DEF Counts
<1> QED
  BY <1>1, <1>7

\* push_at changes the counter by as much as what the flow holds back.
LEMMA PushFrameCounts ==
    ASSUME NEW st0, FlowOK(st0), NEW fr, FrameOK(fr), now \in Nat, NEW m \in Nat, NEW total0,
           Counts(total0, st0, m)
    PROVE  LET x == PushFrame(st0, total0, fr) IN Counts(x.total, x.st, m)
<1> DEFINE st == ReleaseExpired(st0)
           total == Settle(total0, st0, st)
           Dropped == ~IsForward(fr.seq, st.expected) \/ \E p \in st.pending : p.seq = fr.seq
<1>1. FlowOK(st) /\ Shrinks(st0, st)
  BY ReleaseExpiredOK
<1>2. PushFrame(st0, total0, fr) = IF fr.seq = st.expected THEN PushExpected(st, total, fr)
                                   ELSE IF Dropped THEN [st |-> st, total |-> total]
                                   ELSE PushEarly(st, total, fr)
  BY DEF PushFrame
<1> HIDE DEF st
<1>3. Counts(total, st, m)
  BY <1>1, SettleCounts
<1> HIDE DEF total
<1>4. CASE fr.seq = st.expected
  BY <1>1, <1>2, <1>3, <1>4, PushExpectedCounts
<1>5. CASE fr.seq # st.expected /\ Dropped
  BY <1>2, <1>3, <1>5
<1>6. CASE fr.seq # st.expected /\ ~Dropped
  BY <1>1, <1>2, <1>3, <1>6, PushEarlyCounts
<1> QED
  BY <1>4, <1>5, <1>6

\* Everything held back, with the flow it belongs to.
Held(F) == UNION {{k} \X F[k].pending : k \in DOMAIN F}

\* The books: the counter, and both tables within their limit.
Books ==
    /\ IsFiniteSet(Held(flows)) /\ pendingTotal = Cardinality(Held(flows))
    /\ IsFiniteSet(DOMAIN sequences) /\ Cardinality(DOMAIN sequences) <= MaxTrackedFlows
    /\ IsFiniteSet(DOMAIN flows) /\ Cardinality(DOMAIN flows) <= MaxTrackedFlows

\* A table that is cleared when a new key finds it full keeps its limit.
LEMMA TableBounded ==
    ASSUME NEW D, IsFiniteSet(D), Cardinality(D) <= MaxTrackedFlows, NEW k, NEW K,
           K = IF Cardinality(D) = MaxTrackedFlows /\ k \notin D THEN {} ELSE D
    PROVE  IsFiniteSet(K \cup {k}) /\ Cardinality(K \cup {k}) <= MaxTrackedFlows
<1>1. MaxTrackedFlows \in Nat /\ MaxTrackedFlows >= 1 /\ Cardinality(D) \in Nat
  BY ConstantsAssumption, FS_CardinalityType
<1>2. CASE Cardinality(D) = MaxTrackedFlows /\ k \notin D
  <2>1. K \cup {k} = {k}
    BY <1>2
  <2>2. IsFiniteSet({k}) /\ Cardinality({k}) = 1
    BY FS_Singleton
  <2> QED BY <1>1, <2>1, <2>2
<1>3. CASE Cardinality(D) # MaxTrackedFlows /\ k \notin D
  <2>1. IsFiniteSet(D \cup {k}) /\ Cardinality(D \cup {k}) = Cardinality(D) + 1
    BY <1>3, FS_AddElement
  <2> QED BY <1>1, <1>3, <2>1
<1>4. CASE k \in D
  <2>1. K \cup {k} = D
    BY <1>4
  <2> QED BY <2>1
<1> QED BY <1>2, <1>3, <1>4

\* A set with a block of its own for one key: {k} \X P beside the rest.
LEMMA BlockCounted ==
    ASSUME NEW k, NEW P, IsFiniteSet(P), NEW R, IsFiniteSet(R),
           \A x \in R : x[1] # k
    PROVE  /\ IsFiniteSet(R \cup ({k} \X P))
           /\ Cardinality(R \cup ({k} \X P)) = Cardinality(R) + Cardinality(P)
<1> DEFINE B == {k} \X P
<1>1. /\ IsFiniteSet({k}) /\ Cardinality({k}) = 1
      /\ Cardinality(P) \in Nat /\ Cardinality(R) \in Nat
  BY FS_Singleton, FS_CardinalityType
<1>2. IsFiniteSet(B) /\ Cardinality(B) = Cardinality(P)
  <2>1. IsFiniteSet(B) /\ Cardinality(B) = Cardinality({k}) * Cardinality(P)
    BY <1>1, FS_Product
  <2> QED BY <1>1, <2>1
<1>3. R \cap B = {}
  OBVIOUS
<1> HIDE DEF B
<1>4. /\ IsFiniteSet(R \cup B)
      /\ Cardinality(R \cup B) = Cardinality(R) + Cardinality(B) - Cardinality(R \cap B)
  BY <1>2, FS_Union
<1>5. Cardinality(R \cap B) = 0
  BY <1>3, FS_EmptySet
<1> QED BY <1>1, <1>2, <1>4, <1>5 DEF B

\* FlowSequencer::next only touches its own table.
LEMMA SendBooks ==
    ASSUME IInv, Books, NEW f \in Flow, Send(f)
    PROVE  Books'
<1> DEFINE full == Cardinality(DOMAIN sequences) = MaxTrackedFlows /\ f \notin DOMAIN sequences
           kept == IF full THEN <<>> ELSE sequences
<1>1. DOMAIN sequences' = DOMAIN kept \cup {f} /\ UNCHANGED <<flows, pendingTotal>>
  BY DEF Send
<1>2. DOMAIN kept = IF full THEN {} ELSE DOMAIN sequences
  OBVIOUS
<1> HIDE DEF kept
<1>3. /\ IsFiniteSet(DOMAIN kept \cup {f})
      /\ Cardinality(DOMAIN kept \cup {f}) <= MaxTrackedFlows
  BY <1>2, TableBounded DEF Books
<1> QED BY <1>1, <1>3 DEF Books, Held

\* A push changes the block of its flow and the counter alike; a cleared table
\* holds nothing and counts nothing.
LEMMA PushBooks ==
    ASSUME IInv, Books, NEW fr \in net, Push(fr)
    PROVE  Books'
<1> DEFINE key == fr.key
           full == Cardinality(DOMAIN flows) = MaxTrackedFlows /\ key \notin DOMAIN flows
           kept == IF full THEN <<>> ELSE flows
           total == IF full THEN 0 ELSE pendingTotal
           st == IF key \in DOMAIN kept THEN kept[key] ELSE NewFlowState
           r == PushFrame(st, total, fr)
           mine == {key} \X st.pending
           rest == Held(kept) \ mine
           m == Cardinality(rest)
<1>1. /\ flows' = [k \in DOMAIN kept \cup {key} |-> IF k = key THEN r.st ELSE kept[k]]
      /\ pendingTotal' = r.total
      /\ sequences' = sequences
  BY DEF Push
<1>2. DOMAIN kept = IF full THEN {} ELSE DOMAIN flows
  OBVIOUS
<1>3. IsFiniteSet(Held(kept)) /\ total = Cardinality(Held(kept))
  <2>1. CASE full
    <3>1. Held(kept) = {} /\ total = 0
      BY <2>1, <1>2 DEF Held
    <3> QED BY <3>1, FS_EmptySet
  <2>2. CASE ~full
    BY <2>2 DEF Books
  <2> QED BY <2>1, <2>2
<1>4. \A k \in DOMAIN kept : FlowOK(kept[k])
  BY DEF IInv
<1>5. /\ IsFiniteSet(DOMAIN kept \cup {key})
      /\ Cardinality(DOMAIN kept \cup {key}) <= MaxTrackedFlows
  BY <1>2, TableBounded DEF Books
<1> HIDE DEF kept, total, full
<1>6. FlowOK(st) /\ FrameOK(fr) /\ now \in Nat
  BY <1>4, NewFlowOK DEF IInv
<1>7. mine \subseteq Held(kept)
  <2>1. CASE key \in DOMAIN kept
    BY <2>1 DEF Held
  <2>2. CASE key \notin DOMAIN kept
    <3>1. st.pending = {}
      BY <2>2 DEF NewFlowState
    <3> HIDE DEF st
    <3> QED BY <3>1
  <2> QED BY <2>1, <2>2
<1>8. rest = UNION {{k} \X kept[k].pending : k \in DOMAIN kept \ {key}}
  <2>1. \A k \in DOMAIN kept : k = key => kept[k] = st
    OBVIOUS
  <2>2. key \notin DOMAIN kept => st.pending = {}
    BY DEF NewFlowState
  <2> HIDE DEF st
  <2>3. ASSUME NEW x PROVE x \in rest <=> \E k \in DOMAIN kept \ {key} : x \in {k} \X kept[k].pending
    <3>1. x \in Held(kept) <=> \E k \in DOMAIN kept : x \in {k} \X kept[k].pending
      BY DEF Held
    <3>2. \A k : x \in {k} \X kept[k].pending => x[1] = k
      OBVIOUS
    <3>3. x \in mine <=> x \in {key} \X st.pending
      OBVIOUS
    <3>4. x \in {key} \X st.pending => x[1] = key
      OBVIOUS
    <3> QED BY <2>1, <3>1, <3>2, <3>3, <3>4
  <2> HIDE DEF rest
  <2> QED BY <2>3
<1>9. IsFiniteSet(rest) /\ m \in Nat
  BY <1>3, FS_Subset, FS_CardinalityType
<1>10. Held(kept) = rest \cup mine /\ rest \cap mine = {}
  BY <1>7
<1>11. \A x \in rest : x[1] # key
  <2> HIDE DEF rest
  <2> QED BY <1>8
<1>12. Held(flows') = rest \cup ({key} \X r.st.pending)
  <2> HIDE DEF r, rest, mine, st
  <2>1. DOMAIN flows' = DOMAIN kept \cup {key} /\ flows'[key] = r.st
        /\ \A k \in DOMAIN kept \ {key} : flows'[k] = kept[k]
    BY <1>1
  <2>2. ASSUME NEW x
        PROVE  x \in Held(flows') <=> x \in rest \/ x \in {key} \X r.st.pending
    <3>1. x \in Held(flows') <=> \E k \in DOMAIN flows' : x \in {k} \X flows'[k].pending
      BY DEF Held
    <3>2. x \in rest <=> \E k \in DOMAIN kept \ {key} : x \in {k} \X kept[k].pending
      BY <1>8
    <3> QED BY <2>1, <3>1, <3>2
  <2> QED BY <2>2
<1> HIDE DEF rest, mine, key, st
<1>13. Counts(total, st, m)
  <2>1. IsFiniteSet(st.pending)
    BY <1>6, PendingCounted
  <2>2. Cardinality(rest \cup ({key} \X st.pending)) = m + Cardinality(st.pending)
    BY <1>9, <1>11, <2>1, BlockCounted
  <2> QED BY <1>3, <1>10, <2>2 DEF Counts, mine
<1> HIDE DEF m
<1>14. Counts(r.total, r.st, m)
  BY <1>6, <1>9, <1>13, PushFrameCounts
<1>15. FlowOK(r.st)
  <2>1. total \in Nat /\ total <= MaxPendingTotal
    BY ConstantsAssumption DEF IInv, total
  <2> QED BY <1>6, <2>1, PushFrameOK DEF Result
<1> HIDE DEF r
<1>16. /\ IsFiniteSet(Held(flows'))
       /\ Cardinality(Held(flows')) = m + Cardinality(r.st.pending)
  <2>1. IsFiniteSet(r.st.pending)
    BY <1>15, PendingCounted
  <2> DEFINE block == {key} \X r.st.pending
  <2>2. /\ IsFiniteSet(rest \cup block)
        /\ Cardinality(rest \cup block) = m + Cardinality(r.st.pending)
    BY <1>9, <1>11, <2>1, BlockCounted DEF m
  <2> HIDE DEF block
  <2>3. Held(flows') = rest \cup block
    BY <1>12 DEF block
  <2> QED BY <2>2, <2>3
<1>17. DOMAIN flows' = DOMAIN kept \cup {key}
  BY <1>1
<1> QED BY <1>1, <1>5, <1>14, <1>16, <1>17 DEF Books, Counts, Held

\* For any number of flows and senders, any limits, losses and delays: the
\* counter that push_at adjusts in six places is the number of packets held back,
\* both tables keep their limit and every variable its type.
THEOREM ConsistentHolds == Spec => []Consistent
<1>1. Init => Books
  <2>1. ASSUME Init PROVE Held(flows) = {} /\ DOMAIN sequences = {} /\ DOMAIN flows = {}
    BY <2>1 DEF Init, Held
  <2> QED BY <2>1, FS_EmptySet, ConstantsAssumption DEF Init, Books
<1>2. IInv /\ Books /\ [Next]_vars => Books'
  <2> SUFFICES ASSUME IInv, Books, [Next]_vars PROVE Books'
    OBVIOUS
  <2>1. CASE \E f \in Flow : Send(f)
    BY <2>1, SendBooks
  <2>2. CASE \E fr \in net : Push(fr)
    BY <2>2, PushBooks
  <2>3. CASE Tick \/ UNCHANGED vars
    BY <2>3 DEF Tick, vars, Books, Held
  <2> QED
    BY <2>1, <2>2, <2>3 DEF Next
<1>3. Books => PendingTotalExact /\ TablesBounded
  BY DEF Books, Held, PendingTotalExact, TablesBounded
<1> QED
  BY <1>1, <1>2, <1>3, Inductive, TypeCorrect, PTL DEF Spec, Consistent


-----------------------------------------------------------------------------
(* The replay window: no step of FlowFrame touches it, and what accept_rtp *)
(* does to one packet is shown for windows and laps of any size.           *)

\* Division by n.
LEMMA Division ==
    ASSUME NEW n \in Nat \ {0}, NEW a \in Int
    PROVE  /\ a \div n \in Int /\ a % n \in 0 .. n - 1
           /\ a = n * (a \div n) + (a % n)
OBVIOUS

\* No multiple of n but 0 lies closer to 0 than n.
LEMMA MultipleIsFar ==
    ASSUME NEW n \in Nat \ {0}, NEW k \in Int, -n < n * k, n * k < n
    PROVE  k = 0
<1>1. CASE k > 0
  <2>1. n * (k - 1) >= 0 /\ n * k = n + n * (k - 1)
    BY <1>1
  <2> QED BY <2>1
<1>2. CASE k < 0
  <2>1. n * (-k - 1) >= 0 /\ n * k = -n - n * (-k - 1)
    BY <1>2
  <2> QED BY <2>1
<1> QED BY <1>1, <1>2

\* Counters closer than n to each other have different low bits.
LEMMA LowBitsDiffer ==
    ASSUME NEW n \in Nat \ {0}, NEW a \in Int, NEW b \in Int,
           a % n = b % n, -n < a - b, a - b < n
    PROVE  a = b
<1>1. n * (a \div n) - n * (b \div n) = n * (a \div n - b \div n)
      /\ a \div n - b \div n \in Int
  BY Division
<1>2. n * (a \div n - b \div n) = a - b
  BY <1>1, Division
<1>3. a \div n - b \div n = 0
  BY <1>1, <1>2, MultipleIsFar
<1> QED BY <1>2, <1>3

\* A counter one lap later has the same low bits.
LEMMA LapRepeats ==
    ASSUME NEW n \in Nat \ {0}, NEW a \in Int
    PROVE  (a + n) % n = a % n
<1> DEFINE r == a % n
           s == (a + n) % n
           k == a \div n
           l == (a + n) \div n
<1>1. /\ k \in Int /\ r \in 0 .. n - 1 /\ a = n * k + r
      /\ l \in Int /\ s \in 0 .. n - 1 /\ a + n = n * l + s
  <2>1. k \in Int /\ r \in 0 .. n - 1 /\ a = n * k + r
    BY Division, Zenon
  <2>2. a + n \in Int
    OBVIOUS
  <2>3. l \in Int /\ s \in 0 .. n - 1 /\ a + n = n * l + s
    BY <2>2, Division, Zenon
  <2> QED BY <2>1, <2>3
<1> HIDE DEF r, s, k, l
<1>2. n * (l - k - 1) = n * l - n * k - n /\ l - k - 1 \in Int
  BY <1>1
<1>3. n * (l - k - 1) = r - s
  BY <1>1, <1>2
<1>4. l - k - 1 = 0
  BY <1>1, <1>2, <1>3, MultipleIsFar
<1> QED BY <1>1, <1>3, <1>4 DEF r, s

\* Of two counters less than a lap apart one is in the lap of the other or in a
\* neighbouring one.
LEMMA NeighbouringLaps ==
    ASSUME NEW m \in Nat \ {0}, NEW k \in Int, NEW l \in Int, NEW r \in 0 .. m - 1,
           NEW s \in 0 .. m - 1, NEW h \in Int, NEW c \in Int, h = m * k + r, c = m * l + s,
           -m < c - h, c - h < m
    PROVE  m * (l - k) = m * l - m * k /\ l - k \in {-1, 0, 1}
<1> DEFINE low == m * k
           high == m * l
           apart == m * (l - k)
<1>1. apart = high - low /\ low \in Int /\ high \in Int /\ l - k \in Int
  OBVIOUS
<1>2. h = low + r /\ c = high + s
  OBVIOUS
<1>3. CASE l - k > 1
  <2>1. m * (l - k - 2) >= 0 /\ apart = 2 * m + m * (l - k - 2)
    BY <1>3
  <2> HIDE DEF low, high, apart
  <2> QED BY <1>1, <1>2, <2>1
<1>4. CASE l - k < -1
  <2>1. m * (k - l - 2) >= 0 /\ apart = -2 * m - m * (k - l - 2)
    BY <1>4
  <2> HIDE DEF low, high, apart
  <2> QED BY <1>1, <1>2, <2>1
<1> QED BY <1>1, <1>3, <1>4

\* accept_rtp recovers the counter from its low bits, across laps.
LEMMA ExtendedIsExact ==
    ASSUME NEW h \in Nat, NEW c \in Near(h)
    PROVE  Extended(h, c % RtpModulus) = c
<1> DEFINE m == RtpModulus
           half == m \div 2
           k == h \div m
           l == c \div m
           high == h % m
           low == c % m
           lap == k * m
           x == lap + low
           apart == m * (l - k)
<1>1. m \in Nat \ {0} /\ half \in Nat \ {0} /\ m = 2 * half
  <2>1. m \in Nat /\ m % 2 = 0 /\ ReplaySize \in Nat \ {0} /\ ReplaySize <= half
    BY ReplayAssumption
  <2> QED BY <2>1
<1>2. c \in Nat /\ h - half < c /\ c < h + half
  <2> HIDE DEF m
  <2> QED BY <1>1 DEF Near, m
<1>3. /\ k \in Int /\ high \in 0 .. m - 1 /\ h = m * k + high
      /\ l \in Int /\ low \in 0 .. m - 1 /\ c = m * l + low
  BY <1>1, <1>2, Division
<1> SUFFICES Extended(h, low) = c
  OBVIOUS
<1>4. Extended(h, low) = IF x + half < h THEN x + m
                         ELSE IF x > h + half /\ x >= m THEN x - m ELSE x
  BY DEF Extended
<1> HIDE DEF m, half, k, l, low, high
<1>5. apart = m * l - m * k /\ l - k \in {-1, 0, 1}
  <2>1. -m < c - h /\ c - h < m
    BY <1>1, <1>2
  <2> QED BY <1>1, <1>2, <1>3, <2>1, NeighbouringLaps
<1>6. lap = m * k /\ lap \in Int
  BY <1>1, <1>3
<1>7. x = c - apart /\ apart \in {-m, 0, m}
  <2>1. x = c - apart
    BY <1>1, <1>2, <1>3, <1>5, <1>6
  <2> QED BY <1>1, <1>5, <2>1
<1> HIDE DEF x, apart
<1>8. CASE apart = 0
  BY <1>1, <1>2, <1>4, <1>7, <1>8
<1>9. CASE apart = m
  <2>1. x + half < h /\ x + m = c
    BY <1>1, <1>2, <1>7, <1>9
  <2> QED BY <1>4, <2>1
<1>10. CASE apart = -m
  <2>1. ~(x + half < h) /\ x > h + half /\ x >= m /\ x - m = c
    BY <1>1, <1>2, <1>7, <1>10
  <2> QED BY <1>4, <2>1
<1> QED BY <1>7, <1>8, <1>9, <1>10

\* The ring has one bit for every counter of a window.
LEMMA BitsOfWindow ==
    /\ \A a, b \in Nat : bit(a) = bit(b) /\ a - b < ReplaySize /\ b - a < ReplaySize => a = b
    /\ \A a \in Nat : bit(a + ReplaySize) = bit(a)
<1>1. ReplaySize \in Nat \ {0}
  BY ReplayAssumption
<1>2. ASSUME NEW a \in Nat, NEW b \in Nat, bit(a) = bit(b), a - b < ReplaySize, b - a < ReplaySize
      PROVE  a = b
  <2>1. a \in Int /\ b \in Int /\ -ReplaySize < a - b
    BY <1>1, <1>2
  <2>2. a % ReplaySize = b % ReplaySize
    BY <1>2 DEF bit
  <2> QED BY <1>1, <1>2, <2>1, <2>2, LowBitsDiffer, Zenon
<1>3. ASSUME NEW a \in Nat PROVE bit(a + ReplaySize) = bit(a)
  <2>1. a \in Int
    OBVIOUS
  <2> QED BY <1>1, <2>1, LapRepeats, Zenon DEF bit
<1> QED BY <1>2, <1>3

\* The counters of a window.
LEMMA RememberedIs ==
    ASSUME NEW h \in Nat, NEW x
    PROVE  x \in Remembered(h) <=> x \in Nat /\ h - x < ReplaySize /\ x <= h
BY ReplayAssumption DEF Remembered

\* When the window moves to c, the bits left are those of the counters still in it.
LEMMA ClearedIsExact ==
    ASSUME NEW h \in Nat, NEW taken \in SUBSET Remembered(h), h \in taken, NEW c \in Nat, c > h
    PROVE  Cleared(Window(h, taken), c) \cup {bit(c)}
              = {bit(x) : x \in (taken \cup {c}) \cap Remembered(c)}
<1> DEFINE Bits(S) == {bit(x) : x \in S}
           kept == {x \in taken : c - x < ReplaySize}
           over == {bit(i) : i \in h + 1 .. c}
<1>1. ReplaySize \in Nat \ {0}
  BY ReplayAssumption
<1>2. \A x \in taken : x \in Nat /\ h - x < ReplaySize /\ x <= h
  BY RememberedIs
<1>3. (taken \cup {c}) \cap Remembered(c) = kept \cup {c}
  <2>1. ASSUME NEW x \in taken PROVE x \in Remembered(c) <=> c - x < ReplaySize
    <3>1. x \in Nat /\ x <= c
      BY <1>2
    <3> QED BY <3>1, RememberedIs
  <2>2. c \in Remembered(c)
    BY <1>1, RememberedIs
  <2> QED BY <2>1, <2>2
<1>4. Cleared(Window(h, taken), c) = IF c - h >= ReplaySize THEN {} ELSE Bits(taken) \ over
  <2>1. taken \cap Remembered(h) = taken
    OBVIOUS
  <2>2. Window(h, taken) = [highest |-> h, seen |-> Bits(taken)]
    BY <2>1 DEF Window
  <2> QED BY <2>2 DEF Cleared
<1>5. CASE c - h >= ReplaySize
  <2>1. \A x \in taken : ~(c - x < ReplaySize)
    BY <1>1, <1>2, <1>5
  <2>2. kept = {}
    BY <2>1
  <2> QED BY <1>3, <1>4, <1>5, <2>2
<1>6. CASE c - h < ReplaySize
  <2>1. ASSUME NEW x \in taken, c - x < ReplaySize PROVE bit(x) \notin over
    <3>1. \A i \in h + 1 .. c : i \in Nat /\ i # x /\ i - x < ReplaySize /\ x - i < ReplaySize
      BY <1>1, <1>2, <1>6, <2>1
    <3> QED BY <1>2, <3>1, BitsOfWindow
  <2>2. ASSUME NEW x \in taken, ~(c - x < ReplaySize) PROVE bit(x) \in over
    <3>1. x + ReplaySize \in h + 1 .. c
      BY <1>1, <1>2, <2>2
    <3>2. bit(x + ReplaySize) = bit(x)
      BY <1>2, BitsOfWindow
    <3> QED BY <3>1, <3>2
  <2> HIDE DEF over
  <2>3. Bits(taken) \ over = Bits(kept)
    BY <2>1, <2>2
  <2>4. ~(c - h >= ReplaySize)
    BY <1>1, <1>6
  <2>5. Bits(kept \cup {c}) = Bits(kept) \cup {bit(c)}
    OBVIOUS
  <2> QED BY <1>3, <1>4, <2>3, <2>4, <2>5
<1> QED BY <1>1, <1>5, <1>6

\* What accept does to one packet, given its counter.
LEMMA AcceptIsExact ==
    ASSUME NEW h \in Nat, NEW taken \in SUBSET Remembered(h), h \in taken, NEW c \in Nat
    PROVE  LET fresh == c > h \/ (c \in Remembered(h) /\ c \notin taken)
               top == IF c > h THEN c ELSE h
           IN  accept(Window(h, taken), c) =
                  [ok |-> fresh, window |-> Window(top, IF fresh THEN taken \cup {c} ELSE taken)]
<1> DEFINE Bits(S) == {bit(x) : x \in S}
           win == Window(h, taken)
<1>1. ReplaySize \in Nat \ {0}
  BY ReplayAssumption
<1>2. \A x \in taken : x \in Nat /\ h - x < ReplaySize /\ x <= h
  BY RememberedIs
<1>3. win.highest = h /\ win.seen = Bits(taken) /\ h # Nothing
  <2>1. taken \cap Remembered(h) = taken
    OBVIOUS
  <2> QED BY <2>1 DEF Window, Nothing
<1>4. CASE c > h
  <2>1. accept(win, c) = Accepted(c, Cleared(win, c) \cup {bit(c)})
    BY <1>3, <1>4 DEF accept
  <2>2. Accepted(c, Cleared(win, c) \cup {bit(c)})
           = [ok |-> TRUE, window |-> Window(c, taken \cup {c})]
    <3>1. Cleared(win, c) \cup {bit(c)} = Bits((taken \cup {c}) \cap Remembered(c))
      BY <1>4, ClearedIsExact
    <3> QED BY <3>1, Zenon DEF Accepted, Window
  <2> QED BY <1>4, <2>1, <2>2
<1>5. CASE ~(c > h)
  <2>1. c \in Remembered(h) <=> ~(h - c >= ReplaySize)
    BY <1>1, <1>5, RememberedIs
  <2>2. accept(win, c) = IF h - c >= ReplaySize \/ bit(c) \in Bits(taken) THEN Refused(win)
                         ELSE Accepted(h, Bits(taken) \cup {bit(c)})
    BY <1>3, <1>5 DEF accept
  <2>3. CASE h - c >= ReplaySize
    <3>1. accept(win, c) = [ok |-> FALSE, window |-> win]
      BY <2>2, <2>3 DEF Refused
    <3> QED BY <1>5, <2>1, <2>3, <3>1
  <2>4. CASE ~(h - c >= ReplaySize)
    <3>1. bit(c) \in Bits(taken) <=> c \in taken
      <4>1. \A x \in taken : c - x < ReplaySize /\ x - c < ReplaySize
        BY <1>1, <1>2, <1>5, <2>4
      <4> QED BY <1>2, <4>1, BitsOfWindow
    <3>2. Accepted(h, Bits(taken) \cup {bit(c)})
             = [ok |-> TRUE, window |-> Window(h, taken \cup {c})]
      <4>1. (taken \cup {c}) \cap Remembered(h) = taken \cup {c}
        BY <2>1, <2>4
      <4>2. Bits(taken \cup {c}) = Bits(taken) \cup {bit(c)}
        OBVIOUS
      <4> QED BY <4>1, <4>2 DEF Window, Accepted
    <3>3. CASE c \in taken
      <4>1. accept(win, c) = [ok |-> FALSE, window |-> win]
        BY <2>2, <3>1, <3>3 DEF Refused
      <4> QED BY <1>5, <3>3, <4>1
    <3>4. CASE c \notin taken
      <4>1. accept(win, c) = [ok |-> TRUE, window |-> Window(h, taken \cup {c})]
        BY <2>2, <2>4, <3>1, <3>2, <3>4
      <4> QED BY <1>5, <2>1, <2>4, <3>4, <4>1
    <3> QED BY <3>3, <3>4
  <2> QED BY <2>3, <2>4
<1> QED BY <1>4, <1>5

\* For any window and any lap that it divides: accept_rtp accepts a packet exactly
\* when its counter is ahead of the window, or in it and new, and leaves the window
\* of what has been accepted, so no packet is taken twice and none is lost.
THEOREM ReplayWindowExactHolds == Spec => []ReplayWindowExact
<1>1. ASSUME NEW c \in 0 .. RtpModulus - 1
      PROVE  accept_rtp(EmptyWindow, c) = Accepted(c, {bit(c)})
  BY DEF accept_rtp, accept, EmptyWindow, Nothing, Accepted
<1>2. ASSUME NEW h \in 0 .. MaxCounter, NEW older \in SUBSET (Remembered(h) \ {h}), NEW c \in Near(h)
      PROVE  LET taken == older \cup {h}
                 fresh == c > h \/ (c \in Remembered(h) /\ c \notin taken)
                 top == IF c > h THEN c ELSE h
                 r == accept_rtp(Window(h, taken), c % RtpModulus)
             IN  /\ r.ok = fresh
                 /\ r.window = Window(top, IF fresh THEN taken \cup {c} ELSE taken)
  <2> DEFINE taken == older \cup {h}
  <2>1. h \in Nat /\ h \in Remembered(h)
    BY ReplayAssumption DEF Remembered
  <2>2. taken \in SUBSET Remembered(h) /\ h \in taken
    BY <2>1
  <2>3. c \in Nat
    BY <2>1, ReplayAssumption DEF Near
  <2>4. Extended(h, c % RtpModulus) = c
    BY <2>1, ExtendedIsExact
  <2>5. accept_rtp(Window(h, taken), c % RtpModulus) = accept(Window(h, taken), c)
    BY <2>1, <2>4 DEF accept_rtp, Window, Nothing
  <2> HIDE DEF taken
  <2> QED BY <2>1, <2>2, <2>3, <2>5, AcceptIsExact DEF taken
<1>3. ReplayExact
  BY <1>1, <1>2 DEF ReplayExact
<1>4. ReplayWindowExact
  BY <1>3 DEF ReplayWindowExact
<1> QED BY <1>4, PTL
=============================================================================
