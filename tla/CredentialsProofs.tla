-------------------------- MODULE CredentialsProofs --------------------------
(***************************************************************************)
(* HoldingsCovered, RejectedNotReused and StaleLeaseHarmless for any       *)
(* workers, cohorts, hashes, credentials and limits.                       *)
(*                                                                         *)
(* The inductive invariant has the types, what is kept in a cache (Caches),*)
(* who holds a mutex or the pacer (Locks), the leases counted against the  *)
(* current credentials (Counted), which include those whose session has    *)
(* ended and not been sorted yet, and the guards of the configuration      *)
(* (Flights).  Every action concerns one worker and its cohort (Local).    *)
(***************************************************************************)
EXTENDS Credentials, FiniteSetTheorems, TLAPS

CredRec == [value : Value \cup {NoValue}, gen : Nat, attempts : 0 .. PerCred, mismatches : 0 .. 1]
CacheRec == [current : CredRec, blocked : Value \cup {NoValue}, next : Nat]

Places ==
    {"gate", "want", "pacing", "fetch", "settling", "backoff", "refused", "held", "leased",
     "connecting", "allocating", "allocated", "ready", "ended", "sort", "gone"}
Endings ==
    {"none", "other", "park", "rebind", "repair", "reset", "invalid", "quota", "mismatch", "cancelled"}

LeaseRec == [value : Value \cup {NoValue}, gen : Nat]
WorkerRec ==
    [at : Places, lease : LeaseRec, flight : BOOLEAN, started : BOOLEAN,
     unrecorded : BOOLEAN, ready : BOOLEAN, result : Endings]

Types ==
    /\ cache \in [Cohort -> CacheRec]
    /\ lock \in [Cohort -> Worker \cup {Nobody}] /\ pacer \in Worker \cup {Nobody}
    /\ worker \in [Worker -> WorkerRec]
    /\ dead \subseteq Hash \cup {Everything}
    /\ config \in [sent : BOOLEAN, in_flight : BOOLEAN]
    /\ history \in [rejected : [Cohort -> Value \cup {NoValue}]]

\* A cache: generations only grow, and what it hands out was not rejected.
Sound(k) ==
    /\ k \in CacheRec /\ k.current.gen <= k.next
    /\ k.current.gen # 0 => k.current.value \in Value /\ k.current.value # k.blocked

Caches == \A c \in Cohort : Sound(cache[c]) /\ history.rejected[c] = cache[c].blocked

Locking == {"pacing", "fetch", "settling", "backoff"}
Pacing == {"fetch", "settling", "backoff", "refused"}

Locks ==
    /\ \A c \in Cohort : lock[c] # Nobody => worker[lock[c]].at \in Locking
    /\ pacer # Nobody => worker[pacer].at \in Pacing

Leases == \A w \in Worker : worker[w].lease.gen <= cache[CohortOf[w]].next

\* The worker's lease is still counted by the cache it came from.
InCharge(r) ==
    \/ r.at \in {"held", "leased", "connecting", "allocating", "allocated", "ready", "ended"}
    \/ r.at = "sort" /\ r.started = TRUE

Charged(x, c, g) == {w \in Worker : CohortOf[w] = c /\ InCharge(x[w]) /\ x[w].lease.gen = g}

Counted ==
    \A c \in Cohort : cache[c].current.gen # 0 =>
        Cardinality(Charged(worker, c, cache[c].current.gen)) <= cache[c].current.attempts

Guarding == {"connecting", "allocating", "allocated", "ready", "ended"}

Flights ==
    /\ config.in_flight = TRUE => \E w \in Worker : worker[w].flight = TRUE
    /\ \A w \in Worker : worker[w].flight = TRUE => worker[w].at \in Guarding

IInv == Types /\ Caches /\ Locks /\ Leases /\ Counted /\ Flights

-----------------------------------------------------------------------------
(* The operations of the cache.                                            *)

LEMMA UsableSound ==
    ASSUME NEW k, Sound(k)
    PROVE  /\ Sound(Usable(k)) /\ Usable(k).next = k.next /\ Usable(k).blocked = k.blocked
           /\ Usable(k).current.attempts < PerCred
           /\ Usable(k).current.gen # 0 => Usable(k) = k
  BY ConstantsAssumption, SMTT(30) DEF Sound, Usable, CacheRec, CredRec, NoCred, NoValue

LEMMA ReserveSound ==
    ASSUME NEW k, Sound(k), k.current.attempts < PerCred
    PROVE  /\ Sound(reserve(k)) /\ reserve(k).next = k.next /\ reserve(k).blocked = k.blocked
           /\ reserve(k).current.gen = k.current.gen
           /\ reserve(k).current.attempts = k.current.attempts + 1
           /\ Lease(k) \in LeaseRec /\ Lease(k).gen = k.current.gen
  BY ConstantsAssumption, SMTT(30) DEF Sound, reserve, Lease, LeaseRec, CacheRec, CredRec

LEMMA StoreSound ==
    ASSUME NEW k, Sound(k), NEW v \in Value
    PROVE  /\ Sound(store(k, v)) /\ store(k, v).next = k.next + 1 /\ store(k, v).blocked = NoValue
           /\ store(k, v).current.gen = k.next + 1
<1> DEFINE new == [value |-> v, gen |-> k.next + 1, attempts |-> 0, mismatches |-> 0]
<1>1. store(k, v) = [k EXCEPT !.blocked = NoValue, !.next = k.next + 1, !.current = new]
  BY DEF store
<1>2. k \in CacheRec /\ k.next + 1 \in Nat /\ v # NoValue
  BY ConstantsAssumption DEF Sound, CacheRec
<1>3. new \in CredRec /\ new.gen = k.next + 1 /\ new.value = v
  BY <1>2, ConstantsAssumption DEF CredRec
<1> HIDE DEF new
<1>4. LET r == store(k, v)
      IN  r \in CacheRec /\ r.current = new /\ r.blocked = NoValue /\ r.next = k.next + 1
  <2> DEFINE r == [k EXCEPT !.blocked = NoValue, !.next = k.next + 1, !.current = new]
  <2>1. r \in CacheRec /\ r.current = new /\ r.blocked = NoValue /\ r.next = k.next + 1
    BY <1>2, <1>3 DEF CacheRec
  <2> QED BY <1>1, <2>1
<1> QED BY <1>2, <1>3, <1>4 DEF Sound

\* The cache forgets its credentials.
LEMMA ForgetSound ==
    ASSUME NEW k, Sound(k), NEW b \in Value \cup {NoValue}
    PROVE  /\ LET r == [k EXCEPT !.current = NoCred]
              IN  Sound(r) /\ r.current.gen = 0 /\ r.next = k.next /\ r.blocked = k.blocked
           /\ LET r == [k EXCEPT !.current = NoCred, !.blocked = b]
              IN  Sound(r) /\ r.current.gen = 0 /\ r.next = k.next /\ r.blocked = b
<1>1. NoCred \in CredRec /\ NoCred.gen = 0
  BY ConstantsAssumption DEF NoCred, CredRec
<1>2. k \in CacheRec /\ k.next \in Nat
  BY DEF Sound, CacheRec
<1> DEFINE r == [k EXCEPT !.current = NoCred]
           q == [k EXCEPT !.current = NoCred, !.blocked = b]
<1>3. r \in CacheRec /\ r.current = NoCred /\ r.blocked = k.blocked /\ r.next = k.next
  BY <1>1, <1>2 DEF CacheRec
<1>4. q \in CacheRec /\ q.current = NoCred /\ q.blocked = b /\ q.next = k.next
  BY <1>1, <1>2 DEF CacheRec
<1> HIDE DEF r, q
<1>5. Sound(r) /\ Sound(q)
  BY <1>1, <1>2, <1>3, <1>4 DEF Sound
<1> QED BY <1>1, <1>3, <1>4, <1>5 DEF r, q

\* What release, record_allocation and the verdicts may do to a cache: keep the
\* credentials, perhaps with one attempt less for the holder of a lease of them,
\* or forget them.
Settles(k, l, k2) ==
    /\ Sound(k2) /\ k2.next = k.next
    /\ \/ k2.current.gen = 0
       \/ /\ k2.blocked = k.blocked /\ k2.current.gen = k.current.gen
          /\ k2.current.attempts >= k.current.attempts
       \/ /\ k2.blocked = k.blocked /\ k2.current.gen = k.current.gen
          /\ k2.current.attempts = k.current.attempts - 1 /\ l.gen = k.current.gen

\* No attempt is taken back.
NotLess(k, k2) == k2.current.gen = 0 \/ k2.current.attempts >= k.current.attempts

LEMMA ReleaseSettles ==
    ASSUME NEW k, Sound(k), NEW l
    PROVE  /\ Settles(k, l, release(k, l)) /\ release(k, l).blocked = k.blocked
           /\ l.gen # k.current.gen => release(k, l) = k
  BY ConstantsAssumption, SMTT(30) DEF Settles, Sound, release, Current, CacheRec, CredRec

LEMMA RecordSettles ==
    ASSUME NEW k, Sound(k), NEW l
    PROVE  /\ Settles(k, l, record_allocation(k, l))
           /\ record_allocation(k, l).blocked = k.blocked
           /\ record_allocation(k, l).current.gen = k.current.gen
           /\ record_allocation(k, l).current.attempts = k.current.attempts
  BY ConstantsAssumption, SMTT(30) DEF Settles, Sound, record_allocation, Current, CacheRec, CredRec

LEMMA InvalidateSettles ==
    ASSUME NEW k, Sound(k), NEW l
    PROVE  /\ Settles(k, l, invalidate(k, l)) /\ invalidate(k, l).blocked = k.blocked
           /\ l.gen # k.current.gen => invalidate(k, l) = k
           /\ NotLess(k, invalidate(k, l))
<1>1. CASE Current(k, l)
  <2> DEFINE r == [k EXCEPT !.current = NoCred]
  <2>1. invalidate(k, l) = r /\ l.gen = k.current.gen
    BY <1>1 DEF invalidate, Current
  <2>2. Sound(r) /\ r.current.gen = 0 /\ r.next = k.next /\ r.blocked = k.blocked
    BY ForgetSound, NoValue \in Value \cup {NoValue}
  <2> HIDE DEF r
  <2> QED BY <2>1, <2>2 DEF Settles, NotLess
<1>2. CASE ~Current(k, l)
  BY <1>2, SMTT(30) DEF invalidate, Settles, NotLess, Sound, CacheRec, CredRec
<1> QED BY <1>1, <1>2

LEMMA RotateSettles ==
    ASSUME NEW k, Sound(k), NEW l
    PROVE  /\ Settles(k, l, rotate_after_quota(k, l))
           /\ rotate_after_quota(k, l).blocked = IF Current(k, l) THEN l.value ELSE k.blocked
           /\ l.gen # k.current.gen => rotate_after_quota(k, l) = k
           /\ NotLess(k, rotate_after_quota(k, l))
<1>1. CASE Current(k, l)
  <2> DEFINE r == [k EXCEPT !.current = NoCred, !.blocked = k.current.value]
  <2>1. rotate_after_quota(k, l) = r /\ l.gen = k.current.gen /\ l.value = k.current.value
    BY <1>1 DEF rotate_after_quota, Current
  <2>2. k.current.value \in Value \cup {NoValue}
    BY DEF Sound, CacheRec, CredRec
  <2>3. Sound(r) /\ r.current.gen = 0 /\ r.next = k.next /\ r.blocked = k.current.value
    BY <2>2, ForgetSound
  <2> HIDE DEF r
  <2> QED BY <1>1, <2>1, <2>3 DEF Settles, NotLess
<1>2. CASE ~Current(k, l)
  BY <1>2, SMTT(30) DEF rotate_after_quota, Settles, NotLess, Sound, CacheRec, CredRec
<1> QED BY <1>1, <1>2

LEMMA RetrySettles ==
    ASSUME NEW k, Sound(k), NEW l
    PROVE  /\ Settles(k, l, retry_after_mismatch(k, l))
           /\ retry_after_mismatch(k, l).blocked = k.blocked
           /\ l.gen # k.current.gen => retry_after_mismatch(k, l) = k
           /\ NotLess(k, retry_after_mismatch(k, l))
<1>1. CASE ~Current(k, l)
  BY <1>1, SMTT(30) DEF retry_after_mismatch, Settles, NotLess, Sound, CacheRec, CredRec
<1>2. CASE Current(k, l) /\ k.current.mismatches = 0
  BY <1>2, SMTT(30) DEF retry_after_mismatch, Current, Settles, NotLess, Sound, CacheRec, CredRec
<1>3. CASE Current(k, l) /\ k.current.mismatches # 0
  <2> DEFINE r == [k EXCEPT !.current = NoCred]
  <2>1. retry_after_mismatch(k, l) = r /\ l.gen = k.current.gen
    BY <1>3 DEF retry_after_mismatch, Current
  <2>2. Sound(r) /\ r.current.gen = 0 /\ r.next = k.next /\ r.blocked = k.blocked
    BY ForgetSound, NoValue \in Value \cup {NoValue}
  <2> HIDE DEF r
  <2> QED BY <2>1, <2>2 DEF Settles, NotLess
<1> QED BY <1>1, <1>2, <1>3

\* Whatever a session ended with, its verdict settles the cache and leaves
\* credentials alone that it was not about.
LEMMA VerdictSettles ==
    ASSUME NEW k, Sound(k), NEW w
    PROVE  LET l == worker[w].lease
           IN  /\ Settles(k, l, Verdict(k, w))
               /\ Verdict(k, w).blocked =
                      IF worker[w].result = "quota" /\ Current(k, l) THEN l.value ELSE k.blocked
               /\ l.gen # k.current.gen => Verdict(k, w) = k
               /\ NotLess(k, Verdict(k, w)) \/ (worker[w].result = "park" /\ worker[w].started)
<1> DEFINE l == worker[w].lease
           r == worker[w].result
<1>0. Settles(k, l, k) /\ NotLess(k, k)
  BY SMTT(30) DEF Settles, NotLess, Sound, CacheRec, CredRec
<1>1. CASE r = "park" /\ worker[w].started
  BY <1>1, ReleaseSettles, Verdict(k, w) = release(k, l) DEF Verdict
<1>2. CASE r = "park" /\ ~worker[w].started
  BY <1>0, <1>2, Verdict(k, w) = k DEF Verdict
<1>3. CASE r \in {"reset", "invalid"}
  BY <1>3, InvalidateSettles, Verdict(k, w) = invalidate(k, l) DEF Verdict
<1>4. CASE r = "quota"
  BY <1>4, RotateSettles, Verdict(k, w) = rotate_after_quota(k, l) DEF Verdict
<1>5. CASE r = "mismatch"
  BY <1>5, RetrySettles, Verdict(k, w) = retry_after_mismatch(k, l) DEF Verdict
<1>6. CASE r \notin {"park", "reset", "invalid", "quota", "mismatch"}
  BY <1>0, <1>6, Verdict(k, w) = k DEF Verdict
<1> QED BY <1>1, <1>2, <1>3, <1>4, <1>5, <1>6

-----------------------------------------------------------------------------
(* A step of one worker.                                                   *)

\* The number of leases counted and the leases in charge change together.
Accounted(k, r, k2, r2) ==
    \/ k2.current.gen = 0
    \/ /\ k2.current.gen = k.current.gen /\ k2.current.attempts >= k.current.attempts
       /\ InCharge(r2) => InCharge(r) /\ r2.lease = r.lease
    \/ /\ k2.current.gen = k.current.gen /\ k2.current.attempts = k.current.attempts + 1
    \/ /\ k2.current.gen = k.current.gen /\ k2.current.attempts = k.current.attempts - 1
       /\ InCharge(r) /\ r.lease.gen = k.current.gen /\ ~InCharge(r2)
    \/ k2.current.gen > k.next /\ r2.lease = r.lease

\* The step concerns worker w and its cohort only.
Local(w) ==
    /\ \A o \in Worker \ {w} : worker'[o] = worker[o]
    /\ \A d \in Cohort \ {CohortOf[w]} : cache'[d] = cache[d] /\ history'.rejected[d] = history.rejected[d]

CacheStep(w) ==
    LET c == CohortOf[w]
    IN  /\ Sound(cache'[c]) /\ history'.rejected[c] = cache'[c].blocked
        /\ cache'[c].next >= cache[c].next /\ worker'[w].lease.gen <= cache'[c].next

LockStep(w) ==
    /\ \A d \in Cohort : \/ lock'[d] = Nobody
                         \/ lock'[d] = lock[d] /\ lock[d] # w
                         \/ lock'[d] = w /\ worker'[w].at \in Locking
    /\ \/ pacer' = Nobody \/ (pacer' = pacer /\ pacer # w)
       \/ pacer' = w /\ worker'[w].at \in Pacing

FlightStep(w) ==
    /\ worker'[w].flight = TRUE => worker'[w].at \in Guarding
    /\ config'.in_flight = TRUE =>
          worker'[w].flight = TRUE \/ (config.in_flight = TRUE /\ worker[w].flight # TRUE)

LEMMA CountedPreserved ==
    ASSUME Types, Types', Caches, Leases, Counted, NEW w \in Worker, Local(w), CacheStep(w),
           Accounted(cache[CohortOf[w]], worker[w], cache'[CohortOf[w]], worker'[w])
    PROVE  Counted'
<1> DEFINE c == CohortOf[w]
<1>0. c \in Cohort /\ IsFiniteSet(Worker)
  BY ConstantsAssumption
<1>1. \A x, d, g : IsFiniteSet(Charged(x, d, g)) /\ Cardinality(Charged(x, d, g)) \in Nat
  BY <1>0, FS_Subset, FS_CardinalityType DEF Charged
<1>2. SUFFICES ASSUME NEW d \in Cohort, cache'[d].current.gen # 0
               PROVE  Cardinality(Charged(worker', d, cache'[d].current.gen)) <= cache'[d].current.attempts
  BY DEF Counted
<1> DEFINE k == cache[d]
           k2 == cache'[d]
           old == Charged(worker, d, k.current.gen)
           new == Charged(worker', d, k2.current.gen)
<1>3. /\ k.current.gen \in Nat /\ k.current.attempts \in Nat /\ k.next \in Nat
      /\ k2.current.gen \in Nat /\ k2.current.attempts \in Nat
  <2>1. k \in CacheRec /\ k2 \in CacheRec
    BY DEF Types
  <2> HIDE DEF k, k2
  <2> QED BY <2>1, ConstantsAssumption DEF CacheRec, CredRec
<1>4. k.current.gen # 0 => Cardinality(old) <= k.current.attempts
  BY DEF Counted
<1>5. IsFiniteSet(old) /\ IsFiniteSet(new) /\ Cardinality(old) \in Nat /\ Cardinality(new) \in Nat
  BY <1>1
<1>6. CASE d # c
  <2>1. k2 = k
    BY <1>6 DEF Local
  <2>2. new = old
    BY <1>6, <2>1 DEF Charged, Local
  <2> QED BY <1>2, <2>1, <2>2, <1>4
<1>7. CASE d = c
  <2>1. CASE /\ k2.current.gen = k.current.gen /\ k2.current.attempts >= k.current.attempts
             /\ InCharge(worker'[w]) => InCharge(worker[w]) /\ worker'[w].lease = worker[w].lease
    <3>1. new \subseteq old
      BY <2>1 DEF Charged, Local
    <3>2. Cardinality(new) <= Cardinality(old)
      BY <3>1, <1>5, FS_Subset
    <3> HIDE DEF old, new, k, k2
    <3> QED BY <1>2, <1>3, <1>4, <1>5, <2>1, <3>2 DEF k, k2, new, old
  <2>2. CASE k2.current.gen = k.current.gen /\ k2.current.attempts = k.current.attempts + 1
    <3>1. new \subseteq old \cup {w}
      BY <2>2 DEF Charged, Local
    <3> HIDE DEF old, new
    <3>2. IsFiniteSet(old \cup {w}) /\ Cardinality(old \cup {w}) <= Cardinality(old) + 1
      <4>1. /\ IsFiniteSet(old \cup {w})
            /\ Cardinality(old \cup {w}) = IF w \in old THEN Cardinality(old) ELSE Cardinality(old) + 1
        BY <1>5, FS_AddElement
      <4> QED BY <1>5, <4>1
    <3>3. Cardinality(old \cup {w}) \in Nat
      BY <3>2, FS_CardinalityType
    <3>4. Cardinality(new) <= Cardinality(old \cup {w})
      BY <3>1, <3>2, FS_Subset
    <3> QED BY <1>2, <1>3, <1>4, <1>5, <2>2, <3>2, <3>3, <3>4 DEF old, new
  <2>3. CASE /\ k2.current.gen = k.current.gen /\ k2.current.attempts = k.current.attempts - 1
             /\ InCharge(worker[w]) /\ worker[w].lease.gen = k.current.gen /\ ~InCharge(worker'[w])
    <3>1. new \subseteq old \ {w} /\ w \in old
      BY <1>7, <2>3 DEF Charged, Local
    <3>2. IsFiniteSet(old \ {w}) /\ Cardinality(old \ {w}) = Cardinality(old) - 1
      BY <1>5, <3>1, FS_RemoveElement
    <3>3. Cardinality(new) <= Cardinality(old \ {w})
      BY <3>1, <3>2, FS_Subset
    <3> QED BY <1>2, <1>3, <1>4, <1>5, <2>3, <3>2, <3>3
  <2>4. CASE k2.current.gen > k.next /\ worker'[w].lease = worker[w].lease
    <3>1. ASSUME NEW o \in Worker, CohortOf[o] = c
          PROVE  worker'[o].lease.gen # k2.current.gen
      <4>1. worker'[o].lease.gen = worker[o].lease.gen
        BY <2>4 DEF Local
      <4>2. worker[o].lease.gen <= k.next /\ worker[o].lease.gen \in Nat
        <5>1. worker[o] \in WorkerRec
          BY DEF Types
        <5> QED BY <1>7, <3>1, <5>1 DEF Leases, WorkerRec, LeaseRec
      <4> QED BY <1>3, <2>4, <4>1, <4>2
    <3>2. new = {}
      BY <1>7, <3>1 DEF Charged
    <3> QED BY <1>3, <3>2, FS_EmptySet
  <2> QED BY <1>2, <1>7, <2>1, <2>2, <2>3, <2>4 DEF Accounted
<1> QED BY <1>6, <1>7

Books(w) == Accounted(cache[CohortOf[w]], worker[w], cache'[CohortOf[w]], worker'[w])

\* A step that keeps the books of one worker preserves the invariant.
LEMMA StepPreserves ==
    ASSUME IInv, Types', NEW w \in Worker, Local(w), CacheStep(w), LockStep(w), FlightStep(w), Books(w)
    PROVE  IInv'
<1> USE DEF IInv
<1>0. CohortOf \in [Worker -> Cohort] /\ Nobody \notin Worker
  BY ConstantsAssumption
<1>1. Caches'
  BY <1>0 DEF Caches, Local, CacheStep
<1>2. Locks'
  <2>1. ASSUME NEW d \in Cohort, lock'[d] # Nobody
        PROVE  worker'[lock'[d]].at \in Locking
    <3>1. CASE lock'[d] = lock[d] /\ lock[d] # w
      BY <2>1, <3>1 DEF Locks, Local, Types
    <3> QED BY <2>1, <3>1 DEF LockStep
  <2>2. pacer' # Nobody => worker'[pacer'].at \in Pacing
    BY DEF Locks, Local, Types, LockStep
  <2> QED BY <2>1, <2>2 DEF Locks
<1>3. Leases'
  <2>1. ASSUME NEW o \in Worker PROVE worker'[o].lease.gen <= cache'[CohortOf[o]].next
    <3>1. CASE o = w
      BY <3>1 DEF CacheStep
    <3>2. CASE o # w
      <4>1. worker'[o] = worker[o] /\ worker[o].lease.gen <= cache[CohortOf[o]].next
        BY <3>2 DEF Local, Leases
      <4>2. cache'[CohortOf[o]].next >= cache[CohortOf[o]].next
        <5>1. cache[CohortOf[o]].next \in Nat
          BY <1>0 DEF Types, CacheRec
        <5> QED BY <1>0, <5>1 DEF Local, CacheStep
      <4>3. worker[o].lease.gen \in Nat /\ cache[CohortOf[o]].next \in Nat /\ cache'[CohortOf[o]].next \in Nat
        BY <1>0 DEF Types, CacheRec, WorkerRec, LeaseRec
      <4> QED BY <4>1, <4>2, <4>3
    <3> QED BY <3>1, <3>2
  <2> QED BY <2>1 DEF Leases
<1>4. Counted'
  BY CountedPreserved DEF Books
<1>5. Flights'
  <2>1. \A o \in Worker : worker'[o].flight = TRUE => worker'[o].at \in Guarding
    BY DEF Flights, Local, FlightStep
  <2>2. ASSUME config'.in_flight = TRUE PROVE \E o \in Worker : worker'[o].flight = TRUE
    <3>1. CASE worker'[w].flight = TRUE
      BY <3>1
    <3>2. CASE config.in_flight = TRUE /\ worker[w].flight # TRUE
      <4>1. PICK o \in Worker : worker[o].flight = TRUE
        BY <3>2 DEF Flights
      <4> QED BY <3>2, <4>1 DEF Local
    <3> QED BY <2>2, <3>1, <3>2 DEF FlightStep
  <2> QED BY <2>1, <2>2 DEF Flights
<1> QED BY <1>1, <1>2, <1>3, <1>4, <1>5

\* A step that leaves the caches alone.
LEMMA CacheKept ==
    ASSUME IInv, NEW w \in Worker, UNCHANGED <<cache, history>>,
           \A o \in Worker \ {w} : worker'[o] = worker[o],
           worker'[w].lease = worker[w].lease \/ worker'[w].lease.gen = 0,
           InCharge(worker'[w]) => InCharge(worker[w]) /\ worker'[w].lease = worker[w].lease
    PROVE  Local(w) /\ CacheStep(w) /\ Books(w)
<1> DEFINE k == cache[CohortOf[w]]
<1>0. CohortOf[w] \in Cohort
  BY ConstantsAssumption
<1>1. k \in CacheRec /\ Sound(k) /\ history.rejected[CohortOf[w]] = k.blocked /\ worker[w].lease.gen <= k.next
  BY <1>0 DEF IInv, Types, Caches, Leases
<1>2. k.next \in Nat /\ k.current.attempts \in Nat
  BY <1>1, ConstantsAssumption DEF CacheRec, CredRec
<1>3. Local(w)
  BY DEF Local
<1>4. CacheStep(w)
  BY <1>1, <1>2 DEF CacheStep
<1>5. Books(w)
  BY <1>2 DEF Books, Accounted
<1> QED BY <1>3, <1>4, <1>5

\* The mutexes and the pacer that a step leaves alone or releases.
LEMMA LocksKept ==
    ASSUME IInv, NEW w \in Worker
    PROVE  /\ UNCHANGED lock /\ (worker[w].at \in Locking => worker'[w].at \in Locking)
               => \A d \in Cohort : \/ lock'[d] = Nobody
                                    \/ lock'[d] = lock[d] /\ lock[d] # w
                                    \/ lock'[d] = w /\ worker'[w].at \in Locking
           /\ lock' = Unlocked(w)
               => \A d \in Cohort : lock'[d] = Nobody \/ (lock'[d] = lock[d] /\ lock[d] # w)
           /\ UNCHANGED pacer /\ (worker[w].at \in Pacing => worker'[w].at \in Pacing)
               => \/ pacer' = Nobody \/ (pacer' = pacer /\ pacer # w)
                  \/ pacer' = w /\ worker'[w].at \in Pacing
           /\ pacer' = Unpaced(w) => pacer' = Nobody \/ (pacer' = pacer /\ pacer # w)
<1>0. Nobody \notin Worker
  BY ConstantsAssumption
<1> QED BY <1>0 DEF IInv, Types, Locks, Unlocked, Unpaced

LEMMA MovedWorker ==
    ASSUME Types, NEW w \in Worker, NEW p \in Places, worker' = Moved(w, p)
    PROVE  /\ worker' \in [Worker -> WorkerRec]
           /\ \A o \in Worker \ {w} : worker'[o] = worker[o]
           /\ worker'[w].at = p /\ worker'[w].lease = worker[w].lease
           /\ worker'[w].flight = worker[w].flight /\ worker'[w].started = worker[w].started
  BY DEF Types, Moved, WorkerRec

\* A worker without a guard that stays without one.
LEMMA NoFlight ==
    ASSUME IInv, NEW w \in Worker, worker[w].at \notin Guarding,
           worker'[w].flight = worker[w].flight, UNCHANGED config
    PROVE  FlightStep(w)
  BY DEF IInv, Flights, FlightStep

\* The record of one worker is replaced.
LEMMA OneWorker ==
    ASSUME Types, NEW w \in Worker, NEW r \in WorkerRec, worker' = [worker EXCEPT ![w] = r]
    PROVE  /\ worker' \in [Worker -> WorkerRec] /\ worker'[w] = r
           /\ \A o \in Worker \ {w} : worker'[o] = worker[o]
<1>1. worker \in [Worker -> WorkerRec]
  BY DEF Types
<1> QED BY <1>1

\* What a lease does to the record of its worker.
LEMMA LeasedWorker ==
    ASSUME Types, NEW w \in Worker, NEW l \in LeaseRec,
           worker' = [worker EXCEPT ![w].at = "leased", ![w].lease = l]
    PROVE  /\ worker' \in [Worker -> WorkerRec] /\ \A o \in Worker \ {w} : worker'[o] = worker[o]
           /\ worker'[w].at = "leased" /\ worker'[w].lease = l /\ worker'[w].flight = worker[w].flight
<1>1. worker[w] \in WorkerRec
  BY DEF Types
<1> DEFINE r == [worker[w] EXCEPT !.at = "leased", !.lease = l]
<1>2. r \in WorkerRec /\ r.at = "leased" /\ r.lease = l /\ r.flight = worker[w].flight
  BY <1>1 DEF WorkerRec, Places
<1>3. worker' = [worker EXCEPT ![w] = r]
  BY Zenon
<1> HIDE DEF r
<1> QED BY <1>2, <1>3, OneWorker

LEMMA UnlockedTypes ==
    ASSUME Types, NEW w \in Worker
    PROVE  Unlocked(w) \in [Cohort -> Worker \cup {Nobody}] /\ Unpaced(w) \in Worker \cup {Nobody}
  BY DEF Types, Unlocked, Unpaced

-----------------------------------------------------------------------------
(* The actions of get.                                                     *)

LEMMA GetPreserves ==
    ASSUME IInv, NEW w \in Worker, Get(w)
    PROVE  IInv'
<1> DEFINE c == CohortOf[w]
           k == Usable(cache[c])
<1>0. c \in Cohort
  BY ConstantsAssumption
<1>1. cache[c] \in CacheRec /\ Sound(cache[c]) /\ history.rejected[c] = cache[c].blocked
      /\ worker[w].lease.gen <= cache[c].next /\ worker[w].at = "want" /\ lock[c] = Nobody
  BY <1>0 DEF IInv, Types, Caches, Leases, Get, At, Free
<1>2. /\ Sound(k) /\ k.next = cache[c].next /\ k.blocked = cache[c].blocked
      /\ k.current.attempts < PerCred /\ (k.current.gen # 0 => k = cache[c])
  BY <1>1, UsableSound
<1>3. k.next \in Nat /\ k.current.attempts \in Nat /\ k.current.gen \in Nat /\ k.current.gen <= k.next
  <2> HIDE DEF k
  <2> QED BY <1>2, ConstantsAssumption DEF Sound, CacheRec, CredRec
<1> HIDE DEF k
<1>4. CASE k.current.gen # 0
  <2> DEFINE q == reserve(k)
             l == Lease(k)
  <2>1. /\ Sound(q) /\ q.next = k.next /\ q.blocked = k.blocked /\ q.current.gen = k.current.gen
        /\ q.current.attempts = k.current.attempts + 1 /\ l \in LeaseRec /\ l.gen = k.current.gen
    BY <1>2, ReserveSound
  <2> HIDE DEF q, l
  <2>2. /\ cache' = [cache EXCEPT ![c] = q]
        /\ worker' = [worker EXCEPT ![w].at = "leased", ![w].lease = l]
        /\ UNCHANGED <<lock, pacer, dead, config, history>>
    BY <1>4 DEF Get, k, q, l
  <2>3. /\ worker' \in [Worker -> WorkerRec] /\ \A o \in Worker \ {w} : worker'[o] = worker[o]
        /\ worker'[w].at = "leased" /\ worker'[w].lease = l /\ worker'[w].flight = worker[w].flight
    BY <2>1, <2>2, LeasedWorker, Zenon DEF IInv
  <2>4. cache'[c] = q /\ \A d \in Cohort \ {c} : cache'[d] = cache[d]
    BY <1>0, <2>2 DEF IInv, Types
  <2>5. Types'
    <3>1. q \in CacheRec
      BY <2>1 DEF Sound
    <3> QED BY <1>0, <2>2, <2>3, <3>1 DEF IInv, Types
  <2>6. Local(w) /\ CacheStep(w)
    BY <1>0, <1>1, <1>2, <1>3, <2>1, <2>2, <2>3, <2>4 DEF Local, CacheStep
  <2>7. LockStep(w)
    BY <1>1, <2>2, LocksKept DEF LockStep, Locking, Pacing
  <2>8. FlightStep(w)
    BY <1>1, <2>2, <2>3, NoFlight DEF Guarding
  <2>9. Books(w)
    BY <1>2, <1>4, <2>1, <2>4 DEF Books, Accounted
  <2> QED BY <2>5, <2>6, <2>7, <2>8, <2>9, StepPreserves
<1>5. CASE k.current.gen = 0
  <2>1. /\ cache' = [cache EXCEPT ![c] = k] /\ lock' = [lock EXCEPT ![c] = w]
        /\ worker' = Moved(w, "pacing") /\ UNCHANGED <<pacer, dead, config, history>>
    BY <1>5 DEF Get, k
  <2>2. /\ worker' \in [Worker -> WorkerRec] /\ \A o \in Worker \ {w} : worker'[o] = worker[o]
        /\ worker'[w].at = "pacing" /\ worker'[w].lease = worker[w].lease
        /\ worker'[w].flight = worker[w].flight
    BY <2>1, MovedWorker DEF IInv, Places
  <2>3. cache'[c] = k /\ \A d \in Cohort \ {c} : cache'[d] = cache[d]
    BY <1>0, <2>1 DEF IInv, Types
  <2>4. Types'
    <3>1. k \in CacheRec
      BY <1>2 DEF Sound
    <3> QED BY <1>0, <2>1, <2>2, <3>1 DEF IInv, Types
  <2>5. Local(w) /\ CacheStep(w)
    BY <1>0, <1>1, <1>2, <1>3, <2>1, <2>2, <2>3 DEF Local, CacheStep
  <2>6. LockStep(w)
    <3>1. \A d \in Cohort : lock[d] # w
      BY <1>1, ConstantsAssumption DEF IInv, Locks, Locking
    <3>2. lock'[c] = w /\ \A d \in Cohort \ {c} : lock'[d] = lock[d]
      BY <1>0, <2>1 DEF IInv, Types
    <3> QED BY <1>1, <2>1, <2>2, <3>1, <3>2, LocksKept DEF LockStep, Locking, Pacing
  <2>7. FlightStep(w)
    BY <1>1, <2>1, <2>2, NoFlight DEF Guarding
  <2>8. Books(w)
    BY <1>5, <2>3 DEF Books, Accounted
  <2> QED BY <2>4, <2>5, <2>6, <2>7, <2>8, StepPreserves
<1> QED BY <1>4, <1>5

LEMMA BeginFetchPreserves ==
    ASSUME IInv, NEW w \in Worker, BeginFetch(w)
    PROVE  IInv'
<1>1. /\ worker[w].at = "pacing" /\ pacer = Nobody /\ pacer' = w /\ worker' = Moved(w, "fetch")
      /\ UNCHANGED <<cache, lock, dead, config, history>>
  BY DEF BeginFetch, At
<1>2. /\ worker' \in [Worker -> WorkerRec] /\ \A o \in Worker \ {w} : worker'[o] = worker[o]
      /\ worker'[w].at = "fetch" /\ worker'[w].lease = worker[w].lease
      /\ worker'[w].flight = worker[w].flight
  BY <1>1, MovedWorker DEF IInv, Places
<1>3. Types'
  BY <1>1, <1>2 DEF IInv, Types
<1>4. Local(w) /\ CacheStep(w) /\ Books(w)
  BY <1>1, <1>2, CacheKept DEF InCharge
<1>5. LockStep(w)
  BY <1>1, <1>2, LocksKept DEF LockStep, Locking, Pacing
<1>6. FlightStep(w)
  BY <1>1, <1>2, NoFlight DEF Guarding
<1> QED BY <1>3, <1>4, <1>5, <1>6, StepPreserves

\* The answer is stored: nobody has a lease of it yet, and what was rejected
\* before is forgotten on both sides.
LEMMA StorePreserves ==
    ASSUME IInv, NEW w \in Worker, NEW v \in Value, worker[w].at = "fetch",
           v # cache[CohortOf[w]].blocked, Fetched(w, v), UNCHANGED <<pacer, dead, config>>
    PROVE  IInv'
<1> DEFINE c == CohortOf[w]
           k == cache[c]
           q == store(k, v)
<1>0. c \in Cohort
  BY ConstantsAssumption
<1>1. Sound(k) /\ history.rejected[c] = k.blocked /\ worker[w].lease.gen <= k.next
  BY <1>0 DEF IInv, Caches, Leases
<1>2. k.next \in Nat /\ worker[w].lease.gen \in Nat
  <2>1. worker[w] \in WorkerRec /\ k \in CacheRec
    BY <1>0 DEF IInv, Types
  <2> QED BY <2>1 DEF CacheRec, WorkerRec, LeaseRec
<1>3. Sound(q) /\ q.next = k.next + 1 /\ q.blocked = NoValue /\ q.current.gen = k.next + 1
  BY <1>1, StoreSound
<1> HIDE DEF q
<1>4. /\ cache' = [cache EXCEPT ![c] = q] /\ worker' = Moved(w, "settling")
      /\ history' = [history EXCEPT !.rejected[c] = IF v # @ THEN NoValue ELSE @]
      /\ UNCHANGED <<lock, pacer, dead, config>>
  BY DEF Fetched, q
<1>5. /\ history' \in [rejected : [Cohort -> Value \cup {NoValue}]] /\ history'.rejected[c] = NoValue
      /\ \A d \in Cohort \ {c} : history'.rejected[d] = history.rejected[d]
  <2> DEFINE h == [history.rejected EXCEPT ![c] = NoValue]
  <2>1. history \in [rejected : [Cohort -> Value \cup {NoValue}]]
    BY DEF IInv, Types
  <2>2. history' = [history EXCEPT !.rejected = h]
    BY <1>1, <1>4
  <2>3. /\ h \in [Cohort -> Value \cup {NoValue}] /\ h[c] = NoValue
        /\ \A d \in Cohort \ {c} : h[d] = history.rejected[d]
    BY <1>0, <2>1
  <2> HIDE DEF h
  <2> QED BY <2>1, <2>2, <2>3
<1>6. /\ worker' \in [Worker -> WorkerRec] /\ \A o \in Worker \ {w} : worker'[o] = worker[o]
      /\ worker'[w].at = "settling" /\ worker'[w].lease = worker[w].lease
      /\ worker'[w].flight = worker[w].flight
  BY <1>4, MovedWorker DEF IInv, Places
<1>7. cache'[c] = q /\ \A d \in Cohort \ {c} : cache'[d] = cache[d]
  BY <1>0, <1>4 DEF IInv, Types
<1>8. Types'
  <2>1. q \in CacheRec
    BY <1>3 DEF Sound
  <2> QED BY <1>0, <1>4, <1>5, <1>6, <2>1 DEF IInv, Types
<1>9. Local(w)
  BY <1>5, <1>6, <1>7 DEF Local
<1>10. CacheStep(w)
  BY <1>1, <1>2, <1>3, <1>5, <1>6, <1>7 DEF CacheStep
<1>11. LockStep(w)
  BY <1>4, <1>6, LocksKept DEF LockStep, Locking, Pacing
<1>12. FlightStep(w)
  BY <1>4, <1>6, NoFlight DEF Guarding
<1>13. Books(w)
  BY <1>2, <1>3, <1>6, <1>7 DEF Books, Accounted
<1> QED BY <1>8, <1>9, <1>10, <1>11, <1>12, <1>13, StepPreserves

\* A worker in get that only moves on, and frees what it holds or keeps it.
LEMMA GetMoves ==
    ASSUME IInv, NEW w \in Worker, NEW p \in {"refused", "gone", "backoff", "want"},
           worker[w].at \in {"want"} \cup Locking \cup Pacing, worker' = Moved(w, p),
           UNCHANGED <<cache, config, history>>, dead' \subseteq Hash \cup {Everything},
           lock' = Unlocked(w) \/ (UNCHANGED lock /\ p = "backoff"),
           pacer' = Unpaced(w) \/ (UNCHANGED pacer /\ p \in {"backoff", "refused"})
    PROVE  IInv'
<1>2. /\ worker' \in [Worker -> WorkerRec] /\ \A o \in Worker \ {w} : worker'[o] = worker[o]
      /\ worker'[w].at = p /\ worker'[w].lease = worker[w].lease
      /\ worker'[w].flight = worker[w].flight
  BY MovedWorker DEF IInv, Places
<1>3. Types'
  BY <1>2, UnlockedTypes DEF IInv, Types
<1>4. Local(w) /\ CacheStep(w) /\ Books(w)
  BY <1>2, CacheKept DEF InCharge
<1>5. LockStep(w)
  <2>1. /\ p = "backoff" => p \in Locking
        /\ p \in {"backoff", "refused"} => p \in Pacing
    BY DEF Locking, Pacing
  <2>2. \A d \in Cohort : \/ lock'[d] = Nobody
                          \/ lock'[d] = lock[d] /\ lock[d] # w
                          \/ lock'[d] = w /\ worker'[w].at \in Locking
    <3>1. CASE lock' = Unlocked(w)
      BY <3>1, LocksKept
    <3>2. CASE UNCHANGED lock /\ p = "backoff"
      BY <1>2, <2>1, <3>2, LocksKept
    <3> QED BY <3>1, <3>2
  <2>3. \/ pacer' = Nobody \/ (pacer' = pacer /\ pacer # w)
        \/ pacer' = w /\ worker'[w].at \in Pacing
    BY <1>2, <2>1, LocksKept
  <2> QED BY <2>2, <2>3 DEF LockStep
<1>6. FlightStep(w)
  BY <1>2, NoFlight DEF Guarding, Locking, Pacing
<1> QED BY <1>3, <1>4, <1>5, <1>6, StepPreserves

\* At the gates a worker only moves: with its lease, or without one.
LEMMA GatePreserves ==
    ASSUME IInv, NEW w \in Worker, GateStep(w)
    PROVE  IInv'
<1>1. UNCHANGED <<cache, lock, pacer, dead, config, history>>
  BY DEF GateStep, HeldBack, Released, StopsAtGate
<1>2. PICK p \in {"held", "want", "leased", "gone"} :
         /\ worker' = Moved(w, p)
         /\ \/ worker[w].at \in {"leased", "held"} /\ p \in {"leased", "held"}
            \/ worker[w].at = "gate" /\ p \in {"want", "gone"}
  BY DEF GateStep, HeldBack, Released, StopsAtGate, At
<1>3. /\ worker' \in [Worker -> WorkerRec] /\ \A o \in Worker \ {w} : worker'[o] = worker[o]
      /\ worker'[w].at = p /\ worker'[w].lease = worker[w].lease
      /\ worker'[w].flight = worker[w].flight
  BY <1>2, MovedWorker DEF IInv, Places
<1>4. Types'
  BY <1>1, <1>3 DEF IInv, Types
<1>5. Local(w) /\ CacheStep(w) /\ Books(w)
  <2>1. InCharge(worker'[w]) => InCharge(worker[w])
    BY <1>2, <1>3 DEF InCharge
  <2> QED BY <1>1, <1>3, <2>1, CacheKept
<1>6. LockStep(w)
  <2>1. worker[w].at \notin Locking /\ worker[w].at \notin Pacing
    BY <1>2 DEF Locking, Pacing
  <2> QED BY <1>1, <2>1, LocksKept DEF LockStep
<1>7. FlightStep(w)
  BY <1>1, <1>2, <1>3, NoFlight DEF Guarding
<1> QED BY <1>4, <1>5, <1>6, <1>7, StepPreserves

LEMMA AnswerPreserves ==
    ASSUME IInv, NEW w \in Worker, NEW r \in Outcome, Answer(w, r)
    PROVE  IInv'
<1>1. worker[w].at = "fetch" /\ UNCHANGED config /\ dead \subseteq Hash \cup {Everything}
  BY DEF Answer, At, IInv, Types
<1>2. CASE r.kind = "ok" /\ Fetched(w, r.value) /\ UNCHANGED <<pacer, dead>>
  <2>1. r.value \in Value
    BY <1>2 DEF Outcome, Ok, Unavailable, Failed
  <2>2. CASE r.value = cache[CohortOf[w]].blocked
    <3>1. /\ lock' = Unlocked(w) /\ worker' = Moved(w, "refused")
          /\ UNCHANGED <<cache, history, pacer, dead>>
      BY <1>2, <2>2 DEF Fetched
    <3> QED BY <1>1, <3>1, GetMoves DEF Locking
  <2>3. CASE r.value # cache[CohortOf[w]].blocked
    BY <1>1, <1>2, <2>1, <2>3, StorePreserves
  <2> QED BY <2>2, <2>3
<1>3. CASE r.kind = "unavailable" /\ MarkUnavailable(w) /\ UNCHANGED <<cache, history>>
  <2>1. dead' \subseteq Hash \cup {Everything}
    BY <1>1, <1>3, ConstantsAssumption DEF MarkUnavailable
  <2> QED BY <1>1, <1>3, <2>1, GetMoves DEF MarkUnavailable, Locking
<1>4. CASE r.kind = "error" /\ worker' = Moved(w, "backoff")
           /\ UNCHANGED <<cache, lock, pacer, dead, history>>
  BY <1>1, <1>4, GetMoves DEF Locking
<1> QED BY <1>2, <1>3, <1>4 DEF Answer

LEMMA SettledPreserves ==
    ASSUME IInv, NEW w \in Worker, Settled(w)
    PROVE  IInv'
<1> DEFINE c == CohortOf[w]
           k == Usable(cache[c])
           q == reserve(k)
           l == Lease(k)
<1>0. c \in Cohort
  BY ConstantsAssumption
<1>1. Sound(cache[c]) /\ history.rejected[c] = cache[c].blocked /\ worker[w].at = "settling"
  BY <1>0 DEF IInv, Caches, Settled, At
<1>2. /\ Sound(k) /\ k.next = cache[c].next /\ k.blocked = cache[c].blocked
      /\ k.current.attempts < PerCred /\ (k.current.gen # 0 => k = cache[c])
  BY <1>1, UsableSound
<1> HIDE DEF k
<1>3. k.next \in Nat /\ k.current.gen \in Nat /\ k.current.gen <= k.next
  BY <1>2 DEF Sound, CacheRec, CredRec
<1>4. /\ Sound(q) /\ q.next = k.next /\ q.blocked = k.blocked /\ q.current.gen = k.current.gen
      /\ q.current.attempts = k.current.attempts + 1 /\ l \in LeaseRec /\ l.gen = k.current.gen
  BY <1>2, ReserveSound
<1> HIDE DEF q, l
<1>5. /\ cache' = [cache EXCEPT ![c] = q]
      /\ worker' = [worker EXCEPT ![w].at = "leased", ![w].lease = l]
      /\ lock' = Unlocked(w) /\ pacer' = Unpaced(w) /\ UNCHANGED <<dead, config, history>>
  BY DEF Settled, k, q, l
<1>6. /\ worker' \in [Worker -> WorkerRec] /\ \A o \in Worker \ {w} : worker'[o] = worker[o]
      /\ worker'[w].at = "leased" /\ worker'[w].lease = l /\ worker'[w].flight = worker[w].flight
  BY <1>4, <1>5, LeasedWorker, Zenon DEF IInv
<1>7. cache'[c] = q /\ \A d \in Cohort \ {c} : cache'[d] = cache[d]
  BY <1>0, <1>5 DEF IInv, Types
<1>8. Types'
  <2>1. q \in CacheRec
    BY <1>4 DEF Sound
  <2> QED BY <1>0, <1>5, <1>6, <2>1, UnlockedTypes DEF IInv, Types
<1>9. Local(w) /\ CacheStep(w)
  BY <1>0, <1>1, <1>2, <1>3, <1>4, <1>5, <1>6, <1>7 DEF Local, CacheStep
<1>10. LockStep(w)
  <2>1. \A d \in Cohort : lock'[d] = Nobody \/ (lock'[d] = lock[d] /\ lock[d] # w)
    BY <1>5, LocksKept
  <2>2. pacer' = Nobody \/ (pacer' = pacer /\ pacer # w)
    BY <1>5, LocksKept
  <2> QED BY <2>1, <2>2 DEF LockStep
<1>11. FlightStep(w)
  BY <1>1, <1>5, <1>6, NoFlight DEF Guarding
<1>12. Books(w)
  BY <1>2, <1>4, <1>7 DEF Books, Accounted
<1> QED BY <1>8, <1>9, <1>10, <1>11, <1>12, StepPreserves

LEMMA DelayOverPreserves ==
    ASSUME IInv, NEW w \in Worker, DelayOver(w) \/ GivesUp(w)
    PROVE  IInv'
<1>1. dead \subseteq Hash \cup {Everything}
  BY DEF IInv, Types
<1>2. CASE DelayOver(w)
  BY <1>1, <1>2, GetMoves DEF DelayOver, At, Locking, Pacing
<1>3. CASE GivesUp(w)
  BY <1>1, <1>3, GetMoves DEF GivesUp, At, Locking, Pacing
<1> QED BY <1>2, <1>3

-----------------------------------------------------------------------------
(* The actions of the session and of the loop around it.                   *)

LEMMA OutsideLocks ==
    ASSUME IInv, NEW w \in Worker, worker[w].at \notin Locking, worker[w].at \notin Pacing,
           UNCHANGED <<lock, pacer>>
    PROVE  LockStep(w)
  BY LocksKept DEF LockStep

\* The worker gives its lease back or acts on the end of its session.
LEMMA CacheSettled ==
    ASSUME IInv, NEW w \in Worker, NEW k,
           Settles(cache[CohortOf[w]], worker[w].lease, k),
           cache' = [cache EXCEPT ![CohortOf[w]] = k],
           \A o \in Worker \ {w} : worker'[o] = worker[o],
           worker'[w].lease = worker[w].lease \/ worker'[w].lease.gen = 0,
           InCharge(worker[w]) \/ NotLess(cache[CohortOf[w]], k),
           \/ ~InCharge(worker'[w])
           \/ /\ InCharge(worker[w]) /\ worker'[w].lease = worker[w].lease
              /\ k.current.attempts >= cache[CohortOf[w]].current.attempts,
           history'.rejected[CohortOf[w]] = k.blocked,
           \A d \in Cohort \ {CohortOf[w]} : history'.rejected[d] = history.rejected[d]
    PROVE  cache' \in [Cohort -> CacheRec] /\ Local(w) /\ CacheStep(w) /\ Books(w)
<1> DEFINE c == CohortOf[w]
<1>0. c \in Cohort /\ cache \in [Cohort -> CacheRec] /\ worker[w].lease.gen <= cache[c].next
  BY ConstantsAssumption DEF IInv, Types, Leases
<1>1. Sound(k) /\ k \in CacheRec /\ k.next = cache[c].next
  BY DEF Settles, Sound
<1>2. /\ cache' \in [Cohort -> CacheRec] /\ cache'[c] = k
      /\ \A d \in Cohort \ {c} : cache'[d] = cache[d]
  BY <1>0, <1>1
<1>3. cache[c].next \in Nat /\ cache[c].current.attempts \in Nat
  <2>1. cache[c] \in CacheRec
    BY <1>0
  <2> QED BY <2>1, ConstantsAssumption DEF CacheRec, CredRec
<1>4. Local(w)
  BY <1>2 DEF Local
<1>5. CacheStep(w)
  BY <1>0, <1>1, <1>2, <1>3 DEF CacheStep
<1>6. Books(w)
  <2>1. CASE k.current.gen = 0
    BY <1>2, <2>1 DEF Books, Accounted
  <2>2. CASE /\ k.current.gen = cache[c].current.gen
             /\ k.current.attempts >= cache[c].current.attempts
    BY <1>2, <2>2 DEF Books, Accounted
  <2>3. CASE /\ k.current.gen # 0 /\ k.current.gen = cache[c].current.gen
             /\ k.current.attempts = cache[c].current.attempts - 1
             /\ worker[w].lease.gen = cache[c].current.gen
    <3>1. InCharge(worker[w]) /\ ~InCharge(worker'[w])
      BY <1>3, <2>3 DEF NotLess
    <3> QED BY <1>2, <2>3, <3>1 DEF Books, Accounted
  <2> QED BY <2>1, <2>2, <2>3 DEF Settles
<1> QED BY <1>2, <1>4, <1>5, <1>6

\* A session goes on, or ends, without a word to the cache.
LEMMA SessionMoves ==
    ASSUME IInv, NEW w \in Worker,
           worker[w].at \in {"leased", "connecting", "allocating", "allocated", "ready"},
           worker' \in [Worker -> WorkerRec], \A o \in Worker \ {w} : worker'[o] = worker[o],
           worker'[w].at \in {"connecting", "allocating", "allocated", "ready", "ended"},
           worker'[w].lease = worker[w].lease,
           config' \in [sent : BOOLEAN, in_flight : BOOLEAN],
           config'.in_flight = TRUE =>
              worker'[w].flight = TRUE \/ (config.in_flight = TRUE /\ worker[w].flight # TRUE),
           UNCHANGED <<cache, lock, pacer, dead, history>>
    PROVE  IInv'
<1>1. Types'
  BY DEF IInv, Types
<1>2. Local(w) /\ CacheStep(w) /\ Books(w)
  BY CacheKept DEF InCharge
<1>3. LockStep(w)
  BY OutsideLocks DEF Locking, Pacing
<1>4. FlightStep(w)
  BY DEF FlightStep, Guarding
<1> QED BY <1>1, <1>2, <1>3, <1>4, StepPreserves

\* What StartSession does to the record of its worker.
LEMMA GuardedWorker ==
    ASSUME Types, NEW w \in Worker, NEW f \in BOOLEAN,
           worker' = [worker EXCEPT ![w].at = "connecting", ![w].flight = f]
    PROVE  /\ worker' \in [Worker -> WorkerRec] /\ \A o \in Worker \ {w} : worker'[o] = worker[o]
           /\ worker'[w].at = "connecting" /\ worker'[w].lease = worker[w].lease /\ worker'[w].flight = f
<1>1. worker[w] \in WorkerRec
  BY DEF Types
<1> DEFINE r == [worker[w] EXCEPT !.at = "connecting", !.flight = f]
<1>2. r \in WorkerRec /\ r.at = "connecting" /\ r.lease = worker[w].lease /\ r.flight = f
  BY <1>1 DEF WorkerRec, Places
<1>3. worker' = [worker EXCEPT ![w] = r]
  BY Zenon
<1> HIDE DEF r
<1> QED BY <1>2, <1>3, OneWorker

LEMMA StartSessionPreserves ==
    ASSUME IInv, NEW w \in Worker, StartSession(w)
    PROVE  IInv'
<1> DEFINE f == ~config.sent /\ ~config.in_flight
<1>1. /\ worker[w].at = "leased" /\ worker' = [worker EXCEPT ![w].at = "connecting", ![w].flight = f]
      /\ config' = [config EXCEPT !.in_flight = @ \/ f] /\ UNCHANGED <<cache, lock, pacer, dead, history>>
  BY DEF StartSession, At
<1>2. f \in BOOLEAN
  OBVIOUS
<1>3. config \in [sent : BOOLEAN, in_flight : BOOLEAN] /\ worker[w].flight # TRUE
  BY <1>1 DEF IInv, Types, Flights, Guarding
<1>4. config' \in [sent : BOOLEAN, in_flight : BOOLEAN] /\ (config'.in_flight = TRUE => config.in_flight = TRUE \/ f = TRUE)
  <2> DEFINE g == config.in_flight \/ f
  <2>1. g \in BOOLEAN /\ (g = TRUE => config.in_flight = TRUE \/ f = TRUE)
    BY <1>2, <1>3
  <2>2. config' = [config EXCEPT !.in_flight = g]
    BY <1>1
  <2> HIDE DEF g
  <2> QED BY <1>3, <2>1, <2>2
<1> HIDE DEF f
<1>5. /\ worker' \in [Worker -> WorkerRec] /\ \A o \in Worker \ {w} : worker'[o] = worker[o]
      /\ worker'[w].at = "connecting" /\ worker'[w].lease = worker[w].lease /\ worker'[w].flight = f
  BY <1>1, <1>2, GuardedWorker, Zenon DEF IInv
<1> QED BY <1>1, <1>3, <1>4, <1>5, SessionMoves

LEMMA AllocationPreserves ==
    ASSUME IInv, NEW w \in Worker, BeginAllocation(w) \/ Allocated(w)
    PROVE  IInv'
<1>1. /\ worker[w].at \in {"connecting", "allocating"} /\ UNCHANGED <<cache, lock, pacer, dead, config, history>>
      /\ \/ worker' = [worker EXCEPT ![w].at = "allocating", ![w].started = TRUE]
         \/ worker' = [worker EXCEPT ![w].at = "allocated", ![w].unrecorded = TRUE]
  BY DEF BeginAllocation, Allocated, At
<1>2. /\ worker' \in [Worker -> WorkerRec] /\ \A o \in Worker \ {w} : worker'[o] = worker[o]
      /\ worker'[w].at \in {"allocating", "allocated"} /\ worker'[w].lease = worker[w].lease
      /\ worker'[w].flight = worker[w].flight
  BY <1>1 DEF IInv, Types, WorkerRec, Places
<1>3. config \in [sent : BOOLEAN, in_flight : BOOLEAN] /\ worker[w].flight \in BOOLEAN
  BY DEF IInv, Types, WorkerRec
<1> QED BY <1>1, <1>2, <1>3, SessionMoves

LEMMA CompletedConfig ==
    ASSUME Types, NEW w \in Worker, NEW delivered \in BOOLEAN
    PROVE  /\ Completed(w, delivered) \in [sent : BOOLEAN, in_flight : BOOLEAN]
           /\ Completed(w, delivered).in_flight = TRUE => config.in_flight = TRUE /\ worker[w].flight # TRUE
<1>1. config \in [sent : BOOLEAN, in_flight : BOOLEAN] /\ worker[w].flight \in BOOLEAN
  BY DEF Types, WorkerRec
<1>2. CASE worker[w].flight = TRUE
  <2> DEFINE b == config.sent \/ delivered
  <2>1. b \in BOOLEAN
    OBVIOUS
  <2>2. Completed(w, delivered) = [sent |-> b, in_flight |-> FALSE]
    BY <1>2 DEF Completed
  <2> HIDE DEF b
  <2> QED BY <2>1, <2>2
<1>3. CASE worker[w].flight = FALSE
  BY <1>1, <1>3, Completed(w, delivered) = config DEF Completed
<1> QED BY <1>1, <1>2, <1>3

LEMMA ConfigAnsweredPreserves ==
    ASSUME IInv, NEW w \in Worker, ConfigAnswered(w)
    PROVE  IInv'
<1>1. PICK delivered \in BOOLEAN : config' = Completed(w, delivered)
  BY DEF ConfigAnswered
<1>2. worker[w].at = "allocated" /\ worker' = Moved(w, "ready") /\ UNCHANGED <<cache, lock, pacer, dead, history>>
  BY DEF ConfigAnswered, At
<1>3. /\ worker' \in [Worker -> WorkerRec] /\ \A o \in Worker \ {w} : worker'[o] = worker[o]
      /\ worker'[w].at = "ready" /\ worker'[w].lease = worker[w].lease
  BY <1>2, MovedWorker DEF IInv, Places
<1>4. /\ config' \in [sent : BOOLEAN, in_flight : BOOLEAN]
      /\ config'.in_flight = TRUE => config.in_flight = TRUE /\ worker[w].flight # TRUE
  BY <1>1, CompletedConfig DEF IInv
<1> QED BY <1>2, <1>3, <1>4, SessionMoves

LEMMA SessionEndsPreserves ==
    ASSUME IInv, NEW w \in Worker, NEW r \in Endings, worker[w].at \in InSession, SessionEnds(w, r)
    PROVE  IInv'
<1> DEFINE b == worker[w].at \in {"ready"}
           q == [worker[w] EXCEPT !.at = "ended", !.result = r, !.unrecorded = FALSE, !.ready = b]
<1>1. /\ worker' = [worker EXCEPT ![w].at = "ended", ![w].result = r, ![w].unrecorded = FALSE, ![w].ready = b]
      /\ config' = IF worker[w].at \in {"allocated"} THEN Completed(w, FALSE) ELSE config
      /\ UNCHANGED <<cache, lock, pacer, dead, history>>
  BY DEF SessionEnds, At
<1>2. worker[w] \in WorkerRec /\ worker \in [Worker -> WorkerRec] /\ b \in BOOLEAN
  BY DEF IInv, Types
<1>3. worker' = [worker EXCEPT ![w] = q]
  BY <1>1, Zenon
<1> HIDE DEF b
<1>4. q \in WorkerRec /\ q.at = "ended" /\ q.lease = worker[w].lease /\ q.flight = worker[w].flight
  BY <1>2 DEF WorkerRec, Places
<1> HIDE DEF q
<1>5. /\ worker' \in [Worker -> WorkerRec] /\ \A o \in Worker \ {w} : worker'[o] = worker[o]
      /\ worker'[w].at = "ended" /\ worker'[w].lease = worker[w].lease
      /\ worker'[w].flight = worker[w].flight
  BY <1>2, <1>3, <1>4
<1>6. /\ config' \in [sent : BOOLEAN, in_flight : BOOLEAN]
      /\ config'.in_flight = TRUE => config.in_flight = TRUE /\ (config' = config \/ worker[w].flight # TRUE)
  <2>1. CASE worker[w].at \in {"allocated"}
    BY <1>1, <2>1, CompletedConfig DEF IInv
  <2>2. CASE worker[w].at \notin {"allocated"}
    BY <1>1, <2>2 DEF IInv, Types
  <2> QED BY <2>1, <2>2
<1>7. config'.in_flight = TRUE =>
          worker'[w].flight = TRUE \/ (config.in_flight = TRUE /\ worker[w].flight # TRUE)
  BY <1>5, <1>6
<1> QED BY <1>1, <1>5, <1>6, <1>7, SessionMoves DEF InSession

LEMMA SessionOverPreserves ==
    ASSUME IInv, NEW w \in Worker, SessionFails(w) \/ SessionCancelled(w)
    PROVE  IInv'
<1>1. CASE SessionFails(w)
  <2>1. worker[w].at \in InSession
    BY <1>1 DEF SessionFails, At
  <2>2. PICK r \in Results(worker[w].at) : SessionEnds(w, r)
    BY <1>1 DEF SessionFails
  <2>3. r \in Endings
    BY <2>1, <2>2 DEF Results, InSession, Endings
  <2> QED BY <2>1, <2>2, <2>3, SessionEndsPreserves
<1>2. CASE SessionCancelled(w)
  BY <1>2, SessionEndsPreserves DEF SessionCancelled, At, Endings
<1> QED BY <1>1, <1>2

LEMMA RecordAllocationPreserves ==
    ASSUME IInv, NEW w \in Worker, RecordAllocation(w)
    PROVE  IInv'
<1> DEFINE c == CohortOf[w]
           k == record_allocation(cache[c], worker[w].lease)
<1>0. c \in Cohort /\ Sound(cache[c]) /\ history.rejected[c] = cache[c].blocked
      /\ cache[c].current.attempts \in Nat
  BY ConstantsAssumption DEF IInv, Caches, Sound, CacheRec, CredRec
<1>1. /\ worker[w].at \in {"allocated", "ready"} /\ cache' = [cache EXCEPT ![c] = k]
      /\ worker' = [worker EXCEPT ![w].unrecorded = FALSE] /\ UNCHANGED <<lock, pacer, dead, config, history>>
  BY <1>0 DEF RecordAllocation, At, IInv, Types
<1>2. /\ Settles(cache[c], worker[w].lease, k) /\ k.blocked = cache[c].blocked
      /\ k.current.attempts = cache[c].current.attempts
  BY <1>0, RecordSettles
<1> HIDE DEF k
<1>3. /\ worker' \in [Worker -> WorkerRec] /\ \A o \in Worker \ {w} : worker'[o] = worker[o]
      /\ worker'[w].at = worker[w].at /\ worker'[w].lease = worker[w].lease
      /\ worker'[w].flight = worker[w].flight
  BY <1>1 DEF IInv, Types, WorkerRec
<1>4. cache' \in [Cohort -> CacheRec] /\ Local(w) /\ CacheStep(w) /\ Books(w)
  <2>1. InCharge(worker[w]) /\ InCharge(worker'[w])
    BY <1>1, <1>3 DEF InCharge
  <2>2. k.current.attempts >= cache[c].current.attempts
    BY <1>0, <1>2
  <2>3. history'.rejected[c] = k.blocked /\ \A d \in Cohort \ {c} : history'.rejected[d] = history.rejected[d]
    BY <1>0, <1>1, <1>2
  <2> QED BY <1>1, <1>2, <1>3, <2>1, <2>2, <2>3, CacheSettled
<1>5. Types'
  BY <1>1, <1>3, <1>4 DEF IInv, Types
<1>6. LockStep(w)
  BY <1>1, OutsideLocks DEF Locking, Pacing
<1>7. FlightStep(w)
  <2>1. worker[w].flight \in BOOLEAN
    BY DEF IInv, Types, WorkerRec
  <2> QED BY <1>1, <1>3, <2>1 DEF FlightStep, Guarding
<1> QED BY <1>4, <1>5, <1>6, <1>7, StepPreserves

LEMMA LeaseReturnedPreserves ==
    ASSUME IInv, NEW w \in Worker, LeaseReturned(w)
    PROVE  IInv'
<1> DEFINE c == CohortOf[w]
           k == release(cache[c], worker[w].lease)
<1>0. c \in Cohort /\ Sound(cache[c]) /\ history.rejected[c] = cache[c].blocked
  BY ConstantsAssumption DEF IInv, Caches
<1>1. /\ worker[w].at \in {"leased", "held"} /\ cache' = [cache EXCEPT ![c] = k]
      /\ worker' = Moved(w, "gone") /\ UNCHANGED <<lock, pacer, dead, config, history>>
  BY <1>0 DEF LeaseReturned, At, IInv, Types
<1>2. Settles(cache[c], worker[w].lease, k) /\ k.blocked = cache[c].blocked
  BY <1>0, ReleaseSettles
<1> HIDE DEF k
<1>3. /\ worker' \in [Worker -> WorkerRec] /\ \A o \in Worker \ {w} : worker'[o] = worker[o]
      /\ worker'[w].at = "gone" /\ worker'[w].lease = worker[w].lease
      /\ worker'[w].flight = worker[w].flight
  BY <1>1, MovedWorker DEF IInv, Places
<1>4. cache' \in [Cohort -> CacheRec] /\ Local(w) /\ CacheStep(w) /\ Books(w)
  <2>1. InCharge(worker[w]) /\ ~InCharge(worker'[w])
    BY <1>1, <1>3 DEF InCharge
  <2> QED BY <1>0, <1>1, <1>2, <1>3, <2>1, CacheSettled
<1>5. Types'
  BY <1>1, <1>3, <1>4 DEF IInv, Types
<1>6. LockStep(w)
  BY <1>1, OutsideLocks DEF Locking, Pacing
<1>7. FlightStep(w)
  BY <1>1, <1>3, NoFlight DEF Guarding
<1> QED BY <1>4, <1>5, <1>6, <1>7, StepPreserves

LEMMA ClearedConfig ==
    ASSUME Types, NEW w \in Worker
    PROVE  LET g == Reopened(w, FlightDropped(w))
           IN  /\ g \in [sent : BOOLEAN, in_flight : BOOLEAN]
               /\ g.in_flight = TRUE => config.in_flight = TRUE /\ worker[w].flight # TRUE
<1> DEFINE f == FlightDropped(w)
           g == Reopened(w, f)
<1>1. config \in [sent : BOOLEAN, in_flight : BOOLEAN] /\ worker[w].flight \in BOOLEAN
  BY DEF Types, WorkerRec
<1>2. /\ f \in [sent : BOOLEAN, in_flight : BOOLEAN]
      /\ f.in_flight = TRUE => config.in_flight = TRUE /\ worker[w].flight # TRUE
  <2>1. CASE worker[w].flight = TRUE
    BY <1>1, <2>1, f = [config EXCEPT !.in_flight = FALSE] DEF FlightDropped
  <2>2. CASE worker[w].flight = FALSE
    BY <1>1, <2>2, f = config DEF FlightDropped
  <2> QED BY <1>1, <2>1, <2>2
<1> HIDE DEF f
<1>3. g = f \/ g = [f EXCEPT !.sent = FALSE]
  BY DEF Reopened
<1> HIDE DEF g
<1>4. g \in [sent : BOOLEAN, in_flight : BOOLEAN] /\ g.in_flight = f.in_flight
  BY <1>2, <1>3
<1> QED BY <1>2, <1>4 DEF f, g

LEMMA ClearPreserves ==
    ASSUME IInv, NEW w \in Worker, Clear(w)
    PROVE  IInv'
<1> DEFINE c == CohortOf[w]
           p == IF Dead(w) THEN "gone" ELSE "sort"
           q == [worker[w] EXCEPT !.at = p, !.flight = FALSE, !.ready = FALSE]
           k == release(cache[c], worker[w].lease)
<1>0. c \in Cohort /\ Sound(cache[c]) /\ history.rejected[c] = cache[c].blocked
  BY ConstantsAssumption DEF IInv, Caches
<1>1. /\ worker[w].at = "ended"
      /\ worker' = [worker EXCEPT ![w].at = p, ![w].flight = FALSE, ![w].ready = FALSE]
      /\ config' = Reopened(w, FlightDropped(w)) /\ UNCHANGED <<lock, pacer, dead, history>>
  BY DEF Clear, At
<1>2. worker[w] \in WorkerRec /\ worker \in [Worker -> WorkerRec] /\ p \in {"gone", "sort"}
  BY DEF IInv, Types
<1>3. worker' = [worker EXCEPT ![w] = q]
  BY <1>1, Zenon
<1> HIDE DEF p
<1>4. /\ q \in WorkerRec /\ q.at = p /\ q.lease = worker[w].lease /\ q.flight = FALSE
      /\ q.started = worker[w].started
  BY <1>2 DEF WorkerRec, Places
<1> HIDE DEF q
<1>5. /\ worker' \in [Worker -> WorkerRec] /\ \A o \in Worker \ {w} : worker'[o] = worker[o]
      /\ worker'[w].at = p /\ worker'[w].lease = worker[w].lease /\ worker'[w].flight = FALSE
      /\ worker'[w].started = worker[w].started
  BY <1>2, <1>3, <1>4
<1>6. /\ config' \in [sent : BOOLEAN, in_flight : BOOLEAN]
      /\ config'.in_flight = TRUE => config.in_flight = TRUE /\ worker[w].flight # TRUE
  BY <1>1, ClearedConfig DEF IInv
<1>7. LockStep(w)
  BY <1>1, OutsideLocks DEF Locking, Pacing
<1>8. FlightStep(w)
  BY <1>5, <1>6 DEF FlightStep
<1>9. InCharge(worker[w]) /\ worker[w].started \in BOOLEAN
  BY <1>1, <1>2 DEF InCharge, WorkerRec
<1>10. CASE worker[w].started = TRUE
  <2>1. UNCHANGED cache
    BY <1>10 DEF Clear
  <2>2. Local(w) /\ CacheStep(w) /\ Books(w)
    BY <1>1, <1>5, <1>9, <2>1, CacheKept
  <2>3. Types'
    BY <1>1, <1>5, <1>6, <2>1 DEF IInv, Types
  <2> QED BY <1>7, <1>8, <2>2, <2>3, StepPreserves
<1>11. CASE worker[w].started = FALSE
  <2>1. cache' = [cache EXCEPT ![c] = k]
    BY <1>11 DEF Clear
  <2>2. Settles(cache[c], worker[w].lease, k) /\ k.blocked = cache[c].blocked
    BY <1>0, ReleaseSettles
  <2> HIDE DEF k
  <2>3. ~InCharge(worker'[w])
    BY <1>2, <1>5, <1>11 DEF InCharge
  <2>4. cache' \in [Cohort -> CacheRec] /\ Local(w) /\ CacheStep(w) /\ Books(w)
    BY <1>0, <1>1, <1>5, <1>9, <2>1, <2>2, <2>3, CacheSettled
  <2>5. Types'
    BY <1>1, <1>5, <1>6, <2>4 DEF IInv, Types
  <2> QED BY <1>7, <1>8, <2>4, <2>5, StepPreserves
<1> QED BY <1>9, <1>10, <1>11

LEMMA TopTypes ==
    \A t \in Top : t \in WorkerRec /\ t.at \in {"want", "gate"} /\ t.lease.gen = 0 /\ t.flight = FALSE
<1>1. NoLease \in LeaseRec /\ NoLease.gen = 0
  BY DEF NoLease, LeaseRec
<1>2. ASSUME NEW place \in {"want", "gate"}
      PROVE  LET t == TopAt(place)
             IN  t \in WorkerRec /\ t.at = place /\ t.lease.gen = 0 /\ t.flight = FALSE
  <2> HIDE DEF NoLease
  <2> QED BY <1>1 DEF TopAt, WorkerRec, Places, Endings
<1> QED BY <1>2 DEF Top

LEMMA SortPreserves ==
    ASSUME IInv, NEW w \in Worker, Sort(w) \/ SortHeldBack(w)
    PROVE  IInv'
<1> DEFINE c == CohortOf[w]
           k == Verdict(cache[c], w)
<1>0. c \in Cohort /\ Sound(cache[c]) /\ history.rejected[c] = cache[c].blocked
  BY ConstantsAssumption DEF IInv, Caches
<1>1. /\ worker[w].at = "sort" /\ StartsOver(w) /\ UNCHANGED <<lock, pacer, dead, config>>
  BY DEF Sort, SortHeldBack, At
<1>2. /\ worker' \in [Worker -> WorkerRec] /\ \A o \in Worker \ {w} : worker'[o] = worker[o]
      /\ worker'[w].at \in {"want", "gate"} /\ worker'[w].lease.gen = 0 /\ worker'[w].flight = FALSE
  <2>1. PICK t \in Top : worker' = [worker EXCEPT ![w] = t]
    BY <1>1 DEF StartsOver
  <2> QED BY <2>1, TopTypes, OneWorker DEF IInv
<1>3. LockStep(w)
  BY <1>1, OutsideLocks DEF Locking, Pacing
<1>4. FlightStep(w)
  <2>1. worker[w].flight # TRUE
    BY <1>1 DEF IInv, Flights, Guarding
  <2> QED BY <1>1, <1>2, <2>1 DEF FlightStep
<1>5. ~InCharge(worker'[w])
  BY <1>2 DEF InCharge
<1>6. CASE SortHeldBack(w)
  <2>1. UNCHANGED <<cache, history>>
    BY <1>6 DEF SortHeldBack
  <2>2. Local(w) /\ CacheStep(w) /\ Books(w)
    BY <1>2, <1>5, <2>1, CacheKept
  <2>3. Types'
    BY <1>1, <1>2, <2>1 DEF IInv, Types
  <2> QED BY <1>3, <1>4, <2>2, <2>3, StepPreserves
<1>7. CASE Sort(w)
  <2> DEFINE quota == worker[w].result = "quota" /\ Current(cache[c], worker[w].lease)
             b == IF quota THEN worker[w].lease.value ELSE history.rejected[c]
             h == [history.rejected EXCEPT ![c] = b]
  <2>1. /\ cache' = [cache EXCEPT ![c] = k]
        /\ history' = [history EXCEPT !.rejected[c] = IF quota THEN worker[w].lease.value ELSE @]
    BY <1>7 DEF Sort
  <2>2. /\ Settles(cache[c], worker[w].lease, k) /\ k.blocked = b
        /\ NotLess(cache[c], k) \/ (worker[w].result = "park" /\ worker[w].started)
    BY <1>0, VerdictSettles
  <2> HIDE DEF k
  <2>3. b \in Value \cup {NoValue}
    BY <2>2 DEF Settles, Sound, CacheRec
  <2>4. history' = [history EXCEPT !.rejected = h]
    BY <2>1, Zenon
  <2>5. history \in [rejected : [Cohort -> Value \cup {NoValue}]]
    BY DEF IInv, Types
  <2> HIDE DEF b
  <2>6. /\ h \in [Cohort -> Value \cup {NoValue}] /\ h[c] = b
        /\ \A d \in Cohort \ {c} : h[d] = history.rejected[d]
    BY <1>0, <2>3, <2>5
  <2> HIDE DEF h
  <2>7. /\ history' \in [rejected : [Cohort -> Value \cup {NoValue}]] /\ history'.rejected[c] = k.blocked
        /\ \A d \in Cohort \ {c} : history'.rejected[d] = history.rejected[d]
    BY <2>2, <2>4, <2>5, <2>6
  <2>8. InCharge(worker[w]) \/ NotLess(cache[c], k)
    <3>1. worker[w].started \in BOOLEAN
      BY DEF IInv, Types, WorkerRec
    <3> QED BY <1>1, <2>2, <3>1 DEF InCharge
  <2>9. cache' \in [Cohort -> CacheRec] /\ Local(w) /\ CacheStep(w) /\ Books(w)
    BY <1>2, <1>5, <2>1, <2>2, <2>7, <2>8, CacheSettled
  <2>10. Types'
    BY <1>1, <1>2, <2>7, <2>9 DEF IInv, Types
  <2> QED BY <1>3, <1>4, <2>9, <2>10, StepPreserves
<1> QED BY <1>6, <1>7

-----------------------------------------------------------------------------
(* The theorems.                                                           *)

LEMMA InitIInv == Init => IInv
<1> SUFFICES ASSUME Init PROVE IInv
  OBVIOUS
<1>0. IsFiniteSet(Worker) /\ CohortOf \in [Worker -> Cohort] /\ PerCred \in Nat
  BY ConstantsAssumption
<1>1. EmptyCache \in CacheRec /\ EmptyCache.current.gen = 0 /\ EmptyCache.next = 0 /\ EmptyCache.blocked = NoValue
  BY <1>0 DEF EmptyCache, NoCred, CacheRec, CredRec
<1>2. Types
  <2>1. worker \in [Worker -> WorkerRec]
    BY TopTypes DEF Init
  <2> HIDE DEF EmptyCache
  <2> QED BY <1>1, <2>1 DEF Init, Types
<1>3. \A c \in Cohort : cache[c] = EmptyCache /\ history.rejected[c] = NoValue /\ lock[c] = Nobody
  BY DEF Init
<1>4. \A w \in Worker : worker[w].lease.gen = 0 /\ worker[w].flight = FALSE
  BY TopTypes DEF Init
<1>5. Caches
  BY <1>1, <1>3 DEF Caches, Sound
<1>6. Locks
  BY <1>3 DEF Locks, Init
<1>7. Leases
  <2> HIDE DEF EmptyCache
  <2> QED BY <1>0, <1>1, <1>3, <1>4 DEF Leases
<1>8. Counted
  BY <1>1, <1>3 DEF Counted
<1>9. Flights
  <2>1. config.in_flight = FALSE
    BY DEF Init
  <2> QED BY <1>4, <2>1 DEF Flights
<1> QED BY <1>2, <1>5, <1>6, <1>7, <1>8, <1>9 DEF IInv

LEMMA NextIInv == IInv /\ [Next]_vars => IInv'
<1> SUFFICES ASSUME IInv, [Next]_vars PROVE IInv'
  OBVIOUS
<1>1. CASE UNCHANGED vars
  BY <1>1 DEF vars, IInv, Types, Caches, Locks, Leases, Counted, Charged, Flights
<1>2. CASE CancelEngine
  <2>1. dead' \subseteq Hash \cup {Everything} /\ UNCHANGED <<cache, lock, pacer, worker, config, history>>
    BY <1>2 DEF CancelEngine, IInv, Types
  <2> QED BY <2>1 DEF IInv, Types, Caches, Locks, Leases, Counted, Charged, Flights
<1>3. ASSUME NEW w \in Worker, GetStep(w) \/ BeginFetch(w) \/ GivesUp(w)
      PROVE  IInv'
  BY <1>3, GetPreserves, SettledPreserves, DelayOverPreserves, BeginFetchPreserves DEF GetStep
<1>4. ASSUME NEW w \in Worker, SessionStep(w)
      PROVE  IInv'
  BY <1>4, StartSessionPreserves, LeaseReturnedPreserves, AllocationPreserves,
     RecordAllocationPreserves, ConfigAnsweredPreserves, SessionOverPreserves, ClearPreserves,
     SortPreserves DEF SessionStep
<1>5. ASSUME NEW w \in Worker, NEW r \in Outcome, Answer(w, r)
      PROVE  IInv'
  BY <1>5, AnswerPreserves
<1>6. ASSUME NEW w \in Worker, GateStep(w)
      PROVE  IInv'
  BY <1>6, GatePreserves
<1> QED BY <1>1, <1>2, <1>3, <1>4, <1>5, <1>6 DEF Next

LEMMA IInvHolds == Spec => []IInv
<1>1. Init => IInv
  BY InitIInv
<1>2. IInv /\ [Next]_vars => IInv'
  BY NextIInv
<1> QED BY <1>1, <1>2, PTL DEF Spec

LEMMA HoldingsOfIInv == IInv => HoldingsCovered
<1> SUFFICES ASSUME IInv PROVE HoldingsCovered
  OBVIOUS
<1>1. TypeOK
  <2>1. ASSUME NEW c \in Cohort
        PROVE  /\ cache[c].current.value \in Value \cup {NoValue}
               /\ cache[c].current.gen <= cache[c].next
               /\ cache[c].current.attempts \in 0 .. PerCred
               /\ cache[c].current.mismatches \in 0 .. 1
               /\ cache[c].blocked \in Value \cup {NoValue}
               /\ lock[c] # Nobody => worker[lock[c]].at \in {"pacing", "fetch", "settling", "backoff"}
    BY <2>1 DEF IInv, Caches, Sound, CacheRec, CredRec, Locks, Locking
  <2> QED BY <2>1 DEF TypeOK, IInv, Locks, Pacing, Leases, Types
<1>2. LeasesCovered
  <2>1. SUFFICES ASSUME NEW c \in Cohort, cache[c].current.gen # 0
                 PROVE  Cardinality({w \in Worker : /\ CohortOf[w] = c /\ Holds(w)
                                                     /\ worker[w].lease.gen = cache[c].current.gen})
                            <= cache[c].current.attempts
    BY DEF LeasesCovered
  <2> DEFINE held == {w \in Worker : /\ CohortOf[w] = c /\ Holds(w)
                                       /\ worker[w].lease.gen = cache[c].current.gen}
             all == Charged(worker, c, cache[c].current.gen)
  <2>2. held \subseteq all
    BY DEF Charged, Holds, InSession, InCharge
  <2>3. IsFiniteSet(all)
    BY ConstantsAssumption, FS_Subset DEF Charged
  <2>4. Cardinality(all) <= cache[c].current.attempts
    BY <2>1 DEF IInv, Counted
  <2>5. cache[c].current.attempts \in Nat
    BY ConstantsAssumption DEF IInv, Caches, Sound, CacheRec, CredRec
  <2> HIDE DEF held, all
  <2>6. Cardinality(held) <= Cardinality(all) /\ Cardinality(held) \in Nat /\ Cardinality(all) \in Nat
    BY <2>2, <2>3, FS_Subset, FS_CardinalityType
  <2>7. Cardinality(held) <= cache[c].current.attempts
    BY <2>4, <2>5, <2>6
  <2> QED BY <2>7 DEF held
<1>3. FlightIsHeld
  <2>1. config.in_flight \in BOOLEAN
    BY DEF IInv, Types
  <2>2. config.in_flight = TRUE => \E w \in Worker : worker[w].flight = TRUE
    BY DEF IInv, Flights
  <2> QED BY <2>1, <2>2 DEF FlightIsHeld
<1> QED BY <1>1, <1>2, <1>3 DEF HoldingsCovered

\* The attempts counted in a cache cover every lease in use, so no more than
\* WORKERS_PER_CREDENTIAL sessions share credentials; a mutex, the pacer and
\* config_in_flight always have a holder in worker_loop that will free them.
THEOREM HoldingsCoveredHolds == Spec => []HoldingsCovered
  BY IInvHolds, HoldingsOfIInv, PTL

LEMMA RejectedOfIInv == IInv => RejectedNotReused
  BY DEF IInv, Caches, Sound, RejectedNotReused

\* rotate_after_quota and store together keep credentials out that were rejected
\* for quota until VK has handed out others.
THEOREM RejectedNotReusedHolds == Spec => []RejectedNotReused
  BY IInvHolds, RejectedOfIInv, PTL

\* Only Clear, Sort and SortHeldBack take a worker out of the end of its session.
LEMMA EndOfSession ==
    ASSUME IInv, Next, NEW w \in Worker, worker[w].at \in {"ended", "sort"},
           worker'[w].at # worker[w].at
    PROVE  Clear(w) \/ Sort(w) \/ SortHeldBack(w)
<1>1. worker \in [Worker -> WorkerRec]
  BY DEF IInv, Types
<1>2. ASSUME CancelEngine PROVE FALSE
  BY <1>2 DEF CancelEngine
<1>3. ASSUME NEW o \in Worker, GetStep(o) \/ BeginFetch(o) \/ GivesUp(o)
      PROVE  FALSE
  BY <1>1, <1>3 DEF GetStep, Get, Settled, DelayOver, BeginFetch, GivesUp, At, Moved
<1>4. ASSUME NEW o \in Worker, NEW r \in Outcome, Answer(o, r)
      PROVE  FALSE
  BY <1>1, <1>4 DEF Answer, Fetched, MarkUnavailable, At, Moved
<1>5. ASSUME NEW o \in Worker, GateStep(o)
      PROVE  FALSE
  BY <1>1, <1>5 DEF GateStep, HeldBack, Released, StopsAtGate, At, Moved
<1>6. ASSUME NEW o \in Worker, SessionStep(o)
      PROVE  Clear(w) \/ Sort(w) \/ SortHeldBack(w)
  <2>1. CASE o # w
    <3>1. worker'[w] = worker[w]
      BY <1>1, <1>6, <2>1 DEF StartsOver, SessionStep, StartSession, LeaseReturned, BeginAllocation, Allocated,
         RecordAllocation, ConfigAnswered, SessionFails, SessionCancelled, SessionEnds, Clear, Sort,
         SortHeldBack, Moved
    <3> QED BY <3>1
  <2>2. CASE o = w
    BY <1>6, <2>2 DEF SessionStep, StartSession, LeaseReturned, BeginAllocation, Allocated,
       RecordAllocation, ConfigAnswered, SessionFails, SessionCancelled, At, InSession
  <2> QED BY <2>1, <2>2
<1> QED BY <1>2, <1>3, <1>4, <1>5, <1>6 DEF Next

LEMMA StaleStep ==
    ASSUME IInv, Next, NEW w \in Worker, worker[w].at \in {"ended", "sort"},
           worker[w].lease.gen # cache[CohortOf[w]].current.gen, worker'[w].at # worker[w].at
    PROVE  cache'[CohortOf[w]] = cache[CohortOf[w]]
<1> DEFINE c == CohortOf[w]
<1>0. c \in Cohort /\ Sound(cache[c]) /\ cache \in [Cohort -> CacheRec]
  BY ConstantsAssumption DEF IInv, Caches, Types
<1>1. CASE Clear(w)
  <2>1. release(cache[c], worker[w].lease) = cache[c]
    BY <1>0, ReleaseSettles
  <2> QED BY <1>0, <1>1, <2>1 DEF Clear
<1>2. CASE Sort(w)
  <2>1. Verdict(cache[c], w) = cache[c]
    BY <1>0, VerdictSettles
  <2> QED BY <1>0, <1>2, <2>1 DEF Sort
<1>3. CASE SortHeldBack(w)
  BY <1>3 DEF SortHeldBack
<1> QED BY <1>1, <1>2, <1>3, EndOfSession

\* However late a worker reports the end of its session, release and every
\* verdict leave credentials alone that have replaced the ones it used.
THEOREM StaleLeaseHarmlessHolds == Spec => StaleLeaseHarmless
<1> DEFINE A == \A w \in Worker :
                   /\ worker[w].at \in {"ended", "sort"}
                   /\ worker[w].lease.gen # cache[CohortOf[w]].current.gen
                   /\ worker'[w].at # worker[w].at
                   => cache'[CohortOf[w]] = cache[CohortOf[w]]
<1>1. IInv /\ [Next]_vars => [A]_vars
  BY StaleStep
<1> HIDE DEF A
<1>2. Spec => [][A]_vars
  BY <1>1, IInvHolds, PTL DEF Spec
<1> QED BY <1>2 DEF StaleLeaseHarmless, A
=============================================================================
