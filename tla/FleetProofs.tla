----------------------------- MODULE FleetProofs -----------------------------
(***************************************************************************)
(* RegistrationsCurrent (type correctness with it) and                     *)
(* NobodySleepsThroughNews for any number of workers, keepers and attempts *)
(* and any bounds.                                                         *)
(*                                                                         *)
(* Both hold because of an order of steps: enter, exit and note_path_lost  *)
(* write what they change before they count up ANNOUNCE and call           *)
(* notify_waiters, and a session takes ANNOUNCE, or registers its watches, *)
(* before it looks.  The inductive invariant says what a session knows     *)
(* while no write is waiting for its announcement (Built, Watched).        *)
(*                                                                         *)
(* Beside them the functions of TrafficWatch and StreamRepair, which       *)
(* MCFleetTraffic adds: StallIsProbed, IdleTracksTraffic and               *)
(* RepairsCounted, for all thresholds and for runs of any length.          *)
(***************************************************************************)
EXTENDS MCFleetTraffic, FiniteSetTheorems, TLAPS

LosingSteps == {"lost", "lostLoad", "lostCas"}

\* The announcements and epochs that calls in progress still owe.
Due(b) == IF b THEN 1 ELSE 0

Room ==
    /\ genOffset + Cardinality(Losing) + Due(mon \in {"limit", "declared", "gen"}) <= MaxGen
    /\ announce + Cardinality(Losing \cup Announcing) + Due(mon # "poll") + Due(bridge # "packet")
         <= MaxAnnounce

\* The types, the bounds apart.
Types ==
    /\ limit \in {Keep, N} /\ active \in BOOLEAN /\ declared \in {Keep, N}
    /\ genOffset \in Nat /\ announce \in Nat
    /\ joined \in [Worker -> 0 .. MaxGen + 1]
    /\ mon \in {"poll", "limit", "declared", "gen", "announce"}
    /\ bridge \in {"packet", "limit", "declared", "announce"}
    /\ rebindEpoch \in 0 .. MaxRebind /\ paused \in BOOLEAN
    /\ pc \in [Worker -> Steps]
    /\ up \in [Worker -> BOOLEAN]
    /\ tries \in [Worker -> 0 .. Attempts - 1] /\ answered \in [Worker -> BOOLEAN]
    /\ sock \in [Worker -> 0 .. MaxRebind] /\ rebindSeen \in [Worker -> 0 .. MaxRebind]
    /\ announceSeen \in [Worker -> 0 .. MaxAnnounce]
    /\ draft \in [Worker -> Draft]
    /\ idleHeard \in [Worker -> BOOLEAN] /\ pauseHeard \in [Worker -> BOOLEAN]
    /\ rebindHeard \in [Worker -> BOOLEAN]

\* A session is in the select loop once it is READY.
Loop == {"seen", "select", "rebind", "park", "news", "reread", "await"}
Looping(w) == pc[w] \in Loop => up[w] = TRUE

\* An epoch was counted up and its announcement was not.
EpochOwed == mon = "announce" \/ \E v \in Worker : pc[v] = "lostAnnounce"

\* What a READY session has put into its payload since it took ANNOUNCE is in
\* force, unless it was changed since and that is still to be announced.
Built(w) ==
    /\ announceSeen[w] <= announce
    /\ up[w] = TRUE /\ announceSeen[w] = announce =>
          /\ pc[w] \in {"offset", "count", "send"} /\ ~EpochOwed => draft[w].gen = genOffset
          /\ pc[w] = "send" /\ mon \notin {"gen", "announce"} /\ bridge # "announce"
               => draft[w].count = declared

\* What a session has seen since its watches registered still holds, unless it was
\* notified or, for its own parking, is about to be.
Watched(w) ==
    /\ pc[w] \in {"park", "news", "await"} /\ rebindHeard[w] = FALSE => rebindSeen[w] = rebindEpoch
    /\ pc[w] = "await" /\ idleHeard[w] = FALSE => announceSeen[w] = announce
    /\ pc[w] \in {"news", "await"} /\ idleHeard[w] = FALSE /\ mon \in {"poll", "limit"}
         => w <= limit

Knows(w) == Looping(w) /\ Built(w) /\ Watched(w)

IInv == Types /\ Room /\ \A w \in Worker : Knows(w)

-----------------------------------------------------------------------------
(* Room.                                                                   *)

LEMMA Finite ==
    /\ \A S \in SUBSET Worker : IsFiniteSet(S) /\ Cardinality(S) \in Nat
    /\ IsFiniteSet(Losing) /\ IsFiniteSet(Losing \cup Announcing)
    /\ Cardinality(Losing) \in Nat /\ Cardinality(Losing \cup Announcing) \in Nat
<1>1. IsFiniteSet(1 .. N)
  BY FleetAssumption, FS_Interval
<1>2. \A S \in SUBSET Worker : IsFiniteSet(S)
  BY <1>1, FleetAssumption, FS_Subset
<1>3. \A S \in SUBSET Worker : Cardinality(S) \in Nat
  BY <1>2, FS_CardinalityType
<1>4. Losing \in SUBSET Worker /\ Losing \cup Announcing \in SUBSET Worker
  BY DEF Losing, Announcing
<1> QED BY <1>2, <1>3, <1>4

LEMMA Smaller ==
    ASSUME NEW S \in SUBSET Worker, NEW T \in SUBSET S
    PROVE  Cardinality(T) <= Cardinality(S)
  BY Finite, FS_Subset

LEMMA WithOne ==
    ASSUME NEW S \in SUBSET Worker, NEW w \in Worker, NEW T \in SUBSET (S \cup {w})
    PROVE  Cardinality(T) <= Cardinality(S) + 1
<1>1. IsFiniteSet(S) /\ IsFiniteSet(S \cup {w}) /\ IsFiniteSet(T)
  BY Finite
<1>2. Cardinality(T) <= Cardinality(S \cup {w})
  BY <1>1, FS_Subset
<1>3. Cardinality(S \cup {w}) = IF w \in S THEN Cardinality(S) ELSE Cardinality(S) + 1
  BY <1>1, FS_AddElement
<1>4. Cardinality(S) \in Nat /\ Cardinality(T) \in Nat
  BY Finite
<1> QED BY <1>2, <1>3, <1>4

LEMMA LessOne ==
    ASSUME NEW S \in SUBSET Worker, NEW w \in S, NEW T \in SUBSET (S \ {w})
    PROVE  Cardinality(T) + 1 <= Cardinality(S)
<1>1. IsFiniteSet(S) /\ S \ {w} \in SUBSET Worker
  BY Finite
<1>2. Cardinality(S \ {w}) = Cardinality(S) - 1
  BY <1>1, FS_RemoveElement
<1>3. Cardinality(T) <= Cardinality(S \ {w})
  BY <1>1, Smaller
<1>4. Cardinality(S) \in Nat /\ Cardinality(T) \in Nat
  BY Finite
<1> QED BY <1>2, <1>3, <1>4

\* Where a step may take a worker, nobody begins to lose a path and nobody has
\* an announcement to make who had not.
Calm(w) ==
    \E s \in Steps : /\ Goto(w, s) /\ s # "lostAnnounce"
                     /\ s \in LosingSteps => pc[w] \in LosingSteps

LEMMA CalmRoom ==
    ASSUME Types, Room, NEW w \in Worker, Calm(w), UNCHANGED <<genOffset, announce, mon, bridge>>
    PROVE  Room'
<1>1. Losing' \in SUBSET Losing /\ (Losing \cup Announcing)' \in SUBSET (Losing \cup Announcing)
  BY DEF Calm, Goto, Losing, Announcing, LosingSteps, Types
<1>2. Losing \in SUBSET Worker /\ Losing \cup Announcing \in SUBSET Worker
  BY DEF Losing, Announcing
<1>3. /\ Cardinality(Losing') <= Cardinality(Losing)
      /\ Cardinality((Losing \cup Announcing)') <= Cardinality(Losing \cup Announcing)
  BY <1>1, <1>2, Smaller
<1>4. Cardinality(Losing') \in Nat /\ Cardinality((Losing \cup Announcing)') \in Nat
  BY <1>1, <1>2, Finite
<1> QED BY <1>3, <1>4, Finite, FleetAssumption DEF Room, Due, Types

\* The worker's own steps, those apart in which it loses its path for good
\* (LostCas) and makes that known (LostAnnounce).
QuietStep(w) ==
    \/ GateArm(w) \/ GateCheck(w) \/ GateWake(w)
    \/ Dial(w) \/ Connected(w) \/ ConnectRebound(w) \/ SetupFailed(w) \/ ChannelBound(w)
    \/ BuildGen(w) \/ BuildOffset(w) \/ BuildCount(w) \/ SendRegistration(w)
    \/ ConfigRetry(w) \/ ConfigReceived(w) \/ NoConfigReceived(w)
    \/ Ready(w) \/ ReadyAnnounce(w)
    \/ SelectArm(w) \/ SelectRebind(w) \/ SelectPark(w) \/ SelectAnnounce(w) \/ Reread(w)
    \/ SelectWake(w) \/ LostAllows(w) \/ LostLoad(w)

LEMMA QuietStepCalm ==
    ASSUME Types, NEW w \in Worker, QuietStep(w)
    PROVE  Calm(w) /\ UNCHANGED <<genOffset, announce, mon, bridge>>
<1>1. CASE GateArm(w) \/ GateCheck(w) \/ GateWake(w)
  BY <1>1 DEF GateArm, GateCheck, GateWake, Calm, Steps, LosingSteps, idle
<1>2. CASE Dial(w) \/ Connected(w) \/ ConnectRebound(w) \/ SetupFailed(w) \/ ChannelBound(w)
  BY <1>2 DEF Dial, Connected, ConnectRebound, SetupFailed, ChannelBound, EndSession, Calm, Steps,
              LosingSteps, idle
<1>3. CASE BuildGen(w) \/ BuildOffset(w) \/ BuildCount(w) \/ SendRegistration(w)
  BY <1>3 DEF BuildGen, BuildOffset, BuildCount, SendRegistration, Calm, Steps, LosingSteps, idle
<1>4. CASE ConfigRetry(w) \/ ConfigReceived(w) \/ NoConfigReceived(w) \/ Ready(w)
           \/ ReadyAnnounce(w)
  BY <1>4 DEF ConfigRetry, ConfigReceived, NoConfigReceived, Ready, ReadyAnnounce, Calm, Steps,
              LosingSteps, idle
<1>5. CASE SelectArm(w) \/ SelectRebind(w) \/ SelectPark(w) \/ SelectAnnounce(w) \/ Reread(w)
           \/ SelectWake(w)
  BY <1>5 DEF SelectArm, SelectRebind, SelectPark, SelectAnnounce, Reread, SelectWake, EndSession,
              Continue, Calm, Steps, LosingSteps, idle
<1>6. CASE LostAllows(w) \/ LostLoad(w)
  BY <1>6 DEF LostAllows, LostLoad, Continue, Calm, Steps, LosingSteps, idle
<1> QED BY <1>1, <1>2, <1>3, <1>4, <1>5, <1>6 DEF QuietStep

\* A call that starts finds room for what it will count up.
LEMMA RoomNext ==
    ASSUME Types, Room, [Next]_vars
    PROVE  Room'
<1> USE FleetAssumption
<1>1. /\ Losing \in SUBSET Worker /\ Losing \cup Announcing \in SUBSET Worker
      /\ Cardinality(Losing) \in Nat /\ Cardinality(Losing \cup Announcing) \in Nat
  BY Finite DEF Losing, Announcing
<1>2. ASSUME pc' = pc
      PROVE  Losing' = Losing /\ Announcing' = Announcing
  BY <1>2 DEF Losing, Announcing
<1>3. CASE UNCHANGED vars
  BY <1>2, <1>3 DEF vars, idle, Room
<1>4. CASE EnterSwap
  <2>1. /\ RoomForEpoch /\ RoomForAnnouncement /\ mon = "poll" /\ mon' = "limit" /\ pc' = pc
        /\ UNCHANGED <<genOffset, announce, bridge>>
    BY <1>4 DEF EnterSwap
  <2> QED BY <1>1, <1>2, <2>1 DEF Room, RoomForEpoch, RoomForAnnouncement, Due, Types
<1>5. CASE Monitor
  <2>1. CASE EnterLimit \/ EnterDeclared
    BY <1>1, <1>2, <2>1 DEF EnterLimit, EnterDeclared, Room, Due, Types
  <2>2. CASE EnterGen
    BY <1>1, <1>2, <2>2 DEF EnterGen, Room, Due, Types
  <2>3. CASE EnterAnnounce
    BY <1>1, <1>2, <2>3 DEF EnterAnnounce, Room, Due, Types
  <2> QED BY <1>5, <2>1, <2>2, <2>3 DEF Monitor
<1>6. CASE ExitSwap
  <2>1. /\ RoomForAnnouncement /\ bridge = "packet" /\ bridge' = "limit" /\ pc' = pc
        /\ UNCHANGED <<genOffset, announce, mon>>
    BY <1>6 DEF ExitSwap
  <2> QED BY <1>1, <1>2, <2>1 DEF Room, RoomForAnnouncement, Due, Types
<1>7. CASE Bridge
  <2>1. CASE ExitLimit \/ ExitDeclared
    BY <1>1, <1>2, <2>1 DEF ExitLimit, ExitDeclared, Room, Due, Types
  <2>2. CASE ExitAnnounce
    BY <1>1, <1>2, <2>2 DEF ExitAnnounce, Room, Due, Types
  <2> QED BY <1>7, <2>1, <2>2 DEF Bridge
<1>8. CASE RebindRequest \/ SetPaused
  BY <1>2, <1>8 DEF RebindRequest, SetPaused, idle, Room
<1>9. ASSUME NEW w \in Worker, QuietStep(w)
      PROVE  Room'
  BY <1>9, QuietStepCalm, CalmRoom
<1>10. ASSUME NEW w \in Worker, LostCas(w)
       PROVE  Room'
  <2>1. CASE joined[w] = genOffset + 1
    <3>1. /\ pc[w] = "lostCas" /\ pc' = [pc EXCEPT ![w] = "lostAnnounce"]
          /\ genOffset' = genOffset + 1 /\ UNCHANGED <<announce, mon, bridge>>
      BY <1>10, <2>1 DEF LostCas, Goto
    <3>2. /\ w \in Losing /\ Losing' \in SUBSET (Losing \ {w})
          /\ (Losing \cup Announcing)' \in SUBSET (Losing \cup Announcing)
      BY <3>1 DEF Losing, Announcing, Types
    <3>3. /\ Cardinality(Losing') + 1 <= Cardinality(Losing)
          /\ Cardinality((Losing \cup Announcing)') <= Cardinality(Losing \cup Announcing)
      BY <1>1, <3>2, Smaller, LessOne
    <3>4. Cardinality(Losing') \in Nat /\ Cardinality((Losing \cup Announcing)') \in Nat
      BY <1>1, <3>2, Finite
    <3> QED BY <1>1, <3>1, <3>3, <3>4 DEF Room, Due, Types
  <2>2. CASE joined[w] # genOffset + 1
    <3>1. Goto(w, "gate") /\ UNCHANGED <<genOffset, announce, mon, bridge>>
      BY <1>10, <2>2 DEF LostCas
    <3>2. Calm(w)
      BY <3>1 DEF Calm, Steps, LosingSteps
    <3> QED BY <3>1, <3>2, CalmRoom
  <2> QED BY <2>1, <2>2
<1>11. ASSUME NEW w \in Worker, LostAnnounce(w)
       PROVE  Room'
  <2>1. /\ pc[w] = "lostAnnounce" /\ pc' = [pc EXCEPT ![w] = "gate"]
        /\ announce' = announce + 1 /\ UNCHANGED <<genOffset, mon, bridge>>
    BY <1>11 DEF LostAnnounce, Goto
  <2>2. /\ w \in Losing \cup Announcing /\ Losing' \in SUBSET Losing
        /\ (Losing \cup Announcing)' \in SUBSET ((Losing \cup Announcing) \ {w})
    BY <2>1 DEF Losing, Announcing, Types
  <2>3. /\ Cardinality(Losing') <= Cardinality(Losing)
        /\ Cardinality((Losing \cup Announcing)') + 1 <= Cardinality(Losing \cup Announcing)
    BY <1>1, <2>2, Smaller, LessOne
  <2>4. Cardinality(Losing') \in Nat /\ Cardinality((Losing \cup Announcing)') \in Nat
    BY <1>1, <2>2, Finite
  <2> QED BY <1>1, <2>1, <2>3, <2>4 DEF Room, Due, Types
<1>12. ASSUME NEW w \in Worker, PathDies(w)
       PROVE  Room'
  <2>1. UNCHANGED <<genOffset, announce, mon, bridge>>
    BY <1>12 DEF PathDies, EndSession, idle
  <2>2. CASE EndSession(w, "gate")
    <3>1. Calm(w)
      BY <2>2 DEF EndSession, Calm, Steps, LosingSteps
    <3> QED BY <2>1, <3>1, CalmRoom
  <2>3. CASE RoomForEpoch /\ RoomForAnnouncement /\ EndSession(w, "lost")
    <3>1. /\ Losing' \in SUBSET (Losing \cup {w})
          /\ (Losing \cup Announcing)' \in SUBSET ((Losing \cup Announcing) \cup {w})
      BY <2>3 DEF EndSession, Goto, Losing, Announcing, Types
    <3>2. /\ Cardinality(Losing') <= Cardinality(Losing) + 1
          /\ Cardinality((Losing \cup Announcing)') <= Cardinality(Losing \cup Announcing) + 1
      BY <1>1, <3>1, WithOne
    <3>3. Cardinality(Losing') \in Nat /\ Cardinality((Losing \cup Announcing)') \in Nat
      <4>1. Losing' \in SUBSET Worker /\ (Losing \cup Announcing)' \in SUBSET Worker
        BY <1>1, <3>1
      <4> QED BY <4>1, Finite
    <3> QED BY <1>1, <2>1, <2>3, <3>2, <3>3 DEF Room, RoomForEpoch, RoomForAnnouncement, Due, Types
  <2> QED BY <1>12, <2>2, <2>3 DEF PathDies
<1> QED BY <1>3, <1>4, <1>5, <1>6, <1>7, <1>8, <1>9, <1>10, <1>11, <1>12
        DEF Next, WorkerStep, QuietStep

-----------------------------------------------------------------------------
(* The types.                                                              *)

LEMMA Bounded ==
    ASSUME Types, Room
    PROVE  genOffset \in Gen /\ announce \in 0 .. MaxAnnounce
  BY Finite, FleetAssumption DEF Types, Room, Due, Gen

LEMMA NoDraftType == NoDraft \in Draft
  BY FleetAssumption DEF NoDraft, Draft, Gen

LEMMA DraftUpdates ==
    ASSUME NEW d \in Draft
    PROVE  /\ \A g \in Gen : [d EXCEPT !.gen = g] \in Draft /\ [d EXCEPT !.offset = g] \in Draft
           /\ \A c \in {Keep, N} : [d EXCEPT !.count = c] \in Draft
  BY DEF Draft

LEMMA NotifyType ==
    ASSUME NEW h \in [Worker -> BOOLEAN], NEW S
    PROVE  Notify(h, S) \in [Worker -> BOOLEAN]
  BY DEF Notify

\* A step that moves one worker and touches its registrations only.
LEMMA GotoTypes ==
    ASSUME Types, NEW w \in Worker, NEW s \in Steps, Goto(w, s),
           UNCHANGED <<idle, net, paused, session>>,
           idleHeard' \in [Worker -> BOOLEAN], pauseHeard' \in [Worker -> BOOLEAN],
           rebindHeard' \in [Worker -> BOOLEAN]
    PROVE  Types'
<1>1. pc' \in [Worker -> Steps]
  BY DEF Types, Goto
<1> QED BY <1>1 DEF Types, idle, net, session

LEMMA EndSessionTypes ==
    ASSUME Types, NEW w \in Worker, NEW s \in Steps, EndSession(w, s)
    PROVE  Types'
<1>1. 0 \in 0 .. Attempts - 1 /\ 0 \in 0 .. MaxRebind /\ 0 \in 0 .. MaxAnnounce
  BY FleetAssumption DEF Types
<1> QED BY <1>1, NoDraftType DEF EndSession, Types, Goto, idle

\* The steps of the monitor, the bridge and the host.
LEMMA SharedTypes ==
    ASSUME Types, EnterSwap \/ Monitor \/ ExitSwap \/ Bridge \/ RebindRequest \/ SetPaused
    PROVE  Types'
<1> USE FleetAssumption
<1>1. CASE EnterSwap \/ EnterLimit \/ EnterDeclared \/ EnterGen
  <2>1. CASE EnterSwap
    BY <2>1 DEF EnterSwap, Types, net, session, heard
  <2>2. CASE EnterLimit
    BY <2>2 DEF EnterLimit, Types, net, session, heard
  <2>3. CASE EnterDeclared
    BY <2>3 DEF EnterDeclared, Types, net, session, heard
  <2>4. CASE EnterGen
    BY <2>4 DEF EnterGen, Types, net, session, heard
  <2> QED BY <1>1, <2>1, <2>2, <2>3, <2>4
<1>2. CASE ExitSwap \/ ExitLimit \/ ExitDeclared
  BY <1>2 DEF ExitSwap, ExitLimit, ExitDeclared, Types, net, session, heard
<1>3. CASE EnterAnnounce \/ ExitAnnounce
  BY <1>3, NotifyType DEF EnterAnnounce, ExitAnnounce, NotifyIdle, Types, net, session
<1>4. CASE RebindRequest \/ SetPaused
  <2>1. CASE RebindRequest
    BY <2>1, NotifyType DEF RebindRequest, Types, idle, net, session
  <2>2. CASE SetPaused
    BY <2>2, NotifyType DEF SetPaused, Types, idle, net, session
  <2> QED BY <1>4, <2>1, <2>2
<1> QED BY <1>1, <1>2, <1>3, <1>4 DEF Monitor, Bridge

\* The steps of a worker.
LEMMA WorkerTypes ==
    ASSUME Types, Room, NEW w \in Worker, WorkerStep(w) \/ PathDies(w)
    PROVE  Types'
<1> USE FleetAssumption
<1>1. CASE GateArm(w) \/ GateCheck(w) \/ GateWake(w)
  <2>1. CASE GateArm(w)
    BY <2>1 DEF GateArm, Goto, Types, Steps, idle, net, session, heard
  <2>2. CASE GateCheck(w)
    <3>1. UNCHANGED <<idle, net, paused, session, rebindHeard>>
          /\ \E s \in {"dial", "blocked"} : Goto(w, s)
          /\ idleHeard' \in {idleHeard, [idleHeard EXCEPT ![w] = FALSE]}
          /\ pauseHeard' \in {pauseHeard, [pauseHeard EXCEPT ![w] = FALSE]}
      BY <2>2 DEF GateCheck
    <3>2. PICK s \in Steps : Goto(w, s)
      BY <3>1 DEF Steps
    <3>3. idleHeard' \in [Worker -> BOOLEAN] /\ rebindHeard' \in [Worker -> BOOLEAN]
          /\ pauseHeard' \in [Worker -> BOOLEAN]
      BY <3>1 DEF Types
    <3> QED BY <3>1, <3>2, <3>3, GotoTypes
  <2>3. CASE GateWake(w)
    BY <2>3 DEF GateWake, Goto, Types, Steps, idle, net, session, heard
  <2> QED BY <1>1, <2>1, <2>2, <2>3
<1>2. CASE Dial(w) \/ Connected(w) \/ ChannelBound(w)
  <2>1. CASE Dial(w)
    BY <2>1 DEF Dial, Goto, Types, Steps, idle, net, session, heard
  <2>2. CASE Connected(w)
    BY <2>2 DEF Connected, Goto, Types, Steps, idle, net, session, heard
  <2>3. CASE ChannelBound(w)
    BY <2>3 DEF ChannelBound, Goto, Types, Steps, idle, net, session, heard
  <2> QED BY <1>2, <2>1, <2>2, <2>3
<1>3. CASE ConnectRebound(w) \/ SetupFailed(w) \/ PathDies(w)
  <2>1. \E s \in Steps : EndSession(w, s)
    BY <1>3 DEF ConnectRebound, SetupFailed, PathDies, Steps
  <2> QED BY <2>1, EndSessionTypes
<1>4. CASE BuildGen(w) \/ BuildOffset(w)
  <2>1. genOffset \in Gen
    BY Bounded
  <2>2. draft[w] \in Draft
    BY DEF Types
  <2>3. [draft[w] EXCEPT !.gen = genOffset] \in Draft /\ [draft[w] EXCEPT !.offset = genOffset] \in Draft
    BY <2>1, <2>2, DraftUpdates
  <2>4. draft' \in [Worker -> Draft]
    BY <1>4, <2>3 DEF BuildGen, BuildOffset, Types
  <2> QED BY <1>4, <2>4 DEF BuildGen, BuildOffset, Goto, Types, Steps, idle, net, heard
<1>5. CASE BuildCount(w)
  <2>1. declared \in {Keep, N} /\ draft[w] \in Draft
    BY DEF Types
  <2>2. [draft[w] EXCEPT !.count = declared] \in Draft
    BY <2>1, DraftUpdates
  <2>3. draft' \in [Worker -> Draft]
    BY <1>5, <2>2 DEF BuildCount, Types
  <2> QED BY <1>5, <2>3 DEF BuildCount, Goto, Types, Steps, idle, net, heard
<1>6. draft[w].offset + 1 \in 0 .. MaxGen + 1
  BY DEF Types, Draft, Gen
<1>7. CASE SendRegistration(w) \/ ConfigReceived(w) \/ NoConfigReceived(w) \/ ConfigRetry(w)
  BY <1>6, <1>7 DEF SendRegistration, ConfigReceived, NoConfigReceived, ConfigRetry, Goto, Types,
                    Steps, idle, net, session, heard
<1>8. CASE Ready(w) \/ ReadyAnnounce(w) \/ SelectArm(w) \/ Reread(w)
  <2>1. CASE Ready(w)
    BY <2>1, Bounded DEF Ready, Goto, Types, Steps, idle, net, session, heard
  <2>2. CASE ReadyAnnounce(w)
    BY <2>2, Bounded DEF ReadyAnnounce, Goto, Types, Steps, idle, net, session, heard
  <2>3. CASE SelectArm(w)
    BY <2>3, Bounded DEF SelectArm, Goto, Types, Steps, idle, net, session, heard
  <2>4. CASE Reread(w)
    BY <2>4, Bounded DEF Reread, Goto, Types, Steps, idle, net, session, heard
  <2> QED BY <1>8, <2>1, <2>2, <2>3, <2>4
<1>9. CASE SelectRebind(w) \/ SelectPark(w)
  <2>1. EndSession(w, "gate") \/ Continue(w, "park") \/ Continue(w, "news")
    BY <1>9 DEF SelectRebind, SelectPark
  <2>2. CASE EndSession(w, "gate")
    BY <2>2, EndSessionTypes DEF Steps
  <2>3. CASE Continue(w, "park") \/ Continue(w, "news")
    BY <2>3 DEF Continue, Goto, Types, Steps, idle, net, session, heard
  <2> QED BY <2>1, <2>2, <2>3
<1>10. CASE SelectAnnounce(w) \/ SelectWake(w)
  <2>1. CASE SelectAnnounce(w)
    <3>1. UNCHANGED <<idle, net, paused, session, pauseHeard>>
          /\ \E s \in {"await", "reread"} : Goto(w, s)
          /\ idleHeard' \in {idleHeard, [idleHeard EXCEPT ![w] = FALSE]}
          /\ rebindHeard' \in {rebindHeard, [rebindHeard EXCEPT ![w] = FALSE]}
      BY <2>1 DEF SelectAnnounce
    <3>2. PICK s \in Steps : Goto(w, s)
      BY <3>1 DEF Steps
    <3>3. idleHeard' \in [Worker -> BOOLEAN] /\ rebindHeard' \in [Worker -> BOOLEAN]
          /\ pauseHeard' \in [Worker -> BOOLEAN]
      BY <3>1 DEF Types
    <3> QED BY <3>1, <3>2, <3>3, GotoTypes
  <2>2. CASE SelectWake(w)
    <3>1. UNCHANGED <<idle, net, paused, session, pauseHeard, rebindHeard>>
          /\ \E s \in {"select", "park"} : Goto(w, s)
          /\ idleHeard' \in {idleHeard, [idleHeard EXCEPT ![w] = FALSE]}
      BY <2>2 DEF SelectWake
    <3>2. PICK s \in Steps : Goto(w, s)
      BY <3>1 DEF Steps
    <3>3. idleHeard' \in [Worker -> BOOLEAN] /\ rebindHeard' \in [Worker -> BOOLEAN]
          /\ pauseHeard' \in [Worker -> BOOLEAN]
      BY <3>1 DEF Types
    <3> QED BY <3>1, <3>2, <3>3, GotoTypes
  <2> QED BY <1>10, <2>1, <2>2
<1>11. CASE LostAllows(w) \/ LostLoad(w)
  BY <1>11 DEF LostAllows, LostLoad, Continue, Goto, Types, Steps, idle, net, session, heard
<1>12. CASE LostCas(w)
  BY <1>12 DEF LostCas, Goto, Types, Steps, net, session, heard
<1>13. CASE LostAnnounce(w)
  BY <1>13, NotifyType DEF LostAnnounce, NotifyIdle, Goto, Types, Steps, net, session
<1> QED BY <1>1, <1>2, <1>3, <1>4, <1>5, <1>7, <1>8, <1>9, <1>10, <1>11, <1>12, <1>13 DEF WorkerStep

LEMMA TypesNext ==
    ASSUME Types, Room, [Next]_vars
    PROVE  Types'
<1>1. CASE UNCHANGED vars
  BY <1>1 DEF vars, idle, net, session, heard, Types
<1> QED BY <1>1, SharedTypes, WorkerTypes DEF Next

-----------------------------------------------------------------------------
(* What a session knows.                                                   *)

\* Of the sessions only that of v changes, and the process-wide state does not.
Private(v) ==
    /\ UNCHANGED <<limit, declared, genOffset, announce, mon, bridge, rebindEpoch>>
    /\ pc[v] # "lostAnnounce" /\ pc'[v] # "lostAnnounce"
    /\ \A w \in Worker \ {v} :
          /\ pc'[w] = pc[w] /\ up'[w] = up[w] /\ announceSeen'[w] = announceSeen[w]
          /\ draft'[w] = draft[w] /\ rebindSeen'[w] = rebindSeen[w]
          /\ idleHeard'[w] = idleHeard[w] /\ rebindHeard'[w] = rebindHeard[w]

LEMMA QuietStepPrivate ==
    ASSUME Types, NEW v \in Worker, QuietStep(v) \/ PathDies(v)
    PROVE  Private(v)
<1>1. CASE GateArm(v) \/ GateCheck(v) \/ GateWake(v)
  BY <1>1 DEF GateArm, GateCheck, GateWake, Goto, Private, Types, idle, net, session, heard
<1>2. CASE Dial(v) \/ Connected(v) \/ ChannelBound(v)
  BY <1>2 DEF Dial, Connected, ChannelBound, Goto, Private, Types, idle, net, session, heard
<1>3. ASSUME NEW s \in {"gate", "lost"}, EndSession(v, s), pc[v] # "lostAnnounce"
      PROVE  Private(v)
  BY <1>3 DEF EndSession, Goto, Private, Types, idle
<1>4. CASE ConnectRebound(v) \/ SetupFailed(v) \/ PathDies(v)
  BY <1>3, <1>4 DEF ConnectRebound, SetupFailed, PathDies
<1>5. CASE BuildGen(v) \/ BuildOffset(v) \/ BuildCount(v) \/ SendRegistration(v)
  BY <1>5 DEF BuildGen, BuildOffset, BuildCount, SendRegistration, Goto, Private, Types, idle, net,
              heard
<1>6. CASE ConfigRetry(v) \/ ConfigReceived(v) \/ NoConfigReceived(v)
  BY <1>6 DEF ConfigRetry, ConfigReceived, NoConfigReceived, Goto, Private, Types, idle, net,
              session, heard
<1>7. CASE Ready(v) \/ ReadyAnnounce(v) \/ SelectArm(v) \/ Reread(v)
  BY <1>7 DEF Ready, ReadyAnnounce, SelectArm, Reread, Goto, Private, Types, idle, net, session,
              heard
<1>8. CASE SelectRebind(v) \/ SelectPark(v)
  <2>1. pc[v] # "lostAnnounce" /\ (EndSession(v, "gate") \/ Continue(v, "park") \/ Continue(v, "news"))
    BY <1>8 DEF SelectRebind, SelectPark
  <2>2. CASE Continue(v, "park") \/ Continue(v, "news")
    BY <2>1, <2>2 DEF Continue, Goto, Private, Types, idle, net, session, heard
  <2> QED BY <1>3, <2>1, <2>2
<1>9. CASE SelectAnnounce(v) \/ SelectWake(v)
  BY <1>9 DEF SelectAnnounce, SelectWake, Goto, Private, Types, idle, net, session, heard
<1>10. CASE LostAllows(v) \/ LostLoad(v)
  BY <1>10 DEF LostAllows, LostLoad, Continue, Goto, Private, Types, idle, net, session, heard
<1> QED BY <1>1, <1>2, <1>4, <1>5, <1>6, <1>7, <1>8, <1>9, <1>10 DEF QuietStep

LEMMA PrivateOwes ==
    ASSUME Types, NEW v \in Worker, Private(v)
    PROVE  EpochOwed' = EpochOwed
  BY DEF Private, EpochOwed

\* It leaves alone what the others know.
LEMMA OthersKnow ==
    ASSUME Types, NEW v \in Worker, Private(v), NEW w \in Worker \ {v}, Knows(w)
    PROVE  Knows(w)'
<1>1. EpochOwed' = EpochOwed
  BY PrivateOwes
<1>2. Looping(w)' /\ Watched(w)'
  BY DEF Private, Knows, Looping, Watched
<1>3. Built(w)'
  BY <1>1 DEF Private, Knows, Built
<1> QED BY <1>2, <1>3 DEF Knows

\* Where there is nothing to know.
LEMMA Afar ==
    ASSUME NEW v \in Worker
    PROVE  /\ pc'[v] \notin Loop \/ up'[v] = TRUE => Looping(v)'
           /\ announceSeen'[v] <= announce' /\ (pc'[v] \notin {"offset", "count", "send"} \/ up'[v] = FALSE)
                => Built(v)'
           /\ pc'[v] \notin {"park", "news", "await"} => Watched(v)'
<1>1. pc'[v] \notin Loop \/ up'[v] = TRUE => Looping(v)'
  BY Zenon DEF Looping
<1>2. ASSUME announceSeen'[v] <= announce', pc'[v] \notin {"offset", "count", "send"} \/ up'[v] = FALSE
      PROVE  Built(v)'
  <2>1. CASE up'[v] = FALSE
    BY <1>2, <2>1 DEF Built
  <2>2. CASE pc'[v] \notin {"offset", "count", "send"}
    <3>1. pc'[v] # "send"
      BY <2>2
    <3> QED BY <1>2, <2>2, <3>1, Zenon DEF Built
  <2> QED BY <1>2, <2>1, <2>2
<1>3. ASSUME pc'[v] \notin {"park", "news", "await"}
      PROVE  Watched(v)'
  <2>1. pc'[v] \notin {"news", "await"} /\ pc'[v] # "await"
    BY <1>3
  <2> QED BY <1>3, <2>1, Zenon DEF Watched
<1> QED BY <1>1, <1>2, <1>3, Zenon

\* Outside of the select loop and of a payload there is nothing to know.
LEMMA NothingToKnow ==
    ASSUME Types, NEW v \in Worker, Knows(v), Private(v),
           announceSeen'[v] \in {announceSeen[v], 0},
           pc'[v] \notin Loop \cup {"offset", "count", "send"}
    PROVE  Knows(v)'
<1>1. announceSeen'[v] <= announce'
  BY DEF Knows, Built, Types, Private
<1>2. pc'[v] \notin Loop /\ pc'[v] \notin {"offset", "count", "send"} /\ pc'[v] \notin {"park", "news", "await"}
  BY DEF Loop
<1> QED BY <1>1, <1>2, Afar DEF Knows

LEMMA EndKnows ==
    ASSUME Types, NEW v \in Worker, Knows(v), Private(v), NEW s \in {"gate", "lost"}, EndSession(v, s)
    PROVE  Knows(v)'
<1>1. announceSeen'[v] = 0 /\ pc'[v] \notin Loop \cup {"offset", "count", "send"}
  BY DEF EndSession, Goto, Types, Loop
<1> QED BY <1>1, NothingToKnow

\* The steps of a session.
LEMMA SessionKnows ==
    ASSUME Types, Room, NEW v \in Worker, Knows(v), QuietStep(v) \/ PathDies(v)
    PROVE  Knows(v)'
<1>1. Private(v) /\ EpochOwed' = EpochOwed
  BY QuietStepPrivate, PrivateOwes
<1>2. up[v] \in BOOLEAN
  BY DEF Types
<1>3. CASE GateArm(v) \/ GateCheck(v) \/ GateWake(v) \/ Dial(v) \/ Connected(v)
  <2>1. /\ pc'[v] \in {"allowed", "blocked", "dial", "gate", "connect", "channel"}
        /\ announceSeen'[v] = announceSeen[v]
    BY <1>3 DEF GateArm, GateCheck, GateWake, Dial, Connected, Goto, Types, session
  <2>2. pc'[v] \notin Loop \cup {"offset", "count", "send"}
    BY <2>1 DEF Loop
  <2> QED BY <1>1, <2>1, <2>2, NothingToKnow
<1>4. CASE ConnectRebound(v) \/ SetupFailed(v) \/ PathDies(v)
  BY <1>1, <1>4, EndKnows DEF ConnectRebound, SetupFailed, PathDies
<1>5. CASE ChannelBound(v) \/ ConfigRetry(v) \/ ConfigReceived(v) \/ NoConfigReceived(v)
  <2>1. pc'[v] \in {"gen", "setup"} /\ announceSeen'[v] = announceSeen[v]
    BY <1>5 DEF ChannelBound, ConfigRetry, ConfigReceived, NoConfigReceived, Goto, Types, session
  <2>2. pc'[v] \notin Loop \cup {"offset", "count", "send"}
    BY <2>1 DEF Loop
  <2> QED BY <1>1, <2>1, <2>2, NothingToKnow
<1>6. CASE BuildGen(v)
  <2>1. /\ pc'[v] = "offset" /\ draft'[v].gen = genOffset
        /\ up'[v] = up[v] /\ announceSeen'[v] = announceSeen[v]
    BY <1>6 DEF BuildGen, Goto, Types, Draft
  <2>2. Built(v)'
    BY <1>1, <2>1 DEF Private, Knows, Built
  <2>3. pc'[v] \notin Loop /\ pc'[v] \notin {"park", "news", "await"}
    BY <2>1 DEF Loop
  <2> QED BY <2>2, <2>3, Afar DEF Knows
<1>7. CASE BuildOffset(v)
  <2>1. /\ pc[v] = "offset" /\ pc'[v] = "count" /\ draft'[v].gen = draft[v].gen
        /\ up'[v] = up[v] /\ announceSeen'[v] = announceSeen[v]
    BY <1>7 DEF BuildOffset, Goto, Types, Draft
  <2>2. Built(v)'
    BY <1>1, <2>1 DEF Private, Knows, Built
  <2> QED BY <1>1, <2>1, <2>2 DEF Private, Knows, Looping, Watched, Loop
<1>8. CASE BuildCount(v)
  <2>1. /\ pc[v] = "count" /\ pc'[v] = "send" /\ draft'[v].gen = draft[v].gen
        /\ draft'[v].count = declared /\ up'[v] = up[v] /\ announceSeen'[v] = announceSeen[v]
    BY <1>8 DEF BuildCount, Goto, Types, Draft
  <2>2. Built(v)'
    BY <1>1, <2>1 DEF Private, Knows, Built
  <2> QED BY <1>1, <2>1, <2>2 DEF Private, Knows, Looping, Watched, Loop
<1>9. CASE SendRegistration(v)
  <2>1. /\ up'[v] = up[v] /\ announceSeen'[v] = announceSeen[v]
        /\ pc'[v] = IF up[v] THEN "select" ELSE "sent"
    BY <1>9 DEF SendRegistration, Goto, Types
  <2>2. announceSeen'[v] <= announce'
    BY <1>1, <2>1 DEF Private, Knows, Built
  <2>3. /\ pc'[v] \notin Loop \/ up'[v] = TRUE
        /\ pc'[v] \notin {"offset", "count", "send"} /\ pc'[v] \notin {"park", "news", "await"}
    BY <1>2, <2>1 DEF Loop
  <2> QED BY <2>2, <2>3, Afar DEF Knows
<1>10. CASE Ready(v) \/ ReadyAnnounce(v) \/ SelectArm(v)
  <2>1. /\ pc'[v] \in {"seen", "select", "rebind"} /\ up'[v] = TRUE
        /\ announceSeen'[v] \in {announceSeen[v], announce}
    BY <1>10 DEF Ready, ReadyAnnounce, SelectArm, Goto, Types, Knows, Looping, Loop, session
  <2>2. announceSeen'[v] <= announce'
    BY <1>1, <2>1 DEF Knows, Built, Types, Private
  <2>3. pc'[v] \notin {"offset", "count", "send"} /\ pc'[v] \notin {"park", "news", "await"}
    BY <2>1
  <2> QED BY <2>1, <2>2, <2>3, Afar DEF Knows
<1>11. CASE SelectRebind(v)
  <2>1. CASE EndSession(v, "gate")
    BY <1>1, <2>1, EndKnows
  <2>2. CASE rebindEpoch = rebindSeen[v] /\ Continue(v, "park")
    <3>1. /\ pc'[v] = "park" /\ up'[v] = TRUE /\ announceSeen'[v] = announceSeen[v]
          /\ rebindSeen'[v] = rebindEpoch
      BY <1>11, <2>2 DEF SelectRebind, Continue, Goto, Types, Knows, Looping, Loop, session, net
    <3>2. announceSeen'[v] <= announce' /\ pc'[v] \notin {"offset", "count", "send"}
      BY <1>1, <3>1 DEF Knows, Built, Private
    <3>3. Watched(v)'
      BY <1>1, <3>1 DEF Private, Watched
    <3> QED BY <3>1, <3>2, <3>3, Afar DEF Knows
  <2> QED BY <1>11, <2>1, <2>2 DEF SelectRebind
<1>12. CASE SelectPark(v)
  <2>1. CASE EndSession(v, "gate")
    BY <1>1, <2>1, EndKnows
  <2>2. CASE Allows(v) /\ Continue(v, "news")
    <3>1. /\ pc[v] = "park" /\ pc'[v] = "news" /\ up'[v] = TRUE /\ v <= limit
          /\ announceSeen'[v] = announceSeen[v] /\ rebindSeen'[v] = rebindSeen[v]
          /\ rebindHeard'[v] = rebindHeard[v]
      BY <1>12, <2>2 DEF SelectPark, Continue, Goto, Types, Knows, Looping, Loop, session, net,
                         heard, Allows
    <3> QED BY <1>1, <3>1 DEF Private, Knows, Looping, Built, Watched
  <2> QED BY <1>12, <2>1, <2>2 DEF SelectPark
<1>13. CASE SelectAnnounce(v)
  <2>1. /\ pc[v] = "news" /\ up'[v] = TRUE
        /\ announceSeen'[v] = announceSeen[v] /\ rebindSeen'[v] = rebindSeen[v]
    BY <1>13 DEF SelectAnnounce, Knows, Looping, Loop, session, net
  <2>2. CASE announce = announceSeen[v]
    <3>1. /\ pc'[v] = "await" /\ rebindHeard'[v] = rebindHeard[v] /\ idleHeard'[v] = idleHeard[v]
      BY <1>13, <2>2 DEF SelectAnnounce, Goto, Types
    <3> QED BY <1>1, <2>1, <2>2, <3>1 DEF Private, Knows, Looping, Built, Watched
  <2>3. CASE announce # announceSeen[v]
    <3>1. pc'[v] = "reread"
      BY <1>13, <2>3 DEF SelectAnnounce, Goto, Types
    <3>2. /\ announceSeen'[v] <= announce' /\ pc'[v] \notin {"offset", "count", "send"}
          /\ pc'[v] \notin {"park", "news", "await"}
      BY <1>1, <2>1, <3>1 DEF Knows, Built, Private
    <3> QED BY <2>1, <3>2, Afar DEF Knows
  <2> QED BY <2>2, <2>3
<1>14. CASE Reread(v)
  <2>1. pc'[v] = "gen" /\ announceSeen'[v] = announce
    BY <1>14 DEF Reread, Goto, Types
  <2>2. /\ announceSeen'[v] <= announce' /\ pc'[v] \notin {"offset", "count", "send"}
        /\ pc'[v] \notin {"park", "news", "await"} /\ pc'[v] \notin Loop
    BY <1>1, <2>1 DEF Types, Private, Loop
  <2> QED BY <2>1, <2>2, Afar DEF Knows
<1>15. CASE SelectWake(v)
  <2>1. /\ pc[v] = "await" /\ up'[v] = TRUE
        /\ announceSeen'[v] = announceSeen[v] /\ rebindSeen'[v] = rebindSeen[v]
        /\ rebindHeard'[v] = rebindHeard[v] /\ pc'[v] \in {"select", "park"}
    BY <1>15 DEF SelectWake, Goto, Types, Knows, Looping, Loop, session, net
  <2>2. announceSeen'[v] <= announce' /\ pc'[v] \notin {"offset", "count", "send"}
    BY <1>1, <2>1 DEF Knows, Built, Private
  <2>3. Watched(v)'
    BY <1>1, <2>1 DEF Private, Knows, Watched
  <2> QED BY <2>1, <2>2, <2>3, Afar DEF Knows
<1>16. CASE LostAllows(v) \/ LostLoad(v)
  <2>1. pc'[v] \in {"lostLoad", "lostCas", "gate"} /\ announceSeen'[v] = announceSeen[v]
    BY <1>16 DEF LostAllows, LostLoad, Continue, Goto, Types, session
  <2>2. pc'[v] \notin Loop \cup {"offset", "count", "send"}
    BY <2>1 DEF Loop
  <2> QED BY <1>1, <2>1, <2>2, NothingToKnow
<1> QED BY <1>3, <1>4, <1>5, <1>6, <1>7, <1>8, <1>9, <1>10, <1>11, <1>12, <1>13, <1>14, <1>15, <1>16
        DEF QuietStep

\* The steps of the monitor, the bridge and the host leave every session where it
\* was: ANNOUNCE is counted up, or a bit of the process-wide state is written by a
\* call that will do so.
LEMMA SharedKnows ==
    ASSUME Types, Room, NEW w \in Worker, Knows(w),
           EnterSwap \/ Monitor \/ ExitSwap \/ Bridge \/ RebindRequest \/ SetPaused
    PROVE  Knows(w)'
<1>1. UNCHANGED <<pc, session, rebindSeen>>
  BY DEF EnterSwap, Monitor, EnterLimit, EnterDeclared, EnterGen, EnterAnnounce, ExitSwap, Bridge,
         ExitLimit, ExitDeclared, ExitAnnounce, RebindRequest, SetPaused, net
<1>2. Looping(w)'
  BY <1>1 DEF Looping, Knows, session
<1>3. /\ announceSeen[w] \in Nat /\ announce \in Nat /\ announceSeen[w] <= announce
      /\ w \in Nat /\ w <= N
  BY FleetAssumption DEF Types, Knows, Built
<1>4. CASE EnterSwap
  <2>1. /\ mon = "poll" /\ mon' = "limit"
        /\ UNCHANGED <<limit, declared, genOffset, announce, bridge, rebindEpoch, heard>>
    BY <1>4 DEF EnterSwap, net
  <2>2. EpochOwed' = EpochOwed
    BY <1>1, <2>1 DEF EpochOwed
  <2> QED BY <1>1, <1>2, <2>1, <2>2 DEF Knows, Built, Watched, session, heard
<1>5. CASE EnterLimit
  <2>1. /\ mon = "limit" /\ mon' = "declared"
        /\ UNCHANGED <<declared, genOffset, announce, bridge, rebindEpoch, heard>>
    BY <1>5 DEF EnterLimit, net
  <2>2. EpochOwed' = EpochOwed
    BY <1>1, <2>1 DEF EpochOwed
  <2> QED BY <1>1, <1>2, <2>1, <2>2 DEF Knows, Built, Watched, session, heard
<1>6. CASE EnterDeclared
  <2>1. /\ mon = "declared" /\ mon' = "gen"
        /\ UNCHANGED <<limit, genOffset, announce, bridge, rebindEpoch, heard>>
    BY <1>6 DEF EnterDeclared, net
  <2>2. EpochOwed' = EpochOwed
    BY <1>1, <2>1 DEF EpochOwed
  <2> QED BY <1>1, <1>2, <2>1, <2>2 DEF Knows, Built, Watched, session, heard
<1>7. CASE EnterGen
  <2>1. /\ mon = "gen" /\ mon' = "announce"
        /\ UNCHANGED <<limit, declared, announce, bridge, rebindEpoch, heard>>
    BY <1>7 DEF EnterGen, net
  <2>2. EpochOwed'
    BY <2>1 DEF EpochOwed
  <2> QED BY <1>1, <1>2, <2>1, <2>2 DEF Knows, Built, Watched, session, heard
<1>8. CASE EnterAnnounce \/ ExitAnnounce
  <2>1. /\ announce' = announce + 1 /\ NotifyIdle
        /\ UNCHANGED <<limit, declared, genOffset, rebindEpoch, rebindHeard>>
    BY <1>8 DEF EnterAnnounce, ExitAnnounce, net
  <2>2. Built(w)'
    BY <1>1, <1>3, <2>1 DEF Built, session
  <2>3. pc[w] \in {"park", "news", "await"} => idleHeard'[w] = TRUE
    BY <2>1 DEF NotifyIdle, Notify, Selecting
  <2>4. Watched(w)'
    BY <1>1, <2>1, <2>3 DEF Knows, Watched, session
  <2> QED BY <1>2, <2>2, <2>4 DEF Knows
<1>9. CASE ExitSwap
  <2>1. /\ bridge = "packet" /\ bridge' = "limit"
        /\ UNCHANGED <<limit, declared, genOffset, announce, mon, rebindEpoch, heard>>
    BY <1>9 DEF ExitSwap, net
  <2>2. EpochOwed' = EpochOwed
    BY <1>1, <2>1 DEF EpochOwed
  <2> QED BY <1>1, <1>2, <2>1, <2>2 DEF Knows, Built, Watched, session, heard
<1>10. CASE ExitLimit
  <2>1. /\ bridge = "limit" /\ bridge' = "declared" /\ limit' = N
        /\ UNCHANGED <<declared, genOffset, announce, mon, rebindEpoch, heard>>
    BY <1>10 DEF ExitLimit, net
  <2>2. EpochOwed' = EpochOwed
    BY <1>1, <2>1 DEF EpochOwed
  <2> QED BY <1>1, <1>2, <1>3, <2>1, <2>2 DEF Knows, Built, Watched, session, heard
<1>11. CASE ExitDeclared
  <2>1. /\ bridge = "declared" /\ bridge' = "announce"
        /\ UNCHANGED <<limit, genOffset, announce, mon, rebindEpoch, heard>>
    BY <1>11 DEF ExitDeclared, net
  <2>2. EpochOwed' = EpochOwed
    BY <1>1, <2>1 DEF EpochOwed
  <2> QED BY <1>1, <1>2, <2>1, <2>2 DEF Knows, Built, Watched, session, heard
<1>12. CASE RebindRequest
  <2>1. /\ rebindHeard' = Notify(rebindHeard, Selecting \cup {"connect"})
        /\ UNCHANGED <<idle, idleHeard>>
    BY <1>12 DEF RebindRequest
  <2>2. EpochOwed' = EpochOwed /\ UNCHANGED <<limit, declared, genOffset, announce, mon, bridge>>
    BY <1>1, <2>1 DEF EpochOwed, idle
  <2>3. pc[w] \in {"park", "news", "await"} => rebindHeard'[w] = TRUE
    BY <2>1 DEF Notify, Selecting
  <2> QED BY <1>1, <1>2, <2>1, <2>2, <2>3 DEF Knows, Built, Watched, session
<1>13. CASE SetPaused
  <2>1. UNCHANGED <<idle, net, idleHeard, rebindHeard>>
    BY <1>13 DEF SetPaused
  <2>2. EpochOwed' = EpochOwed
    BY <1>1, <2>1 DEF EpochOwed, idle
  <2> QED BY <1>1, <1>2, <2>1, <2>2 DEF Knows, Built, Watched, session, idle, net
<1> QED BY <1>4, <1>5, <1>6, <1>7, <1>8, <1>9, <1>10, <1>11, <1>12, <1>13 DEF Monitor, Bridge

\* A lost path counts up the epoch, and makes it known.
LEMMA LostKnows ==
    ASSUME Types, Room, NEW v \in Worker, LostCas(v) \/ LostAnnounce(v), NEW w \in Worker, Knows(w)
    PROVE  Knows(w)'
<1>1. /\ pc' = [pc EXCEPT ![v] = pc'[v]] /\ pc'[v] \in {"lostAnnounce", "gate"}
      /\ UNCHANGED <<session, rebindSeen, limit, declared, mon, bridge, rebindEpoch, rebindHeard>>
  BY DEF LostCas, LostAnnounce, Goto, net, heard, Types
<1>2. CASE w = v
  <2>1. announceSeen'[v] <= announce'
    BY <1>1, <1>2 DEF LostCas, LostAnnounce, Types, Knows, Built, session
  <2>2. /\ pc'[v] \notin {"offset", "count", "send"} /\ pc'[v] \notin {"park", "news", "await"}
        /\ pc'[v] \notin Loop
    BY <1>1 DEF Loop
  <2> QED BY <1>2, <2>1, <2>2, Afar DEF Knows
<1>3. CASE w # v /\ LostCas(v) /\ joined[v] = genOffset + 1
  <2>1. pc'[v] = "lostAnnounce" /\ pc'[w] = pc[w] /\ UNCHANGED <<announce, idleHeard>>
    BY <1>3 DEF LostCas, Goto, Types, heard
  <2>2. EpochOwed'
    BY <2>1 DEF EpochOwed
  <2> QED BY <1>1, <2>1, <2>2 DEF Knows, Looping, Built, Watched, session
<1>4. CASE w # v /\ LostCas(v) /\ joined[v] # genOffset + 1
  <2>1. /\ pc[v] = "lostCas" /\ pc'[v] = "gate" /\ pc'[w] = pc[w]
        /\ UNCHANGED <<announce, genOffset, idleHeard>>
    BY <1>4 DEF LostCas, Goto, Types, heard
  <2>2. EpochOwed' = EpochOwed
    BY <1>1, <2>1 DEF EpochOwed, Types
  <2> QED BY <1>1, <2>1, <2>2 DEF Knows, Looping, Built, Watched, session
<1>5. CASE w # v /\ LostAnnounce(v)
  <2>1. /\ announce' = announce + 1 /\ NotifyIdle /\ pc'[w] = pc[w]
        /\ UNCHANGED genOffset
    BY <1>5 DEF LostAnnounce, Goto, Types
  <2>2. Built(w)'
    BY <1>1, <2>1 DEF Knows, Built, Types, session
  <2>3. pc[w] \in {"park", "news", "await"} => idleHeard'[w] = TRUE
    BY <2>1 DEF NotifyIdle, Notify, Selecting
  <2>4. Watched(w)'
    BY <1>1, <2>1, <2>3 DEF Knows, Watched, session
  <2>5. Looping(w)'
    BY <1>1, <2>1 DEF Knows, Looping, session
  <2> QED BY <2>2, <2>4, <2>5 DEF Knows
<1> QED BY <1>2, <1>3, <1>4, <1>5

-----------------------------------------------------------------------------
(* The invariant holds.                                                    *)

LEMMA InitIInv == Init => IInv
<1> SUFFICES ASSUME Init PROVE IInv
  OBVIOUS
<1> USE FleetAssumption
<1>1. Types
  <2>1. 0 \in 0 .. Attempts - 1 /\ 0 \in 0 .. MaxRebind /\ 0 \in 0 .. MaxAnnounce /\ 0 \in 0 .. MaxGen + 1
    OBVIOUS
  <2> QED BY <2>1, NoDraftType DEF Init, Types, Steps
<1>2. Room
  <2>1. Losing = {} /\ Losing \cup Announcing = {}
    BY DEF Init, Losing, Announcing
  <2>2. Cardinality({}) = 0
    BY FS_EmptySet
  <2> QED BY <2>1, <2>2 DEF Init, Room, Due
<1>3. ASSUME NEW w \in Worker
      PROVE  Knows(w)
  BY DEF Init, Knows, Looping, Built, Watched, Loop
<1> QED BY <1>1, <1>2, <1>3 DEF IInv

LEMMA NextIInv == IInv /\ [Next]_vars => IInv'
<1> SUFFICES ASSUME IInv, [Next]_vars PROVE IInv'
  OBVIOUS
<1>1. Types /\ Room
  BY DEF IInv
<1>2. Types' /\ Room'
  BY <1>1, TypesNext, RoomNext
<1>3. ASSUME NEW w \in Worker
      PROVE  Knows(w)'
  <2>1. Knows(w)
    BY DEF IInv
  <2>2. CASE UNCHANGED vars
    <3>1. EpochOwed' = EpochOwed
      BY <2>2 DEF EpochOwed, vars, idle
    <3> QED BY <2>1, <2>2, <3>1 DEF vars, idle, net, session, heard, Knows, Looping, Built, Watched
  <2>3. CASE EnterSwap \/ Monitor \/ ExitSwap \/ Bridge \/ RebindRequest \/ SetPaused
    BY <1>1, <2>1, <2>3, SharedKnows
  <2>4. ASSUME NEW v \in Worker, QuietStep(v) \/ PathDies(v)
        PROVE  Knows(w)'
    <3>1. CASE w = v
      BY <1>1, <2>1, <2>4, <3>1, SessionKnows
    <3>2. CASE w # v
      BY <1>1, <2>1, <2>4, <3>2, QuietStepPrivate, OthersKnow
    <3> QED BY <3>1, <3>2
  <2>5. ASSUME NEW v \in Worker, LostCas(v) \/ LostAnnounce(v)
        PROVE  Knows(w)'
    BY <1>1, <2>1, <2>5, LostKnows
  <2> QED BY <2>2, <2>3, <2>4, <2>5 DEF Next, WorkerStep, QuietStep
<1> QED BY <1>2, <1>3 DEF IInv

LEMMA IInvHolds == Spec => []IInv
<1>1. Init /\ [][Next]_vars => []IInv
  BY InitIInv, NextIInv, PTL
<1> QED BY <1>1 DEF Spec

\* Type correctness with the bounds, and the registration built by
\* build_registration_payload in answer to an announcement: what enter, exit and
\* note_path_lost wrote before they announced it.
THEOREM RegistrationsCurrentHolds == Spec => []RegistrationsCurrent
<1>1. IInv => RegistrationsCurrent
  <2> SUFFICES ASSUME IInv PROVE RegistrationsCurrent
    OBVIOUS
  <2>1. Types /\ Room /\ \A w \in Worker : Looping(w) /\ Built(w)
    BY DEF IInv, Knows
  <2>2. \A w \in Worker : pc[w] \in {"rebind", "park", "news", "reread", "await"} => up[w]
    BY <2>1 DEF Looping, Loop
  <2>3. TypeOK
    BY <2>1, <2>2, Bounded DEF TypeOK, Types
  <2>4. ASSUME NEW w \in Worker, Quiet, up[w], pc[w] = "send", announceSeen[w] = announce
        PROVE  draft[w].gen = genOffset /\ draft[w].count = declared
    <3>1. up[w] = TRUE
      BY <2>1, <2>4 DEF Types
    <3>2. ~EpochOwed /\ mon \notin {"gen", "announce"} /\ bridge # "announce"
      BY <2>4 DEF Quiet, EpochOwed
    <3> QED BY <2>1, <2>4, <3>1, <3>2 DEF Built
  <2> QED BY <2>3, <2>4 DEF RegistrationsCurrent, AnnouncedIsCurrent
<1> QED BY <1>1, IInvHolds, PTL

\* A session asleep in its select has seen the last announcement and the last
\* rebind, and is not one that should be parked.
THEOREM NobodySleepsThroughNewsHolds == Spec => []NobodySleepsThroughNews
<1>1. IInv => NobodySleepsThroughNews
  <2> SUFFICES ASSUME IInv, NEW w \in Worker, Asleep(w), Quiet
               PROVE  announceSeen[w] = announce /\ rebindSeen[w] = rebindEpoch /\ Allows(w)
    BY DEF NobodySleepsThroughNews
  <2>1. Watched(w) /\ Types
    BY DEF IInv, Knows
  <2>2. pc[w] = "await" /\ idleHeard[w] = FALSE /\ rebindHeard[w] = FALSE /\ mon = "poll"
    BY <2>1 DEF Asleep, Quiet, Types
  <2> QED BY <2>1, <2>2 DEF Watched, Allows
<1> QED BY <1>1, IInvHolds, PTL

-----------------------------------------------------------------------------
(* The functions of rebind.rs, idle.rs and repair.rs, for every run of     *)
(* observations: what a recursive function of TrafficWatch or StreamRepair *)
(* leads to is proved by induction over the prefixes of the run.           *)

\* Induction over the natural numbers, by the pigeon-hole principle: below the
\* least counterexample k |-> k - 1 would be one-to-one into a smaller set.
LEMMA Induction ==
    ASSUME NEW S, 0 \in S, \A k \in Nat : k \in S => k + 1 \in S
    PROVE  Nat \subseteq S
<1> SUFFICES ASSUME NEW n \in Nat, n \notin S PROVE FALSE
  OBVIOUS
<1> DEFINE A == {k \in 0 .. n : k \notin S}
           f == [k \in A |-> k - 1]
<1>1. IsFiniteSet(A) /\ n \in A
  <2>1. IsFiniteSet(0 .. n)
    BY FS_Interval
  <2> QED BY <2>1, FS_Subset
<1>2. /\ IsFiniteSet(A \ {n}) /\ Cardinality(A \ {n}) = Cardinality(A) - 1
      /\ Cardinality(A) \in Nat
  BY <1>1, FS_RemoveElement, FS_CardinalityType
<1>3. f \in [A -> A \ {n}]
  <2>1. ASSUME NEW k \in A PROVE k - 1 \in A \ {n}
    <3>1. k # 0
      OBVIOUS
    <3>2. k - 1 \in Nat /\ (k - 1) + 1 = k
      BY <3>1
    <3> QED BY <3>2
  <2> QED BY <2>1
<1>4. \E x, y \in A : x # y /\ f[x] = f[y]
  <2> HIDE DEF A, f
  <2>1. Cardinality(A \ {n}) < Cardinality(A)
    BY <1>2
  <2> QED BY <1>1, <1>2, <1>3, <2>1, FS_PigeonHole
<1> QED BY <1>4

\* Induction up to n.
LEMMA UpTo ==
    ASSUME NEW n \in Nat, NEW T, 0 \in T, \A i \in 1 .. n : i - 1 \in T => i \in T
    PROVE  0 .. n \subseteq T
<1> DEFINE S == {k \in Nat : k <= n => k \in T}
<1>1. 0 \in S
  OBVIOUS
<1>2. ASSUME NEW k \in Nat, k \in S PROVE k + 1 \in S
  <2> SUFFICES ASSUME k + 1 <= n PROVE k + 1 \in T
    OBVIOUS
  <2>1. k + 1 \in 1 .. n /\ (k + 1) - 1 = k /\ k \in T
    BY <1>2
  <2> QED BY <2>1
<1>3. Nat \subseteq S
  <2> HIDE DEF S
  <2> QED BY <1>1, <1>2, Induction
<1> QED BY <1>3

\* g is what the steps make of first.
Solves(g, n, D, first, step) ==
    /\ g \in [0 .. n -> D] /\ g[0] = first
    /\ \A i \in 1 .. n : g[i] = step[<<i, g[i - 1]>>]

\* A recursion over 0 .. n has a solution.
LEMMA Recursion ==
    ASSUME NEW n \in Nat, NEW D, NEW first \in D, NEW step \in [(1 .. n) \X D -> D]
    PROVE  \E g : Solves(g, n, D, first, step)
<1> DEFINE Is(g, k) == /\ g \in [0 .. k -> D] /\ g[0] = first
                       /\ \A i \in 1 .. k : g[i] = step[<<i, g[i - 1]>>]
           T == {k \in 0 .. n : \E g : Is(g, k)}
<1>1. 0 \in T
  <2> DEFINE g == [i \in 0 .. 0 |-> first]
  <2>1. Is(g, 0)
    OBVIOUS
  <2> HIDE DEF g, Is
  <2> QED BY <2>1
<1>2. ASSUME NEW k \in 1 .. n, k - 1 \in T PROVE k \in T
  <2>1. PICK g : Is(g, k - 1)
    BY <1>2
  <2> DEFINE next == step[<<k, g[k - 1]>>]
             e == [i \in 0 .. k |-> IF i = k THEN next ELSE g[i]]
  <2>2. next \in D
    BY <2>1
  <2>3. ASSUME NEW i \in 1 .. k PROVE e[i] = step[<<i, e[i - 1]>>]
    <3>1. e[i - 1] = g[i - 1]
      OBVIOUS
    <3>2. CASE i = k
      <4>1. e[i] = next
        BY <3>2
      <4> HIDE DEF e, Is
      <4> QED BY <3>1, <3>2, <4>1
    <3>3. CASE i # k
      <4>1. i \in 1 .. k - 1 /\ e[i] = g[i]
        BY <3>3
      <4>2. g[i] = step[<<i, g[i - 1]>>]
        BY <2>1, <4>1
      <4> HIDE DEF e, next, Is
      <4> QED BY <3>1, <4>1, <4>2, Zenon
    <3> QED BY <3>2, <3>3
  <2>4. Is(e, k)
    <3>1. e \in [0 .. k -> D] /\ e[0] = first
      BY <2>1, <2>2
    <3> HIDE DEF e
    <3> QED BY <2>3, <3>1
  <2> HIDE DEF e, Is
  <2> QED BY <2>4
<1>3. n \in T
  <2> HIDE DEF T
  <2> QED BY <1>1, <1>2, UpTo
<1> QED BY <1>3 DEF Solves

-----------------------------------------------------------------------------
(* Repair slots.                                                           *)

\* What a slot holds.
SlotRec == [restart : Nat, credential : Nat, last : Nat, ready : Nat]

\* What reader_loop makes of a request, a sign of life and READY.
LEMMA EventIs ==
    ASSUME NEW e \in Event
    PROVE  /\ e.op \in {"repair", "alive", "parked", "ready"} /\ e.n \in Nat
           /\ e.op = "repair" => e.n > 0
  BY RepairAssumption DEF Event

\* Each event leaves a slot.
LEMMA LoopTyped ==
    ASSUME NEW s \in SlotRec, NEW e \in Event PROVE reader_loop(s, e) \in SlotRec
<1>1. e.op \in {"repair", "alive", "parked", "ready"} /\ e.n \in Nat
  BY EventIs
<1> DEFINE n == e.n
<1>2. n \in Nat
  BY <1>1
<1> HIDE DEF n
<1>3. apply_repair(s, n) \in SlotRec
  <2> DEFINE x == IF s.last # 0 /\ s.ready < s.last THEN s.credential + 1 ELSE s.credential
             y == s.restart + 1
  <2>1. x \in Nat /\ y \in Nat
    BY DEF SlotRec
  <2>2. apply_repair(s, n) \in {s, [s EXCEPT !.last = n, !.restart = y, !.credential = x]}
    BY DEF apply_repair, SlotRec
  <2> HIDE DEF x, y
  <2> QED BY <1>2, <2>1, <2>2 DEF SlotRec
<1>4. apply_alive(s, n) \in SlotRec /\ mark_ready(s) \in SlotRec
  BY <1>2 DEF SlotRec, apply_alive, mark_ready
<1> QED BY <1>1, <1>3, <1>4 DEF reader_loop, n

\* The slots of a history: the first one is new, each event makes the next.
LEMMA SlotsFollow ==
    ASSUME NEW h, NEW n \in Nat, n = Len(h), \A i \in 1 .. n : h[i] \in Event
    PROVE  /\ \A i \in 0 .. n : Slots(h)[i] \in SlotRec
           /\ Slots(h)[0] = NewSlot
           /\ \A i \in 1 .. n : Slots(h)[i] = reader_loop(Slots(h)[i - 1], h[i])
<1> DEFINE Is(g) == g = [i \in 0 .. n |-> IF i = 0 THEN NewSlot ELSE reader_loop(g[i - 1], h[i])]
           step == [p \in (1 .. n) \X SlotRec |-> reader_loop(p[2], h[p[1]])]
           f == Slots(h)
<1>1. NewSlot \in SlotRec
  BY DEF NewSlot, SlotRec
<1>2. step \in [(1 .. n) \X SlotRec -> SlotRec]
  <2>1. ASSUME NEW p \in (1 .. n) \X SlotRec PROVE reader_loop(p[2], h[p[1]]) \in SlotRec
    <3>1. p[2] \in SlotRec /\ h[p[1]] \in Event
      OBVIOUS
    <3> QED BY <3>1, LoopTyped
  <2> QED BY <2>1
<1>3. PICK g : Solves(g, n, SlotRec, NewSlot, step)
  <2> HIDE DEF step
  <2> QED BY <1>1, <1>2, Recursion
<1>4. \A i \in 1 .. n : g[i - 1] \in SlotRec /\ g[i] = reader_loop(g[i - 1], h[i])
  <2> SUFFICES ASSUME NEW i \in 1 .. n PROVE g[i - 1] \in SlotRec /\ g[i] = reader_loop(g[i - 1], h[i])
    OBVIOUS
  <2>1. g[i - 1] \in SlotRec
    BY <1>3 DEF Solves
  <2>2. step[<<i, g[i - 1]>>] = reader_loop(g[i - 1], h[i])
    BY <2>1
  <2> QED BY <1>3, <2>1, <2>2 DEF Solves
<1>5. Is(g)
  BY <1>3, <1>4 DEF Solves
<1>6. Is(f)
  <2>1. f = CHOOSE x : Is(x)
    BY Zenon DEF Slots
  <2> HIDE DEF f, Is
  <2> QED BY <1>5, <2>1
<1> HIDE DEF f
<1>7. f[0] = NewSlot /\ \A i \in 1 .. n : f[i] = reader_loop(f[i - 1], h[i])
  BY <1>6
<1>8. \A i \in 0 .. n : f[i] \in SlotRec
  <2> DEFINE T == {i \in 0 .. n : f[i] \in SlotRec}
  <2>1. 0 \in T /\ \A i \in 1 .. n : i - 1 \in T => i \in T
    BY <1>1, <1>7, LoopTyped
  <2> HIDE DEF T
  <2>2. 0 .. n \subseteq T
    BY <2>1, UpTo
  <2> QED BY <2>2 DEF T
<1> QED BY <1>7, <1>8 DEF f

\* The requests among the first i events, and the first of the newest of them.
Requests(h, i) == {j \in 1 .. i : h[j].op = "repair"}
Newest(h, i, m) ==
    /\ m \in Requests(h, i)
    /\ \A j \in Requests(h, i) : h[j].n < h[m].n \/ (h[j].n = h[m].n /\ m <= j)

\* Event j reports the worker alive after request number n.
Reports(h, j, n) == h[j].op = "alive" /\ h[j].n >= n

\* Event j, after request number n at m, resolves it.
Resolves(h, j, m, n) == j > m /\ (h[j].op = "ready" \/ Reports(h, j, n))

\* What the slot remembers of the first i events.
Remembers(h, i, s) ==
    /\ \A j \in Requests(h, i) : h[j].n <= s.last
    /\ s.last = 0 \/ \E m : Newest(h, i, m) /\ h[m].n = s.last
    /\ s.ready > s.last => \E j \in 1 .. i : Reports(h, j, s.ready)
    /\ \A m : Newest(h, i, m) =>
          /\ (\E j \in 1 .. i : Resolves(h, j, m, s.last)) => s.ready >= s.last
          /\ s.ready >= s.last =>
                \E j \in 1 .. i : Resolves(h, j, m, s.last) \/ (j <= m /\ Reports(h, j, s.last))

\* The newest request is remembered.
LEMMA NewestIsLast ==
    ASSUME NEW h, NEW i \in Nat, \A j \in 1 .. i : h[j] \in Event, NEW s \in SlotRec,
           Remembers(h, i, s), NEW m, Newest(h, i, m)
    PROVE  m \in 1 .. i /\ h[m].op = "repair" /\ h[m].n = s.last /\ s.last > 0
<1>1. m \in 1 .. i /\ h[m].op = "repair" /\ h[m].n <= s.last
  BY DEF Newest, Requests, Remembers
<1>2. h[m].n \in Nat /\ h[m].n > 0 /\ s.last \in Nat
  BY <1>1, EventIs DEF SlotRec
<1>3. PICK w : Newest(h, i, w) /\ h[w].n = s.last
  BY <1>1, <1>2 DEF Remembers
<1>4. h[w].n <= h[m].n
  <2>1. w \in Requests(h, i) /\ h[w].n \in Nat
    BY <1>2, <1>3 DEF Newest
  <2> QED BY <1>2, <2>1 DEF Newest
<1> QED BY <1>1, <1>2, <1>3, <1>4

\* A request that is not new, or something else, leaves the newest one.
LEMMA NewestStays ==
    ASSUME NEW h, NEW i \in Nat, \A j \in 1 .. i + 1 : h[j] \in Event, NEW s \in SlotRec,
           Remembers(h, i, s), h[i + 1].op = "repair" => h[i + 1].n <= s.last
    PROVE  \A m : Newest(h, i + 1, m) <=> Newest(h, i, m)
<1> DEFINE e == h[i + 1]
<1>1. /\ Requests(h, i) \subseteq 1 .. i
      /\ e.op = "repair" => Requests(h, i + 1) = Requests(h, i) \cup {i + 1} /\ e.n > 0 /\ e.n \in Nat
      /\ e.op # "repair" => Requests(h, i + 1) = Requests(h, i)
  BY EventIs DEF Requests
<1>2. s.last \in Nat
  BY DEF SlotRec
<1>3. CASE e.op # "repair"
  BY <1>1, <1>3 DEF Newest
<1>4. CASE e.op = "repair"
  <2>1. PICK w : Newest(h, i, w) /\ h[w].n = s.last
    BY <1>1, <1>2, <1>4 DEF Remembers
  <2>2. w \in 1 .. i /\ w \in Requests(h, i)
    BY <1>1, <2>1 DEF Newest
  <2>3. ASSUME NEW m, Newest(h, i + 1, m) PROVE Newest(h, i, m)
    <3>1. m # i + 1
      <4> SUFFICES ASSUME m = i + 1 PROVE FALSE
        OBVIOUS
      <4>1. h[w].n < h[m].n \/ (h[w].n = h[m].n /\ m <= w)
        BY <1>1, <1>4, <2>2, <2>3 DEF Newest
      <4> QED BY <1>1, <1>2, <1>4, <2>1, <2>2, <4>1
    <3> QED BY <1>1, <1>4, <2>3, <3>1 DEF Newest
  <2>4. ASSUME NEW m, Newest(h, i, m) PROVE Newest(h, i + 1, m)
    <3>1. m \in 1 .. i /\ h[m].n = s.last
      BY <2>4, NewestIsLast
    <3>2. e.n < h[m].n \/ (e.n = h[m].n /\ m <= i + 1)
      BY <1>1, <1>2, <1>4, <3>1
    <3> QED BY <1>1, <1>4, <2>4, <3>2 DEF Newest
  <2> QED BY <2>3, <2>4
<1> QED BY <1>3, <1>4

\* A new request is the newest one.
LEMMA NewestIsNew ==
    ASSUME NEW h, NEW i \in Nat, \A j \in 1 .. i + 1 : h[j] \in Event, NEW s \in SlotRec,
           Remembers(h, i, s), h[i + 1].op = "repair", h[i + 1].n > s.last
    PROVE  \A m : Newest(h, i + 1, m) <=> m = i + 1
<1>1. \A j \in 1 .. i + 1 : h[j].n \in Nat
  BY EventIs
<1>2. s.last \in Nat
  BY DEF SlotRec
<1>3. \A j \in Requests(h, i + 1) : j = i + 1 \/ (j \in 1 .. i /\ h[j].n < h[i + 1].n)
  <2> SUFFICES ASSUME NEW j \in Requests(h, i + 1), j # i + 1
               PROVE  j \in 1 .. i /\ h[j].n < h[i + 1].n
    OBVIOUS
  <2>1. j \in 1 .. i /\ j \in Requests(h, i) /\ h[j].n \in Nat /\ h[i + 1].n \in Nat
    BY <1>1 DEF Requests
  <2>2. h[j].n <= s.last
    BY <2>1 DEF Remembers
  <2> QED BY <1>2, <2>1, <2>2
<1>4. i + 1 \in Requests(h, i + 1)
  BY DEF Requests
<1>5. Newest(h, i + 1, i + 1)
  BY <1>3, <1>4 DEF Newest
<1>6. ASSUME NEW m, Newest(h, i + 1, m) PROVE m = i + 1
  <2>1. m \in Requests(h, i + 1)
    BY <1>6 DEF Newest
  <2> SUFFICES ASSUME m # i + 1 PROVE FALSE
    OBVIOUS
  <2>2. m \in 1 .. i /\ h[m].n < h[i + 1].n
    BY <1>3, <2>1
  <2>3. h[i + 1].n < h[m].n \/ (h[i + 1].n = h[m].n /\ m <= i + 1)
    BY <1>4, <1>6 DEF Newest
  <2> QED BY <1>1, <2>2, <2>3
<1> QED BY <1>5, <1>6

\* What an event does to a slot.
LEMMA LoopDoes ==
    ASSUME NEW s \in SlotRec, NEW e \in Event
    PROVE  LET t == reader_loop(s, e)
           IN  /\ e.op = "repair" /\ e.n > s.last =>
                     /\ t.last = e.n /\ t.ready = s.ready /\ t.restart = s.restart + 1
                     /\ t.credential = IF s.last # 0 /\ s.ready < s.last
                                       THEN s.credential + 1 ELSE s.credential
               /\ (e.op = "repair" /\ e.n <= s.last) \/ e.op = "parked" => t = s
               /\ e.op \in {"alive", "ready"} =>
                     t.last = s.last /\ t.restart = s.restart /\ t.credential = s.credential
               /\ e.op = "alive" => t.ready = IF e.n > s.ready THEN e.n ELSE s.ready
               /\ e.op = "ready" => t.ready = s.last
<1> DEFINE n == e.n
           t == reader_loop(s, e)
<1>1. n \in Nat /\ e.op \in {"repair", "alive", "parked", "ready"}
  BY EventIs
<1> HIDE DEF n
<1>2. CASE e.op = "repair"
  <2>1. t = apply_repair(s, n)
    BY <1>2 DEF reader_loop, n
  <2> HIDE DEF t
  <2> DEFINE x == IF s.last # 0 /\ s.ready < s.last THEN s.credential + 1 ELSE s.credential
  <2>2. n > s.last => t = [s EXCEPT !.last = n, !.restart = s.restart + 1, !.credential = x]
    BY <1>1, <2>1 DEF apply_repair, SlotRec
  <2>3. n <= s.last => t = s
    BY <1>1, <2>1 DEF apply_repair, SlotRec
  <2> HIDE DEF x
  <2>4. n > s.last => /\ t.last = n /\ t.ready = s.ready /\ t.restart = s.restart + 1
                      /\ t.credential = x
    BY <2>2 DEF SlotRec
  <2> QED BY <1>2, <2>3, <2>4 DEF n, t, x
<1>3. CASE e.op = "parked"
  BY <1>3 DEF reader_loop
<1>4. CASE e.op = "alive"
  <2>1. t = [s EXCEPT !.ready = IF n > s.ready THEN n ELSE s.ready]
    BY <1>4 DEF reader_loop, apply_alive, n, SlotRec
  <2> DEFINE x == IF n > s.ready THEN n ELSE s.ready
  <2> HIDE DEF x, t
  <2>2. t.ready = x /\ t.last = s.last /\ t.restart = s.restart /\ t.credential = s.credential
    BY <2>1 DEF SlotRec, x
  <2> QED BY <1>4, <2>2 DEF t, x, n
<1>5. CASE e.op = "ready"
  <2>1. t = [s EXCEPT !.ready = s.last]
    BY <1>5 DEF reader_loop, mark_ready
  <2> HIDE DEF t
  <2>2. t.ready = s.last /\ t.last = s.last /\ t.restart = s.restart /\ t.credential = s.credential
    BY <2>1 DEF SlotRec
  <2> QED BY <1>5, <2>2 DEF t
<1> QED BY <1>1, <1>2, <1>3, <1>4, <1>5

\* A new request is remembered.
LEMMA NewRequestRemembered ==
    ASSUME NEW h, NEW i \in Nat, \A j \in 1 .. i + 1 : h[j] \in Event, NEW s \in SlotRec,
           Remembers(h, i, s), h[i + 1].op = "repair", h[i + 1].n > s.last
    PROVE  Remembers(h, i + 1, reader_loop(s, h[i + 1]))
<1> DEFINE t == reader_loop(s, h[i + 1])
           n == h[i + 1].n
<1>1. h[i + 1] \in Event /\ n \in Nat
  BY EventIs
<1>2. t.last = n /\ t.ready = s.ready
  BY <1>1, LoopDoes
<1> HIDE DEF t
<1>3. \A m : Newest(h, i + 1, m) <=> m = i + 1
  BY NewestIsNew
<1>4. \A j \in Requests(h, i + 1) : h[j].n <= n
  <2>1. Newest(h, i + 1, i + 1)
    BY <1>3
  <2>2. \A j \in Requests(h, i + 1) : h[j].n \in Nat
    BY EventIs DEF Requests
  <2> QED BY <1>1, <2>1, <2>2 DEF Newest
<1>5. s.last \in Nat /\ s.ready \in Nat
  BY DEF SlotRec
<1>6. \A j \in 1 .. i : h[j].n \in Nat
  BY EventIs
<1>7. s.ready > s.last => \E j \in 1 .. i : Reports(h, j, s.ready)
  BY DEF Remembers
<1>8. ASSUME t.ready >= n PROVE \E j \in 1 .. i : Reports(h, j, n) /\ Reports(h, j, t.ready)
  <2>1. s.ready > s.last
    BY <1>1, <1>2, <1>5, <1>8
  <2>2. PICK j \in 1 .. i : Reports(h, j, s.ready)
    BY <1>7, <2>1
  <2>3. Reports(h, j, n)
    BY <1>1, <1>2, <1>5, <1>6, <1>8, <2>2 DEF Reports
  <2> QED BY <1>2, <2>2, <2>3
<1>9. t.ready > t.last => \E j \in 1 .. i + 1 : Reports(h, j, t.ready)
  BY <1>1, <1>2, <1>5, <1>8
<1>10. \A j \in 1 .. i + 1 : ~Resolves(h, j, i + 1, t.last)
  BY DEF Resolves
<1>11. t.ready >= t.last =>
          \E j \in 1 .. i + 1 : Resolves(h, j, i + 1, t.last) \/ (j <= i + 1 /\ Reports(h, j, t.last))
  BY <1>2, <1>8
<1> QED BY <1>2, <1>3, <1>4, <1>9, <1>10, <1>11 DEF Remembers, t, n

\* So is anything else.
LEMMA OtherRemembered ==
    ASSUME NEW h, NEW i \in Nat, \A j \in 1 .. i + 1 : h[j] \in Event, NEW s \in SlotRec,
           Remembers(h, i, s), h[i + 1].op = "repair" => h[i + 1].n <= s.last
    PROVE  Remembers(h, i + 1, reader_loop(s, h[i + 1]))
<1> DEFINE t == reader_loop(s, h[i + 1])
           e == h[i + 1]
<1>1. e \in Event /\ e.n \in Nat /\ e.op \in {"repair", "alive", "parked", "ready"}
  BY EventIs
<1>2. s.last \in Nat /\ s.ready \in Nat
  BY DEF SlotRec
<1>3. /\ t.last = s.last /\ t.ready \in Nat
      /\ e.op \in {"repair", "parked"} => t.ready = s.ready
      /\ e.op = "alive" => t.ready = IF e.n > s.ready THEN e.n ELSE s.ready
      /\ e.op = "ready" => t.ready = s.last
  BY <1>1, <1>2, LoopDoes
<1> HIDE DEF t
<1>4. \A m : Newest(h, i + 1, m) <=> Newest(h, i, m)
  BY NewestStays
<1>5. \A j \in Requests(h, i + 1) : h[j].n <= t.last
  <2> SUFFICES ASSUME NEW j \in Requests(h, i + 1) PROVE h[j].n <= s.last
    BY <1>3
  <2>1. CASE j = i + 1
    BY <2>1 DEF Requests
  <2>2. CASE j # i + 1
    <3>1. j \in Requests(h, i)
      BY <2>2 DEF Requests
    <3> QED BY <3>1 DEF Remembers
  <2> QED BY <2>1, <2>2
<1>6. t.last = 0 \/ \E m : Newest(h, i + 1, m) /\ h[m].n = t.last
  BY <1>3, <1>4 DEF Remembers
<1>7. t.ready > t.last => \E j \in 1 .. i + 1 : Reports(h, j, t.ready)
  <2> SUFFICES ASSUME t.ready > t.last PROVE \E j \in 1 .. i + 1 : Reports(h, j, t.ready)
    OBVIOUS
  <2>1. CASE t.ready = s.ready
    BY <1>3, <2>1 DEF Remembers
  <2>2. CASE t.ready # s.ready
    <3>1. e.op = "alive" /\ t.ready = e.n
      BY <1>1, <1>2, <1>3, <2>2
    <3>2. Reports(h, i + 1, t.ready)
      BY <1>1, <3>1 DEF Reports
    <3> QED BY <3>2
  <2> QED BY <2>1, <2>2
<1>8. ASSUME NEW m, Newest(h, i, m), NEW j \in 1 .. i + 1, Resolves(h, j, m, s.last)
      PROVE  t.ready >= s.last
  <2>1. CASE j = i + 1
    BY <1>1, <1>2, <1>3, <1>8, <2>1 DEF Resolves, Reports
  <2>2. CASE j # i + 1
    <3>1. s.ready >= s.last
      BY <1>8, <2>2 DEF Remembers
    <3> QED BY <1>1, <1>2, <1>3, <3>1
  <2> QED BY <2>1, <2>2
<1>9. ASSUME NEW m, Newest(h, i, m), t.ready >= s.last
      PROVE  \E j \in 1 .. i + 1 : Resolves(h, j, m, s.last) \/ (j <= m /\ Reports(h, j, s.last))
  <2>1. m \in 1 .. i
    BY <1>9 DEF Newest, Requests
  <2>2. CASE s.ready >= s.last
    <3>1. PICK j \in 1 .. i : Resolves(h, j, m, s.last) \/ (j <= m /\ Reports(h, j, s.last))
      BY <1>9, <2>2 DEF Remembers
    <3> QED BY <3>1
  <2>3. CASE ~(s.ready >= s.last)
    <3>1. e.op = "ready" \/ (e.op = "alive" /\ e.n >= s.last)
      BY <1>1, <1>2, <1>3, <1>9, <2>3
    <3>2. Resolves(h, i + 1, m, s.last)
      BY <2>1, <3>1 DEF Resolves, Reports
    <3> QED BY <3>2
  <2> QED BY <2>2, <2>3
<1> QED BY <1>3, <1>4, <1>5, <1>6, <1>7, <1>8, <1>9 DEF Remembers, t

\* Every slot of a history remembers it.
LEMMA AllRemembered ==
    ASSUME NEW h, NEW n \in Nat, n = Len(h), \A i \in 1 .. n : h[i] \in Event, NEW k \in 0 .. n
    PROVE  Remembers(h, k, Slots(h)[k])
<1> DEFINE s == Slots(h)
           T == {i \in 0 .. n : Remembers(h, i, s[i])}
<1>1. /\ \A i \in 0 .. n : s[i] \in SlotRec
      /\ s[0] = NewSlot
      /\ \A i \in 1 .. n : s[i] = reader_loop(s[i - 1], h[i])
  BY SlotsFollow
<1> HIDE DEF s
<1>2. 0 \in T
  <2>1. Requests(h, 0) = {} /\ \A m : ~Newest(h, 0, m)
    BY DEF Requests, Newest
  <2> QED BY <1>1, <2>1 DEF Remembers, NewSlot
<1>3. ASSUME NEW i \in 1 .. n, i - 1 \in T PROVE i \in T
  <2> DEFINE p == i - 1
  <2>1. p \in Nat /\ p + 1 = i /\ p \in 0 .. n /\ Remembers(h, p, s[p])
    BY <1>3
  <2> HIDE DEF p
  <2>2. s[p] \in SlotRec /\ s[i] = reader_loop(s[p], h[p + 1])
    BY <1>1, <2>1 DEF p
  <2>3. (\A j \in 1 .. p + 1 : h[j] \in Event) /\ h[p + 1].n \in Nat /\ s[p].last \in Nat
    BY <2>1, <2>2, EventIs DEF SlotRec
  <2>4. CASE h[p + 1].op = "repair" /\ h[p + 1].n > s[p].last
    <3>1. Remembers(h, p + 1, reader_loop(s[p], h[p + 1]))
      BY <2>1, <2>2, <2>3, <2>4, NewRequestRemembered
    <3> QED BY <2>1, <2>2, <3>1
  <2>5. CASE h[p + 1].op = "repair" => h[p + 1].n <= s[p].last
    <3>1. Remembers(h, p + 1, reader_loop(s[p], h[p + 1]))
      BY <2>1, <2>2, <2>3, <2>5, OtherRemembered
    <3> QED BY <2>1, <2>2, <3>1
  <2> QED BY <2>3, <2>4, <2>5
<1>4. k \in T
  <2> HIDE DEF T
  <2> QED BY <1>2, <1>3, UpTo
<1> QED BY <1>4 DEF s

\* The property of one history.
LEMMA RepairOfOne ==
    ASSUME NEW h, NEW k \in Nat, k > 0, k = Len(h), \A i \in 1 .. k : h[i] \in Event
    PROVE  RepairsOnce(h)
<1> DEFINE e == h[k]
           s == Slots(h)[k - 1]
           t == Slots(h)[k]
           earlier == {i \in 1 .. k - 1 : h[i].op = "repair"}
           newest == {i \in earlier : \A j \in earlier :
                         \/ h[j].n < h[i].n
                         \/ h[j].n = h[i].n /\ i <= j}
           Covers(j, i) == h[j].op = "alive" /\ h[j].n >= h[i].n
           since == \E i \in newest : \E j \in i + 1 .. k - 1 : h[j].op = "ready" \/ Covers(j, i)
           atAll == since \/ \E i \in newest : \E j \in 1 .. i : Covers(j, i)
           p == k - 1
<1>1. p \in 0 .. k /\ p \in Nat /\ k \in 1 .. k /\ (\A j \in 1 .. p : h[j] \in Event) /\ p + 1 = k
  OBVIOUS
<1>2. s \in SlotRec /\ t = reader_loop(s, e) /\ e \in Event
  BY <1>1, SlotsFollow
<1>3. Remembers(h, p, s)
  BY <1>1, AllRemembered
<1>4. earlier = Requests(h, p) /\ \A m : m \in newest <=> Newest(h, p, m)
  BY DEF Requests, Newest
<1> HIDE DEF s, t, newest, earlier
<1>5. e.op \in {"repair", "alive", "parked", "ready"} /\ e.n \in Nat
      /\ s.last \in Nat /\ s.ready \in Nat
  BY <1>2, EventIs DEF SlotRec
<1>6. \A m \in newest : m \in 1 .. p /\ h[m].op = "repair" /\ h[m].n = s.last /\ s.last > 0
  BY <1>1, <1>2, <1>3, <1>4, NewestIsLast
<1>7. newest = {} => s.last = 0
  BY <1>3, <1>4 DEF Remembers
<1>8. (\A i \in earlier : h[i].n < e.n) /\ e.op = "repair" <=> e.op = "repair" /\ e.n > s.last
  <2> SUFFICES ASSUME e.op = "repair" PROVE (\A i \in earlier : h[i].n < e.n) <=> e.n > s.last
    OBVIOUS
  <2>1. e.n > 0
    BY <1>2, EventIs
  <2>2. ASSUME \A i \in earlier : h[i].n < e.n PROVE e.n > s.last
    <3>1. CASE newest = {}
      BY <1>5, <1>7, <2>1, <3>1
    <3>2. CASE newest # {}
      <4>1. PICK m \in newest : TRUE
        BY <3>2
      <4>2. m \in earlier
        BY DEF newest
      <4> QED BY <1>5, <1>6, <2>2, <4>1, <4>2
    <3> QED BY <3>1, <3>2
  <2>3. ASSUME e.n > s.last, NEW i \in earlier PROVE h[i].n < e.n
    <3>1. h[i].n <= s.last
      BY <1>3, <1>4 DEF Remembers
    <3>2. h[i].n \in Nat
      BY <1>1, <1>4, EventIs DEF Requests
    <3> QED BY <1>5, <2>3, <3>1, <3>2
  <2> QED BY <2>2, <2>3
<1>9. CASE e.op = "repair" /\ e.n > s.last
  <2>1. /\ t.restart = s.restart + 1
        /\ t.credential = IF s.last # 0 /\ s.ready < s.last THEN s.credential + 1 ELSE s.credential
    BY <1>2, <1>9, LoopDoes
  <2>2. ASSUME since PROVE s.ready >= s.last
    <3>1. PICK m \in newest : \E j \in m + 1 .. p : h[j].op = "ready" \/ Covers(j, m)
      BY <2>2
    <3>0. PICK j \in m + 1 .. p : h[j].op = "ready" \/ Covers(j, m)
      BY <3>1
    <3>2. Newest(h, p, m) /\ m \in 1 .. p /\ h[m].n = s.last
      BY <1>4, <1>6
    <3>3. j \in 1 .. p /\ Resolves(h, j, m, s.last)
      BY <1>1, <3>0, <3>2 DEF Resolves, Reports
    <3> QED BY <1>3, <3>2, <3>3 DEF Remembers
  <2>3. ASSUME newest # {}, s.ready >= s.last PROVE atAll
    <3>1. PICK m \in newest : TRUE
      BY <2>3
    <3>2. Newest(h, p, m) /\ m \in 1 .. p /\ h[m].n = s.last
      BY <1>4, <1>6
    <3>3. PICK j \in 1 .. p : Resolves(h, j, m, s.last) \/ (j <= m /\ Reports(h, j, s.last))
      BY <1>3, <2>3, <3>2 DEF Remembers
    <3>4. CASE Resolves(h, j, m, s.last)
      <4>1. j \in m + 1 .. p /\ (h[j].op = "ready" \/ Covers(j, m))
        BY <1>1, <3>2, <3>3, <3>4 DEF Resolves, Reports
      <4> QED BY <4>1
    <3>5. CASE j <= m /\ Reports(h, j, s.last)
      <4>1. j \in 1 .. m /\ Covers(j, m)
        BY <1>1, <3>2, <3>3, <3>5 DEF Reports
      <4> QED BY <4>1
    <3> QED BY <3>3, <3>4, <3>5
  <2>4. newest # {} => s.last > 0
    BY <1>6
  <2> HIDE DEF since, atAll
  <2>5. /\ t.restart = s.restart + 1
        /\ since \/ newest = {} => t.credential = s.credential
        /\ ~atAll /\ newest # {} => t.credential = s.credential + 1
    BY <1>5, <1>7, <2>1, <2>2, <2>3, <2>4
  <2> QED BY <1>8, <1>9, <2>5 DEF RepairsOnce, since, atAll, newest, earlier, s, t
<1>10. CASE ~(e.op = "repair" /\ e.n > s.last)
  <2>1. t.restart = s.restart /\ t.credential = s.credential
    BY <1>2, <1>5, <1>10, LoopDoes
  <2> QED BY <1>8, <1>10, <2>1 DEF RepairsOnce, newest, earlier, s, t
<1> QED BY <1>9, <1>10

\* The property holds of all histories of any length.
LEMMA AllRepairsOnce == RepairOncePerRequest
<1> SUFFICES ASSUME NEW k \in 1 .. MaxHistory, NEW h \in [1 .. k -> Event]
             PROVE  RepairsOnce(h)
  BY DEF RepairOncePerRequest
<1>1. k \in Nat /\ k > 0 /\ k = Len(h) /\ \A i \in 1 .. k : h[i] \in Event
  BY RepairAssumption
<1> QED BY <1>1, RepairOfOne

-----------------------------------------------------------------------------
(* The silence that begins idle mode.                                      *)

\* What the monitor of idle mode keeps.
MonitorRec == [active : BOOLEAN, quiet : Nat, entered : SUBSET Nat]

\* Each poll leaves a state of the monitor.
LEMMA MonitorTyped ==
    ASSUME NEW m \in MonitorRec, NEW poll, NEW now \in Nat
    PROVE  monitor(m, poll, now) \in MonitorRec
<1> DEFINE idling == m.active /\ ~poll.burst
           quiet == IF poll.noisy THEN now ELSE m.quiet
           enters == ~poll.noisy /\ ~idling /\ now - quiet >= QuietPolls
           a == idling \/ enters
           e == IF enters THEN m.entered \cup {now} ELSE m.entered
<1>1. quiet \in Nat
  BY DEF MonitorRec
<1>2. a \in BOOLEAN
  BY Zenon
<1>3. e \in SUBSET Nat
  <2>1. m.entered \in SUBSET Nat
    BY DEF MonitorRec
  <2> HIDE DEF enters
  <2> QED BY <2>1
<1>4. monitor(m, poll, now) = [active |-> a, quiet |-> quiet, entered |-> e]
  BY Zenon DEF monitor
<1> HIDE DEF a, quiet, e
<1> QED BY <1>1, <1>2, <1>3, <1>4 DEF MonitorRec

\* The states of a run of polls.
LEMMA MonitoredFollows ==
    ASSUME NEW run, NEW n \in Nat, n = Len(run)
    PROVE  /\ \A i \in 0 .. n : Monitored(run)[i] \in MonitorRec
           /\ Monitored(run)[0] = [active |-> FALSE, quiet |-> 0, entered |-> {}]
           /\ \A i \in 1 .. n : Monitored(run)[i] = monitor(Monitored(run)[i - 1], run[i], i)
<1> DEFINE first == [active |-> FALSE, quiet |-> 0, entered |-> {}]
           Is(g) == g = [i \in 0 .. n |-> IF i = 0 THEN first ELSE monitor(g[i - 1], run[i], i)]
           step == [p \in (1 .. n) \X MonitorRec |-> monitor(p[2], run[p[1]], p[1])]
           f == Monitored(run)
<1>1. first \in MonitorRec
  BY DEF MonitorRec
<1>2. step \in [(1 .. n) \X MonitorRec -> MonitorRec]
  <2>1. ASSUME NEW p \in (1 .. n) \X MonitorRec PROVE monitor(p[2], run[p[1]], p[1]) \in MonitorRec
    <3>1. p[2] \in MonitorRec /\ p[1] \in Nat
      OBVIOUS
    <3> QED BY <3>1, MonitorTyped
  <2> QED BY <2>1
<1>3. PICK g : Solves(g, n, MonitorRec, first, step)
  <2> HIDE DEF step, first
  <2> QED BY <1>1, <1>2, Recursion
<1>4. \A i \in 1 .. n : g[i] = monitor(g[i - 1], run[i], i)
  <2> SUFFICES ASSUME NEW i \in 1 .. n PROVE g[i] = monitor(g[i - 1], run[i], i)
    OBVIOUS
  <2>1. g[i - 1] \in MonitorRec
    BY <1>3 DEF Solves
  <2>2. step[<<i, g[i - 1]>>] = monitor(g[i - 1], run[i], i)
    BY <2>1
  <2> QED BY <1>3, <2>2 DEF Solves
<1>5. Is(g)
  <2> HIDE DEF first
  <2> QED BY <1>3, <1>4 DEF Solves
<1>6. Is(f)
  <2>1. f = CHOOSE x : Is(x)
    BY Zenon DEF Monitored
  <2> HIDE DEF f, Is
  <2> QED BY <1>5, <2>1
<1> HIDE DEF f, first
<1>7. f[0] = first /\ \A i \in 1 .. n : f[i] = monitor(f[i - 1], run[i], i)
  BY <1>6
<1>8. \A i \in 0 .. n : f[i] \in MonitorRec
  <2> DEFINE T == {i \in 0 .. n : f[i] \in MonitorRec}
  <2>1. 0 \in T /\ \A i \in 1 .. n : i - 1 \in T => i \in T
    BY <1>1, <1>7, MonitorTyped
  <2> HIDE DEF T
  <2>2. 0 .. n \subseteq T
    BY <2>1, UpTo
  <2> QED BY <2>2 DEF T
<1> QED BY <1>7, <1>8 DEF f, first

\* The last QuietPolls polls up to i are below the threshold.
Hush(run, i) == i >= QuietPolls /\ \A j \in i - QuietPolls + 1 .. i : ~run[j].noisy

\* What the monitor knows after i polls: the last noisy one, and that idle mode
\* is in force in silence and was entered in silence only.
Watches(run, i, m) ==
    /\ m.quiet \in 0 .. i
    /\ \A j \in m.quiet + 1 .. i : ~run[j].noisy
    /\ m.quiet = 0 \/ run[m.quiet].noisy
    /\ \A k \in m.entered : Hush(run, k)
    /\ Hush(run, i) => m.active

\* Each poll keeps it so.
LEMMA MonitorWatches ==
    ASSUME NEW run, NEW i \in Nat, NEW m \in MonitorRec, Watches(run, i, m)
    PROVE  Watches(run, i + 1, monitor(m, run[i + 1], i + 1))
<1> DEFINE now == i + 1
           noisy == run[now].noisy
           idling == m.active /\ ~run[now].burst
           quiet == IF noisy THEN now ELSE m.quiet
           enters == ~noisy /\ ~idling /\ now - quiet >= QuietPolls
           a == idling \/ enters
           e == IF enters THEN m.entered \cup {now} ELSE m.entered
           t == monitor(m, run[now], now)
<1>1. t = [active |-> a, quiet |-> quiet, entered |-> e]
  BY Zenon DEF monitor
<1> HIDE DEF t, a, e, quiet
<1>2. t.active = a /\ t.quiet = quiet /\ t.entered = e
  BY <1>1
<1> HIDE DEF noisy, idling
<1>3. QuietPolls \in Nat /\ QuietPolls > 0 /\ now \in Nat /\ m.quiet \in Nat
  BY TrafficAssumption DEF MonitorRec
<1>4. quiet \in 0 .. now
  BY DEF quiet, Watches
<1>5. \A j \in quiet + 1 .. now : ~run[j].noisy
  <2> SUFFICES ASSUME NEW j \in quiet + 1 .. now PROVE ~run[j].noisy
    OBVIOUS
  <2>1. ~noisy /\ quiet = m.quiet
    BY <1>3 DEF quiet
  <2>2. CASE j = now
    BY <2>1, <2>2 DEF noisy
  <2>3. CASE j # now
    <3>1. j \in m.quiet + 1 .. i
      BY <1>3, <2>1, <2>3
    <3> QED BY <3>1 DEF Watches
  <2> QED BY <2>2, <2>3
<1>6. quiet = 0 \/ run[quiet].noisy
  <2>1. CASE noisy
    BY <2>1 DEF quiet, noisy
  <2>2. CASE ~noisy
    BY <2>2, Zenon DEF quiet, Watches
  <2> QED BY <2>1, <2>2
<1>7. enters => Hush(run, now)
  <2> SUFFICES ASSUME enters PROVE Hush(run, now)
    OBVIOUS
  <2>1. now >= QuietPolls /\ \A j \in now - QuietPolls + 1 .. now : j \in quiet + 1 .. now
    BY <1>3, <1>4
  <2> QED BY <1>5, <2>1 DEF Hush
<1>8. \A k \in e : Hush(run, k)
  <2>1. e \subseteq m.entered \/ (enters /\ e = m.entered \cup {now})
    BY DEF e
  <2>2. \A k \in m.entered : Hush(run, k)
    BY DEF Watches
  <2> HIDE DEF enters, now
  <2> QED BY <1>7, <2>1, <2>2
<1>9. Hush(run, now) => a
  <2> SUFFICES ASSUME Hush(run, now), ~idling PROVE enters
    BY DEF a
  <2>1. ~noisy
    BY <1>3 DEF Hush, noisy
  <2>2. quiet = 0 \/ quiet \notin now - QuietPolls + 1 .. now
    BY <1>6 DEF Hush
  <2>3. now - quiet >= QuietPolls
    BY <1>3, <1>4, <2>2 DEF Hush
  <2> QED BY <2>1, <2>3
<1> HIDE DEF now, enters
<1>10. Watches(run, now, t)
  BY <1>2, <1>4, <1>5, <1>6, <1>8, <1>9, Zenon DEF Watches
<1> QED BY <1>10 DEF t, now

\* Idle mode follows the silence of one run.
LEMMA SilentRun ==
    ASSUME NEW run, NEW n \in Nat, n = Len(run)
    PROVE  IdleWhenSilent(run)
<1> DEFINE m == Monitored(run)
<1>1. /\ \A i \in 0 .. n : m[i] \in MonitorRec
      /\ m[0] = [active |-> FALSE, quiet |-> 0, entered |-> {}]
      /\ \A i \in 1 .. n : m[i] = monitor(m[i - 1], run[i], i)
  BY MonitoredFollows
<1> HIDE DEF m
<1> DEFINE T == {i \in 0 .. n : Watches(run, i, m[i])}
<1>2. Watches(run, 0, m[0])
  <2>1. m[0].quiet = 0 /\ m[0].entered = {}
    BY <1>1
  <2>2. ~Hush(run, 0)
    BY TrafficAssumption DEF Hush
  <2> QED BY <2>1, <2>2 DEF Watches
<1>3. ASSUME NEW i \in 1 .. n, Watches(run, i - 1, m[i - 1]) PROVE Watches(run, i, m[i])
  <2> DEFINE j == i - 1
  <2>1. j \in Nat /\ j \in 0 .. n /\ j + 1 = i
    OBVIOUS
  <2> HIDE DEF j
  <2>2. Watches(run, j, m[j]) /\ m[j] \in MonitorRec /\ m[i] = monitor(m[j], run[i], i)
    BY <1>1, <1>3, <2>1 DEF j
  <2>3. Watches(run, j + 1, monitor(m[j], run[j + 1], j + 1))
    BY <2>1, <2>2, MonitorWatches
  <2> QED BY <2>1, <2>2, <2>3
<1>4. 0 .. n \subseteq T
  <2>1. 0 \in T /\ \A i \in 1 .. n : i - 1 \in T => i \in T
    BY <1>2, <1>3
  <2> HIDE DEF T
  <2> QED BY <2>1, UpTo
<1>5. /\ \A i \in m[n].entered : Hush(run, i)
      /\ \A i \in 1 .. n : Hush(run, i) => m[i].active
  <2>1. \A i \in 0 .. n : Watches(run, i, m[i])
    BY <1>4
  <2>2. n \in 0 .. n /\ \A i \in 1 .. n : i \in 0 .. n
    OBVIOUS
  <2> QED BY <2>1, <2>2, Zenon DEF Watches
<1> QED BY <1>5, Zenon DEF IdleWhenSilent, Hush, m

\* Idle mode follows the silence of every run of polls (monitor and should_enter
\* of idle.rs).
LEMMA SilenceHolds == SilenceIsIdle
<1> SUFFICES ASSUME NEW run \in QuietRuns PROVE IdleWhenSilent(run)
  BY Zenon DEF SilenceIsIdle
<1>1. Len(run) \in Nat
  BY TrafficAssumption
<1> QED BY <1>1, SilentRun

-----------------------------------------------------------------------------
(* Stalls and probes.                                                      *)

\* What the detector keeps, and the two counters.
DetectorRec == [up : Nat, down : Nat, stalled : Nat, probed : Nat \cup {Never}, probes : SUBSET Nat]
CountRec == [up : Nat, down : Nat]

\* The counters add up the polls of a run.
LEMMA CountersTyped ==
    ASSUME NEW run, NEW n \in Nat, n = Len(run),
           \A i \in 1 .. n : run[i].up \in Nat /\ run[i].down \in Nat
    PROVE  Counters(run) \in [0 .. n -> CountRec] /\ Counters(run)[0] = [up |-> 0, down |-> 0]
<1> DEFINE zero == [up |-> 0, down |-> 0]
           plus(c, i) == [up |-> c.up + run[i].up, down |-> c.down + run[i].down]
           Is(g) == g = [i \in 0 .. n |-> IF i = 0 THEN zero
                            ELSE [up |-> g[i - 1].up + run[i].up, down |-> g[i - 1].down + run[i].down]]
           step == [p \in (1 .. n) \X CountRec |-> plus(p[2], p[1])]
           f == Counters(run)
<1>1. zero \in CountRec
  BY DEF CountRec
<1>2. step \in [(1 .. n) \X CountRec -> CountRec]
  <2>1. ASSUME NEW p \in (1 .. n) \X CountRec PROVE plus(p[2], p[1]) \in CountRec
    <3> DEFINE x == p[2].up + run[p[1]].up
               y == p[2].down + run[p[1]].down
    <3>1. p[2] \in CountRec /\ run[p[1]].up \in Nat /\ run[p[1]].down \in Nat
      OBVIOUS
    <3>2. x \in Nat /\ y \in Nat
      <4>1. p[2].up \in Nat /\ p[2].down \in Nat
        BY <3>1 DEF CountRec
      <4> QED BY <3>1, <4>1, SMTT(30)
    <3>3. plus(p[2], p[1]) = [up |-> x, down |-> y]
      OBVIOUS
    <3> HIDE DEF x, y, plus
    <3> QED BY <3>2, <3>3 DEF CountRec
  <2> HIDE DEF plus
  <2> QED BY <2>1
<1>3. PICK g : Solves(g, n, CountRec, zero, step)
  <2> HIDE DEF step, zero
  <2> QED BY <1>1, <1>2, Recursion
<1>4. \A i \in 1 .. n : g[i] = plus(g[i - 1], i)
  <2> SUFFICES ASSUME NEW i \in 1 .. n PROVE g[i] = plus(g[i - 1], i)
    OBVIOUS
  <2> HIDE DEF step, plus, zero
  <2>1. g[i - 1] \in CountRec
    BY <1>3 DEF Solves
  <2>4. g[i] = step[<<i, g[i - 1]>>]
    BY <1>3 DEF Solves
  <2> DEFINE c == g[i - 1]
  <2>2. c \in CountRec
    BY <2>1
  <2> HIDE DEF c
  <2>3. step[<<i, c>>] = plus(c, i)
    BY <2>2 DEF step
  <2> QED BY <2>3, <2>4 DEF c
<1>5. Is(g)
  <2> HIDE DEF zero, step
  <2>1. g \in [0 .. n -> CountRec] /\ g[0] = zero
    BY <1>3 DEF Solves
  <2> HIDE DEF plus
  <2>2. g = [i \in 0 .. n |-> IF i = 0 THEN zero ELSE plus(g[i - 1], i)]
    BY <1>4, <2>1
  <2> QED BY <2>2 DEF plus
<1>6. Is(f)
  <2>1. f = CHOOSE x : Is(x)
    BY Zenon DEF Counters
  <2> HIDE DEF f, Is
  <2> QED BY <1>5, <2>1
<1> HIDE DEF f, zero, plus
<1>7. f = [i \in 0 .. n |-> IF i = 0 THEN zero ELSE plus(f[i - 1], i)]
  BY <1>6 DEF plus
<1>8. \A i \in 0 .. n : f[i] \in CountRec
  <2> DEFINE T == {i \in 0 .. n : f[i] \in CountRec}
  <2>1. ASSUME NEW i \in 1 .. n, f[i - 1] \in CountRec PROVE f[i] \in CountRec
    <3> DEFINE c == f[i - 1]
               x == c.up + run[i].up
               y == c.down + run[i].down
    <3>1. f[i] = plus(c, i)
      BY <1>7
    <3>2. c \in CountRec
      BY <2>1
    <3> HIDE DEF c
    <3>3. x \in Nat /\ y \in Nat
      BY <3>2 DEF CountRec
    <3>4. f[i] = [up |-> x, down |-> y]
      BY <3>1 DEF plus
    <3> HIDE DEF x, y
    <3> QED BY <3>3, <3>4 DEF CountRec
  <2>2. 0 \in T /\ \A i \in 1 .. n : i - 1 \in T => i \in T
    <3>1. f[0] \in CountRec
      BY <1>1, <1>7
    <3> QED BY <2>1, <3>1
  <2> HIDE DEF T
  <2>3. 0 .. n \subseteq T
    BY <2>2, UpTo
  <2> QED BY <2>3 DEF T
<1>9. f \in [0 .. n -> CountRec] /\ f[0] = zero
  BY <1>7, <1>8
<1> QED BY <1>9 DEF f, zero

\* What one observation makes of the detector: the streak of stalled ones grows
\* or ends, and a probe goes out when it is long enough and the last one old.
Observed(t, d, tx, rx, now) ==
    LET stalls == tx - d.up >= StallMinUplink /\ rx = d.down
        s == IF stalls THEN d.stalled + 1 ELSE 0
        probe == s >= StallPolls /\ (d.probed = Never \/ now - d.probed >= ProbeMinGap)
    IN  /\ t.up = tx /\ t.down = rx
        /\ probe => t.stalled = 0 /\ t.probed = now /\ t.probes = d.probes \cup {now}
        /\ ~probe => t.stalled = s /\ t.probed = d.probed /\ t.probes = d.probes

\* Every observation does that (StallDetector::observe).
LEMMA ObserveIs ==
    ASSUME NEW d \in DetectorRec, NEW tx \in Nat, NEW rx \in Nat, NEW now \in Nat
    PROVE  /\ observe(d, tx, rx, now) \in DetectorRec
           /\ Observed(observe(d, tx, rx, now), d, tx, rx, now)
<1> DEFINE t == observe(d, tx, rx, now)
           stalls == tx - d.up >= StallMinUplink /\ rx = d.down
           s == IF stalls THEN d.stalled + 1 ELSE 0
           probe == s >= StallPolls /\ (d.probed = Never \/ now - d.probed >= ProbeMinGap)
           a == IF probe THEN 0 ELSE s
           b == IF probe THEN now ELSE d.probed
           c == IF probe THEN d.probes \cup {now} ELSE d.probes
           moved == tx - d.up >= StallMinUplink
           s2 == IF rx # d.down \/ ~moved THEN 0 ELSE d.stalled + 1
<1>1. d.stalled \in Nat /\ d.probed \in Nat \cup {Never} /\ d.probes \in SUBSET Nat
  BY DEF DetectorRec
<1>2. s = s2 /\ s \in Nat
  <2> HIDE DEF moved
  <2>1. stalls <=> (moved /\ rx = d.down)
    BY DEF moved
  <2> HIDE DEF stalls
  <2> QED BY <1>1, <2>1
<1>3. t = [up |-> tx, down |-> rx, stalled |-> a, probed |-> b, probes |-> c]
  <2> DEFINE Fires(z) == z >= StallPolls /\ (d.probed = Never \/ now - d.probed >= ProbeMinGap)
  <2>1. t = [up |-> tx, down |-> rx,
             stalled |-> IF Fires(s2) THEN 0 ELSE s2,
             probed |-> IF Fires(s2) THEN now ELSE d.probed,
             probes |-> IF Fires(s2) THEN d.probes \cup {now} ELSE d.probes]
    BY Zenon DEF observe
  <2> HIDE DEF s2, s, t
  <2> QED BY <1>2, <2>1, Zenon
<1> HIDE DEF t, s
<1>4. a \in Nat /\ b \in Nat \cup {Never} /\ c \in SUBSET Nat
  <2> HIDE DEF probe
  <2> QED BY <1>1, <1>2
<1>5. /\ probe => a = 0 /\ b = now /\ c = d.probes \cup {now}
      /\ ~probe => a = s /\ b = d.probed /\ c = d.probes
  <2> HIDE DEF probe
  <2> QED OBVIOUS
<1> HIDE DEF a, b, c
<1>6. t \in DetectorRec /\ t.up = tx /\ t.down = rx /\ t.stalled = a /\ t.probed = b /\ t.probes = c
  BY <1>3, <1>4 DEF DetectorRec
<1> QED BY <1>5, <1>6, Zenon DEF t, s, Observed

\* A round of stall_monitor.
Round(run, d, i) ==
    IF run[i].ready THEN observe(d, Counters(run)[i].up, Counters(run)[i].down, i) ELSE d

\* The states of the detector in a run of polls.
LEMMA DetectorFollows ==
    ASSUME NEW run, NEW n \in Nat, n = Len(run),
           \A i \in 1 .. n : run[i].up \in Nat /\ run[i].down \in Nat
    PROVE  /\ \A i \in 0 .. n : stall_monitor(run)[i] \in DetectorRec
           /\ stall_monitor(run)[0] = NewDetector
           /\ \A i \in 1 .. n : stall_monitor(run)[i] = Round(run, stall_monitor(run)[i - 1], i)
<1> DEFINE Is(g) == g = [i \in 0 .. n |-> IF i = 0 THEN NewDetector
                            ELSE IF run[i].ready
                                 THEN observe(g[i - 1], Counters(run)[i].up, Counters(run)[i].down, i)
                                 ELSE g[i - 1]]
           step == [p \in (1 .. n) \X DetectorRec |-> Round(run, p[2], p[1])]
           f == stall_monitor(run)
<1>1. NewDetector \in DetectorRec
  BY DEF DetectorRec, NewDetector
<1>2. ASSUME NEW i \in 1 .. n, NEW d \in DetectorRec PROVE Round(run, d, i) \in DetectorRec
  <2>1. Counters(run)[i] \in CountRec
    BY CountersTyped
  <2>2. Counters(run)[i].up \in Nat /\ Counters(run)[i].down \in Nat
    BY <2>1 DEF CountRec
  <2>3. observe(d, Counters(run)[i].up, Counters(run)[i].down, i) \in DetectorRec
    <3>1. i \in Nat
      OBVIOUS
    <3> QED BY <2>2, <3>1, ObserveIs, Zenon
  <2> QED BY <2>3 DEF Round
<1>3. step \in [(1 .. n) \X DetectorRec -> DetectorRec]
  <2>1. ASSUME NEW p \in (1 .. n) \X DetectorRec PROVE Round(run, p[2], p[1]) \in DetectorRec
    BY <1>2
  <2> QED BY <2>1
<1>4. PICK g : Solves(g, n, DetectorRec, NewDetector, step)
  <2> HIDE DEF step
  <2> QED BY <1>1, <1>3, Recursion
<1>5. \A i \in 1 .. n : g[i] = Round(run, g[i - 1], i)
  <2> SUFFICES ASSUME NEW i \in 1 .. n PROVE g[i] = Round(run, g[i - 1], i)
    OBVIOUS
  <2>1. g[i - 1] \in DetectorRec
    BY <1>4 DEF Solves
  <2>2. step[<<i, g[i - 1]>>] = Round(run, g[i - 1], i)
    BY <2>1
  <2> QED BY <1>4, <2>2 DEF Solves
<1>6. Is(g)
  BY <1>4, <1>5 DEF Solves, Round
<1>7. Is(f)
  <2>1. f = CHOOSE x : Is(x)
    BY Zenon DEF stall_monitor
  <2> HIDE DEF f, Is
  <2> QED BY <1>6, <2>1
<1> HIDE DEF f
<1>8. f[0] = NewDetector /\ \A i \in 1 .. n : f[i] = Round(run, f[i - 1], i)
  BY <1>7 DEF Round
<1>9. \A i \in 0 .. n : f[i] \in DetectorRec
  <2> DEFINE T == {i \in 0 .. n : f[i] \in DetectorRec}
  <2>1. 0 \in T /\ \A i \in 1 .. n : i - 1 \in T => i \in T
    BY <1>1, <1>2, <1>8
  <2> HIDE DEF T
  <2>2. 0 .. n \subseteq T
    BY <2>1, UpTo
  <2> QED BY <2>2 DEF T
<1> QED BY <1>8, <1>9 DEF f

\* The polls that observe, the one before poll i, and whether i finds a stall.
Seen(run) == {i \in 1 .. Len(run) : run[i].ready}
Before(run, i) == {j \in Seen(run) : j < i}
Since(run, i) ==
    IF Before(run, i) = {} THEN 0 ELSE CHOOSE j \in Before(run, i) : Before(run, i) \subseteq 1 .. j
Stalled(run, i) ==
    /\ Counters(run)[i].up - Counters(run)[Since(run, i)].up >= StallMinUplink
    /\ Counters(run)[i].down = Counters(run)[Since(run, i)].down

\* The observations of a stall after poll last that is not over at poll i.
Streak(run, i, last) ==
    {j \in Seen(run) : last < j /\ j <= i /\ \A k \in Seen(run) : j <= k /\ k <= i => Stalled(run, k)}

\* Poll last is the last probe before poll i, or 0 if there is none.
LastProbe(probes, i, last) ==
    last \in {j \in probes \cup {0} : j < i /\ \A k \in probes : k < i => k <= j}

\* Poll i has to probe.
MustProbe(run, probes, i) ==
    \A last : LastProbe(probes, i, last) =>
        /\ Cardinality(Streak(run, i, last)) >= StallPolls
        /\ last = 0 \/ i - last >= ProbeMinGap

\* What the detector knows after i polls: the counters it saw last, its last
\* probe (at q, 0 if there is none), the stall since then, and that it probed at
\* the polls that had to.
Detects(run, i, d, q) ==
    /\ d.up = Counters(run)[Since(run, i + 1)].up /\ d.down = Counters(run)[Since(run, i + 1)].down
    /\ d.probes \subseteq Seen(run) \cap (1 .. i)
    /\ q \in d.probes \cup {0} /\ \A k \in d.probes : k <= q
    /\ d.probed = IF q = 0 THEN Never ELSE q
    /\ d.stalled = Cardinality(Streak(run, i, q))
    /\ \A k \in Seen(run) \cap (1 .. i) : k \in d.probes <=> MustProbe(run, d.probes, k)

\* A streak grows by each observation of a stall, and ends at any other.
LEMMA StreakGrows ==
    ASSUME NEW run, NEW i \in Nat, NEW q \in 0 .. i, Len(run) \in Nat, i + 1 \in Seen(run)
    PROVE  /\ Stalled(run, i + 1) =>
                Cardinality(Streak(run, i + 1, q)) = Cardinality(Streak(run, i, q)) + 1
           /\ ~Stalled(run, i + 1) => Cardinality(Streak(run, i + 1, q)) = 0
           /\ Cardinality(Streak(run, i + 1, i + 1)) = 0
           /\ Cardinality(Streak(run, i, q)) \in Nat
<1> DEFINE a == Streak(run, i, q)
           b == Streak(run, i + 1, q)
<1>1. Seen(run) \subseteq Nat
  BY DEF Seen
<1>2. IsFiniteSet(a)
  <2>1. a \subseteq 1 .. i
    <3> SUFFICES ASSUME NEW j \in a PROVE j \in 1 .. i
      OBVIOUS
    <3>1. j \in Nat /\ q < j /\ j <= i
      BY <1>1 DEF Streak
    <3> QED BY <3>1
  <2>2. IsFiniteSet(1 .. i)
    BY FS_Interval
  <2> HIDE DEF a
  <2> QED BY <2>1, <2>2, FS_Subset
<1>3. Stalled(run, i + 1) => b = a \cup {i + 1} /\ i + 1 \notin a
  <2> SUFFICES ASSUME Stalled(run, i + 1) PROVE b = a \cup {i + 1} /\ i + 1 \notin a
    OBVIOUS
  <2>1. i + 1 \notin a
    BY DEF Streak
  <2>2. ASSUME NEW j \in b PROVE j \in a \cup {i + 1}
    BY <1>1, <2>2 DEF Streak
  <2>3. ASSUME NEW j \in a PROVE j \in b
    <3>1. /\ j \in Seen(run) /\ q < j /\ j <= i /\ j \in Nat
          /\ \A k \in Seen(run) : j <= k /\ k <= i => Stalled(run, k)
      BY <1>1, <2>3 DEF Streak
    <3>2. \A k \in Seen(run) : k <= i + 1 => k <= i \/ k = i + 1
      BY <1>1
    <3>3. \A k \in Seen(run) : j <= k /\ k <= i + 1 => Stalled(run, k)
      BY <3>1, <3>2
    <3>4. j <= i + 1
      BY <3>1
    <3> QED BY <3>1, <3>3, <3>4 DEF Streak
  <2>4. i + 1 \in b
    <3>1. \A k \in Seen(run) : i + 1 <= k /\ k <= i + 1 => k = i + 1
      BY <1>1
    <3>2. q < i + 1 /\ i + 1 <= i + 1
      OBVIOUS
    <3> QED BY <3>1, <3>2 DEF Streak
  <2> HIDE DEF a, b
  <2> QED BY <2>1, <2>2, <2>3, <2>4
<1>4. ~Stalled(run, i + 1) => b = {}
  <2> SUFFICES ASSUME NEW j \in b PROVE Stalled(run, i + 1)
    OBVIOUS
  <2>1. j <= i + 1 /\ \A k \in Seen(run) : j <= k /\ k <= i + 1 => Stalled(run, k)
    BY DEF Streak
  <2>2. i + 1 <= i + 1
    OBVIOUS
  <2> QED BY <2>1, <2>2
<1>5. Streak(run, i + 1, i + 1) = {}
  BY <1>1 DEF Streak
<1>6. Cardinality(a) \in Nat /\ Cardinality({}) = 0
  BY <1>2, FS_CardinalityType, FS_EmptySet
<1>7. i + 1 \notin a => Cardinality(a \cup {i + 1}) = Cardinality(a) + 1
  BY <1>2, FS_AddElement
<1> HIDE DEF a, b
<1>8. /\ Stalled(run, i + 1) => Cardinality(b) = Cardinality(a) + 1
      /\ ~Stalled(run, i + 1) => Cardinality(b) = 0
  BY <1>3, <1>4, <1>6, <1>7
<1> QED BY <1>5, <1>6, <1>8 DEF a, b

\* A poll without a READY path leaves the streak alone.
LEMMA StreakRests ==
    ASSUME NEW run, NEW i \in Nat, NEW q, i + 1 \notin Seen(run)
    PROVE  Streak(run, i + 1, q) = Streak(run, i, q)
<1>1. \A k \in Seen(run) : k \in Nat /\ (k <= i + 1 <=> k <= i)
  BY DEF Seen
<1> QED BY <1>1 DEF Streak

\* The observation before the next poll is this one, if it is one.
LEMMA SinceMoves ==
    ASSUME NEW run, NEW i \in Nat
    PROVE  /\ i + 1 \in Seen(run) => Since(run, (i + 1) + 1) = i + 1
           /\ i + 1 \notin Seen(run) => Since(run, (i + 1) + 1) = Since(run, i + 1)
<1> DEFINE a == Before(run, i + 1)
           b == Before(run, (i + 1) + 1)
<1>1. Seen(run) \subseteq Nat \ {0}
  BY DEF Seen
<1>2. CASE i + 1 \notin Seen(run)
  <2>1. a = b
    <3>1. \A j \in Seen(run) : j < i + 1 <=> j < (i + 1) + 1
      BY <1>1, <1>2
    <3> QED BY <3>1 DEF Before
  <2> DEFINE Last(s) == IF s = {} THEN 0 ELSE CHOOSE j \in s : s \subseteq 1 .. j
  <2>2. Since(run, i + 1) = Last(a) /\ Since(run, (i + 1) + 1) = Last(b)
    BY Zenon DEF Since
  <2> HIDE DEF Last, a, b
  <2> QED BY <1>2, <2>1, <2>2
<1>3. CASE i + 1 \in Seen(run)
  <2>1. i + 1 \in b /\ b \subseteq 1 .. i + 1
    BY <1>1, <1>3 DEF Before
  <2> HIDE DEF b
  <2>2. \E j \in b : b \subseteq 1 .. j
    BY <2>1
  <2> DEFINE c == CHOOSE j \in b : b \subseteq 1 .. j
  <2>3. c \in b /\ b \subseteq 1 .. c
    BY <2>2, Zenon
  <2> HIDE DEF c
  <2>4. c = i + 1
    BY <2>1, <2>3
  <2>5. Since(run, (i + 1) + 1) = c
    BY <2>1 DEF Since, b, c
  <2> QED BY <1>3, <2>4, <2>5
<1> QED BY <1>2, <1>3

\* The last probe before poll now, which may itself probe.
LEMMA LastProbeIs ==
    ASSUME NEW now \in Nat, NEW P, NEW P2, P \subseteq 1 .. now - 1, P2 \in {P, P \cup {now}},
           NEW q \in P \cup {0}, \A k \in P : k <= q, now > 0
    PROVE  /\ \A x : LastProbe(P2, now, x) <=> x = q
           /\ \A k \in 1 .. now - 1 : \A x : LastProbe(P2, k, x) <=> LastProbe(P, k, x)
<1>1. \A k \in P : k \in Nat /\ k > 0 /\ k < now
  OBVIOUS
<1>2. q \in Nat /\ q < now
  BY <1>1
<1>3. P2 \subseteq P \cup {now} /\ P \subseteq P2
  OBVIOUS
<1>4. \A k \in P2 : k < now <=> k \in P
  BY <1>1, <1>3
<1>5. ASSUME NEW x PROVE LastProbe(P2, now, x) <=> x = q
  <2>1. ASSUME LastProbe(P2, now, x) PROVE x = q
    <3>1. x \in P \cup {0} /\ \A k \in P : k <= x
      BY <1>1, <1>3, <1>4, <2>1 DEF LastProbe
    <3>2. x \in Nat /\ x <= q
      BY <1>1, <1>2, <3>1
    <3>3. q <= x
      BY <1>2, <3>1, <3>2
    <3> QED BY <1>2, <3>2, <3>3
  <2>2. ASSUME x = q PROVE LastProbe(P2, now, x)
    <3>1. q \in P2 \cup {0} /\ q < now /\ \A k \in P2 : k < now => k <= q
      BY <1>2, <1>3, <1>4
    <3> QED BY <2>2, <3>1 DEF LastProbe
  <2> QED BY <2>1, <2>2
<1>6. ASSUME NEW k \in 1 .. now - 1, NEW x PROVE LastProbe(P2, k, x) <=> LastProbe(P, k, x)
  <2>1. \A j \in P2 : j < k => j \in P
    BY <1>1, <1>3
  <2> QED BY <1>3, <2>1 DEF LastProbe
<1> QED BY <1>5, <1>6

\* A round that does not observe.
LEMMA DetectsRests ==
    ASSUME NEW run, NEW i \in Nat, NEW d, NEW q, Detects(run, i, d, q), i + 1 \notin Seen(run)
    PROVE  Detects(run, i + 1, d, q)
<1>1. Since(run, (i + 1) + 1) = Since(run, i + 1)
  BY SinceMoves
<1>2. Seen(run) \cap (1 .. i + 1) = Seen(run) \cap (1 .. i)
  <2>1. \A k \in Seen(run) : k \in 1 .. i + 1 => k \in 1 .. i
    OBVIOUS
  <2> QED BY <2>1
<1>3. Streak(run, i + 1, q) = Streak(run, i, q)
  BY StreakRests
<1> QED BY <1>1, <1>2, <1>3, Zenon DEF Detects

\* A round that observes.
LEMMA DetectsGoesOn ==
    ASSUME NEW run, NEW i \in Nat, NEW d \in DetectorRec, NEW q, Detects(run, i, d, q),
           Len(run) \in Nat, i + 1 \in Seen(run), NEW t \in DetectorRec,
           Counters(run)[i + 1] \in CountRec,
           Observed(t, d, Counters(run)[i + 1].up, Counters(run)[i + 1].down, i + 1)
    PROVE  \E r : Detects(run, i + 1, t, r)
<1> DEFINE now == i + 1
           c == Counters(run)[now]
           stalls == c.up - d.up >= StallMinUplink /\ c.down = d.down
           s == IF stalls THEN d.stalled + 1 ELSE 0
           probe == s >= StallPolls /\ (d.probed = Never \/ now - d.probed >= ProbeMinGap)
           P == d.probes
           P2 == t.probes
           r == IF probe THEN now ELSE q
<1>1. /\ t.up = c.up /\ t.down = c.down
      /\ probe => t.stalled = 0 /\ t.probed = now /\ t.probes = d.probes \cup {now}
      /\ ~probe => t.stalled = s /\ t.probed = d.probed /\ t.probes = d.probes
  BY Zenon DEF Observed
<1>2. stalls <=> Stalled(run, now)
  BY Zenon DEF Detects, Stalled
<1>3. /\ P \subseteq 1 .. now - 1 /\ P \subseteq Seen(run) /\ now > 0 /\ now \in Nat
      /\ q \in P \cup {0} /\ (\A k \in P : k <= q) /\ q \in 0 .. i
  <2>1. P \subseteq Seen(run) \cap (1 .. i) /\ q \in P \cup {0} /\ \A k \in P : k <= q
    BY Zenon DEF Detects
  <2> QED BY <2>1
<1> HIDE DEF stalls, c
<1>4. s = Cardinality(Streak(run, now, q)) /\ s \in Nat
  <2>1. d.stalled = Cardinality(Streak(run, i, q))
    BY Zenon DEF Detects
  <2>2. /\ Stalled(run, now) => Cardinality(Streak(run, now, q)) = Cardinality(Streak(run, i, q)) + 1
        /\ ~Stalled(run, now) => Cardinality(Streak(run, now, q)) = 0
        /\ Cardinality(Streak(run, i, q)) \in Nat
    BY <1>3, StreakGrows
  <2> HIDE DEF now
  <2> QED BY <1>2, <2>1, <2>2
<1> HIDE DEF s
<1>5. d.probed = IF q = 0 THEN Never ELSE q
  BY Zenon DEF Detects
<1>6. probe <=> /\ Cardinality(Streak(run, now, q)) >= StallPolls
                /\ q = 0 \/ now - q >= ProbeMinGap
  <2>1. d.probed = Never <=> q = 0
    BY <1>3, <1>5 DEF Never
  <2>2. q # 0 => d.probed = q
    BY <1>5
  <2> HIDE DEF now
  <2> QED BY <1>4, <2>1, <2>2
<1> HIDE DEF probe
<1>7. P2 \in {P, P \cup {now}} /\ (now \in P2 <=> probe)
  <2>1. now \notin P
    BY <1>3
  <2> QED BY <1>1, <2>1
<1> HIDE DEF P, P2, now
<1>8. /\ \A x : LastProbe(P2, now, x) <=> x = q
      /\ \A k \in 1 .. now - 1 : \A x : LastProbe(P2, k, x) <=> LastProbe(P, k, x)
  BY <1>3, <1>7, LastProbeIs
<1>9. now \in P2 <=> MustProbe(run, P2, now)
  <2>1. MustProbe(run, P2, now) <=> /\ Cardinality(Streak(run, now, q)) >= StallPolls
                                    /\ q = 0 \/ now - q >= ProbeMinGap
    BY <1>8, Zenon DEF MustProbe
  <2> QED BY <1>6, <1>7, <2>1
<1>10. ASSUME NEW k \in Seen(run) \cap (1 .. now - 1) PROVE k \in P2 <=> MustProbe(run, P2, k)
  <2>1. k \in P <=> MustProbe(run, P, k)
    <3>1. k \in Seen(run) \cap (1 .. i)
      BY DEF now
    <3> QED BY <3>1, Zenon DEF Detects, P
  <2>2. MustProbe(run, P2, k) <=> MustProbe(run, P, k)
    <3>1. k \in 1 .. now - 1
      OBVIOUS
    <3> QED BY <1>8, <3>1, Zenon DEF MustProbe
  <2>3. k \in P2 <=> k \in P
    <3>1. k # now
      BY <1>3
    <3> QED BY <1>7, <3>1
  <2> QED BY <2>1, <2>2, <2>3
<1>11. \A k \in Seen(run) \cap (1 .. now) : k \in P2 <=> MustProbe(run, P2, k)
  <2>1. \A k \in Seen(run) \cap (1 .. now) : k = now \/ k \in Seen(run) \cap (1 .. now - 1)
    BY <1>3
  <2> QED BY <1>9, <1>10, <2>1
<1>12. /\ P2 \subseteq Seen(run) \cap (1 .. now)
       /\ r \in P2 \cup {0} /\ \A k \in P2 : k <= r
  <2>1. P \subseteq 1 .. now /\ now \in 1 .. now /\ now \in Seen(run) /\ \A k \in P : k <= now
    BY <1>3 DEF now
  <2>2. CASE probe
    <3>1. P2 = P \cup {now} /\ r = now
      BY <1>1, <2>2 DEF P, P2
    <3> QED BY <1>3, <2>1, <3>1
  <2>3. CASE ~probe
    <3>1. P2 = P /\ r = q
      BY <1>1, <2>3 DEF P, P2
    <3> QED BY <1>3, <2>1, <3>1
  <2> QED BY <2>2, <2>3
<1>13. t.probed = (IF r = 0 THEN Never ELSE r) /\ t.stalled = Cardinality(Streak(run, now, r))
  <2>1. CASE probe
    <3>1. r = now /\ now # 0 /\ t.probed = now /\ t.stalled = 0
      BY <1>1, <1>3, <2>1
    <3>2. Cardinality(Streak(run, now, now)) = 0
      BY <1>3, StreakGrows DEF now
    <3> QED BY <3>1, <3>2
  <2>2. CASE ~probe
    BY <1>1, <1>4, <1>5, <2>2
  <2> QED BY <2>1, <2>2
<1>14. t.up = Counters(run)[Since(run, now + 1)].up /\ t.down = Counters(run)[Since(run, now + 1)].down
  <2>1. Since(run, now + 1) = now
    BY SinceMoves DEF now
  <2> QED BY <1>1, <2>1 DEF c
<1> HIDE DEF r
<1>15. Detects(run, now, t, r)
  BY <1>11, <1>12, <1>13, <1>14, Zenon DEF Detects, P2
<1> QED BY <1>15 DEF now

\* The detector follows the stalls of one run.
LEMMA DetectsAll ==
    ASSUME NEW run, NEW n \in Nat, n = Len(run),
           \A i \in 1 .. n : run[i].up \in Nat /\ run[i].down \in Nat
    PROVE  \E q : Detects(run, n, stall_monitor(run)[n], q)
<1> DEFINE f == stall_monitor(run)
<1>1. /\ \A i \in 0 .. n : f[i] \in DetectorRec
      /\ f[0] = NewDetector
      /\ \A i \in 1 .. n : f[i] = Round(run, f[i - 1], i)
  BY DetectorFollows
<1>2. Counters(run) \in [0 .. n -> CountRec] /\ Counters(run)[0] = [up |-> 0, down |-> 0]
  BY CountersTyped
<1> HIDE DEF f
<1> DEFINE Known(i) == \E q : Detects(run, i, f[i], q)
           T == {i \in 0 .. n : Known(i)}
<1>3. 0 \in T
  <2>1. Before(run, 0 + 1) = {}
    BY DEF Before, Seen
  <2>2. Since(run, 0 + 1) = 0
    BY <2>1 DEF Since
  <2>3. Streak(run, 0, 0) = {}
    BY DEF Streak, Seen
  <2>4. Cardinality({}) = 0
    BY FS_EmptySet
  <2>5. /\ f[0].up = 0 /\ f[0].down = 0 /\ f[0].stalled = 0 /\ f[0].probed = Never
        /\ f[0].probes = {}
    BY <1>1 DEF NewDetector
  <2>6. Counters(run)[0].up = 0 /\ Counters(run)[0].down = 0
    BY <1>2
  <2> DEFINE z == f[0]
  <2>7. Detects(run, 0, z, 0)
    <3> HIDE DEF z
    <3>1. z.up = 0 /\ z.down = 0 /\ z.stalled = 0 /\ z.probed = Never /\ z.probes = {}
      BY <2>5 DEF z
    <3>2. 1 .. 0 = {}
      OBVIOUS
    <3>3. /\ z.up = Counters(run)[Since(run, 0 + 1)].up
          /\ z.down = Counters(run)[Since(run, 0 + 1)].down
      BY <2>2, <2>6, <3>1
    <3>4. z.stalled = Cardinality(Streak(run, 0, 0))
      BY <2>3, <2>4, <3>1
    <3>5. /\ z.probes \subseteq Seen(run) \cap (1 .. 0) /\ 0 \in z.probes \cup {0}
          /\ \A k \in z.probes : k <= 0
          /\ z.probed = IF 0 = 0 THEN Never ELSE 0
      BY <3>1
    <3>6. \A k \in Seen(run) \cap (1 .. 0) : k \in z.probes <=> MustProbe(run, z.probes, k)
      BY <3>2
    <3> QED BY <3>3, <3>4, <3>5, <3>6, Zenon DEF Detects
  <2> QED BY <2>7
<1>4. ASSUME NEW i \in 1 .. n, NEW q, Detects(run, i - 1, f[i - 1], q)
      PROVE  \E r : Detects(run, i, f[i], r)
  <2> DEFINE j == i - 1
             d == f[j]
             t == f[i]
  <2>1. j \in Nat /\ j + 1 = i /\ i \in Nat
    OBVIOUS
  <2>2. d \in DetectorRec /\ t \in DetectorRec /\ t = Round(run, d, i)
    BY <1>1
  <2>3. Detects(run, j, d, q)
    BY <1>4
  <2> HIDE DEF j, d, t
  <2>4. CASE i \notin Seen(run)
    <3>1. t = d
      BY <1>1, <2>2, <2>4 DEF Round, Seen
    <3>2. Detects(run, j + 1, d, q)
      BY <2>1, <2>3, <2>4, DetectsRests
    <3> QED BY <2>1, <3>1, <3>2 DEF t
  <2>5. CASE i \in Seen(run)
    <3> DEFINE c == Counters(run)[i]
    <3>1. c \in CountRec
      BY <1>2
    <3>2. c.up \in Nat /\ c.down \in Nat
      BY <3>1 DEF CountRec
    <3>3. t = observe(d, c.up, c.down, i)
      BY <2>2, <2>5 DEF Round, Seen
    <3> HIDE DEF c
    <3>4. Observed(t, d, c.up, c.down, i)
      <4>1. Observed(observe(d, c.up, c.down, i), d, c.up, c.down, i)
        BY <2>1, <2>2, <3>2, ObserveIs, Zenon
      <4> QED BY <3>3, <4>1
    <3>5. Len(run) \in Nat
      OBVIOUS
    <3>6. \E r : Detects(run, j + 1, t, r)
      <4>1. /\ Counters(run)[j + 1] \in CountRec /\ j + 1 \in Seen(run)
            /\ Observed(t, d, Counters(run)[j + 1].up, Counters(run)[j + 1].down, j + 1)
        BY <2>1, <2>5, <3>1, <3>4 DEF c
      <4> QED BY <2>1, <2>2, <2>3, <3>5, <4>1, DetectsGoesOn, Zenon
    <3> QED BY <2>1, <3>6 DEF t
  <2> QED BY <2>4, <2>5
<1>5. \A i \in 1 .. n : i - 1 \in T => i \in T
  <2>1. \A i \in 1 .. n : Known(i - 1) => Known(i)
    BY <1>4
  <2> HIDE DEF Known
  <2> QED BY <2>1
<1>6. 0 .. n \subseteq T
  <2> HIDE DEF T
  <2> QED BY <1>3, <1>5, UpTo
<1> QED BY <1>6 DEF f

\* So the probes of one run are those that had to be sent.
LEMMA StallRun ==
    ASSUME NEW run, NEW n \in Nat, n = Len(run),
           \A i \in 1 .. n : run[i].up \in Nat /\ run[i].down \in Nat
    PROVE  ProbesWhenStalled(run)
<1> DEFINE P == stall_monitor(run)[Len(run)].probes
<1>1. PICK q : Detects(run, n, stall_monitor(run)[n], q)
  BY DetectsAll
<1>2. \A i \in Seen(run) \cap (1 .. n) : i \in P <=> MustProbe(run, P, i)
  BY <1>1, Zenon DEF Detects
<1>3. \A i \in Seen(run) : i \in P <=> MustProbe(run, P, i)
  <2>1. Seen(run) \cap (1 .. n) = Seen(run)
    BY DEF Seen
  <2> QED BY <1>2, <2>1
<1> HIDE DEF P
<1>4. \A i \in Seen(run) :
         i \in P <=> \A last \in {j \in P \cup {0} : j < i /\ \A k \in P : k < i => k <= j} :
                        /\ Cardinality(Streak(run, i, last)) >= StallPolls
                        /\ last = 0 \/ i - last >= ProbeMinGap
  BY <1>3, Zenon DEF MustProbe, LastProbe
<1> QED BY <1>4, Zenon DEF ProbesWhenStalled, P, Seen, Streak, Stalled, Since, Before

\* A stall is probed when it has lasted, in every run of polls (StallDetector and
\* stall_monitor of rebind.rs).
LEMMA StallsHold == ProbesOnStall
<1> SUFFICES ASSUME NEW run \in PollRuns PROVE ProbesWhenStalled(run)
  BY Zenon DEF ProbesOnStall
<1> DEFINE Poll == [up : Nat, down : Nat, ready : BOOLEAN]
<1>1. run \in Seq(Poll)
  BY TrafficAssumption
<1>2. Len(run) \in Nat /\ \A i \in 1 .. Len(run) : run[i] \in Poll
  <2> HIDE DEF Poll
  <2> QED BY <1>1
<1>3. \A i \in 1 .. Len(run) : run[i].up \in Nat /\ run[i].down \in Nat
  BY <1>2
<1> QED BY <1>2, <1>3, StallRun

-----------------------------------------------------------------------------
(* The bursts that end idle mode.                                          *)

\* What a window holds.
WindowRec == [start : Nat, count : Nat]

\* A run of n packets in the order of their times.
Timed(run, n) ==
    /\ n \in Nat /\ n = Len(run)
    /\ \A i \in 1 .. n : run[i].at \in Nat /\ run[i].syn \in BOOLEAN
    /\ \A i, j \in 1 .. n : i <= j => run[i].at <= run[j].at

\* The marked packets up to i that are at most size older than packet i.
Marks(run, M, i, size) == {j \in 1 .. i : j \in M /\ run[i].at - run[j].at <= size}

\* What a window that has seen the marked packets up to i says of them: it counts
\* those since it started (now), the window before it had fewer than quota
\* of them (then), and all others are over for the packets to come.
Counts(run, M, size, quota, i, w, now, then) ==
    /\ now \subseteq M \cap (1 .. i) /\ then \subseteq M \cap (1 .. i)
    /\ w.count = Cardinality(now) /\ Cardinality(then) < quota
    /\ \A j \in now : w.start <= run[j].at
    /\ \A j \in then : run[j].at <= w.start
    /\ \A j \in M \cap (1 .. i) :
          j \in now \/ j \in then \/ \A k \in i .. Len(run) : run[j].at + size < run[k].at
    /\ \A k \in i + 1 .. Len(run) : w.start <= run[k].at

\* The window a marked packet leaves.
LEMMA HitIs ==
    ASSUME NEW w \in WindowRec, NEW at \in Nat, NEW size \in Nat, NEW quota
    PROVE  LET r == window_hit(w, at, size, quota)
           IN  /\ r.hit <=> r.window.count >= quota
               /\ at - w.start > size => r.window.start = at /\ r.window.count = 1
               /\ ~(at - w.start > size) => r.window.start = w.start /\ r.window.count = w.count + 1
               /\ r.window \in WindowRec
<1> DEFINE r == window_hit(w, at, size, quota)
           v == IF at - w.start > size THEN [start |-> at, count |-> 1] ELSE [w EXCEPT !.count = @ + 1]
<1>1. r = [window |-> v, hit |-> v.count >= quota]
  BY Zenon DEF window_hit
<1> HIDE DEF v, r
<1>2. r.window = v
  BY <1>1
<1>3. r.hit <=> r.window.count >= quota
  <2>1. r.hit = (v.count >= quota)
    BY <1>1
  <2> QED BY <1>2, <2>1, Zenon
<1>4. w.start \in Nat /\ w.count \in Nat
  BY DEF WindowRec
<1>5. /\ at - w.start > size => v = [start |-> at, count |-> 1]
      /\ ~(at - w.start > size) => v = [start |-> w.start, count |-> w.count + 1]
  BY DEF v, WindowRec
<1>6. /\ at - w.start > size => v.start = at /\ v.count = 1
      /\ ~(at - w.start > size) => v.start = w.start /\ v.count = w.count + 1
      /\ v \in WindowRec
  BY <1>4, <1>5 DEF WindowRec
<1> QED BY <1>2, <1>3, <1>6, Zenon DEF r

\* A packet that is not marked leaves the window.
LEMMA CountsRest ==
    ASSUME NEW run, NEW n, Timed(run, n), NEW M, NEW size \in Nat, NEW quota, NEW i \in Nat,
           i + 1 <= n, i + 1 \notin M, NEW w, NEW now, NEW then,
           Counts(run, M, size, quota, i, w, now, then)
    PROVE  Counts(run, M, size, quota, i + 1, w, now, then)
<1>1. M \cap (1 .. i + 1) = M \cap (1 .. i)
  <2>1. \A j \in 1 .. i + 1 : j \in M => j \in 1 .. i
    OBVIOUS
  <2> QED BY <2>1
<1>2. \A k : (k \in i + 1 .. Len(run) => k \in i .. Len(run))
             /\ (k \in (i + 1) + 1 .. Len(run) => k \in i + 1 .. Len(run))
  BY DEF Timed
<1> QED BY <1>1, <1>2, Zenon DEF Counts

\* A marked packet starts the window anew or is counted by it.
LEMMA CountsOn ==
    ASSUME NEW run, NEW n, Timed(run, n), NEW M, NEW size \in Nat, NEW quota \in Nat, NEW i \in Nat,
           i + 1 <= n, i + 1 \in M, NEW w \in WindowRec, NEW v \in WindowRec, NEW now, NEW then,
           Counts(run, M, size, quota, i, w, now, then), w.count < quota,
           v = window_hit(w, run[i + 1].at, size, quota).window
    PROVE  /\ run[i + 1].at - v.start <= size
           /\ \E now2, then2 : Counts(run, M, size, quota, i + 1, v, now2, then2)
<1> DEFINE next == i + 1
           at == run[next].at
<1>1. /\ next \in Nat /\ next \in M /\ next \in 1 .. next /\ next \in 1 .. n /\ next \in i .. n
      /\ 1 .. i \subseteq 1 .. next /\ 1 .. next \subseteq 1 .. n /\ next \notin 1 .. i
      /\ next \in next .. n /\ next .. n \subseteq i .. n /\ next + 1 .. n \subseteq i + 1 .. n
      /\ next .. n \subseteq 1 .. n /\ next + 1 .. n \subseteq 1 .. n
      /\ n = Len(run)
  BY DEF Timed
<1>2. M \cap (1 .. next) = (M \cap (1 .. i)) \cup {next}
  <2>1. \A j : j \in 1 .. next <=> j \in 1 .. i \/ j = next
    OBVIOUS
  <2> HIDE DEF next
  <2> QED BY <1>1, <2>1
<1>3. /\ \A j \in 1 .. n : run[j].at \in Nat
      /\ \A j \in 1 .. next : run[j].at <= at
      /\ \A k \in next .. n : at <= run[k].at
      /\ at \in Nat /\ w.start \in Nat /\ w.count \in Nat
  <2>1. /\ \A j \in 1 .. n : run[j].at \in Nat
        /\ \A j, k \in 1 .. n : j <= k => run[j].at <= run[k].at
    BY DEF Timed
  <2>2. /\ \A j \in 1 .. next : j \in 1 .. n /\ j <= next
        /\ \A k \in next .. n : k \in 1 .. n /\ next <= k
    BY <1>1
  <2> HIDE DEF next
  <2> QED BY <1>1, <2>1, <2>2 DEF WindowRec
<1>4. /\ at - w.start > size => v.start = at /\ v.count = 1
      /\ ~(at - w.start > size) => v.start = w.start /\ v.count = w.count + 1
  BY <1>3, HitIs
<1>5. /\ now \subseteq M \cap (1 .. i) /\ then \subseteq M \cap (1 .. i)
      /\ w.count = Cardinality(now) /\ Cardinality(then) < quota
      /\ \A j \in now : w.start <= run[j].at
      /\ \A j \in then : run[j].at <= w.start
      /\ \A j \in M \cap (1 .. i) :
            j \in now \/ j \in then \/ \A k \in i .. n : run[j].at + size < run[k].at
      /\ \A k \in i + 1 .. n : w.start <= run[k].at
  BY <1>1, Zenon DEF Counts
<1>6. IsFiniteSet(now)
  <2>1. IsFiniteSet(1 .. i)
    BY FS_Interval
  <2>2. now \subseteq 1 .. i
    BY <1>5
  <2> QED BY <2>1, <2>2, FS_Subset
<1>7. w.start <= at
  BY <1>1, <1>5
<1> HIDE DEF next, at
<1>8. CASE at - w.start > size
  <2>1. v.start = at /\ v.count = 1 /\ at - v.start <= size
    BY <1>3, <1>4, <1>8
  <2>2. Cardinality({next}) = 1 /\ Cardinality(now) < quota
    BY <1>5, FS_Singleton
  <2>3. /\ {next} \subseteq M \cap (1 .. next) /\ now \subseteq M \cap (1 .. next)
        /\ \A j \in {next} : v.start <= run[j].at
        /\ \A j \in now : run[j].at <= v.start
    <3>1. \A j \in now : j \in 1 .. next
      BY <1>1, <1>5
    <3> QED BY <1>1, <1>2, <1>3, <1>5, <2>1, <3>1 DEF at
  <2>4. ASSUME NEW j \in M \cap (1 .. next)
        PROVE  j \in {next} \/ j \in now \/ \A k \in next .. n : run[j].at + size < run[k].at
    <3> SUFFICES ASSUME j # next, j \notin now, NEW k \in next .. n
                 PROVE  run[j].at + size < run[k].at
      OBVIOUS
    <3>1. j \in M \cap (1 .. i) /\ k \in i .. n /\ at <= run[k].at
      BY <1>1, <1>2, <1>3
    <3>2. j \in 1 .. n /\ k \in 1 .. n
      BY <1>1
    <3>3. run[j].at \in Nat /\ run[k].at \in Nat
      BY <1>3, <3>2
    <3>4. CASE j \in then
      <4>1. run[j].at <= w.start
        BY <1>5, <3>4
      <4> QED BY <1>3, <1>8, <3>1, <3>3, <4>1
    <3>5. CASE j \notin then
      BY <1>5, <3>1, <3>5
    <3> QED BY <3>4, <3>5
  <2>5. \A k \in next + 1 .. n : v.start <= run[k].at
    <3>1. \A k \in next + 1 .. n : k \in next .. n
      BY <1>1
    <3> QED BY <1>3, <2>1, <3>1
  <2>6. Counts(run, M, size, quota, next, v, {next}, now)
    BY <1>1, <2>1, <2>2, <2>3, <2>4, <2>5, Zenon DEF Counts
  <2> QED BY <2>1, <2>6 DEF next, at
<1>9. CASE ~(at - w.start > size)
  <2> DEFINE both == now \cup {next}
  <2>1. v.start = w.start /\ v.count = w.count + 1 /\ at - v.start <= size
    BY <1>3, <1>4, <1>9
  <2>2. Cardinality(both) = v.count
    <3>1. next \notin now
      BY <1>1, <1>5
    <3>2. Cardinality(both) = Cardinality(now) + 1
      BY <1>6, <3>1, FS_AddElement
    <3> QED BY <1>5, <2>1, <3>2
  <2>3. /\ both \subseteq M \cap (1 .. next) /\ then \subseteq M \cap (1 .. next)
        /\ \A j \in both : v.start <= run[j].at
        /\ \A j \in then : run[j].at <= v.start
    <3>1. /\ both \subseteq M \cap (1 .. next) /\ then \subseteq M \cap (1 .. next)
      BY <1>2, <1>5
    <3>2. \A j \in both : v.start <= run[j].at
      BY <1>5, <1>7, <2>1 DEF at
    <3>3. \A j \in then : run[j].at <= v.start
      BY <1>5, <2>1
    <3> QED BY <3>1, <3>2, <3>3
  <2>4. ASSUME NEW j \in M \cap (1 .. next)
        PROVE  j \in both \/ j \in then \/ \A k \in next .. n : run[j].at + size < run[k].at
    <3>1. CASE j = next
      BY <3>1
    <3>2. CASE j # next
      <4>1. j \in M \cap (1 .. i)
        BY <1>2, <3>2
      <4>2. j \in now \/ j \in then \/ \A k \in i .. n : run[j].at + size < run[k].at
        BY <1>5, <4>1
      <4> QED BY <1>1, <4>2
    <3> QED BY <3>1, <3>2
  <2>5. \A k \in next + 1 .. n : v.start <= run[k].at
    BY <1>1, <1>5, <2>1
  <2> HIDE DEF both
  <2>6. Counts(run, M, size, quota, next, v, both, then)
    BY <1>1, <1>5, <2>1, <2>2, <2>3, <2>4, <2>5, Zenon DEF Counts
  <2> QED BY <2>1, <2>6 DEF next, at
<1> QED BY <1>8, <1>9

\* A window below its limit leaves room for less than two limits of marks, and
\* one that is reached within its size has seen them.
LEMMA CountsBound ==
    ASSUME NEW run, NEW n, Timed(run, n), NEW M, NEW size \in Nat, NEW quota \in Nat, NEW i \in 1 .. n,
           NEW w \in WindowRec, NEW now, NEW then, Counts(run, M, size, quota, i, w, now, then)
    PROVE  /\ w.count < quota => ~(Cardinality(Marks(run, M, i, size)) >= 2 * quota - 1)
           /\ run[i].at - w.start <= size /\ w.count >= quota =>
                 Cardinality(Marks(run, M, i, size)) >= quota
<1> DEFINE marks == Marks(run, M, i, size)
<1>1. /\ now \subseteq M \cap (1 .. i) /\ then \subseteq M \cap (1 .. i)
      /\ w.count = Cardinality(now) /\ Cardinality(then) < quota
      /\ \A j \in now : w.start <= run[j].at
      /\ \A j \in M \cap (1 .. i) :
            j \in now \/ j \in then \/ \A k \in i .. Len(run) : run[j].at + size < run[k].at
  BY Zenon DEF Counts
<1>2. \A j \in 1 .. i : run[j].at \in Nat
  BY DEF Timed
<1>3. i \in i .. Len(run) /\ i \in 1 .. i
  BY DEF Timed
<1>4. IsFiniteSet(now) /\ IsFiniteSet(then) /\ IsFiniteSet(marks)
  <2>1. IsFiniteSet(1 .. i)
    BY FS_Interval
  <2>2. now \subseteq 1 .. i /\ then \subseteq 1 .. i /\ marks \subseteq 1 .. i
    BY <1>1 DEF Marks
  <2> HIDE DEF marks
  <2> QED BY <2>1, <2>2, FS_Subset
<1>5. /\ Cardinality(now) \in Nat /\ Cardinality(then) \in Nat /\ Cardinality(marks) \in Nat
      /\ w.start \in Nat
  BY <1>4, FS_CardinalityType DEF WindowRec
<1>6. Cardinality(marks) <= Cardinality(now) + Cardinality(then)
  <2>1. marks \subseteq now \cup then
    <3> SUFFICES ASSUME NEW j \in marks, j \notin now, j \notin then PROVE FALSE
      OBVIOUS
    <3>1. j \in M \cap (1 .. i) /\ run[i].at - run[j].at <= size
      BY DEF Marks
    <3>2. run[j].at + size < run[i].at
      BY <1>1, <1>3, <3>1
    <3>3. run[j].at \in Nat /\ run[i].at \in Nat
      BY <1>2, <1>3, <3>1
    <3> DEFINE a == run[j].at
               b == run[i].at
    <3> HIDE DEF a, b
    <3>4. a \in Nat /\ b \in Nat /\ a + size < b /\ b - a <= size
      BY <3>1, <3>2, <3>3 DEF a, b
    <3> QED BY <3>4
  <2> HIDE DEF marks
  <2>2. IsFiniteSet(now \cup then) /\ Cardinality(now \cup then) <= Cardinality(now) + Cardinality(then)
    <3>1. IsFiniteSet(now \cup then)
      BY <1>4, FS_Union
    <3>2. /\ Cardinality(now \cup then) = Cardinality(now) + Cardinality(then) - Cardinality(now \cap then)
          /\ Cardinality(now \cap then) \in Nat
      <4>1. IsFiniteSet(now \cap then)
        BY <1>4, FS_Intersection
      <4> QED BY <1>4, <4>1, FS_Union, FS_CardinalityType
    <3> QED BY <1>5, <3>1, <3>2
  <2>3. Cardinality(marks) <= Cardinality(now \cup then) /\ Cardinality(now \cup then) \in Nat
    BY <2>1, <2>2, FS_Subset, FS_CardinalityType
  <2> QED BY <1>5, <2>2, <2>3
<1>7. run[i].at - w.start <= size => Cardinality(now) <= Cardinality(marks)
  <2> SUFFICES ASSUME run[i].at - w.start <= size PROVE Cardinality(now) <= Cardinality(marks)
    OBVIOUS
  <2>1. now \subseteq marks
    <3> SUFFICES ASSUME NEW j \in now PROVE j \in marks
      OBVIOUS
    <3>1. j \in M /\ j \in 1 .. i /\ w.start <= run[j].at
      BY <1>1
    <3>2. run[j].at \in Nat /\ run[i].at \in Nat
      BY <1>2, <1>3, <3>1
    <3>3. run[i].at - run[j].at <= size
      BY <1>5, <3>1, <3>2
    <3> QED BY <3>1, <3>3 DEF Marks
  <2> HIDE DEF marks
  <2> QED BY <1>4, <2>1, FS_Subset
<1> HIDE DEF marks
<1>8. /\ w.count < quota => ~(Cardinality(marks) >= 2 * quota - 1)
      /\ run[i].at - w.start <= size /\ w.count >= quota => Cardinality(marks) >= quota
  BY <1>1, <1>5, <1>6, <1>7
<1> QED BY <1>8 DEF marks

\* What note_uplink keeps.
UplinkRec == [active : BOOLEAN, syns : WindowRec, packets : WindowRec, left : Nat]

\* What packet number i does to it.
Noted(t, s, packet, i) ==
    LET syns == window_hit(s.syns, packet.at, ExitSynsWindow, ExitSyns)
        packets == window_hit(s.packets, packet.at, ExitPacketsWindow, ExitPackets)
    IN  /\ ~s.active => t = s
        /\ s.active /\ packet.syn /\ syns.hit => ~t.active /\ t.left = i
        /\ s.active /\ ~(packet.syn /\ syns.hit) =>
              /\ t.packets = packets.window
              /\ t.syns = IF packet.syn THEN syns.window ELSE s.syns
              /\ t.active <=> ~packets.hit
              /\ t.left = IF packets.hit THEN i ELSE 0

\* Every packet does that (note_uplink).
LEMMA NoteIs ==
    ASSUME NEW s \in UplinkRec, NEW packet, packet.at \in Nat, NEW i \in Nat
    PROVE  note_uplink(s, packet, i) \in UplinkRec /\ Noted(note_uplink(s, packet, i), s, packet, i)
<1> DEFINE x == window_hit(s.syns, packet.at, ExitSynsWindow, ExitSyns)
           y == window_hit(s.packets, packet.at, ExitPacketsWindow, ExitPackets)
           z == IF packet.syn THEN x ELSE [window |-> s.syns, hit |-> FALSE]
           t == note_uplink(s, packet, i)
           l == IF y.hit THEN i ELSE 0
<1>1. s.syns \in WindowRec /\ s.packets \in WindowRec /\ s.active \in BOOLEAN /\ s.left \in Nat
  BY DEF UplinkRec
<1>2. x.window \in WindowRec /\ y.window \in WindowRec
  <2>1. {ExitSynsWindow, ExitPacketsWindow} \subseteq Nat
    BY TrafficAssumption
  <2> QED BY <1>1, <2>1, HitIs
<1>3. t = IF ~s.active THEN s
          ELSE IF z.hit THEN [s EXCEPT !.active = FALSE, !.syns = z.window, !.left = i]
          ELSE [active |-> ~y.hit, syns |-> z.window, packets |-> y.window, left |-> l]
  BY Zenon DEF note_uplink
<1> HIDE DEF x, y, t, l
<1>4. /\ packet.syn => z = x
      /\ ~packet.syn => z.window = s.syns /\ ~z.hit
      /\ z.window \in WindowRec
  <2>1. packet.syn => z = x
    OBVIOUS
  <2>2. ~packet.syn => z.window = s.syns /\ ~z.hit
    OBVIOUS
  <2> HIDE DEF z
  <2> QED BY <1>1, <1>2, <2>1, <2>2
<1> HIDE DEF z
<1>5. CASE ~s.active
  <2>1. t = s
    BY <1>3, <1>5, Zenon
  <2> QED BY <1>5, <2>1, Zenon DEF Noted, t
<1>6. CASE s.active /\ z.hit
  <2>1. packet.syn /\ x.hit
    BY <1>4, <1>6, Zenon
  <2>2. t = [s EXCEPT !.active = FALSE, !.syns = z.window, !.left = i]
    BY <1>3, <1>6, Zenon
  <2>3. ~t.active /\ t.left = i /\ t \in UplinkRec
    BY <1>4, <2>2 DEF UplinkRec
  <2> QED BY <1>6, <2>1, <2>3, Zenon DEF Noted, t, x
<1>7. CASE s.active /\ ~z.hit
  <2>1. ~(packet.syn /\ x.hit)
    BY <1>4, <1>7, Zenon
  <2> DEFINE a == ~y.hit
  <2>2. t = [active |-> a, syns |-> z.window, packets |-> y.window, left |-> l]
    BY <1>3, <1>7, Zenon
  <2>3. a \in BOOLEAN
    BY Zenon
  <2> HIDE DEF a
  <2>4. l \in Nat
    BY DEF l
  <2>5. t \in UplinkRec /\ t.active = a /\ t.syns = z.window /\ t.packets = y.window /\ t.left = l
    BY <1>2, <1>4, <2>2, <2>3, <2>4 DEF UplinkRec
  <2>6. t.active <=> ~y.hit
    BY <2>5, Zenon DEF a
  <2>7. t.syns = IF packet.syn THEN x.window ELSE s.syns
    BY <1>4, <2>5, Zenon
  <2> QED BY <1>7, <2>1, <2>5, <2>6, <2>7, Zenon DEF Noted, t, x, y, l
<1> QED BY <1>5, <1>6, <1>7, Zenon

\* The states of a run of packets.
LEMMA UplinkFollows ==
    ASSUME NEW run, NEW n, Timed(run, n), NEW start \in Nat
    PROVE  /\ \A i \in 0 .. n : Uplink(start, run)[i] \in UplinkRec
           /\ Uplink(start, run)[0] = Entered(start)
           /\ \A i \in 1 .. n : Uplink(start, run)[i] = note_uplink(Uplink(start, run)[i - 1], run[i], i)
<1> DEFINE Is(g) == g = [i \in 0 .. n |-> IF i = 0 THEN Entered(start) ELSE note_uplink(g[i - 1], run[i], i)]
           step == [p \in (1 .. n) \X UplinkRec |-> note_uplink(p[2], run[p[1]], p[1])]
           f == Uplink(start, run)
<1>1. Entered(start) \in UplinkRec
  BY DEF UplinkRec, WindowRec, Entered
<1>2. n \in Nat /\ n = Len(run) /\ \A i \in 1 .. n : run[i].at \in Nat
  BY DEF Timed
<1>3. ASSUME NEW i \in 1 .. n, NEW s \in UplinkRec PROVE note_uplink(s, run[i], i) \in UplinkRec
  <2>1. i \in Nat /\ run[i].at \in Nat
    BY <1>2
  <2> QED BY <2>1, NoteIs, Zenon
<1>4. step \in [(1 .. n) \X UplinkRec -> UplinkRec]
  <2>1. ASSUME NEW p \in (1 .. n) \X UplinkRec PROVE note_uplink(p[2], run[p[1]], p[1]) \in UplinkRec
    BY <1>3
  <2> QED BY <2>1
<1>5. PICK g : Solves(g, n, UplinkRec, Entered(start), step)
  <2> HIDE DEF step
  <2> QED BY <1>1, <1>2, <1>4, Recursion
<1>6. \A i \in 1 .. n : g[i] = note_uplink(g[i - 1], run[i], i)
  <2> SUFFICES ASSUME NEW i \in 1 .. n PROVE g[i] = note_uplink(g[i - 1], run[i], i)
    OBVIOUS
  <2> HIDE DEF step
  <2>1. g[i - 1] \in UplinkRec
    BY <1>2, <1>5 DEF Solves
  <2>2. g[i] = step[<<i, g[i - 1]>>]
    BY <1>5 DEF Solves
  <2>3. step[<<i, g[i - 1]>>] = note_uplink(g[i - 1], run[i], i)
    BY <2>1 DEF step
  <2> QED BY <2>2, <2>3
<1>7. Is(g)
  BY <1>5, <1>6 DEF Solves
<1>8. Is(f)
  <2>1. f = CHOOSE u : Is(u)
    BY <1>2, Zenon DEF Uplink
  <2> HIDE DEF f, Is
  <2> QED BY <1>7, <2>1
<1> HIDE DEF f
<1>9. f[0] = Entered(start) /\ \A i \in 1 .. n : f[i] = note_uplink(f[i - 1], run[i], i)
  BY <1>2, <1>8
<1>10. \A i \in 0 .. n : f[i] \in UplinkRec
  <2> DEFINE T == {i \in 0 .. n : f[i] \in UplinkRec}
  <2>1. 0 \in T /\ \A i \in 1 .. n : i - 1 \in T => i \in T
    BY <1>1, <1>2, <1>3, <1>9
  <2> HIDE DEF T
  <2>2. 0 .. n \subseteq T
    BY <1>2, <2>1, UpTo
  <2> QED BY <2>2 DEF T
<1> QED BY <1>9, <1>10 DEF f

\* The packets within a window's size before packet i, and the new connections
\* among them.
Within(run, i, size) == {j \in 1 .. i : run[i].at - run[j].at <= size}
Syns(run, i) == {j \in Within(run, i, ExitSynsWindow) : run[j].syn}

\* Packet i completes a burst, or one that no window can miss.
Burst(run, i) ==
    \/ Cardinality(Within(run, i, ExitPacketsWindow)) >= ExitPackets
    \/ run[i].syn /\ Cardinality(Syns(run, i)) >= ExitSyns
Flood(run, i) ==
    \/ Cardinality(Within(run, i, ExitPacketsWindow)) >= 2 * ExitPackets - 1
    \/ run[i].syn /\ Cardinality(Syns(run, i)) >= 2 * ExitSyns - 1

\* What the two windows mark.
Packets(run) == 1 .. Len(run)
Conns(run) == {j \in 1 .. Len(run) : run[j].syn}

\* A window is open: it is below its limit and knows what it has seen.
Open(run, M, size, quota, i, w) ==
    w.count < quota /\ \E now, then : Counts(run, M, size, quota, i, w, now, then)

\* After i packets idle mode goes on and there was no flood, or it has ended at a
\* burst and no later than at the first flood.
GoesOn(run, i, s) ==
    /\ s.active /\ s.left = 0
    /\ Open(run, Packets(run), ExitPacketsWindow, ExitPackets, i, s.packets)
    /\ Open(run, Conns(run), ExitSynsWindow, ExitSyns, i, s.syns)
    /\ \A j \in 1 .. i : ~Flood(run, j)
HasEnded(run, i, s) ==
    /\ ~s.active /\ s.left \in 1 .. i
    /\ Burst(run, s.left)
    /\ \A j \in 1 .. i : Flood(run, j) => s.left <= j

\* The marks of the two windows.
LEMMA MarksAre ==
    ASSUME NEW run, NEW n, Timed(run, n), NEW i \in 1 .. n
    PROVE  /\ Marks(run, Packets(run), i, ExitPacketsWindow) = Within(run, i, ExitPacketsWindow)
           /\ Marks(run, Conns(run), i, ExitSynsWindow) = Syns(run, i)
           /\ i \in Packets(run) /\ (i \in Conns(run) <=> run[i].syn)
<1>1. 1 .. i \subseteq 1 .. n /\ n = Len(run)
  BY DEF Timed
<1>2. Marks(run, Packets(run), i, ExitPacketsWindow) = Within(run, i, ExitPacketsWindow)
  BY <1>1 DEF Marks, Packets, Within
<1>3. Marks(run, Conns(run), i, ExitSynsWindow) = Syns(run, i)
  BY <1>1 DEF Marks, Conns, Syns, Within
<1> QED BY <1>1, <1>2, <1>3 DEF Packets, Conns

\* A marked packet opens on, or reaches the limit within the window's size; if
\* it does not, there were fewer than two limits of marks.
LEMMA OpenOn ==
    ASSUME NEW run, NEW n, Timed(run, n), NEW M, NEW size \in Nat, NEW quota \in Nat, NEW i \in 1 .. n,
           i \in M, NEW w \in WindowRec, Open(run, M, size, quota, i - 1, w), NEW r,
           r = window_hit(w, run[i].at, size, quota)
    PROVE  /\ r.hit => Cardinality(Marks(run, M, i, size)) >= quota
           /\ ~r.hit => /\ Open(run, M, size, quota, i, r.window)
                        /\ ~(Cardinality(Marks(run, M, i, size)) >= 2 * quota - 1)
<1> DEFINE h == i - 1
           v == r.window
<1>1. h \in Nat /\ h + 1 = i /\ h + 1 <= n /\ h + 1 \in M
  BY DEF Timed
<1>2. run[i].at \in Nat
  BY DEF Timed
<1>3. v \in WindowRec /\ (r.hit <=> v.count >= quota)
  BY <1>2, HitIs, Zenon
<1>4. PICK now, then : Counts(run, M, size, quota, h, w, now, then)
  BY Zenon DEF Open
<1>5. w.count < quota
  BY Zenon DEF Open
<1> HIDE DEF h, v
<1>6. v = window_hit(w, run[h + 1].at, size, quota).window
  BY <1>1 DEF v
<1>7. run[h + 1].at - v.start <= size /\ \E now2, then2 : Counts(run, M, size, quota, h + 1, v, now2, then2)
  <2>1. /\ h \in Nat /\ h + 1 <= n /\ h + 1 \in M /\ w.count < quota
        /\ v \in WindowRec /\ v = window_hit(w, run[h + 1].at, size, quota).window
        /\ Counts(run, M, size, quota, h, w, now, then)
    BY <1>1, <1>3, <1>4, <1>5, <1>6
  <2> QED BY <2>1, CountsOn
<1>8. run[i].at - v.start <= size
  BY <1>1, <1>7
<1>9. PICK now2, then2 : Counts(run, M, size, quota, i, v, now2, then2)
  BY <1>1, <1>7
<1>10. /\ v.count < quota => ~(Cardinality(Marks(run, M, i, size)) >= 2 * quota - 1)
       /\ v.count >= quota => Cardinality(Marks(run, M, i, size)) >= quota
  BY <1>3, <1>8, <1>9, CountsBound, Zenon
<1>11. v.count < quota <=> ~(v.count >= quota)
  BY <1>3 DEF WindowRec
<1> QED BY <1>3, <1>9, <1>10, <1>11, Zenon DEF Open, v

\* A packet that is not marked leaves the window open.
LEMMA OpenRests ==
    ASSUME NEW run, NEW n, Timed(run, n), NEW M, NEW size \in Nat, NEW quota, NEW i \in 1 .. n,
           i \notin M, NEW w, Open(run, M, size, quota, i - 1, w)
    PROVE  Open(run, M, size, quota, i, w)
<1> DEFINE h == i - 1
<1>1. h \in Nat /\ h + 1 = i /\ h + 1 <= n /\ h + 1 \notin M
  BY DEF Timed
<1>2. PICK now, then : Counts(run, M, size, quota, h, w, now, then)
  BY Zenon DEF Open
<1> HIDE DEF h
<1>3. Counts(run, M, size, quota, h + 1, w, now, then)
  BY <1>1, <1>2, CountsRest, Zenon
<1>4. Counts(run, M, size, quota, i, w, now, then) /\ w.count < quota
  BY <1>1, <1>3 DEF Open
<1> QED BY <1>4, Zenon DEF Open

\* Each packet keeps idle mode going or ends it, no sooner than at a burst.
LEMMA UplinkGoesOn ==
    ASSUME NEW run, NEW n, Timed(run, n), NEW i \in 1 .. n, NEW s \in UplinkRec, GoesOn(run, i - 1, s),
           NEW t, t = note_uplink(s, run[i], i)
    PROVE  GoesOn(run, i, t) \/ HasEnded(run, i, t)
<1> DEFINE x == window_hit(s.syns, run[i].at, ExitSynsWindow, ExitSyns)
           y == window_hit(s.packets, run[i].at, ExitPacketsWindow, ExitPackets)
           syn == run[i].syn
<1>1. i \in Nat /\ run[i].at \in Nat /\ i \in 1 .. i /\ i # 0
  BY DEF Timed
<1>2. Noted(t, s, run[i], i)
  <2>1. Noted(note_uplink(s, run[i], i), s, run[i], i)
    BY <1>1, NoteIs, Zenon
  <2> QED BY <2>1
<1> HIDE DEF x, y, syn
<1>3. /\ s.active
      /\ Open(run, Packets(run), ExitPacketsWindow, ExitPackets, i - 1, s.packets)
      /\ Open(run, Conns(run), ExitSynsWindow, ExitSyns, i - 1, s.syns)
      /\ \A j \in 1 .. i - 1 : ~Flood(run, j)
  BY Zenon DEF GoesOn
<1>4. /\ syn /\ x.hit => ~t.active /\ t.left = i
      /\ ~(syn /\ x.hit) =>
              /\ t.packets = y.window
              /\ t.syns = IF syn THEN x.window ELSE s.syns
              /\ t.active <=> ~y.hit
              /\ t.left = IF y.hit THEN i ELSE 0
  BY <1>2, <1>3, Zenon DEF Noted, x, y, syn
<1>5. /\ ExitSynsWindow \in Nat /\ ExitPacketsWindow \in Nat /\ ExitSyns \in Nat /\ ExitPackets \in Nat
      /\ s.syns \in WindowRec /\ s.packets \in WindowRec
  BY TrafficAssumption DEF UplinkRec
<1>6. /\ i \in Packets(run) /\ (i \in Conns(run) <=> syn)
      /\ Marks(run, Packets(run), i, ExitPacketsWindow) = Within(run, i, ExitPacketsWindow)
      /\ Marks(run, Conns(run), i, ExitSynsWindow) = Syns(run, i)
  BY MarksAre DEF syn
<1>7. /\ y.hit => Cardinality(Within(run, i, ExitPacketsWindow)) >= ExitPackets
      /\ ~y.hit => /\ Open(run, Packets(run), ExitPacketsWindow, ExitPackets, i, y.window)
                   /\ ~(Cardinality(Within(run, i, ExitPacketsWindow)) >= 2 * ExitPackets - 1)
  <2>1. LET m == Marks(run, Packets(run), i, ExitPacketsWindow)
        IN  /\ y.hit => Cardinality(m) >= ExitPackets
            /\ ~y.hit => /\ Open(run, Packets(run), ExitPacketsWindow, ExitPackets, i, y.window)
                         /\ ~(Cardinality(m) >= 2 * ExitPackets - 1)
    BY <1>3, <1>5, <1>6, OpenOn, Zenon DEF y
  <2> QED BY <1>6, <2>1, Zenon
<1>8. syn => /\ x.hit => Cardinality(Syns(run, i)) >= ExitSyns
             /\ ~x.hit => /\ Open(run, Conns(run), ExitSynsWindow, ExitSyns, i, x.window)
                          /\ ~(Cardinality(Syns(run, i)) >= 2 * ExitSyns - 1)
  <2> SUFFICES ASSUME syn
               PROVE  /\ x.hit => Cardinality(Syns(run, i)) >= ExitSyns
                      /\ ~x.hit => /\ Open(run, Conns(run), ExitSynsWindow, ExitSyns, i, x.window)
                                   /\ ~(Cardinality(Syns(run, i)) >= 2 * ExitSyns - 1)
    BY Zenon
  <2>1. LET m == Marks(run, Conns(run), i, ExitSynsWindow)
        IN  /\ x.hit => Cardinality(m) >= ExitSyns
            /\ ~x.hit => /\ Open(run, Conns(run), ExitSynsWindow, ExitSyns, i, x.window)
                         /\ ~(Cardinality(m) >= 2 * ExitSyns - 1)
    BY <1>3, <1>5, <1>6, OpenOn, Zenon DEF x
  <2> QED BY <1>6, <2>1, Zenon
<1>9. ~syn => Open(run, Conns(run), ExitSynsWindow, ExitSyns, i, s.syns)
  BY <1>3, <1>5, <1>6, OpenRests, Zenon
<1>10. \A j \in 1 .. i : j = i \/ j \in 1 .. i - 1
  OBVIOUS
<1>11. CASE syn /\ x.hit
  <2>1. ~t.active /\ t.left = i /\ Burst(run, i)
    BY <1>4, <1>8, <1>11, Zenon DEF Burst, syn
  <2>2. \A j \in 1 .. i : Flood(run, j) => t.left <= j
    <3>1. i <= i
      OBVIOUS
    <3> QED BY <1>3, <1>10, <2>1, <3>1
  <2>3. t.left \in 1 .. i /\ Burst(run, t.left)
    BY <1>1, <2>1
  <2> QED BY <2>1, <2>2, <2>3, Zenon DEF HasEnded
<1>12. CASE ~(syn /\ x.hit) /\ y.hit
  <2>1. ~t.active /\ t.left = i /\ Burst(run, i)
    BY <1>4, <1>7, <1>12, Zenon DEF Burst
  <2>2. \A j \in 1 .. i : Flood(run, j) => t.left <= j
    <3>1. i <= i
      OBVIOUS
    <3> QED BY <1>3, <1>10, <2>1, <3>1
  <2>3. t.left \in 1 .. i /\ Burst(run, t.left)
    BY <1>1, <2>1
  <2> QED BY <2>1, <2>2, <2>3, Zenon DEF HasEnded
<1>13. CASE ~(syn /\ x.hit) /\ ~y.hit
  <2>1. t.active /\ t.left = 0 /\ t.packets = y.window
    BY <1>4, <1>13, Zenon
  <2>2. t.syns = IF syn THEN x.window ELSE s.syns
    BY <1>4, <1>13, Zenon
  <2>3. Open(run, Conns(run), ExitSynsWindow, ExitSyns, i, t.syns)
    BY <1>8, <1>9, <1>13, <2>2, Zenon
  <2>4. ~Flood(run, i)
    BY <1>7, <1>8, <1>13, Zenon DEF Flood, syn
  <2>5. \A j \in 1 .. i : ~Flood(run, j)
    BY <1>3, <1>10, <2>4, Zenon
  <2>6. Open(run, Packets(run), ExitPacketsWindow, ExitPackets, i, t.packets)
    BY <1>7, <1>13, <2>1
  <2> QED BY <2>1, <2>3, <2>5, <2>6, Zenon DEF GoesOn
<1> QED BY <1>11, <1>12, <1>13, Zenon

\* Idle mode ends at the bursts of one run.
LEMMA BurstRun ==
    ASSUME NEW run, NEW n, Timed(run, n), n > 0, NEW start \in 0 .. run[1].at
    PROVE  LeavesAtBurst(start, run)
<1> DEFINE f == Uplink(start, run)
           Done(i) == GoesOn(run, i, f[i]) \/ HasEnded(run, i, f[i])
           T == {i \in 0 .. n : Done(i)}
<1>1. /\ n \in Nat /\ n = Len(run) /\ 1 \in 1 .. n /\ start \in Nat
      /\ \A i \in 1 .. n : run[i].at \in Nat
      /\ \A i, j \in 1 .. n : i <= j => run[i].at <= run[j].at
  <2>1. /\ n \in Nat /\ n = Len(run) /\ 1 \in 1 .. n
        /\ \A i \in 1 .. n : run[i].at \in Nat
        /\ \A i, j \in 1 .. n : i <= j => run[i].at <= run[j].at
    BY DEF Timed
  <2>2. run[1].at \in Nat
    BY <2>1
  <2> QED BY <2>1, <2>2
<1>2. /\ \A i \in 0 .. n : f[i] \in UplinkRec
      /\ f[0] = Entered(start)
      /\ \A i \in 1 .. n : f[i] = note_uplink(f[i - 1], run[i], i)
  BY <1>1, UplinkFollows
<1> HIDE DEF f
<1>3. ASSUME NEW M, NEW size \in Nat, NEW quota \in Nat, quota > 0
      PROVE  Open(run, M, size, quota, 0, [start |-> start, count |-> 0])
  <2> DEFINE w == [start |-> start, count |-> 0]
  <2>1. w.start = start /\ w.count = 0 /\ Cardinality({}) = 0 /\ M \cap (1 .. 0) = {}
    BY FS_EmptySet
  <2>2. \A k \in 1 .. n : start <= run[k].at
    <3> SUFFICES ASSUME NEW k \in 1 .. n PROVE start <= run[k].at
      OBVIOUS
    <3>1. run[1].at <= run[k].at /\ start <= run[1].at /\ run[1].at \in Nat /\ run[k].at \in Nat
      BY <1>1
    <3> QED BY <1>1, <3>1
  <2> HIDE DEF w
  <2>3. \A k \in 0 + 1 .. Len(run) : w.start <= run[k].at
    BY <1>1, <2>1, <2>2
  <2>4. Counts(run, M, size, quota, 0, w, {}, {})
    BY <1>3, <2>1, <2>3 DEF Counts
  <2>5. w.count < quota
    BY <1>3, <2>1
  <2>6. Open(run, M, size, quota, 0, w)
    BY <2>4, <2>5, Zenon DEF Open
  <2> QED BY <2>6 DEF w
<1>4. Done(0)
  <2>1. /\ ExitSynsWindow \in Nat /\ ExitPacketsWindow \in Nat
        /\ ExitSyns \in Nat /\ ExitPackets \in Nat /\ ExitSyns > 0 /\ ExitPackets > 0
    BY TrafficAssumption
  <2>2. /\ f[0].active /\ f[0].left = 0
        /\ f[0].packets = [start |-> start, count |-> 0]
        /\ f[0].syns = [start |-> start, count |-> 0]
    BY <1>2 DEF Entered
  <2>3. /\ Open(run, Packets(run), ExitPacketsWindow, ExitPackets, 0, f[0].packets)
        /\ Open(run, Conns(run), ExitSynsWindow, ExitSyns, 0, f[0].syns)
    BY <1>3, <2>1, <2>2
  <2>4. \A j \in 1 .. 0 : ~Flood(run, j)
    OBVIOUS
  <2> QED BY <2>2, <2>3, <2>4, Zenon DEF GoesOn
<1>5. ASSUME NEW i \in 1 .. n, Done(i - 1) PROVE Done(i)
  <2> DEFINE s == f[i - 1]
             t == f[i]
  <2>1. s \in UplinkRec /\ t = note_uplink(s, run[i], i)
    <3>1. i - 1 \in 0 .. n
      BY <1>1
    <3> QED BY <1>2, <3>1
  <2>2. GoesOn(run, i - 1, s) \/ HasEnded(run, i - 1, s)
    BY <1>5
  <2> HIDE DEF s, t
  <2>3. CASE GoesOn(run, i - 1, s)
    <3>1. GoesOn(run, i, t) \/ HasEnded(run, i, t)
      BY <2>1, <2>3, UplinkGoesOn
    <3> QED BY <3>1 DEF t
  <2>4. CASE HasEnded(run, i - 1, s)
    <3>1. /\ ~s.active /\ s.left \in 1 .. i - 1 /\ Burst(run, s.left)
          /\ \A j \in 1 .. i - 1 : Flood(run, j) => s.left <= j
      BY <2>4, Zenon DEF HasEnded
    <3>2. t = s
      BY <2>1, <3>1, Zenon DEF note_uplink
    <3>3. s.left \in 1 .. i /\ \A j \in 1 .. i : Flood(run, j) => s.left <= j
      <4>1. \A j \in 1 .. i : j \in 1 .. i - 1 \/ s.left <= j
        BY <3>1
      <4> QED BY <3>1, <4>1
    <3>4. HasEnded(run, i, t)
      BY <3>1, <3>2, <3>3 DEF HasEnded
    <3> QED BY <3>4 DEF t
  <2> QED BY <2>2, <2>3, <2>4
<1>6. 0 .. n \subseteq T
  <2> HIDE DEF Done
  <2>1. 0 \in T /\ \A i \in 1 .. n : i - 1 \in T => i \in T
    BY <1>1, <1>4, <1>5
  <2> HIDE DEF T
  <2> QED BY <1>1, <2>1, UpTo
<1>7. Done(n)
  BY <1>1, <1>6
<1> DEFINE left == f[n].left
<1>8. /\ left # 0 => Burst(run, left)
      /\ \A i \in 1 .. n : Flood(run, i) => left \in 1 .. i
  <2>1. CASE GoesOn(run, n, f[n])
    <3>1. left = 0 /\ \A i \in 1 .. n : ~Flood(run, i)
      BY <2>1, Zenon DEF GoesOn
    <3> QED BY <3>1
  <2>2. CASE HasEnded(run, n, f[n])
    <3>1. left \in 1 .. n /\ Burst(run, left) /\ \A i \in 1 .. n : Flood(run, i) => left <= i
      BY <2>2, Zenon DEF HasEnded
    <3> HIDE DEF left
    <3>2. \A i \in 1 .. n : left <= i => left \in 1 .. i
      BY <3>1
    <3> QED BY <3>1, <3>2
  <2> QED BY <1>7, <2>1, <2>2
<1> HIDE DEF left
<1>9. /\ left # 0 =>
              \/ Cardinality(Within(run, left, ExitPacketsWindow)) >= ExitPackets
              \/ run[left].syn /\ Cardinality(Syns(run, left)) >= ExitSyns
      /\ \A i \in 1 .. Len(run) :
              \/ Cardinality(Within(run, i, ExitPacketsWindow)) >= 2 * ExitPackets - 1
              \/ run[i].syn /\ Cardinality(Syns(run, i)) >= 2 * ExitSyns - 1
              => left \in 1 .. i
  BY <1>1, <1>8, Zenon DEF Burst, Flood
<1>10. left = Uplink(start, run)[Len(run)].left
  BY <1>1 DEF left, f
<1> QED BY <1>9, <1>10, Zenon DEF LeavesAtBurst, Within, Syns

\* Idle mode ends at a burst, in every run of packets and whenever it was entered
\* (window_hit and note_uplink of idle.rs).
LEMMA BurstsHold == BurstLeavesIdle
<1> SUFFICES ASSUME NEW run \in PacketRuns, NEW start \in 0 .. run[1].at PROVE LeavesAtBurst(start, run)
  BY Zenon DEF BurstLeavesIdle
<1> DEFINE n == Len(run)
           Packet == [at : Nat, syn : BOOLEAN]
<1>1. /\ run \in Seq(Packet) /\ run # <<>>
      /\ \A i, j \in 1 .. n : i <= j => run[i].at <= run[j].at
  BY TrafficAssumption
<1>2. n \in Nat /\ n > 0 /\ \A i \in 1 .. n : run[i] \in Packet
  <2> HIDE DEF Packet
  <2> QED BY <1>1
<1>3. \A i \in 1 .. n : run[i].at \in Nat /\ run[i].syn \in BOOLEAN
  BY <1>2
<1> HIDE DEF n
<1>4. Timed(run, n)
  BY <1>1, <1>2, <1>3, Zenon DEF Timed, n
<1> QED BY <1>2, <1>4, BurstRun

-----------------------------------------------------------------------------
\* A stall is probed exactly when it has lasted, for any thresholds and any runs
\* of polls (StallDetector and stall_monitor of rebind.rs).
THEOREM StallIsProbedHolds == Spec => []StallIsProbed
<1>1. StallIsProbed
  BY StallsHold DEF StallIsProbed
<1> QED BY <1>1, PTL

\* Idle mode is entered after silence and left at a burst, for any windows and any
\* runs of polls and packets (monitor and note_uplink of idle.rs).
THEOREM IdleTracksTrafficHolds == Spec => []IdleTracksTraffic
<1>1. IdleTracksTraffic
  BY BurstsHold, SilenceHolds DEF IdleTracksTraffic, IdleFollowsTraffic
<1> QED BY <1>1, PTL

\* A repair request restarts its worker once and spares the credentials of one
\* that came back, in histories of any length (RepairState of repair.rs).
THEOREM RepairsCountedHolds == Spec => []RepairsCounted
<1>1. RepairsCounted
  BY AllRepairsOnce DEF RepairsCounted
<1> QED BY <1>1, PTL
=============================================================================
