------------------------ MODULE DataPathGuardProofs ------------------------
(***************************************************************************)
(* Proofs about DataPathGuard, for any number of goroutines and any        *)
(* thresholds, with or without rebind in the engine library.               *)
(*                                                                         *)
(* Most steps leave alone who is restarting the engine and who owns the    *)
(* rebind in flight.  Kept says so; the lemmas Become*, Go* and Bump*      *)
(* derive it from the way a step moves its goroutine, and only the steps   *)
(* that do more are argued one by one.  The end of a pause is argued the   *)
(* same way: Moves and DutyKept say who has to end it after the step.      *)
(***************************************************************************)
EXTENDS DataPathGuard, TLAPS

TaskOK == task \in [Task -> Local]

FlagsOK ==
    /\ paused \in BOOLEAN /\ pendingRecycle \in BOOLEAN /\ recycling \in BOOLEAN
    /\ exiting \in BOOLEAN /\ rebindRecent \in BOOLEAN /\ rebindInFlight \in BOOLEAN
    /\ pendingHandover \in BOOLEAN /\ grace \in BOOLEAN /\ booting \in BOOLEAN
    /\ hasPath \in BOOLEAN

WordsOK ==
    /\ pendingReason \in Reason
    /\ recycles \in 0 .. MaxRecycles /\ recycleAge \in {"gap", "young", "stable"}
    /\ dialFails \in 0 .. FailThreshold /\ gate \in {"none", "open", "held"}

VarsOK == FlagsOK /\ WordsOK

\* Goroutine p judges the rebind in flight.
Owner(p) == task[p].step \in RebindHolders /\ task[p].current

IInv == VarsOK /\ TaskOK /\ OneRecycle /\ InFlightHasOwner

\* Nobody starts or ends a restart and the rebind in flight stays owned.
Kept ==
    /\ \A r \in Task : task'[r].step \in RecycleSteps <=> task[r].step \in RecycleSteps
    /\ (\E r \in Task : Owner(r)) => \E r \in Task : Owner(r)'

\* The locals l can follow the locals k without starting or ending anything.
Follows(k, l) ==
    /\ l.step \in RecycleSteps <=> k.step \in RecycleSteps
    /\ k.step \in RebindHolders /\ k.current => l.step \in RebindHolders /\ l.current

-----------------------------------------------------------------------------
(* Locals.                                                                 *)

\* The fields of a goroutine's locals have their types.
LEMMA Fields ==
    ASSUME NEW l \in Local
    PROVE  /\ l.step \in Steps /\ l.reason \in Reason /\ l.source \in Source
           /\ l.need \in BOOLEAN /\ l.current \in BOOLEAN
BY DEF Local

\* Locals at a step, with every other field reset.
LEMMA AtOK ==
    ASSUME NEW s \in Steps
    PROVE  At(s) \in Local /\ At(s).step = s /\ At(s).current = FALSE
BY DEF At, Local, Reason, Source

\* An idle goroutine restarts nothing and owns nothing.
LEMMA IdleOK ==
    Idle \in Local /\ Idle.step = "idle" /\ Idle.current = FALSE
<1>1. "idle" \in Steps
  BY DEF Steps
<1> QED
  BY <1>1, AtOK DEF Idle

\* Moving on to another step keeps the other fields.
LEMMA MoveOK ==
    ASSUME NEW l \in Local, NEW s \in Steps
    PROVE  /\ [l EXCEPT !.step = s] \in Local
           /\ [l EXCEPT !.step = s].step = s
           /\ [l EXCEPT !.step = s].current = l.current
BY DEF Local

\* Locals that carry what the goroutine read.
LEMMA NeedOK ==
    ASSUME NEW l \in Local, NEW n \in BOOLEAN
    PROVE  [l EXCEPT !.need = n] \in Local /\ [l EXCEPT !.need = n].step = l.step
BY DEF Local

\* A goroutine started to heal or to request a restart.
LEMMA StartOK ==
    ASSUME NEW r \in Reason
    PROVE  /\ Heal(r) \in Local /\ Heal(r).step = "heal"
           /\ Request(r) \in Local /\ Request(r).step = "request"
           /\ OnHandover \in Local /\ OnHandover.step = "resume"
BY DEF Heal, Request, OnHandover, At, Local, Reason, Source, Steps

\* Locals that hold the current generation.
LEMMA HoldingOK ==
    ASSUME NEW s \in Steps
    PROVE  Holding(s) \in Local /\ Holding(s).step = s /\ Holding(s).current = TRUE
BY DEF Holding, At, Local, Reason, Source

-----------------------------------------------------------------------------
(* The ways a step moves goroutines.                                       *)

\* One goroutine moves.
LEMMA BecomeMoves ==
    ASSUME TaskOK, NEW p \in Task, NEW l \in Local, Become(p, l)
    PROVE  /\ TaskOK' /\ task'[p] = l
           /\ \A q \in Task \ {p} : task'[q] = task[q]
BY DEF TaskOK, Become

\* One goroutine moves to locals that follow the ones it had.
LEMMA BecomeKept ==
    ASSUME TaskOK, NEW p \in Task, NEW l \in Local, Become(p, l), Follows(task[p], l)
    PROVE  TaskOK' /\ Kept
BY BecomeMoves DEF Kept, Owner, Follows

\* A go statement as the last thing p does.
LEMMA GoKept ==
    ASSUME TaskOK, NEW p \in Task, NEW l \in Local, Go(p, l),
           Follows(task[p], l), task[p].step \notin RecycleSteps
    PROVE  TaskOK' /\ Kept
<1>0. Pool \subseteq Task /\ Thread \cap Pool = {}
  BY GuardAssumption DEF Task
<1>1. CASE p \in Pool /\ Become(p, l)
  BY <1>1, BecomeKept
<1>2. CASE p \in Thread /\ \E q \in Pool : task[q] = Idle /\ task' = [task EXCEPT ![p] = Idle, ![q] = l]
  <2>1. PICK q \in Pool : task[q] = Idle /\ task' = [task EXCEPT ![p] = Idle, ![q] = l]
    BY <1>2
  <2>2. q \in Task /\ q # p
    BY <1>0, <1>2
  <2>3. /\ TaskOK' /\ task'[p] = Idle /\ task'[q] = l
        /\ \A r \in Task \ {p, q} : task'[r] = task[r]
    BY <2>1, <2>2, IdleOK DEF TaskOK
  <2>4. "idle" \notin RebindHolders /\ "idle" \notin RecycleSteps
    BY DEF RebindHolders, RecycleSteps
  <2>5. ASSUME NEW r \in Task
        PROVE  task'[r].step \in RecycleSteps <=> task[r].step \in RecycleSteps
    BY <2>1, <2>2, <2>3, <2>4, IdleOK DEF Follows
  <2>6. ASSUME NEW r \in Task, Owner(r)
        PROVE  \E o \in Task : Owner(o)'
    <3>1. CASE r = p
      <4>1. Owner(q)'
        BY <2>3, <2>6, <3>1 DEF Owner, Follows
      <4> QED
        BY <2>2, <4>1
    <3>2. CASE r # p
      <4>1. r # q
        BY <2>1, <2>4, <2>6, IdleOK DEF Owner
      <4>2. Owner(r)'
        BY <2>3, <2>6, <3>2, <4>1 DEF Owner
      <4> QED
        BY <4>2
    <3> QED
      BY <3>1, <3>2
  <2> QED
    BY <2>3, <2>5, <2>6 DEF Kept
<1> QED
  BY <1>1, <1>2 DEF Go

\* A generation is incremented and p moves.
Bumped(p, S, l) == task' = [Bump(task, S) EXCEPT ![p] = l]

\* A step that makes some goroutines' generation old and moves p: everybody
\* else stays where he is.
LEMMA BumpMoves ==
    ASSUME TaskOK, NEW p \in Task, NEW l \in Local, NEW S \in SUBSET Steps,
           Bumped(p, S, l)
    PROVE  /\ TaskOK' /\ task'[p] = l
           /\ \A q \in Task \ {p} : /\ task'[q].step = task[q].step
                                    /\ task[q].step \notin S => task'[q] = task[q]
<1>1. ASSUME NEW q \in Task
      PROVE  /\ Bump(task, S)[q] \in Local
             /\ Bump(task, S)[q].step = task[q].step
             /\ task[q].step \notin S => Bump(task, S)[q] = task[q]
  <2>1. task[q] \in Local
    BY DEF TaskOK
  <2>2. Bump(task, S)[q] = IF task[q].step \in S THEN [task[q] EXCEPT !.current = FALSE] ELSE task[q]
    BY DEF Bump
  <2> QED
    BY <2>1, <2>2 DEF Local
<1>2. Bump(task, S) = [q \in Task |-> Bump(task, S)[q]]
  BY DEF Bump
<1>3. Bump(task, S) \in [Task -> Local]
  <2> DEFINE f == Bump(task, S)
  <2>1. f = [q \in Task |-> f[q]] /\ \A q \in Task : f[q] \in Local
    BY <1>1, <1>2
  <2> HIDE DEF f
  <2>2. f \in [Task -> Local]
    BY <2>1
  <2> QED
    BY <2>2 DEF f
<1> DEFINE b == Bump(task, S)
<1>4. /\ b \in [Task -> Local] /\ task' = [b EXCEPT ![p] = l]
      /\ \A q \in Task : b[q].step = task[q].step /\ (task[q].step \notin S => b[q] = task[q])
  BY <1>1, <1>3 DEF Bumped
<1> HIDE DEF b
<1>5. task' \in [Task -> Local] /\ task'[p] = l /\ \A q \in Task \ {p} : task'[q] = b[q]
  BY <1>4
<1> QED
  BY <1>4, <1>5 DEF TaskOK

\* Such a step that does not touch the rebind generation.
LEMMA BumpKept ==
    ASSUME TaskOK, NEW p \in Task, NEW l \in Local, NEW S \in SUBSET Steps,
           S \cap RebindHolders = {}, Bumped(p, S, l), Follows(task[p], l)
    PROVE  TaskOK' /\ Kept
<1>1. /\ TaskOK' /\ task'[p] = l
      /\ \A q \in Task \ {p} : /\ task'[q].step = task[q].step
                               /\ task[q].step \notin S => task'[q] = task[q]
  BY BumpMoves
<1>2. ASSUME NEW r \in Task
      PROVE  task'[r].step \in RecycleSteps <=> task[r].step \in RecycleSteps
  <2>1. CASE r = p
    BY <1>1, <2>1, Zenon DEF Follows
  <2>2. CASE r # p
    <3>1. r \in Task \ {p}
      BY <2>2
    <3>2. task'[r].step = task[r].step
      BY <1>1, <3>1
    <3> QED
      BY <3>2
  <2> QED
    BY <2>1, <2>2
<1>3. ASSUME NEW r \in Task, Owner(r)
      PROVE  Owner(r)'
  <2>1. CASE r = p
    BY <1>1, <1>3, <2>1, Zenon DEF Owner, Follows
  <2>2. CASE r # p
    <3>1. task[r].step \notin S
      BY <1>3 DEF Owner
    <3>2. r \in Task \ {p}
      BY <2>2
    <3>3. task'[r] = task[r]
      BY <1>1, <3>1, <3>2
    <3> QED
      BY <1>3, <3>3 DEF Owner
  <2> QED
    BY <2>1, <2>2
<1> QED
  BY <1>1, <1>2, <1>3 DEF Kept

\* A step that keeps both keeps the invariant.
LEMMA KeptInvariant ==
    ASSUME IInv, VarsOK', TaskOK', Kept, recycling' = recycling,
           rebindInFlight' => rebindInFlight
    PROVE  IInv'
<1>1. OneRecycle'
  BY DEF IInv, OneRecycle, Recycling, Kept
<1>2. InFlightHasOwner'
  BY DEF IInv, InFlightHasOwner, Kept, Owner
<1> QED
  BY <1>1, <1>2 DEF IInv

-----------------------------------------------------------------------------
(* Every step keeps the types of the plain variables.                      *)

\* Time, the engine, connections and host events.
LEMMA OutsideVars ==
    ASSUME VarsOK, Windows \/ EngineUp \/ PathUp \/ PathDown \/ DialSucceeds \/ DialTimesOut
                   \/ ZeroPaths \/ Netlost \/ NetlostHold \/ Netback \/ NetworkChanged \/ OnWake
    PROVE  VarsOK'
<1> USE GuardAssumption DEF offline, cycle, rebinds, dials, engine
<1>1. CASE Windows
  <2>1. FlagsOK'
    BY <1>1, ZenonT(30) DEF VarsOK, FlagsOK, Windows, GraceEnds, RebindGapEnds, RecycleAges
  <2>2. WordsOK'
    BY <1>1 DEF VarsOK, WordsOK, Reason, Windows, GraceEnds, RebindGapEnds, RecycleAges
  <2> QED
    BY <2>1, <2>2 DEF VarsOK
<1>2. CASE EngineUp \/ PathUp \/ PathDown
  <2>1. FlagsOK'
    BY <1>2, ZenonT(30) DEF VarsOK, FlagsOK, EngineUp, PathUp, PathDown
  <2>2. WordsOK'
    BY <1>2 DEF VarsOK, WordsOK, Reason, EngineUp, PathUp, PathDown
  <2> QED
    BY <2>1, <2>2 DEF VarsOK
<1>3. CASE DialSucceeds
  <2>1. FlagsOK'
    BY <1>3, ZenonT(30) DEF VarsOK, FlagsOK, DialSucceeds
  <2>2. WordsOK'
    BY <1>3 DEF VarsOK, WordsOK, Reason, DialSucceeds
  <2> QED
    BY <2>1, <2>2 DEF VarsOK
<1>4. CASE DialTimesOut
  <2>1. FlagsOK'
    BY <1>4, ZenonT(30) DEF VarsOK, FlagsOK, DialTimesOut
  <2>2. WordsOK'
    BY <1>4 DEF VarsOK, WordsOK, Reason, DialTimesOut
  <2> QED
    BY <2>1, <2>2 DEF VarsOK
<1>5. CASE ZeroPaths \/ Netback \/ NetworkChanged
  <2>1. FlagsOK'
    BY <1>5, ZenonT(30) DEF VarsOK, FlagsOK, ZeroPaths, Netback, NetworkChanged
  <2>2. WordsOK'
    BY <1>5 DEF VarsOK, WordsOK, Reason, ZeroPaths, Netback, NetworkChanged
  <2> QED
    BY <2>1, <2>2 DEF VarsOK
<1>6. CASE Netlost
  <2>1. FlagsOK'
    BY <1>6, ZenonT(30) DEF VarsOK, FlagsOK, Netlost
  <2>2. WordsOK'
    BY <1>6 DEF VarsOK, WordsOK, Reason, Netlost
  <2> QED
    BY <2>1, <2>2 DEF VarsOK
<1>7. CASE NetlostHold
  <2>1. FlagsOK'
    BY <1>7, ZenonT(30) DEF VarsOK, FlagsOK, NetlostHold
  <2>2. WordsOK'
    BY <1>7 DEF VarsOK, WordsOK, Reason, NetlostHold
  <2> QED
    BY <2>1, <2>2 DEF VarsOK
<1>8. CASE OnWake
  <2>1. FlagsOK'
    BY <1>8, ZenonT(30) DEF VarsOK, FlagsOK, OnWake
  <2>2. WordsOK'
    BY <1>8 DEF VarsOK, WordsOK, Reason, OnWake
  <2> QED
    BY <2>1, <2>2 DEF VarsOK
<1> QED
  BY <1>1, <1>2, <1>3, <1>4, <1>5, <1>6, <1>7, <1>8

\* A step that only moves goroutines.
LEMMA SameVars ==
    ASSUME VarsOK, UNCHANGED <<offline, cycle, rebinds, dials, engine>>
    PROVE  VarsOK'
<1>1. FlagsOK'
  BY Zenon DEF VarsOK, FlagsOK, offline, cycle, rebinds, dials, engine
<1>2. WordsOK'
  BY DEF VarsOK, WordsOK, offline, cycle, rebinds, dials, engine
<1> QED
  BY <1>1, <1>2 DEF VarsOK

\* The steps of a goroutine.
LEMMA StepVars ==
    ASSUME VarsOK, TaskOK, NEW p \in Task, Step(p) \/ RecycleFails(p) \/ ProbeFails(p)
    PROVE  VarsOK'
<1>0. task[p].reason \in Reason
  BY Fields DEF TaskOK
<1>1. CASE PausedWatchEnds(p) \/ ProbeSucceeds(p) \/ Probed(p) \/ ProbeFails(p)
  BY <1>1, SameVars DEF PausedWatchEnds, ProbeSucceeds, Probed, ProbeFails
<1>2. CASE HealStart(p) \/ HealGap(p) \/ Rebind(p) \/ WatchPoll(p) \/ WatchTimeout(p)
  BY <1>2, SameVars DEF HealStart, HealGap, Rebind, WatchPoll, WatchTimeout
<1>3. CASE SoftArm(p) \/ SoftCheck(p) \/ RequestDropped(p) \/ RequestWhileExiting(p)
  BY <1>3, SameVars DEF SoftArm, SoftCheck, RequestDropped, RequestWhileExiting
<1>4. CASE RecycleReady(p) \/ RecycleFails(p)
  BY <1>4, SameVars DEF RecycleReady, RecycleFails
<1> USE GuardAssumption DEF offline, cycle, rebinds, dials, engine
<1>5. CASE Resume(p)
  <2>1. FlagsOK'
    BY <1>5, ZenonT(30) DEF VarsOK, FlagsOK, Resume
  <2>2. WordsOK'
    BY <1>5 DEF VarsOK, WordsOK, Reason, Resume
  <2> QED
    BY <2>1, <2>2 DEF VarsOK
<1>6. CASE Release(p)
  <2>1. FlagsOK'
    BY <1>6, ZenonT(30) DEF VarsOK, FlagsOK, Release
  <2>2. WordsOK'
    BY <1>6 DEF VarsOK, WordsOK, Reason, Release
  <2> QED
    BY <2>1, <2>2 DEF VarsOK
<1>7. CASE Handover(p)
  <2>1. FlagsOK'
    BY <1>7, ZenonT(30) DEF VarsOK, FlagsOK, Handover
  <2>2. WordsOK'
    BY <1>7 DEF VarsOK, WordsOK, Reason, Handover
  <2> QED
    BY <2>1, <2>2 DEF VarsOK
<1>8. CASE FinishRebind(p)
  <2>1. FlagsOK'
    BY <1>8, ZenonT(30) DEF VarsOK, FlagsOK, FinishRebind
  <2>2. WordsOK'
    BY <1>8 DEF VarsOK, WordsOK, Reason, FinishRebind
  <2> QED
    BY <2>1, <2>2 DEF VarsOK
<1>9. CASE RequestDeferred(p)
  <2>1. FlagsOK'
    BY <1>9, ZenonT(30) DEF VarsOK, FlagsOK, RequestDeferred
  <2>2. WordsOK'
    BY <1>0, <1>9 DEF VarsOK, WordsOK, Reason, RequestDeferred
  <2> QED
    BY <2>1, <2>2 DEF VarsOK
<1>10. CASE RequestExhausted(p)
  <2>1. FlagsOK'
    BY <1>10, ZenonT(30) DEF VarsOK, FlagsOK, RequestExhausted
  <2>2. WordsOK'
    BY <1>10 DEF VarsOK, WordsOK, Reason, RequestExhausted
  <2> QED
    BY <2>1, <2>2 DEF VarsOK
<1>11. CASE RequestAccepted(p)
  <2>1. FlagsOK'
    BY <1>11, ZenonT(30) DEF VarsOK, FlagsOK, RequestAccepted
  <2>2. WordsOK'
    BY <1>11 DEF VarsOK, WordsOK, Reason, RequestAccepted
  <2> QED
    BY <2>1, <2>2 DEF VarsOK
<1>12. CASE RecycleStop(p)
  <2>1. FlagsOK'
    BY <1>12, ZenonT(30) DEF VarsOK, FlagsOK, RecycleStop
  <2>2. WordsOK'
    BY <1>12 DEF VarsOK, WordsOK, Reason, RecycleStop
  <2> QED
    BY <2>1, <2>2 DEF VarsOK
<1>13. CASE RecycleStart(p)
  <2>1. FlagsOK'
    BY <1>13, ZenonT(30) DEF VarsOK, FlagsOK, RecycleStart
  <2>2. WordsOK'
    BY <1>13 DEF VarsOK, WordsOK, Reason, RecycleStart
  <2> QED
    BY <2>1, <2>2 DEF VarsOK
<1>14. CASE RecycleFinish(p)
  <2>1. FlagsOK'
    BY <1>14, ZenonT(30) DEF VarsOK, FlagsOK, RecycleFinish
  <2>2. WordsOK'
    BY <1>14 DEF VarsOK, WordsOK, Reason, RecycleFinish
  <2> QED
    BY <2>1, <2>2 DEF VarsOK
<1>15. CASE FailRecycle(p)
  <2>1. FlagsOK'
    BY <1>15, ZenonT(30) DEF VarsOK, FlagsOK, FailRecycle
  <2>2. WordsOK'
    BY <1>0, <1>15 DEF VarsOK, WordsOK, Reason, FailRecycle
  <2> QED
    BY <2>1, <2>2 DEF VarsOK
<1> QED
  BY <1>1, <1>2, <1>3, <1>4, <1>5, <1>6, <1>7, <1>8, <1>9, <1>10, <1>11, <1>12, <1>13, <1>14, <1>15 DEF Step

-----------------------------------------------------------------------------
(* Every step keeps the inductive invariant.                               *)

\* The sets of steps tell the steps apart.
LEMMA StepSets ==
    /\ RecycleSteps \subseteq Steps /\ RebindHolders \subseteq Steps /\ PauseHolders \subseteq Steps
    /\ RecycleSteps \cap RebindHolders = {} /\ PauseHolders \cap RebindHolders = {}
    /\ PauseHolders \cap RecycleSteps = {} /\ {"soft"} \cap RebindHolders = {}
    /\ {"idle", "resume", "release", "handover", "heal", "healGap", "request", "softArm", "soft"}
         \subseteq Steps \ (RecycleSteps \cup RebindHolders)
BY DEF Steps, RecycleSteps, RebindHolders, PauseHolders

\* Steps outside the restart and the rebind lead to one another freely.
LEMMA PlainFollows ==
    ASSUME NEW k \in Local, NEW l \in Local,
           k.step \notin RecycleSteps \cup RebindHolders,
           l.step \notin RecycleSteps
    PROVE  Follows(k, l)
BY DEF Follows

\* Time, the engine, connections and host events.
LEMMA OutsideInvariant ==
    ASSUME IInv, Windows \/ EngineUp \/ PathUp \/ PathDown \/ DialSucceeds \/ DialTimesOut
                 \/ ZeroPaths \/ Netlost \/ NetlostHold \/ Netback \/ NetworkChanged \/ OnWake
    PROVE  IInv'
<1>0. VarsOK' /\ TaskOK /\ Host \in Task /\ Pool \subseteq Task /\ Thread \subseteq Task
  BY OutsideVars, GuardAssumption DEF IInv, Task
<1>1. recycling' = recycling /\ rebindInFlight' = rebindInFlight
  BY DEF Windows, GraceEnds, RebindGapEnds, RecycleAges, EngineUp, PathUp, PathDown,
         DialSucceeds, DialTimesOut, ZeroPaths, Netlost, NetlostHold, Netback, NetworkChanged,
         OnWake, cycle, rebinds
<1> SUFFICES TaskOK' /\ Kept
  BY <1>0, <1>1, KeptInvariant
<1>2. \A q \in Task : task[q] \in Local
  BY <1>0 DEF TaskOK
<1>3. Idle.step \notin RecycleSteps \cup RebindHolders
  BY IdleOK, StepSets
<1>4. CASE task' = task
  BY <1>0, <1>4 DEF TaskOK, Kept, Owner
<1>5. CASE \E q \in Pool : task[q] = Idle /\ Become(q, Heal("plain"))
  <2>1. PICK q \in Pool : task[q] = Idle /\ Become(q, Heal("plain"))
    BY <1>5
  <2>2. Heal("plain") \in Local /\ Heal("plain").step \notin RecycleSteps
    BY StartOK, StepSets DEF Reason
  <2>3. Follows(task[q], Heal("plain"))
    BY <1>0, <1>2, <1>3, <2>1, <2>2, PlainFollows
  <2> QED
    BY <1>0, <2>1, <2>2, <2>3, BecomeKept
<1>6. CASE Netlost
  <2>1. Holding("hold") \in Local /\ Holding("hold").step \notin RecycleSteps
    BY HoldingOK, StepSets DEF PauseHolders
  <2>2. Follows(task[Host], Holding("hold"))
    BY <1>0, <1>2, <1>3, <1>6, <2>1, PlainFollows DEF Netlost
  <2>3. Bumped(Host, PauseHolders, Holding("hold"))
    BY <1>6 DEF Netlost, Bumped
  <2>4. PauseHolders \in SUBSET Steps /\ PauseHolders \cap RebindHolders = {}
    BY StepSets
  <2> QED
    BY <1>0, <2>1, <2>2, <2>3, <2>4, BumpKept
<1>7. CASE NetlostHold
  <2> DEFINE l == [task[Host] EXCEPT !.step = "pausedWatch"]
  <2>1. task[Host] \in Local /\ task[Host].step = "hold" /\ Go(Host, l)
    BY <1>0, <1>2, <1>7 DEF NetlostHold
  <2>2. l \in Local /\ l.step = "pausedWatch"
    BY <2>1, MoveOK, StepSets DEF PauseHolders
  <2> HIDE DEF l
  <2>3. task[Host].step \notin RecycleSteps \cup RebindHolders /\ l.step \notin RecycleSteps
    BY <2>1, <2>2, StepSets DEF PauseHolders
  <2>4. Follows(task[Host], l)
    BY <2>1, <2>2, <2>3, PlainFollows
  <2> QED
    BY <1>0, <2>1, <2>2, <2>3, <2>4, GoKept
<1>8. CASE \E p \in Thread : task[p] = Idle /\ (Become(p, At("resume")) \/ Become(p, OnHandover))
  <2>1. PICK p \in Thread : task[p] = Idle /\ (Become(p, At("resume")) \/ Become(p, OnHandover))
    BY <1>8
  <2>2. /\ At("resume") \in Local /\ At("resume").step \notin RecycleSteps
        /\ OnHandover \in Local /\ OnHandover.step \notin RecycleSteps
    BY AtOK, StartOK, StepSets DEF Reason
  <2>3. Follows(task[p], At("resume")) /\ Follows(task[p], OnHandover)
    BY <1>0, <1>2, <1>3, <2>1, <2>2, PlainFollows
  <2> QED
    BY <1>0, <2>1, <2>2, <2>3, BecomeKept
<1>9. CASE OnWake
  <2>1. Waker \in Task /\ task[Waker] = Idle
        /\ (Become(Waker, Holding("wakeProbe")) \/ Go(Waker, At("softArm")))
    BY <1>0, <1>9 DEF OnWake
  <2>2. /\ Holding("wakeProbe") \in Local /\ Holding("wakeProbe").step \notin RecycleSteps
        /\ At("softArm") \in Local /\ At("softArm").step \notin RecycleSteps
    BY HoldingOK, AtOK, StepSets DEF PauseHolders
  <2>3. Follows(task[Waker], Holding("wakeProbe")) /\ Follows(task[Waker], At("softArm"))
    BY <1>2, <1>3, <2>1, <2>2, PlainFollows
  <2> QED
    BY <1>0, <1>3, <2>1, <2>2, <2>3, BecomeKept, GoKept
<1>10. Windows \/ EngineUp \/ PathUp \/ PathDown \/ DialSucceeds => task' = task
  BY DEF Windows, GraceEnds, RebindGapEnds, RecycleAges, EngineUp, PathUp, PathDown, DialSucceeds
<1>11. DialTimesOut => task' = task \/ \E q \in Pool : task[q] = Idle /\ Become(q, Heal("plain"))
  BY DEF DialTimesOut
<1>12. ZeroPaths => \E q \in Pool : task[q] = Idle /\ Become(q, Heal("plain"))
  BY DEF ZeroPaths
<1>13. Netback \/ NetworkChanged =>
         \E p \in Thread : task[p] = Idle /\ (Become(p, At("resume")) \/ Become(p, OnHandover))
  BY GuardAssumption DEF Netback, NetworkChanged
<1> QED
  BY <1>4, <1>5, <1>6, <1>7, <1>8, <1>9, <1>10, <1>11, <1>12, <1>13

\* Locals outside the restart and the rebind.
PlainLocal == {l \in Local : l.step \notin RecycleSteps \cup RebindHolders}

\* The locals that most steps end in are plain.
LEMMA Plain ==
    /\ Idle \in PlainLocal /\ OnHandover \in PlainLocal
    /\ \A r \in Reason : Heal(r) \in PlainLocal /\ Request(r) \in PlainLocal
    /\ At("softArm") \in PlainLocal /\ At("handover") \in PlainLocal
BY IdleOK, StartOK, AtOK, StepSets DEF PlainLocal, Reason

\* A goroutine outside the restart and the rebind moves on inside that world.
LEMMA PlainKept ==
    ASSUME TaskOK, NEW p \in Task, task[p].step \notin RecycleSteps \cup RebindHolders,
           NEW l \in PlainLocal, Become(p, l) \/ Go(p, l)
    PROVE  TaskOK' /\ Kept
<1>1. task[p] \in Local /\ l \in Local /\ l.step \notin RecycleSteps
  BY DEF TaskOK, PlainLocal
<1>2. Follows(task[p], l)
  BY <1>1, PlainFollows
<1> QED
  BY <1>1, <1>2, BecomeKept, GoKept

\* The steps of the offline hold and of the watch after it.
LEMMA HoldKept ==
    ASSUME TaskOK, VarsOK, NEW p \in Task,
           PausedWatchEnds(p) \/ ProbeSucceeds(p) \/ ProbeFails(p) \/ Probed(p) \/ Release(p)
    PROVE  TaskOK' /\ Kept
<1>1. task[p] \in Local
  BY DEF TaskOK
<1>2. task[p].step \in PauseHolders \cup {"release"}
  BY DEF PausedWatchEnds, ProbeSucceeds, ProbeFails, Probed, Release, PauseHolders
<1>3. task[p].step \notin RecycleSteps \cup RebindHolders
  BY <1>2, StepSets
<1>4. CASE PausedWatchEnds(p) \/ ProbeFails(p)
  BY <1>3, <1>4, Plain, PlainKept DEF PausedWatchEnds, ProbeFails, End
<1>5. CASE ProbeSucceeds(p)
  <2> DEFINE l == [task[p] EXCEPT !.step = "probed"]
  <2>1. l \in Local /\ l.step = "probed"
    BY <1>1, MoveOK, StepSets DEF PauseHolders
  <2>2. Become(p, l)
    BY <1>5 DEF ProbeSucceeds
  <2> HIDE DEF l
  <2>3. l \in PlainLocal
    BY <2>1, StepSets DEF PlainLocal, PauseHolders
  <2> QED
    BY <1>3, <2>2, <2>3, PlainKept
<1>6. CASE Probed(p)
  <2> DEFINE l == [At("resume") EXCEPT !.source = "probe", !.need = pendingRecycle,
                                       !.reason = pendingReason]
  <2>1. Become(p, l) \/ Become(p, Idle)
    BY <1>6 DEF Probed, End
  <2>2. pendingRecycle \in BOOLEAN /\ pendingReason \in Reason
    BY DEF VarsOK, FlagsOK, WordsOK
  <2>3. At("resume") \in Local /\ At("resume").step = "resume" /\ "probe" \in Source
    BY AtOK, StepSets DEF Source
  <2>4. l \in Local /\ l.step = "resume"
    <3> DEFINE k == At("resume")
               n == pendingRecycle
               r == pendingReason
    <3>1. k \in Local /\ k.step = "resume" /\ n \in BOOLEAN /\ r \in Reason
      BY <2>2, <2>3
    <3> HIDE DEF k, n, r
    <3>2. /\ [k EXCEPT !.source = "probe", !.need = n, !.reason = r] \in Local
          /\ [k EXCEPT !.source = "probe", !.need = n, !.reason = r].step = "resume"
      BY <2>3, <3>1 DEF Local
    <3> QED
      BY <3>2 DEF k, n, r
  <2> HIDE DEF l
  <2>5. l \in PlainLocal
    BY <2>4, StepSets DEF PlainLocal
  <2> QED
    BY <1>3, <2>1, <2>5, Plain, PlainKept
<1>7. CASE Release(p)
  <2>1. task[p].reason \in Reason
    BY <1>1, Fields
  <2>2. \/ Become(p, At("handover")) \/ Go(p, Heal(task[p].reason)) \/ Go(p, At("softArm"))
    BY <1>7 DEF Release, HealOrWatch
  <2> QED
    BY <1>3, <2>1, <2>2, Plain, PlainKept
<1> QED
  BY <1>4, <1>5, <1>6, <1>7

\* resumeFromPause: it only touches the pause generation.
LEMMA ResumeKept ==
    ASSUME TaskOK, VarsOK, NEW p \in Task, Resume(p)
    PROVE  TaskOK' /\ Kept
<1>1. task[p] \in Local /\ task[p].reason \in Reason
  BY Fields DEF TaskOK
<1>2. task[p].step \notin RecycleSteps \cup RebindHolders
  BY StepSets DEF Resume
<1> DEFINE l == IF task[p].source = "netback"
                THEN [At("release") EXCEPT !.need = pendingRecycle, !.reason = pendingReason]
                ELSE [task[p] EXCEPT !.step = "release"]
<1>3. \/ Become(p, Idle) \/ Become(p, At("handover"))
      \/ Go(p, Heal(task[p].reason)) \/ Go(p, At("softArm"))
      \/ Bumped(p, PauseHolders, l)
  BY DEF Resume, HealOrWatch, End, Bumped
<1>4. l \in Local /\ l.step = "release"
  <2>1. pendingRecycle \in BOOLEAN /\ pendingReason \in Reason
    BY DEF VarsOK, FlagsOK, WordsOK
  <2>2. "release" \in Steps
    BY StepSets
  <2>3. CASE task[p].source = "netback"
    <3>1. l = [step |-> "release", reason |-> pendingReason, source |-> "netback",
               need |-> pendingRecycle, current |-> FALSE]
      BY <2>3 DEF At
    <3> HIDE DEF l
    <3> QED
      BY <2>1, <2>2, <3>1 DEF Local, Source
  <2>4. CASE task[p].source # "netback"
    <3>1. l = [task[p] EXCEPT !.step = "release"]
      BY <2>4
    <3> HIDE DEF l
    <3> QED
      BY <1>1, <2>2, <3>1, MoveOK
  <2> QED
    BY <2>3, <2>4
<1> HIDE DEF l
<1>5. CASE Bumped(p, PauseHolders, l)
  <2>1. l.step \notin RecycleSteps
    BY <1>4, StepSets
  <2>2. Follows(task[p], l)
    BY <1>1, <1>2, <1>4, <2>1, PlainFollows
  <2>3. PauseHolders \in SUBSET Steps /\ PauseHolders \cap RebindHolders = {}
    BY StepSets
  <2> QED
    BY <1>4, <1>5, <2>2, <2>3, BumpKept
<1> QED
  BY <1>1, <1>2, <1>3, <1>5, Plain, PlainKept

\* heal, the watch after a resume and the requests that are not accepted.
LEMMA PlainStepsKept ==
    ASSUME TaskOK, VarsOK, NEW p \in Task,
           \/ HealStart(p) \/ HealGap(p) \/ SoftArm(p) \/ SoftCheck(p) \/ RequestDropped(p)
           \/ RequestWhileExiting(p) \/ RequestDeferred(p) \/ RequestExhausted(p)
    PROVE  TaskOK' /\ Kept
<1>1. task[p].step \in {"heal", "healGap", "softArm", "soft", "request"}
  BY DEF HealStart, HealGap, SoftArm, SoftCheck, RequestDropped, RequestWhileExiting,
         RequestDeferred, RequestExhausted
<1>2. task[p].step \notin RecycleSteps \cup RebindHolders
  BY <1>1, StepSets
<1>3. CASE HealStart(p)
  <2> DEFINE l == [At("healGap") EXCEPT !.need = rebindInFlight]
  <2>1. \/ Become(p, Request("escalated")) \/ Become(p, Idle) \/ Become(p, Request("plain"))
        \/ Become(p, l) \/ Become(p, OnHandover)
    BY <1>3 DEF HealStart
  <2>2. rebindInFlight \in BOOLEAN
    BY DEF VarsOK, FlagsOK
  <2>3. At("healGap") \in Local /\ At("healGap").step = "healGap"
    BY AtOK, StepSets
  <2>4. l \in Local /\ l.step = "healGap"
    BY <2>2, <2>3, NeedOK
  <2> HIDE DEF l
  <2>5. l \in PlainLocal
    BY <2>4, StepSets DEF PlainLocal
  <2> QED
    BY <1>2, <2>1, <2>5, Plain, PlainKept DEF Reason
<1>4. CASE HealGap(p) \/ SoftCheck(p)
  <2>1. Become(p, Idle) \/ Become(p, Request("escalated")) \/ Become(p, Request("plain"))
    BY <1>4 DEF HealGap, SoftCheck, End
  <2> QED
    BY <1>2, <2>1, Plain, PlainKept DEF Reason
<1>5. CASE SoftArm(p)
  <2>1. Bumped(p, {"soft"}, Holding("soft"))
    BY <1>5 DEF SoftArm, Bumped
  <2>2. "soft" \in Steps /\ "soft" \notin RecycleSteps /\ {"soft"} \in SUBSET Steps
    BY StepSets
  <2>3. Holding("soft") \in Local /\ Holding("soft").step \notin RecycleSteps /\ task[p] \in Local
    BY <2>2, HoldingOK DEF TaskOK
  <2>4. Follows(task[p], Holding("soft"))
    BY <1>2, <2>3, PlainFollows
  <2> QED
    BY <2>1, <2>2, <2>3, <2>4, StepSets, BumpKept
<1>6. CASE RequestDropped(p) \/ RequestWhileExiting(p) \/ RequestDeferred(p) \/ RequestExhausted(p)
  <2>1. Become(p, Idle)
    BY <1>6 DEF RequestDropped, RequestWhileExiting, RequestDeferred, RequestExhausted, End
  <2> QED
    BY <1>2, <2>1, Plain, PlainKept
<1> QED
  BY <1>3, <1>4, <1>5, <1>6

\* The watchdog of a rebind passes the ownership on from step to step.
LEMMA WatchKept ==
    ASSUME TaskOK, NEW p \in Task, Rebind(p) \/ WatchPoll(p) \/ WatchTimeout(p)
    PROVE  TaskOK' /\ Kept
<1>1. task[p] \in Local /\ task[p].step \in RebindHolders
  BY DEF TaskOK, Rebind, WatchPoll, WatchTimeout, RebindHolders
<1>2. ASSUME NEW s \in RebindHolders
      PROVE  /\ [task[p] EXCEPT !.step = s] \in Local
             /\ Follows(task[p], [task[p] EXCEPT !.step = s])
  <2> DEFINE l == [task[p] EXCEPT !.step = s]
  <2>1. l \in Local /\ l.step = s /\ l.current = task[p].current
    BY <1>1, MoveOK, StepSets
  <2> HIDE DEF l
  <2>2. Follows(task[p], l)
    BY <1>1, <2>1, StepSets DEF Follows
  <2> QED
    BY <2>1, <2>2 DEF l
<1>3. {"settle", "watch", "unflag", "giveUp"} \subseteq RebindHolders
      /\ task[p].step \notin RecycleSteps
  BY <1>1, StepSets DEF RebindHolders
<1>4. CASE Rebind(p)
  <2>1. \/ Go(p, [task[p] EXCEPT !.step = "settle"])
        \/ Become(p, [task[p] EXCEPT !.step = "giveUp"])
    BY <1>4 DEF Rebind
  <2> QED
    BY <1>2, <1>3, <2>1, GoKept, BecomeKept
<1>5. CASE WatchPoll(p)
  <2>1. PICK s \in {"unflag", "watch"} : Become(p, [task[p] EXCEPT !.step = s])
    BY <1>5 DEF WatchPoll
  <2> QED
    BY <1>2, <1>3, <2>1, BecomeKept
<1>6. CASE WatchTimeout(p)
  <2> DEFINE l == [task[p] EXCEPT !.step = "giveUp", !.reason = "escalated"]
  <2>1. Become(p, [task[p] EXCEPT !.step = "unflag"]) \/ Become(p, l)
    BY <1>6 DEF WatchTimeout
  <2>2. l \in Local /\ l.step = "giveUp" /\ l.current = task[p].current
    BY <1>1 DEF Local, Reason, Steps, RebindHolders
  <2> HIDE DEF l
  <2>3. Follows(task[p], l)
    BY <1>1, <1>3, <2>2, StepSets DEF Follows
  <2> QED
    BY <1>2, <1>3, <2>1, <2>2, <2>3, BecomeKept
<1> QED
  BY <1>4, <1>5, <1>6

\* A restart goes from step to step.
LEMMA RecycleKept ==
    ASSUME TaskOK, NEW p \in Task,
           RecycleStop(p) \/ RecycleStart(p) \/ RecycleReady(p) \/ RecycleFails(p)
    PROVE  TaskOK' /\ Kept
<1>1. task[p] \in Local /\ task[p].step \in RecycleSteps
  BY DEF TaskOK, RecycleStop, RecycleStart, RecycleReady, RecycleFails, RecycleSteps
<1>2. PICK s \in RecycleSteps : Become(p, [task[p] EXCEPT !.step = s])
  BY DEF RecycleStop, RecycleStart, RecycleReady, RecycleFails, RecycleSteps
<1> DEFINE l == [task[p] EXCEPT !.step = s]
<1>3. l \in Local /\ l.step = s /\ Become(p, l)
  BY <1>1, <1>2, MoveOK, StepSets
<1> HIDE DEF l
<1>4. Follows(task[p], l)
  BY <1>1, <1>3, StepSets DEF Follows
<1> QED
  BY <1>3, <1>4, BecomeKept

\* onHandover: the rebind it starts takes the place of any other.
LEMMA HandoverInvariant ==
    ASSUME IInv, VarsOK', NEW p \in Task, Handover(p)
    PROVE  IInv'
<1>1. TaskOK /\ task[p].step \notin RecycleSteps \cup RebindHolders /\ recycling' = recycling
  BY StepSets DEF Handover, IInv, cycle
<1>2. CASE exiting \/ recycling \/ rebindRecent
  <2>1. Become(p, Idle) /\ rebindInFlight' = rebindInFlight
    BY <1>2 DEF Handover, End
  <2>2. TaskOK' /\ Kept
    BY <1>1, <2>1, Plain, PlainKept
  <2> QED
    BY <1>1, <2>1, <2>2, KeptInvariant
<1>3. CASE ~(exiting \/ recycling \/ rebindRecent)
  <2>1. Bumped(p, RebindHolders, Holding("rebind"))
    BY <1>3 DEF Handover, Bumped
  <2>2. "rebind" \in Steps /\ "rebind" \in RebindHolders /\ "rebind" \notin RecycleSteps
        /\ RebindHolders \in SUBSET Steps
    BY StepSets DEF RebindHolders
  <2>3. /\ Holding("rebind") \in Local /\ Holding("rebind").step = "rebind"
        /\ Holding("rebind").current = TRUE
    BY <2>2, HoldingOK
  <2>4. /\ TaskOK' /\ task'[p] = Holding("rebind")
        /\ \A q \in Task \ {p} : task'[q].step = task[q].step
    BY <1>1, <2>1, <2>2, <2>3, BumpMoves
  <2>5. \A q \in Task : task'[q].step \in RecycleSteps <=> task[q].step \in RecycleSteps
    BY <1>1, <2>2, <2>3, <2>4
  <2>6. OneRecycle'
    BY <1>1, <2>5 DEF IInv, OneRecycle, Recycling
  <2>7. InFlightHasOwner'
    BY <2>2, <2>3, <2>4 DEF InFlightHasOwner
  <2> QED
    BY <2>4, <2>6, <2>7 DEF IInv
<1> QED
  BY <1>2, <1>3

\* finishRebind: the owner lowers the flag, anybody else leaves the owner alone.
LEMMA FinishInvariant ==
    ASSUME IInv, VarsOK', NEW p \in Task, FinishRebind(p)
    PROVE  IInv'
<1>1. TaskOK /\ task[p] \in Local /\ task[p].step \in RebindHolders /\ recycling' = recycling
  BY DEF FinishRebind, IInv, TaskOK, cycle, RebindHolders
<1>2. task[p].step \notin RecycleSteps
  BY <1>1, StepSets
<1>3. PICK l \in PlainLocal : Become(p, l) \/ Go(p, l)
  <2>1. \/ Become(p, Idle) \/ Go(p, Request("plain")) \/ Become(p, Request("escalated"))
    BY DEF FinishRebind, End
  <2> QED
    BY <2>1, Plain DEF Reason
<1>4. l \in Local /\ l.step \notin RecycleSteps
  BY <1>3 DEF PlainLocal
<1>5. CASE ~task[p].current
  <2>1. Follows(task[p], l)
    BY <1>2, <1>4, <1>5 DEF Follows
  <2>2. TaskOK' /\ Kept
    BY <1>1, <1>2, <1>3, <1>4, <2>1, BecomeKept, GoKept
  <2>3. rebindInFlight' => rebindInFlight
    BY DEF FinishRebind
  <2> QED
    BY <1>1, <2>2, <2>3, KeptInvariant
<1>6. CASE task[p].current
  <2>1. ~rebindInFlight'
    BY <1>6 DEF FinishRebind
  <2>2. PICK q \in Task :
          /\ TaskOK' /\ task'[q] = l /\ task[q].step \notin RecycleSteps
          /\ task'[p].step \notin RecycleSteps
          /\ \A r \in Task \ {p, q} : task'[r] = task[r]
    <3>1. CASE Become(p, l)
      BY <1>1, <1>2, <1>4, <3>1, BecomeMoves
    <3>2. CASE p \in Thread /\ \E q \in Pool : task[q] = Idle /\ task' = [task EXCEPT ![p] = Idle, ![q] = l]
      <4>1. PICK q \in Pool : task[q] = Idle /\ task' = [task EXCEPT ![p] = Idle, ![q] = l]
        BY <3>2
      <4>2. q \in Task /\ q # p
        BY <3>2, GuardAssumption DEF Task
      <4>3. /\ TaskOK' /\ task'[q] = l /\ task'[p] = Idle
            /\ \A r \in Task \ {p, q} : task'[r] = task[r]
        BY <1>1, <1>4, <4>1, <4>2, IdleOK DEF TaskOK
      <4>4. Idle.step \notin RecycleSteps
        BY IdleOK, StepSets
      <4> QED
        BY <4>1, <4>2, <4>3, <4>4
    <3> QED
      BY <1>3, <3>1, <3>2 DEF Go
  <2>3. \A r \in Task : task'[r].step \in RecycleSteps <=> task[r].step \in RecycleSteps
    BY <1>2, <1>4, <2>2
  <2>4. OneRecycle'
    BY <1>1, <2>3 DEF IInv, OneRecycle, Recycling
  <2> QED
    BY <2>1, <2>2, <2>4 DEF IInv, InFlightHasOwner
<1> QED
  BY <1>5, <1>6

\* requestRecycle takes the flag: nobody was restarting, p now is.
LEMMA AcceptInvariant ==
    ASSUME IInv, VarsOK', NEW p \in Task, RequestAccepted(p)
    PROVE  IInv'
<1> DEFINE l == [task[p] EXCEPT !.step = "stop"]
<1>1. /\ TaskOK /\ task[p] \in Local /\ task[p].step = "request"
      /\ ~recycling /\ recycling' = TRUE /\ rebindInFlight' = rebindInFlight /\ Become(p, l)
  BY DEF RequestAccepted, IInv, TaskOK, rebinds
<1>2. l \in Local /\ l.step \in RecycleSteps
  BY <1>1, MoveOK, StepSets DEF RecycleSteps
<1> HIDE DEF l
<1>3. TaskOK' /\ task'[p] = l /\ \A q \in Task \ {p} : task'[q] = task[q]
  BY <1>1, <1>2, BecomeMoves
<1>4. \A q \in Task : task[q].step \notin RecycleSteps
  BY <1>1 DEF IInv, OneRecycle, Recycling
<1>5. OneRecycle'
  BY <1>1, <1>2, <1>3, <1>4 DEF OneRecycle, Recycling
<1>6. InFlightHasOwner'
  <2>1. task[p].step \notin RebindHolders
    BY <1>1, StepSets
  <2> QED
    BY <1>1, <1>3, <2>1 DEF IInv, InFlightHasOwner
<1> QED
  BY <1>3, <1>5, <1>6 DEF IInv

\* The end of a restart: p was the only one and lowers the flag.
LEMMA EndInvariant ==
    ASSUME IInv, VarsOK', NEW p \in Task, RecycleFinish(p) \/ FailRecycle(p)
    PROVE  IInv'
<1>1. /\ TaskOK /\ task[p] \in Local /\ task[p].step \in RecycleSteps
      /\ ~recycling' /\ rebindInFlight' = rebindInFlight
  BY DEF RecycleFinish, FailRecycle, IInv, TaskOK, rebinds, RecycleSteps
<1>2. PICK l \in PlainLocal : Become(p, l)
  <2>1. Become(p, Idle) \/ Become(p, OnHandover)
    BY DEF RecycleFinish, FailRecycle, End
  <2> QED
    BY <2>1, Plain
<1>3. l \in Local /\ l.step \notin RecycleSteps
  BY <1>2 DEF PlainLocal
<1>4. TaskOK' /\ task'[p] = l /\ \A q \in Task \ {p} : task'[q] = task[q]
  BY <1>1, <1>2, <1>3, BecomeMoves
<1>5. \A q \in Task \ {p} : task[q].step \notin RecycleSteps
  BY <1>1 DEF IInv, OneRecycle, Recycling
<1>6. \A q \in Task : task'[q].step \notin RecycleSteps
  BY <1>3, <1>4, <1>5
<1>7. OneRecycle'
  BY <1>1, <1>6 DEF OneRecycle, Recycling
<1>8. InFlightHasOwner'
  <2>1. task[p].step \notin RebindHolders
    BY <1>1, StepSets
  <2> QED
    BY <1>1, <1>4, <2>1 DEF IInv, InFlightHasOwner
<1> QED
  BY <1>4, <1>7, <1>8 DEF IInv

\* Every step of a goroutine.
LEMMA StepInvariant ==
    ASSUME IInv, NEW p \in Task, Step(p) \/ RecycleFails(p) \/ ProbeFails(p)
    PROVE  IInv'
<1>0. VarsOK' /\ VarsOK /\ TaskOK
  BY StepVars DEF IInv
<1> USE DEF cycle, rebinds
<1>1. CASE \/ PausedWatchEnds(p) \/ ProbeSucceeds(p) \/ ProbeFails(p) \/ Probed(p) \/ Release(p)
  <2>1. recycling' = recycling /\ rebindInFlight' = rebindInFlight
    BY <1>1 DEF PausedWatchEnds, ProbeSucceeds, ProbeFails, Probed, Release
  <2> QED
    BY <1>0, <1>1, <2>1, HoldKept, KeptInvariant
<1>2. CASE Resume(p)
  <2>1. recycling' = recycling /\ rebindInFlight' = rebindInFlight
    BY <1>2 DEF Resume
  <2> QED
    BY <1>0, <1>2, <2>1, ResumeKept, KeptInvariant
<1>3. CASE \/ HealStart(p) \/ HealGap(p) \/ SoftArm(p) \/ SoftCheck(p) \/ RequestDropped(p)
           \/ RequestWhileExiting(p) \/ RequestDeferred(p) \/ RequestExhausted(p)
  <2>1. recycling' = recycling /\ rebindInFlight' = rebindInFlight
    BY <1>3 DEF HealStart, HealGap, SoftArm, SoftCheck, RequestDropped, RequestWhileExiting,
                RequestDeferred, RequestExhausted
  <2> QED
    BY <1>0, <1>3, <2>1, PlainStepsKept, KeptInvariant
<1>4. CASE Rebind(p) \/ WatchPoll(p) \/ WatchTimeout(p)
  <2>1. recycling' = recycling /\ rebindInFlight' = rebindInFlight
    BY <1>4 DEF Rebind, WatchPoll, WatchTimeout
  <2> QED
    BY <1>0, <1>4, <2>1, WatchKept, KeptInvariant
<1>5. CASE RecycleStop(p) \/ RecycleStart(p) \/ RecycleReady(p) \/ RecycleFails(p)
  <2>1. recycling' = recycling /\ rebindInFlight' = rebindInFlight
    BY <1>5 DEF RecycleStop, RecycleStart, RecycleReady, RecycleFails
  <2> QED
    BY <1>0, <1>5, <2>1, RecycleKept, KeptInvariant
<1>6. CASE Handover(p)
  BY <1>0, <1>6, HandoverInvariant
<1>7. CASE FinishRebind(p)
  BY <1>0, <1>7, FinishInvariant
<1>8. CASE RequestAccepted(p)
  BY <1>0, <1>8, AcceptInvariant
<1>9. CASE RecycleFinish(p) \/ FailRecycle(p)
  BY <1>0, <1>9, EndInvariant
<1> QED
  BY <1>1, <1>2, <1>3, <1>4, <1>5, <1>6, <1>7, <1>8, <1>9 DEF Step

\* A stuttering step.
LEMMA StutterInvariant ==
    ASSUME IInv, UNCHANGED vars
    PROVE  IInv'
BY DEF IInv, VarsOK, FlagsOK, WordsOK, TaskOK, OneRecycle, Recycling, InFlightHasOwner,
       vars, offline, cycle, rebinds, dials, engine

\* The guard starts inside the invariant.
LEMMA InitInvariant == Init => IInv
<1> SUFFICES ASSUME Init PROVE IInv
  OBVIOUS
<1>1. VarsOK
  <2>1. FlagsOK
    BY Zenon DEF Init, FlagsOK
  <2>2. WordsOK
    BY GuardAssumption DEF Init, WordsOK, Reason
  <2> QED
    BY <2>1, <2>2 DEF VarsOK
<1>2. TaskOK /\ \A p \in Task : task[p].step = "idle"
  BY IdleOK DEF Init, TaskOK
<1>3. OneRecycle
  BY <1>2 DEF Init, OneRecycle, Recycling, RecycleSteps
<1> QED
  BY <1>1, <1>2, <1>3 DEF Init, IInv, InFlightHasOwner

\* IInv is an invariant of the guard: the types, the single restart and the
\* owned rebind hold together, whatever the goroutines, events and failures.
THEOREM Invariant == Spec => []IInv
<1>1. ASSUME IInv, [Next]_vars
      PROVE  IInv'
  <2>1. CASE Windows \/ EngineUp \/ PathUp \/ PathDown \/ DialSucceeds \/ DialTimesOut
             \/ ZeroPaths \/ Netlost \/ NetlostHold \/ Netback \/ NetworkChanged \/ OnWake
    BY <1>1, <2>1, OutsideInvariant
  <2>2. CASE \E p \in Task : Step(p) \/ RecycleFails(p) \/ ProbeFails(p)
    BY <1>1, <2>2, StepInvariant
  <2>3. CASE UNCHANGED vars
    BY <1>1, <2>3, StutterInvariant
  <2> QED
    BY <1>1, <2>1, <2>2, <2>3 DEF Next, Environment
<1> QED
  BY <1>1, InitInvariant, PTL DEF Spec

\* Type correctness: every field of the guard, recycles within its maximum
\* and dialFails within its threshold included, and every goroutine's locals.
THEOREM TypeCorrect == Spec => []TypeOK
<1>1. IInv => TypeOK
  BY DEF IInv, VarsOK, FlagsOK, WordsOK, TaskOK, TypeOK
<1> QED
  BY <1>1, Invariant, PTL

\* requestRecycle never lets two goroutines stop and start the engine at the
\* same time, and recycling is up exactly while one of them does.
THEOREM OneRecycleHolds == Spec => []OneRecycle
<1>1. IInv => OneRecycle
  BY DEF IInv
<1> QED
  BY <1>1, Invariant, PTL

\* rebindInFlight never outlives the goroutine that has to lower it, however
\* onHandover, rebindWatchdog and finishRebind of several rebinds interleave.
THEOREM InFlightHasOwnerHolds == Spec => []InFlightHasOwner
<1>1. IInv => InFlightHasOwner
  BY DEF IInv
<1> QED
  BY <1>1, Invariant, PTL

\* requestRecycle and failRecycle never decide to exit while the host is
\* offline: a restart that fails meanwhile is deferred instead.
THEOREM NeverFatalOfflineHolds == Spec => NeverFatalOffline
<1>1. ASSUME NEW p \in Task, Step(p) \/ RecycleFails(p) \/ ProbeFails(p)
      PROVE  exiting' /\ ~exiting => ~paused
  BY <1>1 DEF Step, RecycleFails, ProbeFails, PausedWatchEnds, ProbeSucceeds, Probed, Resume, Release,
         HealStart, HealGap, Handover, Rebind, WatchPoll, WatchTimeout, FinishRebind, SoftArm,
         SoftCheck, RequestDropped, RequestWhileExiting, RequestDeferred, RequestExhausted,
         RequestAccepted, RecycleStop, RecycleStart, RecycleReady, RecycleFinish, FailRecycle, cycle
<1>2. [Next]_vars => [exiting' /\ ~exiting => ~paused]_vars
  <2> SUFFICES ASSUME Next PROVE exiting' /\ ~exiting => ~paused
    OBVIOUS
  <2>1. CASE \E p \in Task : Step(p) \/ RecycleFails(p) \/ ProbeFails(p)
    BY <1>1, <2>1
  <2>2. CASE Windows \/ EngineUp \/ PathUp \/ PathDown \/ DialSucceeds \/ DialTimesOut
             \/ ZeroPaths \/ Netlost \/ NetlostHold \/ Netback \/ NetworkChanged \/ OnWake
    BY <2>2 DEF Windows, GraceEnds, RebindGapEnds, RecycleAges, EngineUp, PathUp, PathDown,
           DialSucceeds, DialTimesOut, ZeroPaths, Netlost, NetlostHold, Netback, NetworkChanged,
           OnWake, cycle
  <2> QED
    BY <2>1, <2>2 DEF Next, Environment
<1> QED
  BY <1>2, PTL DEF Spec, NeverFatalOffline

-----------------------------------------------------------------------------
(* PauseHasProbe: whoever is to end the pause hands that duty on.          *)

PauseEnders == {"hold", "pausedWatch", "probed"}

\* p moves; the others stay, except that an idle goroutine may be started and
\* that a generation of no interest to the pause may grow old.
Moves(p) ==
    \A r \in Task \ {p} :
        \/ task'[r] = task[r] \/ task[r] = Idle
        \/ task[r].step \notin PauseHolders \cup {"resume"}

\* The sets of steps that matter to the pause.
LEMMA PauseSteps ==
    /\ PauseEnders \subseteq PauseHolders /\ "resume" \notin PauseHolders
    /\ "idle" \notin PauseHolders \cup {"resume"}
    /\ (RecycleSteps \cup RebindHolders \cup {"wakeProbe", "release", "handover", "heal",
          "healGap", "request", "softArm", "soft"}) \cap (PauseEnders \cup {"resume"}) = {}
    /\ (RebindHolders \cup {"soft"}) \cap (PauseHolders \cup {"resume"}) = {}
BY DEF PauseEnders, PauseHolders, RecycleSteps, RebindHolders

\* EndsPause by the step alone.
LEMMA EndsPauseStep ==
    ASSUME NEW p \in Task
    PROVE  EndsPause(p) <=> \/ task[p].step \in PauseEnders /\ task[p].current
                            \/ task[p].step = "resume"
BY DEF EndsPause, PauseEnders

\* Become and Go move nobody else who is at work.
LEMMA MoveMoves ==
    ASSUME TaskOK, NEW p \in Task, NEW l, Become(p, l) \/ Go(p, l)
    PROVE  Moves(p)
<1>1. CASE Become(p, l)
  BY <1>1 DEF TaskOK, Become, Moves
<1>2. CASE \E q \in Pool : task[q] = Idle /\ task' = [task EXCEPT ![p] = Idle, ![q] = l]
  BY <1>2 DEF TaskOK, Moves
<1> QED
  BY <1>1, <1>2 DEF Go

\* Neither does a new rebindGen or softResumeGen.
LEMMA BumpMovesNobody ==
    ASSUME TaskOK, NEW p \in Task, NEW l \in Local, NEW S \in SUBSET (RebindHolders \cup {"soft"}),
           Bumped(p, S, l)
    PROVE  Moves(p)
<1>1. S \in SUBSET Steps
  BY DEF Steps
<1>2. \A q \in Task \ {p} : task[q].step \notin S => task'[q] = task[q]
  BY <1>1, BumpMoves
<1> QED
  BY <1>2, PauseSteps DEF Moves

\* A goroutine moves that has no duty, or keeps it.
LEMMA DutyKept ==
    ASSUME NEW p \in Task, Moves(p), EndsPause(p) => EndsPause(p)',
           paused' => paused, exiting => exiting', PauseHasProbe
    PROVE  PauseHasProbe'
<1> SUFFICES ASSUME paused', ~exiting' PROVE \E q \in Task : EndsPause(q)'
  BY DEF PauseHasProbe
<1>1. PICK r \in Task : EndsPause(r)
  BY DEF PauseHasProbe
<1>2. CASE r = p
  BY <1>1, <1>2
<1>3. CASE r # p
  <2>1. task[r].step \in PauseHolders \cup {"resume"} /\ task[r] # Idle
    BY <1>1, EndsPauseStep, PauseSteps, IdleOK
  <2>2. task'[r] = task[r]
    BY <1>3, <2>1 DEF Moves
  <2>3. EndsPause(r)'
    BY <1>1, <2>2 DEF EndsPause
  <2> QED
    BY <2>3
<1> QED
  BY <1>2, <1>3

\* Time, the engine, connections and host events.
LEMMA OutsidePause ==
    ASSUME IInv, PauseHasProbe,
           Windows \/ EngineUp \/ PathUp \/ PathDown \/ DialSucceeds \/ DialTimesOut
             \/ ZeroPaths \/ Netlost \/ NetlostHold \/ Netback \/ NetworkChanged \/ OnWake
    PROVE  PauseHasProbe'
<1>0. TaskOK /\ Host \in Task /\ Pool \subseteq Task /\ Thread \subseteq Task
  BY GuardAssumption DEF IInv, Task
<1>1. exiting' = exiting
  BY DEF Windows, GraceEnds, RebindGapEnds, RecycleAges, EngineUp, PathUp, PathDown,
         DialSucceeds, DialTimesOut, ZeroPaths, Netlost, NetlostHold, Netback, NetworkChanged,
         OnWake, cycle
<1>2. Netlost \/ paused' = paused
  BY DEF Windows, GraceEnds, RebindGapEnds, RecycleAges, EngineUp, PathUp, PathDown,
         DialSucceeds, DialTimesOut, ZeroPaths, NetlostHold, Netback, NetworkChanged,
         OnWake, offline
<1>3. ASSUME NEW p \in Task, task[p] = Idle
      PROVE  ~EndsPause(p)
  BY <1>3, EndsPauseStep, IdleOK, PauseSteps
<1>4. CASE ~Netlost /\ task' = task
  BY <1>1, <1>2, <1>4 DEF PauseHasProbe, EndsPause
<1>5. CASE ~Netlost /\ \E p \in Task, l \in Local : task[p] = Idle /\ (Become(p, l) \/ Go(p, l))
  <2>1. PICK p \in Task, l \in Local : task[p] = Idle /\ (Become(p, l) \/ Go(p, l))
    BY <1>5
  <2>2. Moves(p) /\ ~EndsPause(p)
    BY <1>0, <1>3, <2>1, MoveMoves
  <2> QED
    BY <1>1, <1>2, <1>5, <2>2, DutyKept
<1>6. CASE Netlost
  <2>1. Holding("hold") \in Local /\ Holding("hold").step = "hold" /\ Holding("hold").current
    BY HoldingOK, StepSets DEF PauseHolders
  <2>2. Bumped(Host, PauseHolders, Holding("hold"))
    BY <1>6 DEF Netlost, Bumped
  <2>3. task'[Host] = Holding("hold")
    BY <1>0, <2>1, <2>2, StepSets, BumpMoves
  <2>4. EndsPause(Host)'
    BY <2>1, <2>3 DEF EndsPause
  <2> QED
    BY <1>0, <2>4 DEF PauseHasProbe
<1>7. CASE NetlostHold
  <2> DEFINE l == [task[Host] EXCEPT !.step = "pausedWatch"]
  <2>1. task[Host] \in Local /\ task[Host].step = "hold" /\ Go(Host, l) /\ ~Netlost
    BY <1>0, <1>7, IdleOK DEF NetlostHold, Netlost, TaskOK
  <2>2. l.step = "pausedWatch" /\ l.current = task[Host].current
    BY <2>1, MoveOK, StepSets DEF PauseHolders
  <2>3. Moves(Host)
    BY <1>0, <2>1, MoveMoves
  <2>4. CASE ~task[Host].current
    <3>1. ~EndsPause(Host)
      BY <1>0, <2>1, <2>4 DEF EndsPause
    <3> QED
      BY <1>0, <1>1, <1>2, <2>1, <2>3, <3>1, DutyKept
  <2>5. CASE task[Host].current
    <3> HIDE DEF l
    <3>1. PICK q \in Pool : task' = [task EXCEPT ![Host] = Idle, ![q] = l]
      BY <2>1, GuardAssumption DEF Go
    <3>2. task'[q] = l /\ q \in Task
      BY <1>0, <3>1 DEF TaskOK
    <3>3. EndsPause(q)'
      BY <2>2, <2>5, <3>2 DEF EndsPause
    <3> QED
      BY <3>2, <3>3 DEF PauseHasProbe
  <2> QED
    BY <2>4, <2>5
<1>8. /\ Heal("plain") \in Local /\ At("resume") \in Local /\ OnHandover \in Local
      /\ Holding("wakeProbe") \in Local /\ At("softArm") \in Local
  BY StartOK, AtOK, HoldingOK, StepSets DEF Reason, PauseHolders
<1>9. Windows \/ EngineUp \/ PathUp \/ PathDown \/ DialSucceeds => task' = task
  BY DEF Windows, GraceEnds, RebindGapEnds, RecycleAges, EngineUp, PathUp, PathDown, DialSucceeds
<1>10. DialTimesOut \/ ZeroPaths =>
         task' = task \/ \E q \in Task, l \in Local : task[q] = Idle /\ (Become(q, l) \/ Go(q, l))
  BY <1>0, <1>8, Zenon DEF DialTimesOut, ZeroPaths
<1>11. Netback \/ NetworkChanged =>
         \E p \in Task, l \in Local : task[p] = Idle /\ (Become(p, l) \/ Go(p, l))
  BY <1>0, <1>8, Zenon DEF Netback, NetworkChanged
<1>12. OnWake => \E p \in Task, l \in Local : task[p] = Idle /\ (Become(p, l) \/ Go(p, l))
  BY <1>0, <1>8, Zenon DEF OnWake
<1> QED
  BY <1>4, <1>5, <1>6, <1>7, <1>9, <1>10, <1>11, <1>12

\* The steps of a goroutine that has nothing to do with the pause.
LEMMA OtherStepsPause ==
    ASSUME IInv, PauseHasProbe, NEW p \in Task,
           task[p].step \notin PauseEnders \cup {"resume"},
           Step(p) \/ RecycleFails(p) \/ ProbeFails(p)
    PROVE  PauseHasProbe'
<1>0. TaskOK /\ VarsOK /\ task[p] \in Local /\ ~EndsPause(p)
  BY EndsPauseStep DEF IInv, TaskOK
<1>1. ~PausedWatchEnds(p) /\ ~Probed(p) /\ ~Resume(p)
  BY DEF PausedWatchEnds, Probed, Resume, PauseEnders
<1>2. paused' = paused /\ (exiting => exiting')
  <2>1. CASE FailRecycle(p)
    BY <2>1, Zenon DEF FailRecycle
  <2>2. CASE ~FailRecycle(p)
    BY <1>1, <2>2 DEF Step, RecycleFails, ProbeFails, ProbeSucceeds, Release,
         HealStart, HealGap, Handover, Rebind, WatchPoll, WatchTimeout, FinishRebind, SoftArm,
         SoftCheck, RequestDropped, RequestWhileExiting, RequestDeferred, RequestExhausted,
         RequestAccepted, RecycleStop, RecycleStart, RecycleReady, RecycleFinish, cycle, offline
  <2> QED
    BY <2>1, <2>2
<1> SUFFICES Moves(p)
  BY <1>0, <1>2, DutyKept
<1>3. CASE \E l : Become(p, l) \/ Go(p, l)
  BY <1>0, <1>3, MoveMoves
<1>4. CASE Handover(p)
  <2>1. CASE End(p)
    BY <1>3, <2>1 DEF End
  <2>2. CASE Bumped(p, RebindHolders, Holding("rebind"))
    <3>1. Holding("rebind") \in Local
      BY HoldingOK, StepSets DEF RebindHolders
    <3> QED
      BY <1>0, <2>2, <3>1, BumpMovesNobody
  <2> QED
    BY <1>4, <2>1, <2>2 DEF Handover, Bumped
<1>5. CASE SoftArm(p)
  <2>1. Holding("soft") \in Local
    BY HoldingOK, StepSets
  <2>2. Bumped(p, {"soft"}, Holding("soft"))
    BY <1>5 DEF SoftArm, Bumped
  <2> QED
    BY <1>0, <2>1, <2>2, BumpMovesNobody
<1>6. CASE ProbeFails(p) \/ ProbeSucceeds(p) \/ Release(p) \/ HealStart(p) \/ HealGap(p)
  BY <1>3, <1>6, Zenon DEF ProbeFails, ProbeSucceeds, Release, HealStart, HealGap, End, HealOrWatch
<1>7. CASE Rebind(p) \/ WatchPoll(p) \/ WatchTimeout(p) \/ FinishRebind(p) \/ SoftCheck(p)
  BY <1>3, <1>7, Zenon DEF Rebind, WatchPoll, WatchTimeout, FinishRebind, SoftCheck, End
<1>8. CASE RequestDropped(p) \/ RequestWhileExiting(p) \/ RequestDeferred(p)
           \/ RequestExhausted(p) \/ RequestAccepted(p)
  BY <1>3, <1>8, Zenon DEF RequestDropped, RequestWhileExiting, RequestDeferred, RequestExhausted,
                           RequestAccepted, End
<1>9. CASE RecycleStop(p) \/ RecycleStart(p) \/ RecycleReady(p) \/ RecycleFails(p)
           \/ RecycleFinish(p) \/ FailRecycle(p)
  BY <1>3, <1>9, Zenon DEF RecycleStop, RecycleStart, RecycleReady, RecycleFails, RecycleFinish,
                           FailRecycle, End
<1> QED
  BY <1>1, <1>4, <1>5, <1>6, <1>7, <1>8, <1>9 DEF Step

\* The steps of a goroutine that is to end the pause.
LEMMA EnderStepsPause ==
    ASSUME IInv, PauseHasProbe, NEW p \in Task, task[p].step \in PauseEnders \cup {"resume"},
           Step(p) \/ RecycleFails(p) \/ ProbeFails(p)
    PROVE  PauseHasProbe'
<1>0. TaskOK /\ VarsOK /\ task[p] \in Local
  BY DEF IInv, TaskOK
<1>1. PausedWatchEnds(p) \/ ProbeSucceeds(p) \/ Probed(p) \/ Resume(p)
  BY DEF PauseEnders, Step, RecycleFails, ProbeFails, Release,
         HealStart, HealGap, Handover, Rebind, WatchPoll, WatchTimeout, FinishRebind, SoftArm,
         SoftCheck, RequestDropped, RequestWhileExiting, RequestDeferred, RequestExhausted,
         RequestAccepted, RecycleStop, RecycleStart, RecycleReady, RecycleFinish, FailRecycle
<1>2. exiting' = exiting
  BY <1>1 DEF PausedWatchEnds, ProbeSucceeds, Probed, Resume, cycle
<1>3. CASE paused /\ ~exiting
  <2>1. CASE Resume(p)
    BY <1>3, <2>1 DEF Resume, PauseHasProbe
  <2>2. CASE PausedWatchEnds(p)
    <3>1. ~EndsPause(p) /\ paused' = paused
      BY <1>3, <2>2 DEF PausedWatchEnds, EndsPause, offline
    <3>2. Moves(p)
      BY <1>0, <2>2, MoveMoves DEF PausedWatchEnds, End
    <3> QED
      BY <1>2, <3>1, <3>2, DutyKept
  <2>3. CASE ProbeSucceeds(p)
    <3> DEFINE l == [task[p] EXCEPT !.step = "probed"]
    <3>1. l \in Local /\ l.step = "probed" /\ l.current = task[p].current
      BY <1>0, MoveOK, StepSets DEF PauseHolders
    <3>2. Become(p, l) /\ paused' = paused
      BY <2>3 DEF ProbeSucceeds, offline
    <3>3. task[p].step # "resume"
      BY <2>3 DEF ProbeSucceeds
    <3> HIDE DEF l
    <3>4. Moves(p) /\ task'[p] = l
      BY <1>0, <3>1, <3>2, MoveMoves, BecomeMoves
    <3>5. EndsPause(p) => EndsPause(p)'
      BY <3>1, <3>3, <3>4 DEF EndsPause
    <3> QED
      BY <1>2, <3>2, <3>4, <3>5, DutyKept
  <2>4. CASE Probed(p) /\ task[p].current
    <3> DEFINE l == [At("resume") EXCEPT !.source = "probe", !.need = pendingRecycle,
                                         !.reason = pendingReason]
    <3>1. l.step = "resume"
      BY DEF At
    <3>2. Become(p, l)
      BY <1>3, <2>4 DEF Probed
    <3> HIDE DEF l
    <3>3. task'[p].step = "resume"
      BY <1>0, <3>1, <3>2 DEF Become, TaskOK
    <3> QED
      BY <3>3 DEF PauseHasProbe, EndsPause
  <2>5. CASE Probed(p) /\ ~task[p].current
    <3>1. ~EndsPause(p) /\ paused' = paused /\ Become(p, Idle)
      BY <2>5 DEF Probed, EndsPause, offline, End
    <3>2. Moves(p)
      BY <1>0, <3>1, MoveMoves
    <3> QED
      BY <1>2, <3>1, <3>2, DutyKept
  <2> QED
    BY <1>1, <2>1, <2>2, <2>3, <2>4, <2>5
<1>4. CASE ~paused \/ exiting
  <2>1. paused' => paused
    BY <1>1 DEF PausedWatchEnds, ProbeSucceeds, Probed, Resume, offline
  <2> QED
    BY <1>2, <1>4, <2>1 DEF PauseHasProbe
<1> QED
  BY <1>3, <1>4

\* The hold after a netlost never hangs on the host's netback alone: as long as
\* the guard is paused, onNetlost, pausedWatchdog, probeSucceeded or
\* resumeFromPause of the current pause generation is under way, for any number
\* of goroutines and any order of losses, wakes, handovers and restarts.
THEOREM PauseHasProbeHolds == Spec => []PauseHasProbe
<1>1. Init => PauseHasProbe
  BY DEF Init, PauseHasProbe
<1>2. ASSUME IInv, PauseHasProbe, [Next]_vars
      PROVE  PauseHasProbe'
  <2>1. CASE Windows \/ EngineUp \/ PathUp \/ PathDown \/ DialSucceeds \/ DialTimesOut
             \/ ZeroPaths \/ Netlost \/ NetlostHold \/ Netback \/ NetworkChanged \/ OnWake
    BY <1>2, <2>1, OutsidePause
  <2>2. CASE \E p \in Task : Step(p) \/ RecycleFails(p) \/ ProbeFails(p)
    BY <1>2, <2>2, OtherStepsPause, EnderStepsPause
  <2>3. CASE UNCHANGED vars
    BY <1>2, <2>3 DEF PauseHasProbe, EndsPause, vars, offline, cycle
  <2> QED
    BY <1>2, <2>1, <2>2, <2>3 DEF Next, Environment
<1> QED
  BY <1>1, <1>2, Invariant, PTL DEF Spec
=============================================================================
