---------------------------- MODULE EngineProofs ----------------------------
(***************************************************************************)
(* StaticsOwned, PathsExact and GoodbyeOnce for any number of engines,     *)
(* workers, sessions and stop events.                                      *)
(*                                                                         *)
(* The inductive invariant has three parts: the record of every engine is  *)
(* sound (Records), the statics are owned as long as no two engines        *)
(* overlap (Owned), and a stop reaches every engine past its prologue      *)
(* (Reached).  Most actions change one record within what the last two     *)
(* look at (Touches), so one lemma covers them.                            *)
(***************************************************************************)
EXTENDS Engine, FiniteSetTheorems, TLAPS

Stages == {"none", "prologue", "setup", "loop", "goodbye", "closing", "ended", "failed"}

EngRec ==
    [stage : Stages, cancelled : BOOLEAN, bridge : BOOLEAN,
     session : [Stream -> {"down", "up", "goodbye"}],
     active : BOOLEAN, completed : BOOLEAN,
     leader : Stream \cup {Loop, Nobody}, at : {"idle", "send", "wait"}, left : SUBSET Stream]

\* The stages between Dispatcher::start and the end of the thread.
Bridged == {"loop", "goodbye", "closing"}

\* What the goodbye of an engine looks like: only a leader that still exists
\* is in the middle of it, and it turns to registered streams only.
Whole(r) ==
    /\ r \in EngRec
    /\ r.left \subseteq control_streams(r)
    /\ r.leader = Loop => r.stage = "goodbye"
    /\ r.leader \in Stream => r.session[r.leader] = "goodbye"

Sound(r) == Whole(r) /\ r.at \in (IF Leads(r) THEN {"send", "wait"} ELSE {"idle"})

\* The engine has published its token and has not begun its epilogue.
Published == {"setup", "loop", "goodbye"}

Records ==
    /\ eng \in [Eng -> EngRec] /\ \A e \in Eng : Sound(eng[e])
    /\ ENGINE_CANCEL \in Eng \cup {None} /\ ENGINE_PAUSE \in Eng \cup {None}
    /\ uplink \in Eng \cup {None}
    /\ ACTIVE_PATHS \in Int
    /\ host \in [at : {"off", "started", "settled"}, signals : Nat]
    /\ history \in [missed : BOOLEAN, overlap : BOOLEAN, forgotten : Nat, ups : Nat]

Owned ==
    /\ ~history.overlap =>
          /\ \A e, o \in Eng : ~Ended(e) /\ ~Ended(o) => e = o
          /\ \A e \in Eng : eng[e].stage \in Published /\ ~eng[e].cancelled =>
                /\ ENGINE_CANCEL = e /\ ENGINE_PAUSE = e
                /\ eng[e].stage # "setup" => uplink = e
    /\ uplink # None => eng[uplink].bridge
    /\ \A e \in Eng : eng[e].bridge => eng[e].stage \in Bridged

Reached ==
    ~history.missed =>
        /\ \A e \in Eng : eng[e].stage \in Published /\ ~eng[e].cancelled => ENGINE_CANCEL = e
        /\ \A e \in Eng : eng[e].stage = "prologue" =>
              /\ host.at \notin {"off", "settled"}
              /\ \A o \in Eng : o # e => /\ eng[o].stage # "prologue"
                                         /\ eng[o].stage \in Published => eng[o].cancelled
        /\ \A e \in Eng : host.at \in {"off", "settled"} /\ eng[e].stage \in Published
              => eng[e].cancelled

IInv == Records /\ Owned /\ Reached

-----------------------------------------------------------------------------
(* The records of an engine.                                               *)

\* What Owned and Reached look at is the same in q as in r.
Like(r, q) ==
    /\ q.cancelled = r.cancelled /\ q.bridge = r.bridge
    /\ \/ q.stage = r.stage
       \/ q.stage \in {"loop", "goodbye"} /\ r.stage \in {"loop", "goodbye"}

\* Dropping a session leaves a sound record, its own leadership dropped with it.
LEMMA WithoutSessionSound ==
    ASSUME NEW r, Whole(r), NEW s \in Stream, Sound(r) \/ r.leader = s
    PROVE  Sound(WithoutSession(r, s)) /\ Like(r, WithoutSession(r, s))
<1> DEFINE q == WithoutSession(r, s)
           t == [r.session EXCEPT ![s] = "down"]
<1>1. t \in [Stream -> {"down", "up", "goodbye"}] /\ t[s] = "down"
      /\ \A o \in Stream : o # s => t[o] = r.session[o]
  BY DEF Whole, EngRec
<1>2. CASE r.leader = s
  <2>1. q = [r EXCEPT !.session = t, !.leader = Nobody, !.at = "idle", !.left = {}]
    BY <1>2 DEF WithoutSession, Whole, EngRec
  <2> HIDE DEF q, t
  <2>2. q \in EngRec
    BY <1>1, <2>1 DEF Whole, EngRec
  <2>3. q.left = {} /\ q.leader = Nobody /\ q.at = "idle" /\ Like(r, q)
    BY <2>1 DEF Whole, EngRec, Like
  <2>4. Whole(q)
    BY <2>2, <2>3, ConstantsAssumption DEF Whole, Loop, Nobody
  <2> QED BY <2>3, <2>4 DEF Sound, Leads, q
<1>3. CASE r.leader # s
  <2>1. q = [r EXCEPT !.session = t, !.left = @ \ {s}]
    BY <1>3 DEF WithoutSession, Whole, EngRec
  <2> HIDE DEF q, t
  <2>2. q \in EngRec
    BY <1>1, <2>1 DEF Whole, EngRec
  <2>3. /\ q.left = r.left \ {s} /\ q.leader = r.leader /\ q.at = r.at /\ q.session = t
        /\ q.stage = r.stage /\ Like(r, q)
    BY <2>1 DEF Whole, EngRec, Like
  <2>4. Whole(q)
    BY <1>1, <1>3, <2>2, <2>3 DEF Whole, control_streams
  <2> QED BY <1>3, <2>3, <2>4 DEF Sound, Leads, q
<1> QED BY <1>2, <1>3

\* A leader that returns from request_disconnect leaves a sound record.
LEMMA FinishedSound ==
    ASSUME NEW r, Whole(r), Leads(r)
    PROVE  Sound(Finished(r)) /\ Like(r, Finished(r))
<1>1. CASE r.leader = Loop
  <2> DEFINE q == [r EXCEPT !.completed = TRUE, !.leader = Nobody, !.at = "idle",
                            !.left = {}, !.stage = "loop"]
  <2>1. Finished(r) = q
    BY <1>1 DEF Finished
  <2>2. q \in EngRec
    BY DEF Whole, EngRec, Stages
  <2> QED BY <1>1, <2>1, <2>2, ConstantsAssumption DEF Whole, Sound, EngRec, Like, Leads, Loop, Nobody
<1>2. CASE r.leader # Loop
  <2> DEFINE q == WithoutSession(r, r.leader)
  <2>1. r.leader \in Stream
    BY <1>2 DEF Whole, EngRec, Leads
  <2>2. Sound(q) /\ Like(r, q)
    BY <2>1, WithoutSessionSound
  <2>3. Finished(r) = [q EXCEPT !.completed = TRUE]
    BY <1>2 DEF Finished
  <2> HIDE DEF q
  <2> QED BY <2>2, <2>3 DEF Whole, Sound, EngRec, Like, control_streams, Leads
<1> QED BY <1>1, <1>2

\* The next turn of a leader leaves a sound record.
LEMMA TurnedSound ==
    ASSUME NEW r, Whole(r), Leads(r), NEW budget \in BOOLEAN
    PROVE  Sound(Turned(r, budget)) /\ Like(r, Turned(r, budget))
<1>1. Sound([r EXCEPT !.at = "send"]) /\ Like(r, [r EXCEPT !.at = "send"])
  BY DEF Whole, Sound, EngRec, Like, control_streams, Leads
<1> QED BY <1>1, FinishedSound DEF Turned

\* request_disconnect leaves a sound record, whoever calls it.
LEMMA EnteredSound ==
    ASSUME NEW r, Sound(r), NEW who \in Stream \cup {Loop},
           who = Loop => r.stage = "goodbye",
           who \in Stream => r.session[who] = "goodbye"
    PROVE  Sound(Entered(r, who)) /\ Like(r, Entered(r, who))
<1> DEFINE q == [r EXCEPT !.active = TRUE, !.completed = FALSE, !.leader = who,
                          !.left = control_streams(r)]
<1>1. q \in EngRec
  BY DEF Sound, Whole, EngRec, control_streams
<1>2. /\ q.stage = r.stage /\ q.cancelled = r.cancelled /\ q.bridge = r.bridge
      /\ q.session = r.session /\ q.leader = who /\ q.left = control_streams(r)
  BY DEF Sound, Whole, EngRec
<1>3. who # Nobody
  BY ConstantsAssumption DEF Loop, Nobody
<1>4. who # Loop => who \in Stream
  OBVIOUS
<1>5. control_streams(q) = control_streams(r)
  BY <1>2 DEF control_streams
<1>6. Whole(q) /\ Leads(q) /\ Like(r, q)
  <2> HIDE DEF q
  <2>1. q.leader = Loop => q.stage = "goodbye"
    BY <1>2
  <2>2. q.leader \in Stream => q.session[q.leader] = "goodbye"
    BY <1>2
  <2> QED BY <1>1, <1>2, <1>3, <1>5, <2>1, <2>2 DEF Whole, Leads, Like
<1>7. Entered(r, who) = IF r.active THEN r ELSE Turned(q, TRUE)
  BY DEF Entered
<1> HIDE DEF q
<1>8. Sound(Turned(q, TRUE)) /\ Like(q, Turned(q, TRUE))
  BY <1>6, TurnedSound
<1> QED BY <1>6, <1>7, <1>8 DEF Like

-----------------------------------------------------------------------------
(* Actions that change one record within what Owned and Reached look at.   *)

Touches(e, q) ==
    /\ Sound(q) /\ Like(eng[e], q)
    /\ eng' = [eng EXCEPT ![e] = q]
    /\ ACTIVE_PATHS' \in Int
    /\ UNCHANGED <<ENGINE_CANCEL, ENGINE_PAUSE, uplink>>
    /\ host' = host
    /\ history' \in [missed : {history.missed}, overlap : {history.overlap},
                      forgotten : Nat, ups : Nat]

\* Such an action preserves the invariant.
LEMMA TouchesKeeps ==
    ASSUME IInv, NEW e \in Eng, NEW q, Touches(e, q)
    PROVE  IInv'
<1>1. Records'
  BY DEF IInv, Records, Touches, Sound, Whole
<1>2. /\ history'.missed = history.missed /\ history'.overlap = history.overlap
      /\ \A o \in Eng : Like(eng[o], eng'[o])
  BY DEF IInv, Records, Touches, Like
<1>3. \A o \in Eng : /\ eng'[o].stage \in Published <=> eng[o].stage \in Published
                     /\ eng'[o].stage \in Bridged <=> eng[o].stage \in Bridged
                     /\ Ended(o)' <=> Ended(o)
                     /\ eng'[o].stage = "prologue" <=> eng[o].stage = "prologue"
                     /\ eng'[o].stage = "setup" <=> eng[o].stage = "setup"
                     /\ eng'[o].cancelled = eng[o].cancelled
                     /\ eng'[o].bridge = eng[o].bridge
  BY <1>2 DEF Like, Published, Bridged, Ended
<1>4. Owned'
  BY <1>2, <1>3 DEF IInv, Owned, Touches, Records, None
<1>5. Reached'
  BY <1>2, <1>3 DEF IInv, Reached, Touches
<1> QED BY <1>1, <1>4, <1>5 DEF IInv

\* The drops at the end of a session.
LEMMA SessionDropsTouches ==
    ASSUME IInv, NEW e \in Eng, NEW s \in Stream, SessionDrops(e, s)
    PROVE  IInv'
<1> DEFINE q == WithoutSession(eng[e], s)
<1>1. Sound(q) /\ Like(eng[e], q)
  BY WithoutSessionSound DEF IInv, Records, Sound
<1>2. Touches(e, q)
  BY <1>1 DEF SessionDrops, Touches, IInv, Records
<1> QED BY <1>2, TouchesKeeps

\* A step of the goodbye's leader: the paths it takes down are finitely many.
LEMMA LeaderStepTouches ==
    ASSUME IInv, NEW e \in Eng, NEW q, Sound(q), Like(eng[e], q), LeaderStep(e, q)
    PROVE  IInv'
<1> DEFINE lost == control_streams(eng[e]) \ control_streams(q)
<1>1. IsFiniteSet(lost)
  BY ConstantsAssumption, FS_Subset DEF control_streams
<1>2. Cardinality(lost) \in Nat
  BY <1>1, FS_CardinalityType
<1>3. ACTIVE_PATHS' \in Int
  BY <1>2 DEF LeaderStep, IInv, Records
<1>4. Touches(e, q)
  BY <1>3 DEF LeaderStep, Touches, IInv, Records
<1> QED BY <1>4, TouchesKeeps

\* The leader's steps.
LEMMA LeadingKeeps == ASSUME IInv, NEW e \in Eng, Leading(e) PROVE IInv'
<1> DEFINE r == eng[e]
<1>1. Sound(r) /\ Whole(r) /\ r \in EngRec
  BY DEF IInv, Records, Sound
<1>2. ASSUME NEW s \in Stream
      PROVE  LET p == [r EXCEPT !.left = @ \ {s}]
             IN  Whole(p) /\ Like(r, p) /\ (Leads(r) => Leads(p))
                 /\ (Leads(r) => Sound([r EXCEPT !.at = "wait", !.left = @ \ {s}]))
                 /\ Like(r, [r EXCEPT !.at = "wait", !.left = @ \ {s}])
  BY <1>1 DEF Whole, Sound, EngRec, Like, Leads, control_streams
<1>3. r.at \in {"send", "wait"} => Leads(r)
  BY <1>1 DEF Sound
<1>4. CASE LeaderSends(e)
  <2>1. PICK s \in r.left : LeaderStep(e, [r EXCEPT !.at = "wait", !.left = @ \ {s}])
    BY <1>4 DEF LeaderSends
  <2>2. s \in Stream /\ Leads(r)
    BY <1>1, <1>3, <1>4 DEF EngRec, LeaderSends
  <2> HIDE DEF r
  <2>3. Sound([r EXCEPT !.at = "wait", !.left = @ \ {s}]) /\ Like(r, [r EXCEPT !.at = "wait", !.left = @ \ {s}])
    BY <1>2, <2>2
  <2> QED BY <2>1, <2>3, LeaderStepTouches DEF r
<1>5. CASE LeaderSkips(e)
  <2>1. PICK s \in Stream, budget \in BOOLEAN :
            LeaderStep(e, Turned([r EXCEPT !.left = @ \ {s}], budget))
    BY <1>5 DEF LeaderSkips
  <2>2. Leads(r)
    BY <1>3, <1>5 DEF LeaderSkips
  <2> DEFINE p == [r EXCEPT !.left = @ \ {s}]
  <2>3. Whole(p) /\ Leads(p) /\ Like(r, p)
    BY <1>2, <2>2
  <2>4. LeaderStep(e, Turned(p, budget))
    BY <2>1
  <2> HIDE DEF p, r
  <2>5. Sound(Turned(p, budget)) /\ Like(p, Turned(p, budget))
    BY <2>3, TurnedSound
  <2>6. Like(r, Turned(p, budget))
    BY <2>3, <2>5 DEF Like
  <2> QED BY <2>4, <2>5, <2>6, LeaderStepTouches DEF r
<1>6. CASE LeaderWaited(e)
  <2>1. PICK budget \in BOOLEAN : LeaderStep(e, Turned(r, budget))
    BY <1>6 DEF LeaderWaited
  <2>2. Leads(r)
    BY <1>3, <1>6 DEF LeaderWaited
  <2>3. Sound(Turned(r, budget)) /\ Like(r, Turned(r, budget))
    BY <1>1, <2>2, TurnedSound
  <2> QED BY <2>1, <2>3, LeaderStepTouches
<1> QED BY <1>4, <1>5, <1>6 DEF Leading

\* A session's steps.
LEMMA SessionStepKeeps ==
    ASSUME IInv, NEW e \in Eng, NEW s \in Stream, SessionStep(e, s)
    PROVE  IInv'
<1> DEFINE r == eng[e]
<1>1. Sound(r) /\ Whole(r) /\ r \in EngRec
  BY DEF IInv, Records, Sound
<1>2. ASSUME NEW place \in {"up", "goodbye"}, r.leader = s => place = "goodbye"
      PROVE  LET p == [r EXCEPT !.session[s] = place] IN Sound(p) /\ Like(r, p) /\ p.session[s] = place
  <2> DEFINE t == [r.session EXCEPT ![s] = place]
             p == [r EXCEPT !.session = t]
  <2>1. t \in [Stream -> {"down", "up", "goodbye"}] /\ t[s] = place
        /\ \A o \in Stream : o # s => t[o] = r.session[o]
    BY <1>1 DEF EngRec
  <2>2. [r EXCEPT !.session[s] = place] = p
    BY <1>1 DEF EngRec
  <2> HIDE DEF t
  <2>3. p \in EngRec /\ Like(r, p) /\ p.session = t /\ p.left = r.left
        /\ p.leader = r.leader /\ p.at = r.at /\ p.stage = r.stage
    BY <1>1, <2>1 DEF EngRec, Like
  <2> HIDE DEF p
  <2>4. Whole(p)
    BY <1>1, <1>2, <2>1, <2>3 DEF Whole, control_streams
  <2> QED BY <1>1, <2>1, <2>2, <2>3, <2>4 DEF Sound, Leads
<1>3. CASE SessionUp(e, s)
  <2> DEFINE p == [r EXCEPT !.session[s] = "up"]
  <2>1. r.leader # s
    BY <1>1, <1>3 DEF SessionUp, Whole
  <2>2. Sound(p) /\ Like(r, p)
    BY <1>2, <2>1
  <2>3. eng' = [eng EXCEPT ![e] = p]
    BY <1>3 DEF SessionUp, IInv, Records
  <2> HIDE DEF p
  <2>4. history' \in [missed : {history.missed}, overlap : {history.overlap},
                      forgotten : Nat, ups : Nat]
    BY <1>3 DEF SessionUp, IInv, Records
  <2>5. ACTIVE_PATHS' \in Int
    BY <1>3 DEF SessionUp, IInv, Records
  <2>6. Touches(e, p)
    BY <1>3, <2>2, <2>3, <2>4, <2>5 DEF SessionUp, Touches
  <2> QED BY <2>6, TouchesKeeps
<1>4. CASE SessionCancelled(e, s)
  <2> DEFINE p == [r EXCEPT !.session[s] = "goodbye"]
  <2>1. Sound(p) /\ Like(r, p) /\ p.session[s] = "goodbye"
    BY <1>2
  <2>2. eng' = [eng EXCEPT ![e] = Entered(p, s)]
    BY <1>4 DEF SessionCancelled
  <2> HIDE DEF p
  <2>3. Sound(Entered(p, s)) /\ Like(p, Entered(p, s))
    BY <2>1, EnteredSound, ConstantsAssumption
  <2>4. Like(r, Entered(p, s))
    BY <2>1, <2>3 DEF Like
  <2>5. Touches(e, Entered(p, s))
    BY <1>4, <2>2, <2>3, <2>4 DEF SessionCancelled, statics, Touches, IInv, Records
  <2> QED BY <2>5, TouchesKeeps
<1>5. CASE Answered(e, s)
  <2> DEFINE p == [r EXCEPT !.completed = TRUE]
  <2>1. Sound(p) /\ Like(r, p)
    BY <1>1 DEF Sound, Whole, EngRec, Like, Leads, control_streams
  <2>2. eng' = [eng EXCEPT ![e] = p]
    BY <1>5 DEF Answered, IInv, Records
  <2> HIDE DEF p
  <2>3. Touches(e, p)
    BY <1>5, <2>1, <2>2 DEF Answered, statics, Touches, IInv, Records
  <2> QED BY <2>3, TouchesKeeps
<1> QED
  BY <1>3, <1>4, <1>5, SessionDropsTouches
     DEF SessionStep, SessionLost, SessionAborted, FollowerReturns

\* The stop event in the select loop, and the end of the loop's wait.
LEMMA GoodbyeKeeps ==
    ASSUME IInv, NEW e \in Eng, StopRequested(e) \/ LoopFollowerReturns(e)
    PROVE  IInv'
<1> DEFINE r == eng[e]
<1>1. Sound(r) /\ Whole(r) /\ r \in EngRec
  BY DEF IInv, Records, Sound
<1>2. CASE StopRequested(e)
  <2> DEFINE p == [r EXCEPT !.stage = "goodbye"]
  <2>1. Sound(p) /\ Like(r, p) /\ p.stage = "goodbye"
    BY <1>1, <1>2 DEF StopRequested, Sound, Whole, EngRec, Stages, Like, Leads, control_streams
  <2>2. eng' = [eng EXCEPT ![e] = Entered(p, Loop)]
    BY <1>2 DEF StopRequested
  <2> HIDE DEF p
  <2>3. Sound(Entered(p, Loop)) /\ Like(p, Entered(p, Loop))
    BY <2>1, EnteredSound, ConstantsAssumption
  <2>4. Like(r, Entered(p, Loop))
    BY <2>1, <2>3 DEF Like
  <2>5. Touches(e, Entered(p, Loop))
    BY <1>2, <2>2, <2>3, <2>4 DEF StopRequested, Touches, IInv, Records
  <2> QED BY <2>5, TouchesKeeps
<1>3. CASE LoopFollowerReturns(e)
  <2> DEFINE p == [r EXCEPT !.stage = "loop"]
  <2>1. Sound(p) /\ Like(r, p)
    BY <1>1, <1>3 DEF LoopFollowerReturns, Sound, Whole, EngRec, Stages, Like, Leads, control_streams
  <2>2. eng' = [eng EXCEPT ![e] = p]
    BY <1>3 DEF LoopFollowerReturns, IInv, Records
  <2> HIDE DEF p
  <2>3. Touches(e, p)
    BY <1>3, <2>1, <2>2 DEF LoopFollowerReturns, Touches, IInv, Records
  <2> QED BY <2>3, TouchesKeeps
<1> QED BY <1>2, <1>3

-----------------------------------------------------------------------------
(* Actions that move an engine on or change the statics.                   *)

\* The record of engine e becomes q, which has another stage, token or bridge.
Moves(e, q) ==
    /\ Sound(q)
    /\ eng' = [eng EXCEPT ![e] = q]
    /\ {ENGINE_CANCEL', ENGINE_PAUSE', uplink'} \subseteq Eng \cup {None}
    /\ ACTIVE_PATHS' \in Int

\* Such an action keeps the records, if host and history stay as they are.
LEMMA MovesRecords ==
    ASSUME IInv, NEW e \in Eng, NEW q, Moves(e, q),
           host' \in [at : {"off", "started", "settled"}, signals : Nat],
           history' \in [missed : BOOLEAN, overlap : BOOLEAN, forgotten : Nat, ups : Nat]
    PROVE  Records' /\ eng'[e] = q /\ \A o \in Eng : o # e => eng'[o] = eng[o]
  BY DEF IInv, Records, Moves, Sound, Whole

Restage(r, stage, c, b) == [r EXCEPT !.stage = stage, !.cancelled = c, !.bridge = b]

\* A record without a leading loop may change its stage, token and bridge.
LEMMA Restaged ==
    ASSUME NEW r, Sound(r), r.leader # Loop,
           NEW stage \in Stages, NEW c \in BOOLEAN, NEW b \in BOOLEAN
    PROVE  /\ Sound(Restage(r, stage, c, b))
           /\ Restage(r, stage, c, b).stage = stage
           /\ Restage(r, stage, c, b).cancelled = c
           /\ Restage(r, stage, c, b).bridge = b
<1> DEFINE q == [r EXCEPT !.stage = stage, !.cancelled = c, !.bridge = b]
<1>1. q \in EngRec
  BY DEF Sound, Whole, EngRec
<1> QED BY <1>1 DEF Sound, Whole, EngRec, Leads, control_streams, Restage

\* The record of engine e changes its stage, token and bridge only.
Restages(e, stage, c, b) ==
    eng' = [eng EXCEPT ![e] = Restage(@, stage, c, b)]

\* The two steps that change two fields of the record of their engine.
LEMMA TwoFieldsRestaged ==
    ASSUME IInv, NEW e \in Eng
    PROVE  /\ StartDispatcher(e) => Restages(e, "loop", eng[e].cancelled, TRUE)
           /\ GroupsEnd(e) => Restages(e, "closing", TRUE, eng[e].bridge)
<1> DEFINE r == eng[e]
<1>1. r \in EngRec /\ eng = [o \in Eng |-> eng[o]]
  BY DEF IInv, Records
<1>2. [[r EXCEPT !.stage = "loop"] EXCEPT !.bridge = TRUE] = Restage(r, "loop", r.cancelled, TRUE)
  BY <1>1 DEF Restage, EngRec
<1>3. [[r EXCEPT !.stage = "closing"] EXCEPT !.cancelled = TRUE]
      = Restage(r, "closing", TRUE, r.bridge)
  BY <1>1 DEF Restage, EngRec
<1>4. ASSUME StartDispatcher(e)
      PROVE  eng' = [eng EXCEPT ![e] = [[r EXCEPT !.stage = "loop"] EXCEPT !.bridge = TRUE]]
  BY <1>1, <1>4 DEF StartDispatcher
<1>5. ASSUME GroupsEnd(e)
      PROVE  eng' = [eng EXCEPT ![e] = [[r EXCEPT !.stage = "closing"] EXCEPT !.cancelled = TRUE]]
  BY <1>1, <1>5 DEF GroupsEnd
<1> QED BY <1>2, <1>3, <1>4, <1>5, Zenon DEF Restages

\* What the provers see of such a step.
LEMMA RestagesRecords ==
    ASSUME IInv, NEW e \in Eng, eng[e].stage # "goodbye",
           NEW stage \in Stages, NEW c \in BOOLEAN, NEW b \in BOOLEAN, Restages(e, stage, c, b),
           {ENGINE_CANCEL', ENGINE_PAUSE', uplink'} \subseteq Eng \cup {None},
           ACTIVE_PATHS' \in Int,
           host' \in [at : {"off", "started", "settled"}, signals : Nat],
           history' \in [missed : BOOLEAN, overlap : BOOLEAN, forgotten : Nat, ups : Nat]
    PROVE  /\ Records' /\ \A o \in Eng : o # e => eng'[o] = eng[o]
           /\ eng'[e].stage = stage /\ eng'[e].cancelled = c /\ eng'[e].bridge = b
<1> DEFINE q == Restage(eng[e], stage, c, b)
<1>1. Sound(eng[e]) /\ eng[e].leader # Loop
  BY DEF IInv, Records, Sound, Whole
<1>2. Sound(q) /\ q.stage = stage /\ q.cancelled = c /\ q.bridge = b
  BY <1>1, Restaged
<1>3. eng' = [eng EXCEPT ![e] = q]
  BY DEF Restages, IInv, Records
<1> HIDE DEF q
<1>4. Moves(e, q)
  BY <1>2, <1>3 DEF Moves
<1> QED BY <1>2, <1>4, MovesRecords

\* An engine that has not been started, or has ended, is sound.
LEMMA UnstartedSound ==
    /\ Unstarted \in EngRec /\ Sound(Unstarted) /\ Unstarted.stage = "none"
    /\ LET q == [Unstarted EXCEPT !.stage = "ended"]
       IN  Sound(q) /\ q.stage = "ended" /\ q.cancelled = FALSE /\ q.bridge = FALSE
  BY ConstantsAssumption DEF Unstarted, EngRec, Sound, Whole, Leads, control_streams, Stages, Loop, Nobody

\* What does not move keeps its type.
LEMMA Types ==
    ASSUME IInv
    PROVE  /\ {ENGINE_CANCEL, ENGINE_PAUSE, uplink} \subseteq Eng \cup {None} /\ ACTIVE_PATHS \in Int
           /\ host \in [at : {"off", "started", "settled"}, signals : Nat]
           /\ history \in [missed : BOOLEAN, overlap : BOOLEAN, forgotten : Nat, ups : Nat]
           /\ \A e \in Eng : eng[e] \in EngRec /\ eng[e].stage \in Stages
                              /\ eng[e].cancelled \in BOOLEAN /\ eng[e].bridge \in BOOLEAN
                              /\ (eng[e].bridge => eng[e].stage \in Bridged)
<1>1. \A e \in Eng : eng[e] \in EngRec
  BY DEF IInv, Records
<1>2. \A r \in EngRec : r.stage \in Stages
  BY Zenon DEF EngRec
<1>3. \A r \in EngRec : r.cancelled \in BOOLEAN
  BY Zenon DEF EngRec
<1>4. \A r \in EngRec : r.bridge \in BOOLEAN
  BY Zenon DEF EngRec
<1>5. \A e \in Eng : eng[e].bridge => eng[e].stage \in Bridged
  BY DEF IInv, Owned
<1> QED BY <1>1, <1>2, <1>3, <1>4, <1>5 DEF IInv, Records

\* The sessions that are up are finitely many.
LEMMA SessionsCounted == Cardinality(SessionsUp) \in Nat
<1>1. IsFiniteSet(Eng)
  BY ConstantsAssumption, FS_Interval DEF Eng
<1>2. IsFiniteSet(Eng \X Stream)
  BY <1>1, ConstantsAssumption, FS_Product
<1>3. SessionsUp \subseteq Eng \X Stream
  BY DEF SessionsUp, Up
<1>4. IsFiniteSet(SessionsUp)
  BY <1>2, <1>3, FS_Subset
<1> QED BY <1>4, FS_CardinalityType

USE DEF Stages, Published, Bridged

\* The prologue and its failures.
LEMMA PrologueKeeps == ASSUME IInv, NEW e \in Eng, Prologue(e) PROVE IInv'
<1> DEFINE r == eng[e]
<1>1. CASE SetUp(e)
  <2>1. Restages(e, "setup", r.cancelled, r.bridge)
    BY <1>1 DEF SetUp, Restages, Restage, IInv, Records, EngRec
  <2>2. /\ ENGINE_CANCEL' = e /\ ENGINE_PAUSE' = e /\ uplink' = None /\ ACTIVE_PATHS' = 0
        /\ host' = host /\ r.stage = "prologue"
        /\ history' = [history EXCEPT !.forgotten = Cardinality(SessionsUp)]
    BY <1>1 DEF SetUp
  <2>3. /\ history' \in [missed : BOOLEAN, overlap : BOOLEAN, forgotten : Nat, ups : Nat]
        /\ history'.missed = history.missed /\ history'.overlap = history.overlap
    BY <2>2, Types, SessionsCounted
  <2>4. /\ Records' /\ \A o \in Eng : o # e => eng'[o] = eng[o]
        /\ eng'[e].stage = "setup" /\ eng'[e].cancelled = r.cancelled /\ eng'[e].bridge = r.bridge
    BY <2>1, <2>2, <2>3, Types, RestagesRecords
  <2>5. /\ ~Ended(e) /\ ~Ended(e)' /\ \A o \in Eng : o # e => (Ended(o)' <=> Ended(o))
        /\ \A o \in Eng : eng[o].stage \in Published => ~Ended(o)
    BY <2>2, <2>4 DEF Ended
  <2>6. Owned'
    BY <2>2, <2>3, <2>4, <2>5 DEF IInv, Owned
  <2>7. Reached'
    BY <2>2, <2>3, <2>4 DEF IInv, Reached
  <2> QED BY <2>4, <2>6, <2>7 DEF IInv
<1>2. CASE PrologueFails(e)
  <2>1. Restages(e, "failed", r.cancelled, r.bridge)
    BY <1>2 DEF PrologueFails, Restages, Restage, IInv, Records, EngRec
  <2>2. /\ Records' /\ \A o \in Eng : o # e => eng'[o] = eng[o]
        /\ eng'[e].stage = "failed" /\ eng'[e].cancelled = r.cancelled /\ eng'[e].bridge = r.bridge
    BY <1>2, <2>1, Types, RestagesRecords DEF PrologueFails, statics
  <2>3. Owned'
    BY <1>2, <2>2 DEF PrologueFails, statics, IInv, Owned, Ended, Records, None
  <2>4. Reached'
    BY <1>2, <2>2 DEF PrologueFails, statics, IInv, Reached
  <2> QED BY <2>2, <2>3, <2>4 DEF IInv
<1>3. CASE DispatcherFails(e)
  <2>1. Restages(e, "failed", r.cancelled, r.bridge)
    BY <1>3 DEF DispatcherFails, Restages, Restage, IInv, Records, EngRec
  <2>2. /\ Records' /\ \A o \in Eng : o # e => eng'[o] = eng[o]
        /\ eng'[e].stage = "failed" /\ eng'[e].cancelled = r.cancelled /\ eng'[e].bridge = r.bridge
    BY <1>3, <2>1, Types, RestagesRecords DEF DispatcherFails, statics
  <2>3. Owned'
    BY <1>3, <2>2 DEF DispatcherFails, statics, IInv, Owned, Ended, Records, None
  <2>4. Reached'
    BY <1>3, <2>2 DEF DispatcherFails, statics, IInv, Reached
  <2> QED BY <2>2, <2>3, <2>4 DEF IInv
<1>4. CASE StartDispatcher(e)
  <2>0. /\ ENGINE_CANCEL' = ENGINE_CANCEL /\ ENGINE_PAUSE' = ENGINE_PAUSE /\ uplink' = e
        /\ ACTIVE_PATHS' = ACTIVE_PATHS /\ host' = host /\ history' = history
        /\ r.stage = "setup"
    BY <1>4 DEF StartDispatcher
  <2>1. Restages(e, "loop", r.cancelled, TRUE)
    BY <1>4, TwoFieldsRestaged
  <2>2. /\ Records' /\ \A o \in Eng : o # e => eng'[o] = eng[o]
        /\ eng'[e].stage = "loop" /\ eng'[e].cancelled = r.cancelled /\ eng'[e].bridge = TRUE
    <3>1. {ENGINE_CANCEL', ENGINE_PAUSE', uplink'} \subseteq Eng \cup {None} /\ ACTIVE_PATHS' \in Int
          /\ host' = host /\ history' = history /\ r.stage = "setup"
      BY <2>0, Types
    <3>2. /\ eng[e].stage # "goodbye" /\ "loop" \in Stages
          /\ r.cancelled \in BOOLEAN /\ TRUE \in BOOLEAN
          /\ host' \in [at : {"off", "started", "settled"}, signals : Nat]
          /\ history' \in [missed : BOOLEAN, overlap : BOOLEAN, forgotten : Nat, ups : Nat]
      BY <3>1, Types
    <3> QED BY <2>1, <3>1, <3>2, RestagesRecords
  <2>3. uplink' = e /\ eng'[uplink'].bridge
    BY <2>0, <2>2
  <2>4. /\ ~Ended(e) /\ ~Ended(e)' /\ \A o \in Eng : o # e => (Ended(o)' <=> Ended(o))
        /\ \A o \in Eng : eng[o].stage \in Published => ~Ended(o)
    BY <2>0, <2>2 DEF Ended
  <2>5. ASSUME ~history.overlap, NEW o \in Eng, eng'[o].stage \in Published, ~eng'[o].cancelled
        PROVE  o = e /\ ENGINE_CANCEL' = e /\ ENGINE_PAUSE' = e
    BY <2>0, <2>2, <2>4, <2>5 DEF IInv, Owned
  <2>6. Owned'
    BY <2>0, <2>2, <2>3, <2>4, <2>5 DEF IInv, Owned
  <2>7. Reached'
    BY <2>0, <2>2 DEF IInv, Reached
  <2> QED BY <2>2, <2>6, <2>7 DEF IInv
<1> QED BY <1>1, <1>2, <1>3, <1>4 DEF Prologue

\* The loop sees the cancellation, or its groups end.
LEMMA CancellingKeeps ==
    ASSUME IInv, NEW e \in Eng, BeginEpilogue(e) \/ GroupsEnd(e)
    PROVE  IInv'
<1> DEFINE r == eng[e]
<1>1. PICK c \in BOOLEAN : Restages(e, "closing", c, r.bridge)
  <2>1. BeginEpilogue(e) => Restages(e, "closing", r.cancelled, r.bridge)
    BY DEF BeginEpilogue, Restages, Restage, IInv, Records, EngRec
  <2>2. GroupsEnd(e) => Restages(e, "closing", TRUE, r.bridge)
    BY TwoFieldsRestaged
  <2> QED BY <2>1, <2>2, Types
<1>2. /\ ENGINE_CANCEL' = ENGINE_CANCEL /\ ENGINE_PAUSE' = None /\ uplink' = uplink
      /\ ACTIVE_PATHS' = ACTIVE_PATHS /\ host' = host /\ history' = history /\ r.stage = "loop"
  BY DEF BeginEpilogue, GroupsEnd
<1>3. /\ Records' /\ \A o \in Eng : o # e => eng'[o] = eng[o]
      /\ eng'[e].stage = "closing" /\ eng'[e].cancelled = c /\ eng'[e].bridge = r.bridge
  <2>1. {ENGINE_CANCEL', ENGINE_PAUSE', uplink'} \subseteq Eng \cup {None} /\ ACTIVE_PATHS' \in Int
    BY <1>2, Types
  <2> QED BY <1>1, <1>2, <2>1, Types, RestagesRecords
<1>4. /\ ~Ended(e) /\ ~Ended(e)' /\ \A o \in Eng : o # e => (Ended(o)' <=> Ended(o))
      /\ \A o \in Eng : eng[o].stage \in Published => ~Ended(o)
  BY <1>2, <1>3 DEF Ended
<1>5. Owned'
  BY <1>2, <1>3, <1>4, Types DEF IInv, Owned, None
<1>6. Reached'
  BY <1>2, <1>3 DEF IInv, Reached
<1> QED BY <1>3, <1>5, <1>6 DEF IInv

Flag(r, c, b) == [r EXCEPT !.cancelled = c, !.bridge = b]

\* A record may change its token and bridge at any stage.
LEMMA FlagSound ==
    ASSUME NEW r, Sound(r), NEW c \in BOOLEAN, NEW b \in BOOLEAN
    PROVE  /\ Sound(Flag(r, c, b)) /\ Flag(r, c, b).stage = r.stage
           /\ Flag(r, c, b).cancelled = c /\ Flag(r, c, b).bridge = b
<1> DEFINE q == [r EXCEPT !.cancelled = c, !.bridge = b]
<1>1. q \in EngRec
  BY DEF Sound, Whole, EngRec
<1> QED BY <1>1 DEF Sound, Whole, EngRec, Leads, control_streams, Flag

\* A token is cancelled from outside.
LEMMA CancelledFromOutsideKeeps ==
    ASSUME IInv, NEW e \in Eng, CancelledFromOutside(e)
    PROVE  IInv'
<1> DEFINE r == eng[e]
           q == Flag(r, TRUE, r.bridge)
<1>1. eng' = [eng EXCEPT ![e] = q]
  <2>1. r \in EngRec
    BY Types
  <2>2. [r EXCEPT !.cancelled = TRUE] = q
    BY <2>1 DEF Flag, EngRec
  <2> QED BY <2>2 DEF CancelledFromOutside
<1>2. Sound(q) /\ q.stage = r.stage /\ q.cancelled = TRUE /\ q.bridge = r.bridge
  <2>1. Sound(r) /\ TRUE \in BOOLEAN /\ r.bridge \in BOOLEAN
    BY Types DEF IInv, Records
  <2> QED BY <2>1, FlagSound, Zenon
<1>3. UNCHANGED <<ENGINE_CANCEL, ENGINE_PAUSE, uplink, ACTIVE_PATHS, host, history>>
  BY DEF CancelledFromOutside, statics
<1> HIDE DEF q
<1>4. Moves(e, q)
  BY <1>1, <1>2, <1>3, Types DEF Moves
<1>5. Records' /\ eng'[e] = q /\ \A o \in Eng : o # e => eng'[o] = eng[o]
  BY <1>3, <1>4, Types, MovesRecords
<1>6. \A o \in Eng : (Ended(o)' <=> Ended(o)) /\ eng'[o].stage = eng[o].stage
                     /\ eng'[o].bridge = eng[o].bridge
                     /\ (eng[o].cancelled => eng'[o].cancelled)
  BY <1>2, <1>5 DEF Ended
<1>7. Owned'
  BY <1>3, <1>6, Types DEF IInv, Owned, None
<1>8. Reached'
  BY <1>3, <1>6 DEF IInv, Reached
<1> QED BY <1>5, <1>7, <1>8 DEF IInv

\* The bridge writer sees the cancellation.
LEMMA BridgeEndsKeeps == ASSUME IInv, NEW e \in Eng, BridgeEnds(e) PROVE IInv'
<1> DEFINE r == eng[e]
           q == Flag(r, r.cancelled, FALSE)
<1>1. eng' = [eng EXCEPT ![e] = q]
  BY Types DEF BridgeEnds, Flag, IInv, Records, EngRec
<1>2. Sound(q) /\ q.stage = r.stage /\ q.cancelled = r.cancelled /\ q.bridge = FALSE
  <2>1. Sound(r) /\ r.cancelled \in BOOLEAN /\ FALSE \in BOOLEAN
    BY Types DEF IInv, Records
  <2> QED BY <2>1, FlagSound
<1>3. UNCHANGED <<ENGINE_CANCEL, ENGINE_PAUSE, ACTIVE_PATHS, host, history>> /\ uplink' = None
      /\ r.bridge /\ r.cancelled
  BY DEF BridgeEnds
<1> HIDE DEF q
<1>4. Moves(e, q)
  BY <1>1, <1>2, <1>3, Types DEF Moves
<1>5. Records' /\ eng'[e] = q /\ \A o \in Eng : o # e => eng'[o] = eng[o]
  BY <1>3, <1>4, Types, MovesRecords
<1>6. \A o \in Eng : (Ended(o)' <=> Ended(o)) /\ eng'[o].stage = eng[o].stage
                     /\ (eng[o].cancelled <=> eng'[o].cancelled)
                     /\ (eng[o].stage \in Published => ~Ended(o))
  BY <1>2, <1>3, <1>5 DEF Ended
<1>7. ~Ended(e)
  BY <1>3, Types DEF Ended
<1>8. ~history.overlap => \A o \in Eng : eng[o].stage \in Published => o = e
  BY <1>6, <1>7 DEF IInv, Owned
<1>9. Owned'
  BY <1>2, <1>3, <1>5, <1>6, <1>8 DEF IInv, Owned, None
<1>10. Reached'
  BY <1>3, <1>6 DEF IInv, Reached
<1> QED BY <1>5, <1>9, <1>10 DEF IInv

\* The thread of an engine returns.
LEMMA EndEngineKeeps == ASSUME IInv, NEW e \in Eng, EndEngine(e) PROVE IInv'
<1> DEFINE r == eng[e]
           q == [Unstarted EXCEPT !.stage = "ended"]
<1>1. eng' = [eng EXCEPT ![e] = q]
  BY DEF EndEngine
<1>2. Sound(q) /\ q.stage = "ended" /\ q.cancelled = FALSE /\ q.bridge = FALSE
  BY UnstartedSound
<1>3. UNCHANGED <<ENGINE_CANCEL, ENGINE_PAUSE, uplink, ACTIVE_PATHS, host, history>> /\ ~r.bridge
      /\ r.stage = "closing"
  BY DEF EndEngine, statics
<1> HIDE DEF q
<1>4. Moves(e, q)
  BY <1>1, <1>2, <1>3, Types DEF Moves
<1>5. Records' /\ eng'[e] = q /\ \A o \in Eng : o # e => eng'[o] = eng[o]
  BY <1>3, <1>4, Types, MovesRecords
<1>6. Ended(e)' /\ ~Ended(e) /\ \A o \in Eng : o # e => (Ended(o)' <=> Ended(o))
  BY <1>2, <1>3, <1>5 DEF Ended
<1>7. Owned'
  BY <1>2, <1>3, <1>5, <1>6, Types DEF IInv, Owned, None
<1>8. Reached'
  BY <1>2, <1>3, <1>5 DEF IInv, Reached
<1> QED BY <1>5, <1>7, <1>8 DEF IInv

-----------------------------------------------------------------------------
(* The helper.                                                             *)

\* csqtt_engine_start.
LEMMA StartKeeps == ASSUME IInv, NEW e \in Eng, csqtt_engine_start(e) PROVE IInv'
<1> DEFINE r == eng[e]
<1>1. Restages(e, "prologue", r.cancelled, r.bridge)
  BY DEF csqtt_engine_start, Restages, Restage, IInv, Records, EngRec
<1>2. /\ ENGINE_CANCEL' = ENGINE_CANCEL /\ ENGINE_PAUSE' = ENGINE_PAUSE /\ uplink' = None
      /\ ACTIVE_PATHS' = ACTIVE_PATHS /\ host' = [host EXCEPT !.at = "started"]
      /\ r.stage = "none" /\ host.at \in {"off", "settled"}
      /\ history' = [history EXCEPT !.overlap = @ \/ \E o \in Eng : ~Ended(o)]
  BY DEF csqtt_engine_start
<1>3. /\ history' \in [missed : BOOLEAN, overlap : BOOLEAN, forgotten : Nat, ups : Nat]
      /\ history'.missed = history.missed
      /\ ~history'.overlap => ~history.overlap /\ \A o \in Eng : Ended(o)
  BY <1>2, Types
<1>4. /\ host' \in [at : {"off", "started", "settled"}, signals : Nat]
      /\ host'.at = "started"
  BY <1>2, Types
<1>5. /\ Records' /\ \A o \in Eng : o # e => eng'[o] = eng[o]
      /\ eng'[e].stage = "prologue" /\ eng'[e].cancelled = r.cancelled /\ eng'[e].bridge = r.bridge
  <2>1. {ENGINE_CANCEL', ENGINE_PAUSE', uplink'} \subseteq Eng \cup {None} /\ ACTIVE_PATHS' \in Int
    BY <1>2, Types
  <2> QED BY <1>1, <1>2, <1>3, <1>4, <2>1, Types, RestagesRecords
<1>6. \A o \in Eng : (o # e => (Ended(o)' <=> Ended(o))) /\ (eng[o].stage \in Published => ~Ended(o))
  BY <1>5 DEF Ended
<1>7. Owned'
  BY <1>2, <1>3, <1>5, <1>6 DEF IInv, Owned, None
<1>8. Reached'
  BY <1>2, <1>3, <1>4, <1>5 DEF IInv, Reached
<1> QED BY <1>5, <1>7, <1>8 DEF IInv

\* csqtt_engine_stop: the published token is cancelled.
LEMMA StopKeeps == ASSUME IInv, csqtt_engine_stop PROVE IInv'
<1> DEFINE c(e) == eng[e].cancelled \/ (ENGINE_CANCEL = e /\ ~Ended(e))
           q(e) == Flag(eng[e], c(e), eng[e].bridge)
<1>1. eng' = [e \in Eng |-> q(e)]
  BY DEF csqtt_engine_stop, Flag, IInv, Records, EngRec
<1>2. \A e \in Eng : /\ Sound(q(e)) /\ q(e).stage = eng[e].stage
                     /\ q(e).cancelled = c(e) /\ q(e).bridge = eng[e].bridge
  <2> SUFFICES ASSUME NEW e \in Eng
               PROVE  /\ Sound(q(e)) /\ q(e).stage = eng[e].stage
                      /\ q(e).cancelled = c(e) /\ q(e).bridge = eng[e].bridge
    OBVIOUS
  <2>1. c(e) \in BOOLEAN
    BY Types
  <2>2. Sound(eng[e]) /\ eng[e].bridge \in BOOLEAN
    BY Types DEF IInv, Records
  <2> HIDE DEF c
  <2> QED BY <2>1, <2>2, FlagSound
<1>3. /\ ENGINE_CANCEL' = ENGINE_CANCEL /\ ENGINE_PAUSE' = None /\ uplink' = None
      /\ ACTIVE_PATHS' = ACTIVE_PATHS /\ host' = [host EXCEPT !.at = "settled"]
      /\ history' = [history EXCEPT !.missed = @ \/ \E e \in Eng : eng[e].stage = "prologue"]
  BY DEF csqtt_engine_stop
<1>4. /\ history' \in [missed : BOOLEAN, overlap : BOOLEAN, forgotten : Nat, ups : Nat]
      /\ history'.overlap = history.overlap
      /\ ~history'.missed => ~history.missed /\ \A e \in Eng : eng[e].stage # "prologue"
  BY <1>3, Types
<1>5. /\ host' \in [at : {"off", "started", "settled"}, signals : Nat]
      /\ host'.at = "settled"
  BY <1>3, Types
<1> HIDE DEF q
<1>6. \A e \in Eng : /\ Sound(eng'[e]) /\ eng'[e].stage = eng[e].stage
                     /\ eng'[e].cancelled = c(e) /\ eng'[e].bridge = eng[e].bridge
  BY <1>1, <1>2
<1>7. Records'
  BY <1>1, <1>2, <1>3, <1>4, <1>5, Types DEF Records, Sound, Whole
<1>8. \A e \in Eng : /\ Ended(e)' <=> Ended(e)
                     /\ eng[e].stage \in Published => ~Ended(e)
                     /\ eng[e].cancelled => eng'[e].cancelled
                     /\ ENGINE_CANCEL = e /\ ~Ended(e) => eng'[e].cancelled
  BY <1>6 DEF Ended
<1>9. Owned'
  BY <1>3, <1>4, <1>6, <1>8 DEF IInv, Owned, None
<1>10. Reached'
  BY <1>3, <1>4, <1>5, <1>6, <1>8 DEF IInv, Reached
<1> QED BY <1>7, <1>9, <1>10 DEF IInv

\* A stop event of the host leaves the engines and the statics alone.
LEMMA HostKeeps ==
    ASSUME IInv, signal_stop_disconnect
    PROVE  IInv'
<1>1. /\ UNCHANGED <<eng, ENGINE_CANCEL, ENGINE_PAUSE, uplink, ACTIVE_PATHS, history>>
      /\ host'.at \in {"off", "settled"} => host'.at = host.at
      /\ host' \in [at : {"off", "started", "settled"}, signals : Nat]
  BY Types DEF signal_stop_disconnect, statics
<1>2. Records'
  BY <1>1 DEF IInv, Records
<1>3. Owned'
  BY <1>1 DEF IInv, Owned, Ended
<1>4. Reached'
  BY <1>1 DEF IInv, Reached
<1> QED BY <1>2, <1>3, <1>4 DEF IInv

-----------------------------------------------------------------------------

\* The invariant holds when the process starts.
LEMMA InitInvariant == Init => IInv
<1> SUFFICES ASSUME Init PROVE IInv
  OBVIOUS
<1>1. eng = [e \in Eng |-> Unstarted] /\ Unstarted \in EngRec /\ Sound(Unstarted) /\ Unstarted.stage = "none"
  BY UnstartedSound DEF Init
<1>2. Records
  BY <1>1 DEF Init, Records
<1>3. \A e \in Eng : eng[e].stage = "none" /\ Ended(e) /\ ~eng[e].bridge
  BY <1>1 DEF Ended, Unstarted
<1>4. Owned
  BY <1>3 DEF Init, Owned, None
<1>5. Reached
  BY <1>3 DEF Init, Reached
<1> QED BY <1>2, <1>4, <1>5 DEF IInv

\* Every step preserves it.
LEMMA NextInvariant == IInv /\ [Next]_vars => IInv'
<1> SUFFICES ASSUME IInv, [Next]_vars PROVE IInv'
  OBVIOUS
<1>1. CASE UNCHANGED vars
  BY <1>1 DEF vars, statics, IInv, Records, Owned, Reached, Ended
<1>2. CASE HostStep
  BY <1>2, StartKeeps, StopKeeps, HostKeeps DEF HostStep
<1>3. ASSUME NEW e \in Eng,
             \/ Prologue(e) \/ Leading(e) \/ Closing(e)
             \/ StopRequested(e) \/ CancelledFromOutside(e) \/ LoopFollowerReturns(e)
             \/ GroupsEnd(e)
             \/ \E s \in Stream : SessionStep(e, s)
      PROVE  IInv'
  BY <1>3, PrologueKeeps, LeadingKeeps, CancellingKeeps, BridgeEndsKeeps, EndEngineKeeps,
     GoodbyeKeeps, CancelledFromOutsideKeeps, SessionStepKeeps DEF Closing
<1> QED BY <1>1, <1>2, <1>3 DEF Next

\* The invariant is as strong as StaticsOwned.
LEMMA InvariantImplies == IInv => StaticsOwned
<1> SUFFICES ASSUME IInv PROVE StaticsOwned
  OBVIOUS
<1>1. TypeOK
  BY Types DEF IInv, Records, Sound, Whole, EngRec, TypeOK
<1>2. SoleEngineOwnsStatics
  BY DEF IInv, Owned, SoleEngineOwnsStatics, Running
<1>3. StopMissesOnlyPrologues
  BY DEF IInv, Reached, StopMissesOnlyPrologues, Running
<1>4. BridgeIsServed
  BY DEF IInv, Owned, BridgeIsServed
<1> QED BY <1>1, <1>2, <1>3, <1>4 DEF StaticsOwned

\* The statics of ffi.rs and lib.rs serve the right engine, however often the
\* helper starts and stops engines and however many sessions they have.
THEOREM StaticsOwnedHolds == Spec => []StaticsOwned
<1>1. Spec => []IInv
  BY InitInvariant, NextInvariant, PTL DEF Spec
<1> QED BY <1>1, InvariantImplies, PTL

-----------------------------------------------------------------------------
(* PathsExact: every step changes ACTIVE_PATHS by the number of sessions   *)
(* it brings up or takes down.                                             *)

\* The streams of the record of engine e become those of q.
Counts(e, q) == eng' = [eng EXCEPT ![e] = q]

\* The sessions that are up, engine by engine.
LEMMA UpByEngine ==
    /\ IsFiniteSet(SessionsUp) /\ Cardinality(SessionsUp) \in Nat
    /\ SessionsUp \subseteq Eng \X Stream
    /\ \A e \in Eng, s \in Stream : <<e, s>> \in SessionsUp <=> s \in control_streams(eng[e])
<1>1. IsFiniteSet(Eng)
  BY ConstantsAssumption, FS_Interval DEF Eng
<1>2. IsFiniteSet(Eng \X Stream)
  BY <1>1, ConstantsAssumption, FS_Product
<1>3. SessionsUp \subseteq Eng \X Stream
  BY DEF SessionsUp, Up
<1>4. IsFiniteSet(SessionsUp)
  BY <1>2, <1>3, FS_Subset
<1>5. \A e \in Eng, s \in Stream : <<e, s>> \in SessionsUp <=> s \in control_streams(eng[e])
  BY DEF SessionsUp, Up, control_streams
<1> QED BY <1>3, <1>4, <1>5, FS_CardinalityType

\* No session comes or goes.
LEMMA SameSessions ==
    ASSUME \A e \in Eng : control_streams(eng'[e]) = control_streams(eng[e])
    PROVE  SessionsUp' = SessionsUp
BY DEF SessionsUp, Up, control_streams

\* A record changes without a session coming or going.
LEMMA CountSame ==
    ASSUME Records, NEW e \in Eng, NEW q, Counts(e, q), control_streams(q) = control_streams(eng[e])
    PROVE  SessionsUp' = SessionsUp
<1>1. \A o \in Eng : control_streams(eng'[o]) = control_streams(eng[o])
  BY DEF Records, Counts
<1> QED BY <1>1, SameSessions

\* One session of one engine goes.
LEMMA CountDown ==
    ASSUME Records, NEW e \in Eng, NEW q, Counts(e, q), NEW s \in control_streams(eng[e]),
           control_streams(q) = control_streams(eng[e]) \ {s}
    PROVE  Cardinality(SessionsUp') = Cardinality(SessionsUp) - 1
<1>1. s \in Stream
  BY DEF control_streams
<1>2. \A o \in Eng, t \in Stream :
         t \in control_streams(eng'[o]) <=> t \in control_streams(eng[o]) /\ <<o, t>> # <<e, s>>
  BY DEF Records, Counts
<1>3. /\ SessionsUp' \subseteq Eng \X Stream
      /\ \A o \in Eng, t \in Stream : <<o, t>> \in SessionsUp' <=> t \in control_streams(eng'[o])
  BY DEF SessionsUp, Up, control_streams
<1>4. \A x \in Eng \X Stream : x \in SessionsUp' <=> x \in SessionsUp \ {<<e, s>>}
  BY <1>2, <1>3, UpByEngine
<1>5. SessionsUp' = SessionsUp \ {<<e, s>>}
  BY <1>3, <1>4, UpByEngine
<1>6. <<e, s>> \in SessionsUp
  BY <1>1, UpByEngine
<1> QED BY <1>5, <1>6, UpByEngine, FS_RemoveElement

\* One session of one engine comes.
LEMMA CountUp ==
    ASSUME Records, NEW e \in Eng, NEW q, Counts(e, q), NEW s \in Stream \ control_streams(eng[e]),
           control_streams(q) = control_streams(eng[e]) \cup {s}
    PROVE  Cardinality(SessionsUp') = Cardinality(SessionsUp) + 1
<1>1. \A o \in Eng, t \in Stream :
         t \in control_streams(eng'[o]) <=> t \in control_streams(eng[o]) \/ <<o, t>> = <<e, s>>
  BY DEF Records, Counts
<1>2. /\ SessionsUp' \subseteq Eng \X Stream
      /\ \A o \in Eng, t \in Stream : <<o, t>> \in SessionsUp' <=> t \in control_streams(eng'[o])
  BY DEF SessionsUp, Up, control_streams
<1>3. \A x \in Eng \X Stream : x \in SessionsUp' <=> x \in SessionsUp \cup {<<e, s>>}
  BY <1>1, <1>2, UpByEngine
<1>4. SessionsUp' = SessionsUp \cup {<<e, s>>}
  BY <1>2, <1>3, UpByEngine
<1>5. <<e, s>> \notin SessionsUp
  BY UpByEngine
<1> QED BY <1>4, <1>5, UpByEngine, FS_AddElement

\* What the drops at the end of a session take down.
LEMMA WithoutSessionStreams ==
    ASSUME NEW r \in EngRec, NEW s \in Stream
    PROVE  control_streams(WithoutSession(r, s)) = control_streams(r) \ {s}
<1>1. WithoutSession(r, s).session = [r.session EXCEPT ![s] = "down"]
  BY DEF WithoutSession, EngRec
<1>2. r.session \in [Stream -> {"down", "up", "goodbye"}]
  BY DEF EngRec
<1> HIDE DEF WithoutSession
<1> QED BY <1>1, <1>2 DEF control_streams

\* The turn of a leader takes down at most the leader's own session.
LEMMA TurnedStreams ==
    ASSUME NEW r, Whole(r), Leads(r), NEW budget \in BOOLEAN
    PROVE  \/ control_streams(Turned(r, budget)) = control_streams(r)
           \/ /\ r.leader \in control_streams(r)
              /\ control_streams(Turned(r, budget)) = control_streams(r) \ {r.leader}
<1>1. CASE Turned(r, budget) = [r EXCEPT !.at = "send"]
  BY <1>1 DEF Whole, EngRec, control_streams
<1>2. CASE Turned(r, budget) = Finished(r) /\ r.leader = Loop
  <2>1. Finished(r).session = r.session
    BY <1>2 DEF Finished, Whole, EngRec
  <2> QED BY <1>2, <2>1 DEF control_streams
<1>3. CASE Turned(r, budget) = Finished(r) /\ r.leader # Loop
  <2>1. r.leader \in Stream /\ r \in EngRec /\ r.session[r.leader] = "goodbye"
    BY <1>3 DEF Whole, EngRec, Leads
  <2> DEFINE w == WithoutSession(r, r.leader)
  <2>2. control_streams(w) = control_streams(r) \ {r.leader}
    BY <2>1, WithoutSessionStreams
  <2>3. w.session = [w EXCEPT !.completed = TRUE].session
    BY DEF WithoutSession
  <2>4. Finished(r) = [w EXCEPT !.completed = TRUE]
    BY <1>3 DEF Finished
  <2> HIDE DEF w
  <2>5. control_streams(Finished(r)) = control_streams(w)
    BY <2>3, <2>4 DEF control_streams
  <2> QED BY <1>3, <2>1, <2>2, <2>5 DEF control_streams
<1> QED BY <1>1, <1>2, <1>3 DEF Turned

\* Entering request_disconnect takes nothing down: a session that leads it is
\* itself among the streams it turns to.
LEMMA EnteredStreams ==
    ASSUME NEW r, Sound(r), NEW who \in Stream \cup {Loop},
           who \in Stream => r.session[who] = "goodbye"
    PROVE  control_streams(Entered(r, who)) = control_streams(r)
<1> DEFINE q == [r EXCEPT !.active = TRUE, !.completed = FALSE, !.leader = who,
                          !.left = control_streams(r)]
<1>1. /\ q.leader = who /\ q.session = r.session /\ q.left = control_streams(r)
      /\ q.completed = FALSE /\ q \in EngRec
  BY DEF Sound, Whole, EngRec, control_streams
<1>2. Entered(r, who) = IF r.active THEN r ELSE Turned(q, TRUE)
  BY DEF Entered
<1> HIDE DEF q
<1>3. CASE who = Loop
  <2>1. Finished(q).session = q.session
    BY <1>1, <1>3 DEF Finished, EngRec
  <2>2. [q EXCEPT !.at = "send"].session = q.session
    BY <1>1 DEF EngRec
  <2>3. Turned(q, TRUE).session = q.session
    BY <2>1, <2>2 DEF Turned
  <2> QED BY <1>1, <1>2, <2>3 DEF control_streams
<1>4. CASE who \in Stream
  <2>1. who \in q.left
    BY <1>1, <1>4 DEF control_streams
  <2>2. Turned(q, TRUE) = [q EXCEPT !.at = "send"]
    BY <1>1, <2>1 DEF Turned
  <2>3. Turned(q, TRUE).session = q.session
    BY <1>1, <2>2 DEF EngRec
  <2> QED BY <1>1, <1>2, <2>3 DEF control_streams
<1> QED BY <1>3, <1>4

\* A step without a change of the sessions, the count or what was forgotten.
LEMMA QuietPaths ==
    ASSUME PathsExact, SessionsUp' = SessionsUp, ACTIVE_PATHS' = ACTIVE_PATHS,
           history'.forgotten = history.forgotten
    PROVE  PathsExact'
BY DEF PathsExact

\* A session is dropped.
LEMMA SessionDropsPaths ==
    ASSUME IInv, PathsExact, NEW e \in Eng, NEW s \in control_streams(eng[e]), SessionDrops(e, s)
    PROVE  PathsExact'
<1> DEFINE q == WithoutSession(eng[e], s)
<1>1. s \in Stream /\ Records /\ eng[e] \in EngRec
  BY DEF control_streams, IInv, Records
<1>2. control_streams(q) = control_streams(eng[e]) \ {s}
  BY <1>1, WithoutSessionStreams
<1>3. Counts(e, q)
  BY DEF SessionDrops, Counts
<1> HIDE DEF q
<1>4. Cardinality(SessionsUp') = Cardinality(SessionsUp) - 1
  BY <1>1, <1>2, <1>3, CountDown
<1>5. ACTIVE_PATHS' = ACTIVE_PATHS - 1 /\ history' = history
  BY DEF SessionDrops
<1> QED BY <1>4, <1>5, UpByEngine, Types DEF PathsExact

\* A step of the leader: it counts what it takes down.
LEMMA LeaderStepPaths ==
    ASSUME IInv, PathsExact, NEW e \in Eng, NEW q, LeaderStep(e, q),
           \/ control_streams(q) = control_streams(eng[e])
           \/ \E s \in control_streams(eng[e]) : control_streams(q) = control_streams(eng[e]) \ {s}
    PROVE  PathsExact'
<1> DEFINE lost == control_streams(eng[e]) \ control_streams(q)
<1>1. /\ Counts(e, q) /\ Records /\ history' = history
      /\ ACTIVE_PATHS' = ACTIVE_PATHS - Cardinality(lost)
  BY DEF LeaderStep, Counts, IInv
<1>2. CASE control_streams(q) = control_streams(eng[e])
  <2>1. lost = {}
    BY <1>2
  <2>2. Cardinality(lost) = 0
    BY <2>1, FS_EmptySet
  <2>3. SessionsUp' = SessionsUp
    BY <1>1, <1>2, CountSame
  <2>4. ACTIVE_PATHS' = ACTIVE_PATHS
    BY <1>1, <2>2, Types
  <2> QED BY <1>1, <2>3, <2>4, QuietPaths
<1>3. CASE \E s \in control_streams(eng[e]) : control_streams(q) = control_streams(eng[e]) \ {s}
  <2>1. PICK s \in control_streams(eng[e]) : control_streams(q) = control_streams(eng[e]) \ {s}
    BY <1>3
  <2>2. lost = {s}
    BY <2>1
  <2>3. Cardinality(lost) = 1
    BY <2>2, FS_Singleton
  <2>4. Cardinality(SessionsUp') = Cardinality(SessionsUp) - 1
    BY <1>1, <2>1, CountDown
  <2> QED BY <1>1, <2>3, <2>4, UpByEngine, Types DEF PathsExact
<1> QED BY <1>2, <1>3

\* The leader's steps.
LEMMA LeadingPaths ==
    ASSUME IInv, PathsExact, NEW e \in Eng, Leading(e)
    PROVE  PathsExact'
<1> DEFINE r == eng[e]
<1>1. Sound(r) /\ Whole(r) /\ r \in EngRec
  BY DEF IInv, Records, Sound
<1>2. r.at \in {"send", "wait"} => Leads(r)
  BY <1>1 DEF Sound
<1>3. ASSUME NEW p, Whole(p), Leads(p), control_streams(p) = control_streams(r),
             NEW budget \in BOOLEAN, LeaderStep(e, Turned(p, budget))
      PROVE  PathsExact'
  BY <1>3, TurnedStreams, LeaderStepPaths
<1>4. CASE LeaderSends(e)
  <2>1. PICK s \in r.left : LeaderStep(e, [r EXCEPT !.at = "wait", !.left = @ \ {s}])
    BY <1>4 DEF LeaderSends
  <2>2. control_streams([r EXCEPT !.at = "wait", !.left = @ \ {s}]) = control_streams(r)
    BY <1>1 DEF EngRec, control_streams
  <2> QED BY <2>1, <2>2, LeaderStepPaths
<1>5. CASE LeaderSkips(e)
  <2>1. PICK s \in Stream, budget \in BOOLEAN :
            LeaderStep(e, Turned([r EXCEPT !.left = @ \ {s}], budget))
    BY <1>5 DEF LeaderSkips
  <2> DEFINE p == [r EXCEPT !.left = @ \ {s}]
  <2>2. Whole(p) /\ Leads(p) /\ control_streams(p) = control_streams(r)
    BY <1>1, <1>2, <1>5 DEF LeaderSkips, Whole, EngRec, Leads, control_streams
  <2>3. LeaderStep(e, Turned(p, budget))
    BY <2>1
  <2> HIDE DEF p
  <2> QED BY <1>3, <2>2, <2>3
<1>6. CASE LeaderWaited(e)
  <2>1. PICK budget \in BOOLEAN : LeaderStep(e, Turned(r, budget))
    BY <1>6 DEF LeaderWaited
  <2>2. Leads(r)
    BY <1>2, <1>6 DEF LeaderWaited
  <2> QED BY <1>1, <1>3, <2>1, <2>2
<1> QED BY <1>4, <1>5, <1>6 DEF Leading

\* A session's steps.
LEMMA SessionStepPaths ==
    ASSUME IInv, PathsExact, NEW e \in Eng, NEW s \in Stream, SessionStep(e, s)
    PROVE  PathsExact'
<1> DEFINE r == eng[e]
<1>1. Sound(r) /\ r \in EngRec /\ Records /\ r.session \in [Stream -> {"down", "up", "goodbye"}]
  BY DEF IInv, Records, Sound, EngRec
<1>2. ASSUME NEW place \in {"up", "goodbye"}
      PROVE  LET p == [r EXCEPT !.session[s] = place]
             IN  p.session[s] = place /\ control_streams(p) = control_streams(r) \cup {s}
  BY <1>1 DEF EngRec, control_streams
<1>3. CASE SessionUp(e, s)
  <2> DEFINE p == [r EXCEPT !.session[s] = "up"]
  <2>1. Counts(e, p)
    BY <1>3 DEF SessionUp, Counts, IInv, Records
  <2>2. control_streams(p) = control_streams(r) \cup {s}
    BY <1>2
  <2>3. s \in Stream \ control_streams(r)
    BY <1>3 DEF SessionUp, control_streams
  <2> HIDE DEF p
  <2>4. Cardinality(SessionsUp') = Cardinality(SessionsUp) + 1
    BY <1>1, <2>1, <2>2, <2>3, CountUp
  <2>5. ACTIVE_PATHS' = ACTIVE_PATHS + 1 /\ history'.forgotten = history.forgotten
    BY <1>3, Types DEF SessionUp
  <2> QED BY <2>4, <2>5, UpByEngine, Types DEF PathsExact
<1>4. CASE SessionCancelled(e, s)
  <2> DEFINE p == [r EXCEPT !.session[s] = "goodbye"]
  <2>1. Sound(p) /\ p.session[s] = "goodbye"
    <3> DEFINE t == [r.session EXCEPT ![s] = "goodbye"]
    <3>1. p = [r EXCEPT !.session = t]
      BY <1>1 DEF EngRec
    <3>2. t \in [Stream -> {"down", "up", "goodbye"}] /\ t[s] = "goodbye"
          /\ \A o \in Stream : o # s => t[o] = r.session[o]
      BY <1>1
    <3> HIDE DEF t
    <3>3. p \in EngRec /\ p.session = t /\ p.left = r.left
          /\ p.leader = r.leader /\ p.at = r.at /\ p.stage = r.stage
      BY <1>1, <3>1, <3>2 DEF EngRec
    <3> HIDE DEF p
    <3> QED BY <1>1, <3>2, <3>3 DEF Sound, Whole, Leads, control_streams
  <2>2. control_streams(p) = control_streams(r)
    BY <1>2, <1>4 DEF SessionCancelled, control_streams
  <2>3. Counts(e, Entered(p, s))
    BY <1>4 DEF SessionCancelled, Counts
  <2> HIDE DEF p
  <2>4. control_streams(Entered(p, s)) = control_streams(r)
    BY <2>1, <2>2, EnteredStreams
  <2>5. SessionsUp' = SessionsUp
    BY <1>1, <2>3, <2>4, CountSame
  <2> QED BY <1>4, <2>5, QuietPaths DEF SessionCancelled, statics
<1>5. CASE Answered(e, s)
  <2>1. Counts(e, [r EXCEPT !.completed = TRUE])
    BY <1>5 DEF Answered, Counts, IInv, Records
  <2>2. control_streams([r EXCEPT !.completed = TRUE]) = control_streams(r)
    BY <1>1 DEF EngRec, control_streams
  <2>3. SessionsUp' = SessionsUp
    BY <1>1, <2>1, <2>2, CountSame
  <2> QED BY <1>5, <2>3, QuietPaths DEF Answered, statics
<1>6. SessionLost(e, s) \/ SessionAborted(e, s) \/ FollowerReturns(e, s)
        => s \in control_streams(r) /\ SessionDrops(e, s)
  BY DEF SessionLost, SessionAborted, FollowerReturns, control_streams
<1> QED BY <1>3, <1>4, <1>5, <1>6, SessionDropsPaths DEF SessionStep

\* The steps that change the stage, the token or the bridge of one engine.
LEMMA StagePaths ==
    ASSUME IInv, PathsExact, NEW e \in Eng,
           \/ Prologue(e) \/ Closing(e) \/ StopRequested(e) \/ CancelledFromOutside(e)
           \/ LoopFollowerReturns(e) \/ GroupsEnd(e) \/ csqtt_engine_start(e)
    PROVE  PathsExact'
<1> DEFINE r == eng[e]
<1>1. Sound(r) /\ r \in EngRec /\ Records
  BY DEF IInv, Records
<1>2. ASSUME NEW stage, NEW c, NEW b, Restages(e, stage, c, b)
      PROVE  SessionsUp' = SessionsUp
  <2>1. Counts(e, Restage(r, stage, c, b))
    BY <1>2 DEF Restages, Counts
  <2>2. Restage(r, stage, c, b).session = r.session
    BY <1>1 DEF Restage, EngRec
  <2>3. control_streams(Restage(r, stage, c, b)) = control_streams(r)
    BY <2>2 DEF control_streams
  <2> QED BY <1>1, <2>1, <2>3, CountSame
<1>3. CASE SetUp(e)
  <2>1. Restages(e, "setup", r.cancelled, r.bridge)
    BY <1>3 DEF SetUp, Restages, Restage, IInv, Records, EngRec
  <2>2. SessionsUp' = SessionsUp
    BY <1>2, <2>1
  <2>3. ACTIVE_PATHS' = 0 /\ history'.forgotten = Cardinality(SessionsUp)
    BY <1>3, Types DEF SetUp
  <2> QED BY <2>2, <2>3, UpByEngine DEF PathsExact
<1>4. CASE \/ PrologueFails(e) \/ DispatcherFails(e) \/ StartDispatcher(e) \/ BeginEpilogue(e)
           \/ GroupsEnd(e) \/ CancelledFromOutside(e) \/ LoopFollowerReturns(e) \/ BridgeEnds(e)
  <2>1. \E stage, c, b : Restages(e, stage, c, b)
    <3>1. PrologueFails(e) => Restages(e, "failed", r.cancelled, r.bridge)
      BY DEF PrologueFails, Restages, Restage, IInv, Records, EngRec
    <3>2. DispatcherFails(e) => Restages(e, "failed", r.cancelled, r.bridge)
      BY DEF DispatcherFails, Restages, Restage, IInv, Records, EngRec
    <3>3. StartDispatcher(e) => Restages(e, "loop", r.cancelled, TRUE)
      BY TwoFieldsRestaged
    <3>4. BeginEpilogue(e) => Restages(e, "closing", r.cancelled, r.bridge)
      BY DEF BeginEpilogue, Restages, Restage, IInv, Records, EngRec
    <3>5. GroupsEnd(e) => Restages(e, "closing", TRUE, r.bridge)
      BY TwoFieldsRestaged
    <3>6. CancelledFromOutside(e) => Restages(e, r.stage, TRUE, r.bridge)
      BY DEF CancelledFromOutside, Restages, Restage, IInv, Records, EngRec
    <3>7. LoopFollowerReturns(e) => Restages(e, "loop", r.cancelled, r.bridge)
      BY DEF LoopFollowerReturns, Restages, Restage, IInv, Records, EngRec
    <3>8. BridgeEnds(e) => Restages(e, r.stage, r.cancelled, FALSE)
      BY DEF BridgeEnds, Restages, Restage, IInv, Records, EngRec
    <3> QED BY <1>4, <3>1, <3>2, <3>3, <3>4, <3>5, <3>6, <3>7, <3>8
  <2>2. ACTIVE_PATHS' = ACTIVE_PATHS /\ history' = history
    BY <1>4 DEF PrologueFails, DispatcherFails, StartDispatcher, BeginEpilogue, GroupsEnd,
                CancelledFromOutside, LoopFollowerReturns, BridgeEnds, statics
  <2> QED BY <1>2, <2>1, <2>2, QuietPaths
<1>5. CASE csqtt_engine_start(e)
  <2>1. Restages(e, "prologue", r.cancelled, r.bridge)
    BY <1>5 DEF csqtt_engine_start, Restages, Restage, IInv, Records, EngRec
  <2>2. ACTIVE_PATHS' = ACTIVE_PATHS /\ history'.forgotten = history.forgotten
    BY <1>5, Types DEF csqtt_engine_start
  <2> QED BY <1>2, <2>1, <2>2, QuietPaths
<1>6. CASE StopRequested(e)
  <2> DEFINE p == [r EXCEPT !.stage = "goodbye"]
  <2>1. Sound(p) /\ control_streams(p) = control_streams(r)
    BY <1>1, <1>6 DEF StopRequested, Sound, Whole, EngRec, Leads, control_streams
  <2>2. Counts(e, Entered(p, Loop))
    BY <1>6 DEF StopRequested, Counts
  <2> HIDE DEF p
  <2>3. control_streams(Entered(p, Loop)) = control_streams(r)
    BY <2>1, EnteredStreams, ConstantsAssumption
  <2>4. SessionsUp' = SessionsUp
    BY <1>1, <2>2, <2>3, CountSame
  <2> QED BY <1>6, <2>4, QuietPaths DEF StopRequested
<1>7. CASE EndEngine(e)
  <2> DEFINE q == [Unstarted EXCEPT !.stage = "ended"]
  <2>1. Counts(e, q)
    BY <1>7 DEF EndEngine, Counts
  <2>2. control_streams(q) = {} /\ control_streams(r) = {}
    BY <1>7 DEF EndEngine, Unstarted, Up, control_streams
  <2> HIDE DEF q
  <2>3. SessionsUp' = SessionsUp
    BY <1>1, <2>1, <2>2, CountSame
  <2> QED BY <1>7, <2>3, QuietPaths DEF EndEngine, statics
<1> QED BY <1>3, <1>4, <1>5, <1>6, <1>7 DEF Prologue, Closing

\* What else the helper does.
LEMMA HostPaths ==
    ASSUME IInv, PathsExact,
           csqtt_engine_stop \/ signal_stop_disconnect
    PROVE  PathsExact'
<1>1. CASE csqtt_engine_stop
  <2>1. \A e \in Eng : eng'[e].session = eng[e].session
    BY <1>1 DEF csqtt_engine_stop, IInv, Records, EngRec
  <2>2. \A e \in Eng : control_streams(eng'[e]) = control_streams(eng[e])
    BY <2>1 DEF control_streams
  <2>3. SessionsUp' = SessionsUp
    BY <2>2, SameSessions
  <2>4. ACTIVE_PATHS' = ACTIVE_PATHS /\ history'.forgotten = history.forgotten
    BY <1>1, Types DEF csqtt_engine_stop
  <2> QED BY <2>3, <2>4, QuietPaths
<1>2. CASE signal_stop_disconnect
  <2>1. UNCHANGED <<eng, ACTIVE_PATHS, history>>
    BY <1>2 DEF signal_stop_disconnect, statics
  <2>2. SessionsUp' = SessionsUp
    BY <2>1, SameSessions
  <2> QED BY <2>1, <2>2, QuietPaths
<1> QED BY <1>1, <1>2

\* ACTIVE_PATHS, which the helper takes for the number of READY paths, is off by
\* exactly the sessions of earlier engines that were up at the last reset, for
\* any number of engines and sessions, aborted and leading ones included.
THEOREM PathsExactHolds == Spec => []PathsExact
<1>1. Init => PathsExact
  <2> SUFFICES ASSUME Init PROVE PathsExact
    OBVIOUS
  <2>1. \A e \in Eng : control_streams(eng[e]) = {}
    BY DEF Init, Unstarted, control_streams
  <2>2. SessionsUp = {}
    BY <2>1, UpByEngine
  <2> QED BY <2>2, FS_EmptySet DEF Init, PathsExact
<1>2. ASSUME IInv, PathsExact, [Next]_vars
      PROVE  PathsExact'
  <2>1. CASE UNCHANGED vars
    <3>1. SessionsUp' = SessionsUp
      BY <2>1, SameSessions DEF vars
    <3> QED BY <1>2, <2>1, <3>1, QuietPaths DEF vars, statics
  <2>2. CASE HostStep
    BY <1>2, <2>2, StagePaths, HostPaths DEF HostStep
  <2>3. ASSUME NEW e \in Eng,
               \/ Prologue(e) \/ Leading(e) \/ Closing(e)
               \/ StopRequested(e) \/ CancelledFromOutside(e) \/ LoopFollowerReturns(e)
               \/ GroupsEnd(e)
               \/ \E s \in Stream : SessionStep(e, s)
        PROVE  PathsExact'
    BY <1>2, <2>3, StagePaths, LeadingPaths, SessionStepPaths
  <2> QED BY <1>2, <2>1, <2>2, <2>3 DEF Next
<1>3. Spec => []IInv
  BY InitInvariant, NextInvariant, PTL DEF Spec
<1> QED BY <1>1, <1>2, <1>3, PTL DEF Spec

-----------------------------------------------------------------------------
(* The goodbye.                                                            *)

\* Once the goodbye of r has begun, q forgets no answer and has no new leader.
SaidOnce(r, q) ==
    r.active => (r.completed => q.completed) /\ q.leader \in {r.leader, Nobody}

\* Every engine's goodbye is said once, unless the step ends the engine.
AllSaidOnce == \A e \in Eng : ~Ended(e)' => SaidOnce(eng[e], eng'[e])

\* A session that drops takes its own leadership with it, and no other.
LEMMA WithoutSessionSaid ==
    ASSUME NEW r \in EngRec, NEW s
    PROVE  SaidOnce(r, WithoutSession(r, s))
<1>1. WithoutSession(r, s).completed = r.completed
      /\ WithoutSession(r, s).leader = IF r.leader = s THEN Nobody ELSE r.leader
  BY DEF WithoutSession, EngRec
<1> QED BY <1>1 DEF SaidOnce

\* A leader that turns to its next stream stays the leader or finishes.
LEMMA TurnedSaid ==
    ASSUME NEW r \in EngRec, NEW budget
    PROVE  SaidOnce(r, Turned(r, budget))
<1>1. SaidOnce(r, Finished(r))
  <2>1. CASE r.leader = Loop
    BY <2>1 DEF Finished, SaidOnce, EngRec
  <2>2. CASE r.leader # Loop
    <3> DEFINE q == WithoutSession(r, r.leader)
    <3>1. q.leader = Nobody /\ [q EXCEPT !.completed = TRUE].leader = q.leader
          /\ [q EXCEPT !.completed = TRUE].completed = TRUE
      BY DEF WithoutSession, EngRec
    <3>2. Finished(r) = [q EXCEPT !.completed = TRUE]
      BY <2>2 DEF Finished
    <3> HIDE DEF q
    <3> QED BY <3>1, <3>2 DEF SaidOnce
  <2> QED BY <2>1, <2>2
<1>2. SaidOnce(r, [r EXCEPT !.at = "send"])
  BY DEF SaidOnce, EngRec
<1> QED BY <1>1, <1>2 DEF Turned

\* request_disconnect changes nothing of a goodbye that has begun.
LEMMA EnteredSaid ==
    ASSUME NEW r, NEW who
    PROVE  SaidOnce(r, Entered(r, who))
  BY DEF Entered, SaidOnce

\* A step that changes the record of one engine.
LEMMA OneRecordSaid ==
    ASSUME eng \in [Eng -> EngRec], NEW e \in Eng, NEW q, eng' = [eng EXCEPT ![e] = q],
           SaidOnce(eng[e], q)
    PROVE  AllSaidOnce
<1> SUFFICES ASSUME NEW o \in Eng PROVE SaidOnce(eng[o], eng'[o])
  BY DEF AllSaidOnce
<1>1. CASE o = e
  BY <1>1
<1>2. CASE o # e
  <2>1. eng'[o] = eng[o]
    BY <1>2
  <2> QED BY <2>1 DEF SaidOnce
<1> QED BY <1>1, <1>2

\* The leader's steps.
LEMMA LeadingSaid == ASSUME IInv, NEW e \in Eng, Leading(e) PROVE AllSaidOnce
<1> DEFINE r == eng[e]
<1>1. r \in EngRec /\ eng \in [Eng -> EngRec]
  BY DEF IInv, Records
<1>2. ASSUME NEW s PROVE /\ [r EXCEPT !.left = @ \ {s}] \in EngRec
                         /\ [r EXCEPT !.left = @ \ {s}].active = r.active
                         /\ [r EXCEPT !.left = @ \ {s}].completed = r.completed
                         /\ [r EXCEPT !.left = @ \ {s}].leader = r.leader
                         /\ SaidOnce(r, [r EXCEPT !.at = "wait", !.left = @ \ {s}])
  BY <1>1 DEF EngRec, SaidOnce
<1>3. \E q : eng' = [eng EXCEPT ![e] = q] /\ SaidOnce(r, q)
  <2>1. CASE LeaderSends(e)
    <3>1. PICK s \in r.left : LeaderStep(e, [r EXCEPT !.at = "wait", !.left = @ \ {s}])
      BY <2>1 DEF LeaderSends
    <3>2. eng' = [eng EXCEPT ![e] = [r EXCEPT !.at = "wait", !.left = @ \ {s}]]
      BY <3>1, Zenon DEF LeaderStep
    <3> HIDE DEF r
    <3> QED BY <1>2, <3>2
  <2>2. CASE LeaderSkips(e)
    <3>1. PICK s \in Stream, budget \in BOOLEAN :
              LeaderStep(e, Turned([r EXCEPT !.left = @ \ {s}], budget))
      BY <2>2 DEF LeaderSkips
    <3> DEFINE p == [r EXCEPT !.left = @ \ {s}]
    <3>2. eng' = [eng EXCEPT ![e] = Turned(p, budget)]
      BY <3>1, Zenon DEF LeaderStep
    <3>3. p \in EngRec /\ p.active = r.active /\ p.completed = r.completed /\ p.leader = r.leader
      BY <1>2
    <3> HIDE DEF p, r
    <3>4. SaidOnce(p, Turned(p, budget))
      BY <3>3, TurnedSaid
    <3>5. SaidOnce(r, Turned(p, budget))
      BY <3>3, <3>4 DEF SaidOnce
    <3> QED BY <3>2, <3>5
  <2>3. CASE LeaderWaited(e)
    <3>1. PICK budget \in BOOLEAN : LeaderStep(e, Turned(r, budget))
      BY <2>3 DEF LeaderWaited
    <3>2. eng' = [eng EXCEPT ![e] = Turned(r, budget)]
      BY <3>1, Zenon DEF LeaderStep
    <3>3. SaidOnce(r, Turned(r, budget))
      BY <1>1, TurnedSaid
    <3> HIDE DEF r
    <3> QED BY <3>2, <3>3
  <2> QED BY <2>1, <2>2, <2>3 DEF Leading
<1> QED BY <1>1, <1>3, OneRecordSaid

\* A session's steps.
LEMMA SessionStepSaid ==
    ASSUME IInv, NEW e \in Eng, NEW s \in Stream, SessionStep(e, s)
    PROVE  AllSaidOnce
<1> DEFINE r == eng[e]
<1>1. r \in EngRec /\ eng \in [Eng -> EngRec]
  BY DEF IInv, Records
<1>2. ASSUME NEW place
      PROVE  LET p == [r EXCEPT !.session[s] = place]
             IN  p.active = r.active /\ p.completed = r.completed /\ p.leader = r.leader
  BY <1>1 DEF EngRec
<1>3. \E q : eng' = [eng EXCEPT ![e] = q] /\ SaidOnce(r, q)
  <2>1. CASE SessionUp(e, s)
    <3> DEFINE p == [r EXCEPT !.session[s] = "up"]
    <3>1. eng' = [eng EXCEPT ![e] = p]
      BY <1>1, <2>1 DEF SessionUp
    <3>2. p.completed = r.completed /\ p.leader = r.leader
      BY <1>2
    <3> HIDE DEF p, r
    <3> QED BY <3>1, <3>2 DEF SaidOnce
  <2>2. CASE SessionCancelled(e, s)
    <3> DEFINE p == [r EXCEPT !.session[s] = "goodbye"]
    <3>1. eng' = [eng EXCEPT ![e] = Entered(p, s)]
      BY <2>2 DEF SessionCancelled
    <3>2. p.active = r.active /\ p.completed = r.completed /\ p.leader = r.leader
      BY <1>2
    <3> HIDE DEF p, r
    <3>3. SaidOnce(p, Entered(p, s))
      BY EnteredSaid
    <3>4. SaidOnce(r, Entered(p, s))
      BY <3>2, <3>3 DEF SaidOnce
    <3> QED BY <3>1, <3>4
  <2>3. CASE Answered(e, s)
    <3> DEFINE p == [r EXCEPT !.completed = TRUE]
    <3>1. eng' = [eng EXCEPT ![e] = p] /\ p.completed = TRUE /\ p.leader = r.leader
      BY <1>1, <2>3 DEF Answered, EngRec
    <3> HIDE DEF p, r
    <3> QED BY <3>1 DEF SaidOnce
  <2>4. CASE SessionDrops(e, s)
    <3>1. SaidOnce(r, WithoutSession(r, s))
      BY <1>1, WithoutSessionSaid
    <3> QED BY <2>4, <3>1 DEF SessionDrops
  <2> QED BY <2>1, <2>2, <2>3, <2>4 DEF SessionStep, SessionLost, SessionAborted, FollowerReturns
<1> QED BY <1>1, <1>3, OneRecordSaid

\* The loop's own goodbye, and a step of the prologue, the epilogue or the host:
\* these touch no answer and no leader.
LEMMA LoopSaid ==
    ASSUME IInv, NEW e \in Eng,
           StopRequested(e) \/ LoopFollowerReturns(e) \/ Prologue(e) \/ CancelledFromOutside(e)
           \/ BeginEpilogue(e) \/ GroupsEnd(e) \/ BridgeEnds(e) \/ csqtt_engine_start(e)
    PROVE  AllSaidOnce
<1> DEFINE r == eng[e]
<1>1. r \in EngRec /\ eng \in [Eng -> EngRec]
  BY DEF IInv, Records
<1>2. ASSUME NEW stage, NEW c, NEW b
      PROVE  LET p == [r EXCEPT !.stage = stage, !.cancelled = c, !.bridge = b]
             IN  p.active = r.active /\ p.completed = r.completed /\ p.leader = r.leader
  BY <1>1 DEF EngRec
<1>3. CASE StopRequested(e)
  <2> DEFINE p == [r EXCEPT !.stage = "goodbye"]
  <2>1. eng' = [eng EXCEPT ![e] = Entered(p, Loop)]
    BY <1>3 DEF StopRequested
  <2>2. p.active = r.active /\ p.completed = r.completed /\ p.leader = r.leader
    BY <1>1 DEF EngRec
  <2> HIDE DEF p, r
  <2>3. SaidOnce(p, Entered(p, Loop))
    BY EnteredSaid
  <2>4. SaidOnce(r, Entered(p, Loop))
    BY <2>2, <2>3 DEF SaidOnce
  <2> QED BY <1>1, <2>1, <2>4, OneRecordSaid DEF r
<1>4. CASE ~StopRequested(e)
  <2>1. \E stage, c, b :
           eng' = [eng EXCEPT ![e] = [r EXCEPT !.stage = stage, !.cancelled = c, !.bridge = b]]
    <3> DEFINE is(stage, c, b) ==
                 eng' = [eng EXCEPT ![e] = [r EXCEPT !.stage = stage, !.cancelled = c, !.bridge = b]]
    <3>1. CASE LoopFollowerReturns(e)
      <4>1. is("loop", r.cancelled, r.bridge)
        BY <1>1, <3>1 DEF LoopFollowerReturns, EngRec
      <4> QED BY <4>1
    <3>2. CASE PrologueFails(e) \/ DispatcherFails(e)
      <4>1. is("failed", r.cancelled, r.bridge)
        BY <1>1, <3>2 DEF PrologueFails, DispatcherFails, EngRec
      <4> QED BY <4>1
    <3>3. CASE SetUp(e)
      <4>1. is("setup", r.cancelled, r.bridge)
        BY <1>1, <3>3 DEF SetUp, EngRec
      <4> QED BY <4>1
    <3>4. CASE StartDispatcher(e)
      <4>1. is("loop", r.cancelled, TRUE)
        BY <1>1, <3>4 DEF StartDispatcher, EngRec
      <4> QED BY <4>1
    <3>5. CASE CancelledFromOutside(e)
      <4>1. is(r.stage, TRUE, r.bridge)
        BY <1>1, <3>5 DEF CancelledFromOutside, EngRec
      <4> QED BY <4>1
    <3>6. CASE BeginEpilogue(e)
      <4>1. is("closing", r.cancelled, r.bridge)
        BY <1>1, <3>6 DEF BeginEpilogue, EngRec
      <4> QED BY <4>1
    <3>7. CASE GroupsEnd(e)
      <4>1. is("closing", TRUE, r.bridge)
        BY <1>1, <3>7 DEF GroupsEnd, EngRec
      <4> QED BY <4>1
    <3>8. CASE BridgeEnds(e)
      <4>1. is(r.stage, r.cancelled, FALSE)
        BY <1>1, <3>8 DEF BridgeEnds, EngRec
      <4> QED BY <4>1
    <3>9. CASE csqtt_engine_start(e)
      <4>1. is("prologue", r.cancelled, r.bridge)
        BY <1>1, <3>9 DEF csqtt_engine_start, EngRec
      <4> QED BY <4>1
    <3> QED BY <1>4, <3>1, <3>2, <3>3, <3>4, <3>5, <3>6, <3>7, <3>8, <3>9 DEF Prologue
  <2>2. PICK stage, c, b :
           eng' = [eng EXCEPT ![e] = [r EXCEPT !.stage = stage, !.cancelled = c, !.bridge = b]]
    BY <2>1
  <2> DEFINE p == [r EXCEPT !.stage = stage, !.cancelled = c, !.bridge = b]
  <2>3. SaidOnce(r, p)
    BY <1>2 DEF SaidOnce
  <2> QED BY <1>1, <2>2, <2>3, OneRecordSaid
<1> QED BY <1>3, <1>4

\* What csqtt_engine_stop does to every engine, and the end of one.
LEMMA StopAndEndSaid ==
    ASSUME IInv, csqtt_engine_stop \/ (\E e \in Eng : EndEngine(e))
    PROVE  AllSaidOnce
<1>1. eng \in [Eng -> EngRec]
  BY DEF IInv, Records
<1>2. CASE csqtt_engine_stop
  <2> SUFFICES ASSUME NEW o \in Eng PROVE SaidOnce(eng[o], eng'[o])
    BY DEF AllSaidOnce
  <2>1. eng'[o].completed = eng[o].completed /\ eng'[o].leader = eng[o].leader
    BY <1>1, <1>2 DEF csqtt_engine_stop, EngRec
  <2> QED BY <2>1 DEF SaidOnce
<1>3. ASSUME NEW e \in Eng, EndEngine(e) PROVE AllSaidOnce
  <2> SUFFICES ASSUME NEW o \in Eng, ~Ended(o)' PROVE SaidOnce(eng[o], eng'[o])
    BY DEF AllSaidOnce
  <2>1. o # e
    <3>1. eng'[e].stage = "ended"
      BY <1>1, <1>3 DEF EndEngine, Unstarted
    <3> QED BY <3>1 DEF Ended
  <2>2. eng'[o] = eng[o]
    BY <1>1, <1>3, <2>1 DEF EndEngine
  <2> QED BY <2>2 DEF SaidOnce
<1> QED BY <1>2, <1>3

\* For any number of engines, sessions and stop events: an engine says goodbye
\* once.  No answer is forgotten and nobody takes over from a leader that was
\* aborted or has finished (request_disconnect, observe_control_response and
\* the drop of its leader in session.rs).
THEOREM GoodbyeOnceHolds == Spec => GoodbyeOnce
<1>1. IInv /\ [Next]_vars => AllSaidOnce
  <2> SUFFICES ASSUME IInv, [Next]_vars PROVE AllSaidOnce
    OBVIOUS
  <2>1. CASE eng' = eng
    BY <2>1 DEF AllSaidOnce, SaidOnce
  <2>2. CASE csqtt_engine_stop
    BY <2>2, StopAndEndSaid
  <2>3. ASSUME NEW e \in Eng,
               \/ Leading(e) \/ EndEngine(e) \/ \E s \in Stream : SessionStep(e, s)
               \/ StopRequested(e) \/ LoopFollowerReturns(e) \/ Prologue(e) \/ CancelledFromOutside(e)
               \/ BeginEpilogue(e) \/ GroupsEnd(e) \/ BridgeEnds(e) \/ csqtt_engine_start(e)
        PROVE  AllSaidOnce
    BY <2>3, LeadingSaid, StopAndEndSaid, SessionStepSaid, LoopSaid
  <2> QED
    BY <2>1, <2>2, <2>3 DEF Next, HostStep, Closing, vars, signal_stop_disconnect
<1>2. AllSaidOnce => [\A e \in Eng : eng[e].active /\ ~Ended(e)' =>
                         /\ eng[e].completed => eng'[e].completed
                         /\ eng'[e].leader \in {eng[e].leader, Nobody}]_vars
  BY DEF AllSaidOnce, SaidOnce
<1> QED BY <1>1, <1>2, InitInvariant, NextInvariant, PTL DEF Spec, GoodbyeOnce
=============================================================================
