----------------------- MODULE CredentialSupplyProofs -----------------------
(***************************************************************************)
(* The worker loop with the real fetch implements the worker loop with the *)
(* abstract one, and has FetchIsOwn, LockoutRespected and GoneIsNoticed,   *)
(* for any workers, cohorts, hashes, configurations and numbers of tries.  *)
(* Fairness is left to TLC (ImplementsCredentials).                        *)
(*                                                                         *)
(* The inductive invariant has a part about the fetch alone (FetchInv:     *)
(* what its record may be at each place, the box and the lockout), one     *)
(* about the workers (Shaped), of which only the place matters, and one    *)
(* that ties them together (Owned).  A step of the fetch is shown to lead  *)
(* from one possible record to another by the ways records are made:       *)
(* answering, trying again, climbing the ladder.                           *)
(***************************************************************************)
EXTENDS CredentialSupply, Sequences, TLAPS

\* The process starts in an initial state of Credentials.
LEMMA InitRefines == Init => Cred!Init
  BY DEF Init

\* Every step of the composition is a step of Credentials or changes nothing
\* that Credentials sees.
LEMMA NextRefines == [Next]_vars => [Cred!Next]_(Cred!vars)
<1> SUFFICES ASSUME [Next]_vars PROVE [Cred!Next]_(Cred!vars)
  OBVIOUS
<1>1. CASE UNCHANGED vars
  BY <1>1 DEF vars, supplyVars, Cred!vars
<1>2. ASSUME NEW w \in Worker, WorkerStep(w) \/ BeginFetch(w) \/ GivesUp(w)
      PROVE  Cred!Next
  BY <1>2 DEF WorkerStep, BeginFetch, GivesUp, Cred!Next
<1>3. ASSUME NEW w \in Worker, Answer(w)
      PROVE  Cred!Next
  BY <1>3 DEF Answer, Cred!Next
<1>4. CASE CancelEngine
  BY <1>4 DEF CancelEngine, Cred!Next
<1>5. CASE FetchStep \/ FetchSurroundings
  BY <1>5 DEF FetchStep, FetchSurroundings, supplyVars, Cred!vars
<1> QED BY <1>1, <1>2, <1>3, <1>4, <1>5 DEF Next

\* worker.rs calling auth.rs behaves as worker.rs with a fetch of which only is
\* known that its owner waits for it: whatever Credentials promises holds for
\* the composition.
THEOREM SupplyRefinesCredentials == Spec => Cred!Spec
<1>1. Init /\ [][Next]_vars => Cred!Init /\ [][Cred!Next]_(Cred!vars)
  BY InitRefines, NextRefines, PTL
<1> QED BY <1>1 DEF Spec, Cred!Spec


-----------------------------------------------------------------------------
(* The fetch.  Its invariant speaks of the record vk, of the box and the   *)
(* lockout, and of no worker.                                              *)

AnswerRec == [kind : {"ok", "unavailable", "error", "none"}, value : Value \cup {0}]
VkRec ==
    [at : {"idle", "js", "calls", "answer"} \cup OnLegacy, link : Hash \cup {0}, tries : Nat,
     captchas : Nat, rung : Nat, late : BOOLEAN, unheard : BOOLEAN, answer : AnswerRec]

\* No path is tried too often, and a ladder is climbed for a captcha within the limit.
Attempts(k) ==
    /\ k.at \in {"js", "calls"} => k.tries < CallsTries
    /\ k.at \in OnLegacy => k.tries < LegacyTries
    /\ k.captchas <= MaxCaptchas /\ (k.at \in Solving => k.captchas < MaxCaptchas)

\* What a fetch that was late from the start has come to when each of its requests
\* was answered: it is about to hear of the end, or has.
Aware(k) ==
    /\ k.late = TRUE => k.link \in gone
    /\ k.late = TRUE /\ k.unheard = FALSE /\ conf.mode # "auto_js"
         => \/ k.at \in {"idle", "js", "calls", "legacy"}
            \/ k.at = "answer" /\ k.answer = Vk!Unavailable

\* A record the fetch may be in.
Possible(k) == k \in VkRec /\ Attempts(k) /\ Aware(k)

Surrounded ==
    /\ conf \in Conf /\ issued \subseteq Value /\ gone \subseteq Hash
    /\ box \in {"unasked", "empty", "before", "since"} /\ lockout \in BOOLEAN

Quiet(k, locked) == locked = TRUE => conf.mode = "auto_js" \/ k.at \in {"idle", "answer"}

FetchInv == Surrounded /\ Possible(vk) /\ Quiet(vk, lockout) /\ AnswerSinceAsked

\* A record the fetch may go on to: it still runs, for the same hash.
Onward(k) == Possible(k) /\ k.at # "idle" /\ k.link = vk.link

\* The fetch is at work, and the lockout does not concern it.
Working == FetchInv /\ vk.at \notin {"idle", "answer"}

LEMMA ConfType ==
    ASSUME conf \in Conf
    PROVE  /\ conf.mode \in {"auto_js", "vkcalls", "legacy"}
           /\ conf.captcha \in {"wv", "rjs", "auto"}
           /\ \A h \in Hash : conf.seed[h] \in Value \cup {0}
  BY SupplyAssumption

LEMMA IdlePossible == Possible(Vk!Idle) /\ Vk!Idle.at = "idle"
<1>1. Vk!Idle \in VkRec /\ Vk!Idle.at = "idle" /\ Vk!Idle.captchas = 0 /\ Vk!Idle.late = FALSE
  BY DEF Vk!Idle, Vk!NoAnswer, Vk!NoValue, Vk!NoHash, VkRec, AnswerRec
<1> QED BY <1>1, SupplyAssumption DEF Possible, Attempts, Aware, OnLegacy, Solving

\* The fetch has an answer: for one that was late and heard all, the right one.
LEMMA AnsweringOnward ==
    ASSUME Working, NEW r \in AnswerRec,
           \/ vk.late = FALSE \/ vk.unheard = TRUE \/ conf.mode = "auto_js" \/ r = Vk!Unavailable
    PROVE  Onward(Vk!Answering(r)) /\ Vk!Answering(r).at = "answer"
<1> DEFINE k == Vk!Answering(r)
<1>1. vk \in VkRec /\ Attempts(vk) /\ Aware(vk)
  BY DEF Working, FetchInv, Possible
<1>2. /\ k \in VkRec /\ k.at = "answer" /\ k.answer = r /\ k.link = vk.link
      /\ k.late = vk.late /\ k.unheard = vk.unheard /\ k.captchas = vk.captchas
  BY <1>1 DEF Vk!Answering, VkRec
<1> HIDE DEF k
<1>3. Attempts(k)
  BY <1>1, <1>2 DEF Attempts, OnLegacy, Solving
<1>4. Aware(k)
  BY <1>1, <1>2 DEF Aware, VkRec
<1> QED BY <1>2, <1>3, <1>4 DEF k, Onward, Possible

\* The fetch goes on to a place before the captchas.
LEMMA PlaceOnward ==
    ASSUME Working,
           NEW k, k \in VkRec, k.at \in {"calls", "legacy", "token", "join"}, k.link = vk.link,
           k.late = vk.late, k.unheard = vk.unheard \/ k.unheard = TRUE,
           Attempts(k),
           k.at \in {"token", "join"} => k.late = FALSE \/ k.unheard = TRUE \/ conf.mode = "auto_js"
    PROVE  Onward(k)
<1>1. vk \in VkRec /\ Aware(vk)
  BY DEF Working, FetchInv, Possible
<1>2. Aware(k)
  <2>1. k.late = TRUE => k.link \in gone
    BY <1>1 DEF Aware
  <2>2. ASSUME k.late = TRUE, k.unheard = FALSE, conf.mode # "auto_js"
        PROVE  k.at \in {"calls", "legacy"}
    BY <2>2
  <2> QED BY <2>1, <2>2 DEF Aware
<1>3. k.at # "idle"
  OBVIOUS
<1> QED BY <1>2, <1>3, Zenon DEF Onward, Possible

\* A request went without an answer: nothing is asked of such a fetch.
LEMMA UnheardOnward ==
    ASSUME NEW k, Onward(k)
    PROVE  Onward(Vk!Unheard(k)) /\ Vk!Unheard(k).at = k.at
<1> DEFINE u == Vk!Unheard(k)
<1>1. k \in VkRec /\ Attempts(k) /\ Aware(k) /\ k.at # "idle" /\ k.link = vk.link
  BY DEF Onward, Possible
<1>2. /\ u \in VkRec /\ u.at = k.at /\ u.link = k.link /\ u.tries = k.tries
      /\ u.captchas = k.captchas /\ u.late = k.late /\ u.unheard = TRUE
  BY <1>1 DEF Vk!Unheard, VkRec
<1> HIDE DEF u
<1>3. Attempts(u) /\ Aware(u)
  BY <1>1, <1>2 DEF Attempts, Aware
<1> QED BY <1>1, <1>2, <1>3 DEF u, Onward, Possible

\* A path is tried again, or what follows it.
LEMMA RetryOnward ==
    ASSUME Working, NEW k, Onward(k), k.at \in {"calls", "legacy"}, NEW otherwise, Onward(otherwise),
           NEW tries, tries = IF k.at = "calls" THEN CallsTries ELSE LegacyTries
    PROVE  Onward(Vk!Retry(k, tries, otherwise))
<1> DEFINE next == [k EXCEPT !.tries = k.tries + 1]
<1>1. k \in VkRec /\ Attempts(k) /\ Aware(k) /\ k.link = vk.link
  BY DEF Onward, Possible
<1>2. CASE k.tries + 1 < tries
  <2>1. /\ next \in VkRec /\ next.at = k.at /\ next.link = k.link /\ next.late = k.late
        /\ next.unheard = k.unheard /\ next.captchas = k.captchas /\ next.tries = k.tries + 1
    BY <1>1 DEF VkRec
  <2> HIDE DEF next
  <2>2. Aware(next)
    BY <1>1, <2>1 DEF Aware
  <2>5. Attempts(next)
    BY <1>1, <1>2, <2>1 DEF Attempts, OnLegacy, Solving, VkRec
  <2>3. Vk!Retry(k, tries, otherwise) = next
    BY <1>2 DEF Vk!Retry, next
  <2>4. next.at # "idle"
    BY <2>1, Zenon DEF Onward
  <2> QED BY <1>1, <2>1, <2>2, <2>3, <2>4, <2>5 DEF Onward, Possible
<1>3. CASE ~(k.tries + 1 < tries)
  BY <1>3 DEF Vk!Retry
<1> QED BY <1>2, <1>3

\* The legacy path begins, or has failed once more.
LEMMA LegacyOnward ==
    ASSUME Working
    PROVE  /\ Onward(Vk!Legacy)
           /\ Onward([vk EXCEPT !.at = "legacy", !.captchas = 0])
              \/ ~(vk.at \in OnLegacy)
<1>1. vk \in VkRec /\ Attempts(vk) /\ Aware(vk)
  BY DEF Working, FetchInv, Possible
<1>2. Onward(Vk!Legacy)
  <2> DEFINE k == Vk!Legacy
  <2>1. /\ k \in VkRec /\ k.at = "legacy" /\ k.link = vk.link /\ k.late = vk.late
        /\ k.unheard = vk.unheard /\ k.captchas = vk.captchas /\ k.tries = 0
    BY <1>1 DEF VkRec, OnLegacy, Vk!Legacy
  <2> HIDE DEF k
  <2>2. Attempts(k)
    BY <1>1, <2>1, SupplyAssumption DEF Attempts, OnLegacy, Solving
  <2> QED BY <2>1, <2>2, PlaceOnward DEF k
<1>3. ASSUME vk.at \in OnLegacy
      PROVE  Onward([vk EXCEPT !.at = "legacy", !.captchas = 0])
  <2> DEFINE k == [vk EXCEPT !.at = "legacy", !.captchas = 0]
  <2>1. /\ k \in VkRec /\ k.at = "legacy" /\ k.link = vk.link /\ k.late = vk.late
        /\ k.unheard = vk.unheard /\ k.captchas = 0 /\ k.tries = vk.tries
    BY <1>1 DEF VkRec, OnLegacy
  <2> HIDE DEF k
  <2>2. Attempts(k)
    BY <1>1, <1>3, <2>1, SupplyAssumption DEF Attempts, OnLegacy, Solving
  <2> QED BY <2>1, <2>2, PlaceOnward DEF k
<1> QED BY <1>2, <1>3

Outside == UNCHANGED <<conf, issued, gone>>
Continues == FetchInv' /\ vk'.at # "idle" /\ vk'.link = vk.link

\* A step of the fetch leaves its invariant in place when it goes on, opens a
\* WebView with an empty box only, and has an answer if it sets the lockout.
LEMMA Continued ==
    ASSUME Working, Onward(vk'), Surrounded', UNCHANGED <<conf, gone>>,
           vk'.at = "view" => box' # "before",
           lockout' = lockout \/ vk'.at = "answer"
    PROVE  Continues
<1>1. Surrounded /\ Quiet(vk, lockout) /\ vk.at \notin {"idle", "answer"}
  BY DEF Working, FetchInv
<1>2. Possible(vk') /\ vk'.at # "idle" /\ vk'.link = vk.link
  BY DEF Onward
<1>3. Possible(vk)'
  BY <1>2 DEF Possible, Attempts, Aware
<1>4. Quiet(vk, lockout)'
  BY <1>1 DEF Quiet
<1> QED BY <1>2, <1>3, <1>4 DEF Continues, FetchInv, AnswerSinceAsked

LEMMA RungsAre ==
    ASSUME conf \in Conf
    PROVE  /\ Len(Vk!Rungs) \in Nat
           /\ \A r \in Nat \ {0} : r <= Len(Vk!Rungs) => Vk!Rungs[r] \in {"solve", "view"}
<1>1. CASE conf.captcha = "wv"
  <2>1. Vk!Rungs = <<"view">>
    BY <1>1 DEF Vk!Rungs
  <2> QED BY <2>1
<1>2. CASE conf.captcha = "rjs"
  <2>1. Vk!Rungs = <<"solve", "solve", "view">>
    BY <1>2 DEF Vk!Rungs
  <2>2. \A r \in Nat \ {0} : r <= 3 => r \in {1, 2, 3}
    OBVIOUS
  <2> QED BY <2>1, <2>2
<1>3. CASE conf.captcha = "auto"
  <2>1. Vk!Rungs = <<"solve", "solve", "view", "view", "solve", "view">>
    BY <1>3 DEF Vk!Rungs
  <2>2. \A r \in Nat \ {0} : r <= 6 => r \in {1, 2, 3, 4, 5, 6}
    OBVIOUS
  <2> QED BY <2>1, <2>2
<1> QED BY <1>1, <1>2, <1>3, ConfType

\* The fetch was asked for a captcha it may still solve.
Climbing ==
    /\ Working /\ vk.at \in {"token"} \cup Solving /\ vk.captchas < MaxCaptchas
    /\ vk.late = FALSE \/ vk.unheard = TRUE \/ conf.mode = "auto_js"

\* It goes on to a place of the captcha ladder.
LEMMA RungOnward ==
    ASSUME Climbing, NEW p \in Solving, NEW n \in Nat
    PROVE  /\ Onward([vk EXCEPT !.at = p, !.rung = n]) /\ [vk EXCEPT !.at = p, !.rung = n].at = p
           /\ Onward([vk EXCEPT !.at = p]) /\ [vk EXCEPT !.at = p].at = p
<1>1. /\ vk \in VkRec /\ Attempts(vk) /\ Aware(vk) /\ vk.at \in OnLegacy
      /\ p \in OnLegacy /\ p \notin {"idle", "js", "calls", "legacy", "answer"}
  BY DEF Climbing, Working, FetchInv, Possible, OnLegacy, Solving
<1>2. ASSUME NEW k, k \in VkRec, k.at = p, k.link = vk.link, k.tries = vk.tries,
             k.captchas = vk.captchas, k.late = vk.late, k.unheard = vk.unheard
      PROVE  Onward(k)
  <2>1. Attempts(k)
    BY <1>1, <1>2 DEF Attempts, Climbing
  <2>2. Aware(k)
    BY <1>1, <1>2 DEF Aware, Climbing
  <2> QED BY <1>1, <1>2, <2>1, <2>2 DEF Onward, Possible
<1> DEFINE k == [vk EXCEPT !.at = p, !.rung = n]
           l == [vk EXCEPT !.at = p]
<1>3. /\ k \in VkRec /\ k.at = p /\ k.link = vk.link /\ k.tries = vk.tries
      /\ k.captchas = vk.captchas /\ k.late = vk.late /\ k.unheard = vk.unheard
  BY <1>1 DEF VkRec
<1>4. /\ l \in VkRec /\ l.at = p /\ l.link = vk.link /\ l.tries = vk.tries
      /\ l.captchas = vk.captchas /\ l.late = vk.late /\ l.unheard = vk.unheard
  BY <1>1 DEF VkRec
<1> HIDE DEF k, l
<1>5. Onward(k) /\ Onward(l)
  BY <1>2, <1>3, <1>4
<1> QED BY <1>3, <1>4, <1>5 DEF k, l

LEMMA FailedAnswer ==
    /\ Vk!Failed \in AnswerRec /\ Vk!Unavailable \in AnswerRec
    /\ \A v \in Value : Vk!Ok(v) \in AnswerRec
  BY DEF Vk!Failed, Vk!Unavailable, Vk!Ok, Vk!NoValue, AnswerRec

LEMMA ClimbContinues ==
    ASSUME Climbing, NEW r \in Nat \ {0}, Vk!Climb(r), Outside
    PROVE  Continues
<1>1. Working /\ Surrounded
  BY DEF Climbing, Working, FetchInv
<1>2. CASE r > Len(Vk!Rungs)
  <2>1. vk' = Vk!Answering(Vk!Failed) /\ lockout' = TRUE /\ UNCHANGED box
    BY <1>2 DEF Vk!Climb
  <2>2. Onward(vk') /\ vk'.at = "answer"
    BY <1>1, <2>1, AnsweringOnward, FailedAnswer DEF Climbing
  <2> QED BY <1>1, <2>1, <2>2, Continued DEF Outside, Surrounded
<1>3. CASE r <= Len(Vk!Rungs)
  <2>0. Vk!Rungs[r] \in {"solve", "view"}
    BY <1>1, <1>3, RungsAre DEF Surrounded
  <2>1. /\ vk' = [vk EXCEPT !.at = Vk!Rungs[r], !.rung = r]
        /\ box' = IF Vk!Rungs[r] = "view" THEN "empty" ELSE box
        /\ lockout' = lockout
    BY <1>3, RungsAre DEF Vk!Climb, Vk!Drained
  <2> DEFINE p == Vk!Rungs[r]
  <2>2. p \in Solving /\ vk' = [vk EXCEPT !.at = p, !.rung = r] /\ r \in Nat
    BY <2>0, <2>1 DEF Solving
  <2> HIDE DEF p
  <2>4. Onward(vk') /\ vk'.at = p
    BY <2>2, RungOnward
  <2>3. vk'.at = "view" => box' # "before"
    BY <2>1, <2>4 DEF p
  <2> QED BY <1>1, <2>1, <2>4, <2>3, Continued DEF Outside, Surrounded
<1>4. r > Len(Vk!Rungs) \/ r <= Len(Vk!Rungs)
  <2>0. conf \in Conf
    BY <1>1 DEF Surrounded
  <2>1. Len(Vk!Rungs) \in Nat
    BY <2>0, RungsAre, Zenon
  <2> QED BY <2>1
<1> QED BY <1>2, <1>3, <1>4

-----------------------------------------------------------------------------
(* The steps of the fetch.                                                 *)

LEMMA BrokerContinues ==
    ASSUME FetchInv, Vk!Broker
    PROVE  Working /\ Continues
<1>1. vk.at = "js" /\ UNCHANGED <<conf, lockout, box, gone>>
  BY DEF Vk!Broker, Vk!At
<1>2. Working /\ vk \in VkRec /\ Aware(vk) /\ Attempts(vk) /\ Surrounded
  BY <1>1 DEF Working, FetchInv, Possible
<1>3. ASSUME NEW v \in Value \ issued, vk.link \notin gone,
             vk' = Vk!Answering(Vk!Ok(v)), issued' = issued \cup {v}
      PROVE  Continues
  <2>1. Onward(vk') /\ vk'.at = "answer"
    BY <1>2, <1>3, AnsweringOnward, FailedAnswer DEF Aware, VkRec
  <2> QED BY <1>1, <1>2, <1>3, <2>1, Continued DEF Surrounded
<1>4. ASSUME vk' = [vk EXCEPT !.at = "calls"], UNCHANGED issued
      PROVE  Continues
  <2> DEFINE k == [vk EXCEPT !.at = "calls"]
  <2>1. /\ k \in VkRec /\ k.at = "calls" /\ k.link = vk.link /\ k.late = vk.late
        /\ k.unheard = vk.unheard /\ k.captchas = vk.captchas /\ k.tries = vk.tries
    BY <1>2 DEF VkRec
  <2> HIDE DEF k
  <2>2. Attempts(k)
    BY <1>1, <1>2, <2>1 DEF Attempts, OnLegacy, Solving
  <2>3. Onward(k)
    BY <1>2, <2>1, <2>2, PlaceOnward
  <2> QED BY <1>1, <1>2, <1>4, <2>1, <2>3, Continued DEF Surrounded, k
<1> QED BY <1>2, <1>3, <1>4 DEF Vk!Broker, Vk!Gone

\* The two paths are tried again while they fail.
LEMMA CallsPathContinues ==
    ASSUME FetchInv, Vk!CallsPath
    PROVE  Working /\ Continues
<1>1. vk.at = "calls" /\ UNCHANGED <<conf, lockout, issued, box, gone>>
  BY DEF Vk!CallsPath, Vk!At
<1>2. Working /\ vk \in VkRec /\ Aware(vk) /\ Possible(vk) /\ Surrounded
  BY <1>1 DEF Working, FetchInv, Possible
<1>3. Onward(vk)
  BY <1>1, <1>2 DEF Onward
<1> DEFINE k == Vk!Retry(vk, CallsTries, Vk!CallsUsedUp)
<1>4. Onward(Vk!CallsUsedUp)
  <2>1. CASE conf.mode = "auto_js"
    BY <1>2, <2>1, AnsweringOnward, FailedAnswer DEF Vk!CallsUsedUp
  <2>2. CASE conf.mode # "auto_js"
    BY <1>2, <2>2, LegacyOnward DEF Vk!CallsUsedUp
  <2> QED BY <2>1, <2>2
<1>5. Onward(k)
  BY <1>1, <1>2, <1>3, <1>4, RetryOnward
<1>6. k.at # "view" /\ Vk!Unheard(k).at # "view"
  <2>1. Vk!CallsUsedUp.at \in {"answer", "legacy"}
    BY <1>2 DEF Vk!CallsUsedUp, Vk!Answering, Vk!Legacy, VkRec
  <2>2. [vk EXCEPT !.tries = vk.tries + 1].at = vk.at
    BY <1>2 DEF VkRec
  <2>3. k.at # "view"
    BY <1>1, <2>1, <2>2 DEF Vk!Retry
  <2> HIDE DEF k
  <2> QED BY <1>5, <2>3, UnheardOnward
<1> HIDE DEF k
<1>7. Onward(Vk!Unheard(k))
  BY <1>5, UnheardOnward
<1>8. ASSUME NEW r \in AnswerRec, vk' = Vk!Answering(r),
             vk.late = FALSE \/ conf.mode = "auto_js" \/ r = Vk!Unavailable
      PROVE  Onward(vk') /\ vk'.at # "view"
  BY <1>2, <1>8, AnsweringOnward
<1>9. Onward(vk') /\ vk'.at # "view"
  <2>1. ASSUME NEW v \in Value, vk' = Vk!Answering(Vk!Ok(v)), vk.link \notin gone
        PROVE  Onward(vk') /\ vk'.at # "view"
    BY <1>2, <1>8, <2>1, FailedAnswer DEF Aware, VkRec
  <2>2. ASSUME vk' = Vk!Answering(IF conf.mode = "auto_js" THEN Vk!Failed ELSE Vk!Unavailable)
        PROVE  Onward(vk') /\ vk'.at # "view"
    BY <1>8, <2>2, FailedAnswer
  <2>3. CASE vk' = k \/ vk' = Vk!Unheard(k)
    BY <1>5, <1>6, <1>7, <2>3
  <2> QED BY <2>1, <2>2, <2>3 DEF Vk!CallsPath, Vk!Gone, k
<1> QED BY <1>1, <1>2, <1>9, Continued DEF Surrounded

\* One more failure of the legacy path: a request went without an answer.
LEMMA LegacyFailedOnward ==
    ASSUME Working, vk.at \in OnLegacy
    PROVE  /\ Onward(Vk!Unheard(Vk!LegacyFailed))
           /\ Vk!Unheard(Vk!LegacyFailed).at \in {"legacy", "answer"}
<1> DEFINE again == [vk EXCEPT !.at = "legacy", !.captchas = 0]
           next == [again EXCEPT !.tries = again.tries + 1]
           answer == Vk!Answering(Vk!Failed)
<1>1. vk \in VkRec /\ Attempts(vk) /\ Aware(vk)
  BY DEF Working, FetchInv, Possible
<1>2. Vk!LegacyFailed = IF again.tries + 1 < LegacyTries THEN next ELSE answer
  BY DEF Vk!LegacyFailed, Vk!Retry
<1>3. CASE again.tries + 1 < LegacyTries
  <2>1. Onward(again) /\ again.at = "legacy"
    BY <1>1, LegacyOnward DEF VkRec
  <2>2. next.at = "legacy"
    BY <1>1 DEF VkRec
  <2>3. Vk!Retry(again, LegacyTries, again) = next
    BY <1>3 DEF Vk!Retry
  <2> HIDE DEF again, next
  <2>4. Onward(Vk!Retry(again, LegacyTries, again))
    BY <2>1, RetryOnward
  <2>5. Onward(next)
    BY <2>3, <2>4
  <2>6. Onward(Vk!Unheard(next)) /\ Vk!Unheard(next).at = "legacy"
    BY <2>2, <2>5, UnheardOnward
  <2> QED BY <1>2, <1>3, <2>6
<1>4. CASE ~(again.tries + 1 < LegacyTries)
  <2> DEFINE k == Vk!Unheard(answer)
  <2>1. Vk!Failed \in AnswerRec
    BY FailedAnswer
  <2>2. /\ k \in VkRec /\ k.at = "answer" /\ k.link = vk.link /\ k.late = vk.late
        /\ k.unheard = TRUE /\ k.captchas = vk.captchas
    BY <1>1, <2>1 DEF Vk!Unheard, Vk!Answering, VkRec
  <2> HIDE DEF k
  <2>3. Attempts(k) /\ Aware(k)
    BY <1>1, <2>2 DEF Attempts, Aware, OnLegacy, Solving
  <2>4. Onward(k)
    BY <2>2, <2>3 DEF Onward, Possible
  <2> QED BY <1>2, <1>4, <2>2, <2>4 DEF k
<1> QED BY <1>3, <1>4

\* Where nothing but the token and the join follows, the end of the call was not
\* there at the beginning, or a request went without an answer.
LEMMA PassesOn ==
    ASSUME Working, vk.at \in OnLegacy, NEW p \in {"token", "join"}
    PROVE  /\ vk.late = FALSE \/ vk.unheard = TRUE \/ conf.mode = "auto_js"
                => Onward([vk EXCEPT !.at = p])
           /\ [vk EXCEPT !.at = p].at = p
           /\ Onward(Vk!Unheard([vk EXCEPT !.at = p])) /\ Vk!Unheard([vk EXCEPT !.at = p]).at = p
<1>1. vk \in VkRec /\ Attempts(vk) /\ Aware(vk) /\ p \in OnLegacy /\ p \notin Solving
  BY DEF Working, FetchInv, Possible, OnLegacy, Solving
<1> DEFINE k == [vk EXCEPT !.at = p]
           u == Vk!Unheard(k)
<1>2. /\ k \in VkRec /\ k.at = p /\ k.link = vk.link /\ k.late = vk.late /\ k.unheard = vk.unheard
      /\ k.captchas = vk.captchas /\ k.tries = vk.tries
  BY <1>1 DEF VkRec
<1> HIDE DEF k
<1>3. /\ u \in VkRec /\ u.at = p /\ u.link = vk.link /\ u.late = vk.late /\ u.unheard = TRUE
      /\ u.captchas = vk.captchas /\ u.tries = vk.tries
  BY <1>2 DEF VkRec, Vk!Unheard
<1> HIDE DEF u
<1>4. Attempts(k) /\ Attempts(u)
  BY <1>1, <1>2, <1>3 DEF Attempts
<1>5. Onward(u)
  BY <1>3, <1>4, PlaceOnward
<1>6. vk.late = FALSE \/ vk.unheard = TRUE \/ conf.mode = "auto_js" => Onward(k)
  BY <1>2, <1>4, PlaceOnward
<1> QED BY <1>2, <1>3, <1>5, <1>6 DEF k, u

LEMMA LegacyOpensContinues ==
    ASSUME FetchInv, Vk!LegacyOpens
    PROVE  Working /\ Continues
<1>1. vk.at = "legacy" /\ UNCHANGED <<conf, lockout, issued, box, gone>>
  BY DEF Vk!LegacyOpens, Vk!At
<1>2. Working /\ vk \in VkRec /\ Aware(vk) /\ Surrounded /\ vk.at \in OnLegacy
  BY <1>1 DEF Working, FetchInv, Possible, OnLegacy
<1>3. ASSUME vk.link \notin gone, vk' = [vk EXCEPT !.at = "token"]
      PROVE  Onward(vk') /\ vk'.at # "view"
  <2>1. vk.late = FALSE
    BY <1>2, <1>3 DEF Aware, VkRec
  <2> QED BY <1>2, <1>3, <2>1, PassesOn
<1>4. ASSUME vk' = Vk!Answering(Vk!Unavailable)
      PROVE  Onward(vk') /\ vk'.at # "view"
  BY <1>2, <1>4, AnsweringOnward, FailedAnswer
<1>5. vk' = Vk!Unheard(Vk!LegacyFailed) => Onward(vk') /\ vk'.at # "view"
  BY <1>2, LegacyFailedOnward
<1>6. vk' = Vk!Unheard([vk EXCEPT !.at = "token"]) => Onward(vk') /\ vk'.at # "view"
  BY <1>2, PassesOn
<1>7. Onward(vk') /\ vk'.at # "view"
  BY <1>3, <1>4, <1>5, <1>6 DEF Vk!LegacyOpens, Vk!Gone
<1> QED BY <1>1, <1>2, <1>7, Continued DEF Surrounded

\* From the first token request on, a fetch that was late did not hear all.
LEMMA BeyondOpening ==
    ASSUME FetchInv, vk.at \in {"token", "join"} \cup Solving
    PROVE  /\ Working /\ vk.at \in OnLegacy
           /\ vk.late = FALSE \/ vk.unheard = TRUE \/ conf.mode = "auto_js"
           /\ vk \in VkRec /\ Attempts(vk) /\ Surrounded
  BY DEF FetchInv, Working, Possible, Aware, OnLegacy, Solving, VkRec

LEMMA TokenRequestContinues ==
    ASSUME FetchInv, Vk!TokenRequest
    PROVE  Working /\ Continues
<1>1. vk.at = "token" /\ UNCHANGED <<conf, issued, gone>>
  BY DEF Vk!TokenRequest, Vk!At
<1>2. /\ Working /\ vk.at \in OnLegacy /\ Surrounded
      /\ vk.late = FALSE \/ vk.unheard = TRUE \/ conf.mode = "auto_js"
  BY <1>1, BeyondOpening
<1>3. ASSUME vk' = [vk EXCEPT !.at = "join"], UNCHANGED <<lockout, box>>
      PROVE  Continues
  <2>1. Onward(vk') /\ vk'.at # "view"
    BY <1>2, <1>3, PassesOn
  <2> QED BY <1>1, <1>2, <1>3, <2>1, Continued DEF Surrounded
<1>4. ASSUME vk' = Vk!Answering(Vk!Unavailable), UNCHANGED <<lockout, box>>
      PROVE  Continues
  <2>1. Onward(vk') /\ vk'.at # "view"
    BY <1>2, <1>4, AnsweringOnward, FailedAnswer
  <2> QED BY <1>1, <1>2, <1>4, <2>1, Continued DEF Surrounded
<1>5. ASSUME vk' = Vk!Unheard(Vk!LegacyFailed), UNCHANGED <<lockout, box>>
      PROVE  Continues
  <2>1. Onward(vk') /\ vk'.at # "view"
    BY <1>2, <1>5, LegacyFailedOnward
  <2> QED BY <1>1, <1>2, <1>5, <2>1, Continued DEF Surrounded
<1>6. ASSUME vk' = Vk!Answering(Vk!Failed), lockout' = TRUE, UNCHANGED box
      PROVE  Continues
  <2>1. Onward(vk') /\ vk'.at = "answer"
    BY <1>2, <1>6, AnsweringOnward, FailedAnswer
  <2> QED BY <1>1, <1>2, <1>6, <2>1, Continued DEF Surrounded
<1> QED BY <1>2, <1>3, <1>4, <1>5, <1>6 DEF Vk!TokenRequest

\* The captcha ladder.
LEMMA CaptchaDemandedContinues ==
    ASSUME FetchInv, Vk!CaptchaDemanded
    PROVE  Working /\ Continues
<1>1. vk.at = "token" /\ vk.captchas < MaxCaptchas /\ Outside /\ Vk!Climb(1)
  BY DEF Vk!CaptchaDemanded, Vk!At, Outside
<1>2. Climbing /\ Working
  BY <1>1, BeyondOpening DEF Climbing
<1>3. 1 \in Nat \ {0}
  OBVIOUS
<1>4. Continues
  BY <1>1, <1>2, <1>3, ClimbContinues, Zenon
<1> QED BY <1>2, <1>4

\* On a rung, the next one may follow.
LEMMA OnRung ==
    ASSUME FetchInv, vk.at \in Solving
    PROVE  /\ Climbing /\ Working /\ vk \in VkRec /\ Surrounded
           /\ Vk!NextRung /\ Outside => Continues
<1>1. Climbing /\ Working /\ vk \in VkRec /\ Surrounded /\ vk.rung \in Nat
  BY BeyondOpening DEF Climbing, Attempts, VkRec
<1>2. vk.rung + 1 \in Nat \ {0}
  BY <1>1
<1> QED BY <1>1, <1>2, ClimbContinues DEF Vk!NextRung

\* A captcha was solved: the token is asked for once more.
LEMMA SolvedOnward ==
    ASSUME Climbing
    PROVE  Onward(Vk!Solved) /\ Vk!Solved.at = "token"
<1>1. Working /\ vk \in VkRec /\ Attempts(vk) /\ vk.at \in OnLegacy /\ "token" \in OnLegacy
  BY DEF Climbing, Working, FetchInv, Possible, OnLegacy
<1> DEFINE n == vk.captchas + 1
           k == [vk EXCEPT !.at = "token", !.captchas = n, !.rung = 0]
<1>0. k = Vk!Solved /\ n = vk.captchas + 1
  BY DEF Vk!Solved
<1>5. n \in Nat
  BY <1>1 DEF VkRec
<1> HIDE DEF n
<1>2. /\ k \in VkRec /\ k.at = "token" /\ k.link = vk.link /\ k.late = vk.late
      /\ k.unheard = vk.unheard /\ k.captchas = n /\ k.tries = vk.tries
  BY <1>1, <1>5 DEF VkRec
<1> HIDE DEF k
<1>3. Attempts(k)
  BY <1>0, <1>1, <1>2, SupplyAssumption DEF Attempts, Climbing, VkRec, OnLegacy, Solving
<1>4. Onward(k)
  BY <1>1, <1>2, <1>3, PlaceOnward DEF Climbing
<1> QED BY <1>0, <1>2, <1>4

LEMMA RungContinues ==
    ASSUME FetchInv, Vk!OpenPage \/ Vk!Checkbox \/ Vk!Slider \/ Vk!ViewAnswered \/ Vk!ViewFails
    PROVE  Working /\ Continues
<1>1. vk.at \in Solving /\ UNCHANGED <<conf, issued, gone>>
  BY DEF Vk!OpenPage, Vk!Checkbox, Vk!Slider, Vk!ViewAnswered, Vk!ViewFails, Vk!At, Solving
<1>2. /\ Climbing /\ Working /\ vk \in VkRec /\ Surrounded /\ Outside
      /\ Vk!NextRung => Continues
  BY <1>1, OnRung DEF Outside
<1>3. ASSUME vk' = Vk!Solved, lockout' = lockout, box' \in {box, "empty"}
      PROVE  Continues
  <2>1. Onward(vk') /\ vk'.at # "view"
    BY <1>2, <1>3, SolvedOnward
  <2> QED BY <1>1, <1>2, <1>3, <2>1, Continued DEF Surrounded
<1>4. ASSUME NEW p \in {"checkbox", "slider"}, vk' = [vk EXCEPT !.at = p], UNCHANGED <<lockout, box>>
      PROVE  Continues
  <2>0. p \in Solving /\ p # "view"
    BY DEF Solving
  <2>1. Onward(vk') /\ vk'.at # "view"
    BY <1>2, <1>4, <2>0, RungOnward
  <2> QED BY <1>1, <1>2, <1>4, <2>1, Continued DEF Surrounded
<1>5. CASE Vk!OpenPage
  BY <1>2, <1>4, <1>5 DEF Vk!OpenPage, Vk!Page
<1>6. CASE Vk!Checkbox
  BY <1>2, <1>3, <1>4, <1>6 DEF Vk!Checkbox
<1>7. CASE Vk!Slider
  BY <1>2, <1>3, <1>7 DEF Vk!Slider
<1>8. CASE Vk!ViewAnswered
  BY <1>2, <1>3, <1>8 DEF Vk!ViewAnswered
<1>9. CASE Vk!ViewFails
  BY <1>2, <1>9 DEF Vk!ViewFails
<1> QED BY <1>5, <1>6, <1>7, <1>8, <1>9

LEMMA JoinContinues ==
    ASSUME FetchInv, Vk!Join
    PROVE  Working /\ Continues
<1>1. vk.at = "join" /\ UNCHANGED <<conf, lockout, issued, box, gone>>
  BY DEF Vk!Join, Vk!At
<1>2. /\ Working /\ vk.at \in OnLegacy /\ Surrounded
      /\ vk.late = FALSE \/ vk.unheard = TRUE \/ conf.mode = "auto_js"
  BY <1>1, BeyondOpening
<1>3. ASSUME NEW v \in Value, vk' = Vk!Answering(Vk!Ok(v))
      PROVE  Onward(vk') /\ vk'.at # "view"
  BY <1>2, <1>3, AnsweringOnward, FailedAnswer
<1>4. vk' = Vk!Unheard(Vk!LegacyFailed) => Onward(vk') /\ vk'.at # "view"
  BY <1>2, LegacyFailedOnward
<1>5. Onward(vk') /\ vk'.at # "view"
  BY <1>3, <1>4 DEF Vk!Join
<1> QED BY <1>1, <1>2, <1>5, Continued DEF Surrounded

LEMMA StepContinues ==
    ASSUME FetchInv, Vk!Step
    PROVE  Working /\ Continues
  BY BrokerContinues, CallsPathContinues, LegacyOpensContinues, TokenRequestContinues,
     CaptchaDemandedContinues, RungContinues, JoinContinues DEF Vk!Step

-----------------------------------------------------------------------------
(* The workers.  Of a worker only its place matters here.                  *)

Shaped == DOMAIN worker = Worker /\ \A w \in Worker : "at" \in DOMAIN worker[w]

\* The fetch and the worker that waits for it.
Owned ==
    /\ vk.at # "idle" => /\ pacer \in Worker /\ worker[pacer].at = "fetch"
                         /\ vk.link = HashOf[CohortOf[pacer]]
    /\ \A w \in Worker : worker[w].at = "fetch" => vk.at # "idle" /\ pacer = w

IInv == FetchInv /\ Shaped /\ Owned

\* Of the workers only w changes.
OnlyOne(w) == Shaped' /\ \A o \in Worker \ {w} : worker'[o] = worker[o]

\* What a step of one worker leaves of it.
LEMMA Placed ==
    ASSUME Shaped, NEW w \in Worker, NEW at, worker' = [worker EXCEPT ![w].at = at]
    PROVE  OnlyOne(w) /\ worker'[w].at = at
  BY DEF Shaped, OnlyOne

LEMMA PlacedAnd ==
    ASSUME Shaped, NEW w \in Worker, NEW at, NEW x, NEW y,
           \/ worker' = [worker EXCEPT ![w].at = at, ![w].lease = x]
           \/ worker' = [worker EXCEPT ![w].at = at, ![w].flight = x]
           \/ worker' = [worker EXCEPT ![w].at = at, ![w].started = x]
           \/ worker' = [worker EXCEPT ![w].at = at, ![w].unrecorded = x]
           \/ worker' = [worker EXCEPT ![w].at = at, ![w].flight = x, ![w].ready = y]
    PROVE  OnlyOne(w) /\ worker'[w].at = at
  BY DEF Shaped, OnlyOne

\* A step of a worker that does not wait for the fetch, nor will.
Aside(w) ==
    /\ OnlyOne(w) /\ worker[w].at # "fetch" /\ worker'[w].at # "fetch"
    /\ pacer' \in {pacer, Cred!Unpaced(w)}

LEMMA GetStepAside ==
    ASSUME Shaped, NEW w \in Worker, Cred!GetStep(w)
    PROVE  Aside(w)
<1>1. CASE Cred!Get(w)
  <2> DEFINE l == Cred!Lease(Cred!Usable(cache[CohortOf[w]]))
  <2>1. /\ worker[w].at = "want" /\ pacer' = pacer
        /\ \/ worker' = [worker EXCEPT ![w].at = "leased", ![w].lease = l]
           \/ worker' = [worker EXCEPT ![w].at = "pacing"]
    <3>1. worker[w].at = "want" /\ pacer' = pacer
      BY <1>1, Zenon DEF Cred!Get, Cred!At
    <3>2. \/ worker' = [worker EXCEPT ![w].at = "leased", ![w].lease = l]
          \/ worker' = [worker EXCEPT ![w].at = "pacing"]
      BY <1>1, Zenon DEF Cred!Get, Cred!Moved
    <3> QED BY <3>1, <3>2
  <2> HIDE DEF l
  <2>2. OnlyOne(w) /\ worker'[w].at \in {"leased", "pacing"}
    BY <2>1, Placed, PlacedAnd
  <2> QED BY <2>1, <2>2 DEF Aside
<1>2. CASE Cred!Settled(w)
  <2> DEFINE l == Cred!Lease(Cred!Usable(cache[CohortOf[w]]))
  <2>1. /\ worker[w].at = "settling" /\ pacer' = Cred!Unpaced(w)
        /\ worker' = [worker EXCEPT ![w].at = "leased", ![w].lease = l]
    BY <1>2 DEF Cred!Settled, Cred!At
  <2> HIDE DEF l
  <2>2. OnlyOne(w) /\ worker'[w].at = "leased"
    BY <2>1, PlacedAnd
  <2> QED BY <2>1, <2>2 DEF Aside
<1>3. CASE Cred!DelayOver(w)
  <2>1. /\ worker[w].at \in {"backoff", "refused"} /\ pacer' = Cred!Unpaced(w)
        /\ worker' = [worker EXCEPT ![w].at = "want"]
    BY <1>3 DEF Cred!DelayOver, Cred!At, Cred!Moved
  <2>2. OnlyOne(w) /\ worker'[w].at = "want"
    BY <2>1, Placed, Zenon
  <2> QED BY <2>1, <2>2 DEF Aside
<1> QED BY <1>1, <1>2, <1>3 DEF Cred!GetStep

LEMMA GateStepAside ==
    ASSUME Shaped, NEW w \in Worker, Cred!GateStep(w)
    PROVE  Aside(w)
<1>1. /\ worker[w].at \in {"leased", "held", "gate"} /\ pacer' = pacer
      /\ \E p \in {"held", "want", "leased", "gone"} : worker' = [worker EXCEPT ![w].at = p]
  BY DEF Cred!GateStep, Cred!HeldBack, Cred!Released, Cred!StopsAtGate, Cred!At, Cred!Moved
<1>2. OnlyOne(w) /\ worker'[w].at \in {"held", "want", "leased", "gone"}
  BY <1>1, Placed
<1> QED BY <1>1, <1>2 DEF Aside

\* A worker at the top of the loop.
LEMMA TopPlaces == \A t \in Cred!Top : "at" \in DOMAIN t /\ t.at \in {"want", "gate"}
  BY DEF Cred!Top, Cred!TopAt

LEMMA SessionStepAside ==
    ASSUME Shaped, NEW w \in Worker, Cred!SessionStep(w)
    PROVE  Aside(w)
<1>1. CASE Cred!StartSession(w)
  <2> DEFINE flight == ~config.sent /\ ~config.in_flight
  <2>1. /\ worker[w].at = "leased" /\ pacer' = pacer
        /\ worker' = [worker EXCEPT ![w].at = "connecting", ![w].flight = flight]
    BY <1>1 DEF Cred!StartSession, Cred!At
  <2> HIDE DEF flight
  <2>2. OnlyOne(w) /\ worker'[w].at = "connecting"
    BY <2>1, PlacedAnd
  <2> QED BY <2>1, <2>2 DEF Aside
<1>2. CASE Cred!LeaseReturned(w) \/ Cred!ConfigAnswered(w)
  <2>1. \E p \in {"gone", "ready"} : worker' = [worker EXCEPT ![w].at = p]
    BY <1>2 DEF Cred!LeaseReturned, Cred!ConfigAnswered, Cred!Moved
  <2>2. worker[w].at \in {"leased", "held", "allocated"} /\ pacer' = pacer
    BY <1>2 DEF Cred!LeaseReturned, Cred!ConfigAnswered, Cred!At
  <2>3. OnlyOne(w) /\ worker'[w].at \in {"gone", "ready"}
    BY <2>1, Placed
  <2> QED BY <2>2, <2>3 DEF Aside
<1>3. CASE Cred!BeginAllocation(w) \/ Cred!Allocated(w)
  <2>1. /\ worker[w].at \in {"connecting", "allocating"} /\ pacer' = pacer
        /\ \/ worker' = [worker EXCEPT ![w].at = "allocating", ![w].started = TRUE]
           \/ worker' = [worker EXCEPT ![w].at = "allocated", ![w].unrecorded = TRUE]
    BY <1>3, SMTT(30) DEF Cred!BeginAllocation, Cred!Allocated, Cred!At
  <2>2. OnlyOne(w) /\ worker'[w].at \in {"allocating", "allocated"}
    BY <2>1, PlacedAnd
  <2> QED BY <2>1, <2>2 DEF Aside
<1>4. CASE Cred!RecordAllocation(w)
  <2>1. /\ worker' = [worker EXCEPT ![w].unrecorded = FALSE] /\ pacer' = pacer
        /\ worker[w].at \in {"allocated", "ready"}
    BY <1>4 DEF Cred!RecordAllocation, Cred!At
  <2>2. OnlyOne(w) /\ worker'[w].at = worker[w].at
    BY <2>1 DEF Shaped, OnlyOne
  <2> QED BY <2>1, <2>2 DEF Aside
<1>5. CASE Cred!SessionFails(w) \/ Cred!SessionCancelled(w)
  <2>1. worker[w].at \in Cred!InSession /\ \E r : Cred!SessionEnds(w, r)
    BY <1>5 DEF Cred!SessionFails, Cred!SessionCancelled, Cred!At
  <2>2. PICK r : Cred!SessionEnds(w, r)
    BY <2>1
  <2> DEFINE ready == Cred!At(w, {"ready"})
  <2>3. /\ worker' = [worker EXCEPT ![w].at = "ended", ![w].result = r, ![w].unrecorded = FALSE,
                                    ![w].ready = ready]
        /\ pacer' = pacer /\ worker[w].at # "fetch"
    BY <2>1, <2>2 DEF Cred!SessionEnds, Cred!InSession
  <2> HIDE DEF ready
  <2>4. OnlyOne(w) /\ worker'[w].at = "ended"
    BY <2>3 DEF Shaped, OnlyOne
  <2> QED BY <2>3, <2>4 DEF Aside
<1>6. CASE Cred!Clear(w)
  <2> DEFINE p == IF Cred!Dead(w) THEN "gone" ELSE "sort"
  <2>1. /\ worker[w].at = "ended" /\ pacer' = pacer /\ p # "fetch"
        /\ worker' = [worker EXCEPT ![w].at = p, ![w].flight = FALSE, ![w].ready = FALSE]
    BY <1>6 DEF Cred!Clear, Cred!At
  <2> HIDE DEF p
  <2>2. OnlyOne(w) /\ worker'[w].at = p
    BY <2>1, PlacedAnd
  <2> QED BY <2>1, <2>2 DEF Aside
<1>7. CASE Cred!Sort(w) \/ Cred!SortHeldBack(w)
  <2>1. Cred!StartsOver(w) /\ worker[w].at = "sort" /\ pacer' = pacer
    BY <1>7 DEF Cred!Sort, Cred!SortHeldBack, Cred!At
  <2>2. PICK t \in Cred!Top : worker' = [worker EXCEPT ![w] = t]
    BY <2>1 DEF Cred!StartsOver
  <2>3. OnlyOne(w) /\ worker'[w].at \in {"want", "gate"}
    BY <2>2, TopPlaces DEF Shaped, OnlyOne
  <2> QED BY <2>1, <2>3 DEF Aside
<1> QED BY <1>1, <1>2, <1>3, <1>4, <1>5, <1>6, <1>7 DEF Cred!SessionStep

LEMMA AsideOwned ==
    ASSUME IInv, NEW w \in Worker, Aside(w), UNCHANGED fetchVars
    PROVE  IInv'
<1>1. FetchInv'
  BY DEF IInv, fetchVars, FetchInv, Surrounded, Possible, Attempts, Aware, Quiet, AnswerSinceAsked
<1>2. Shaped' /\ vk' = vk
  BY DEF Aside, OnlyOne, fetchVars
<1>3. ASSUME vk'.at # "idle"
      PROVE  pacer' \in Worker /\ worker'[pacer'].at = "fetch" /\ vk'.link = HashOf[CohortOf[pacer']]
  <2>1. pacer \in Worker /\ worker[pacer].at = "fetch" /\ pacer # w
    BY <1>2, <1>3 DEF IInv, Owned, Aside
  <2>2. pacer' = pacer /\ worker'[pacer] = worker[pacer]
    BY <2>1 DEF Aside, OnlyOne, Cred!Unpaced
  <2> QED BY <1>2, <1>3, <2>1, <2>2 DEF IInv, Owned
<1>4. ASSUME NEW o \in Worker, worker'[o].at = "fetch"
      PROVE  vk'.at # "idle" /\ pacer' = o
  <2>1. o # w /\ worker[o].at = "fetch"
    BY <1>4 DEF Aside, OnlyOne
  <2>2. vk.at # "idle" /\ pacer = o
    BY <2>1 DEF IInv, Owned
  <2> QED BY <1>2, <2>1, <2>2 DEF Aside, Cred!Unpaced
<1> QED BY <1>1, <1>2, <1>3, <1>4 DEF IInv, Owned

-----------------------------------------------------------------------------
(* The steps in which both take part.                                      *)

LEMMA IdleFetch ==
    ASSUME FetchInv, vk' = Vk!Idle, UNCHANGED <<conf, lockout, issued, box, gone>>
    PROVE  FetchInv' /\ vk'.at = "idle"
<1>1. Possible(vk') /\ vk'.at = "idle"
  BY IdlePossible
<1>2. Possible(vk)'
  BY <1>1 DEF Possible, Attempts, Aware
<1> QED BY <1>1, <1>2 DEF FetchInv, Surrounded, Quiet, AnswerSinceAsked

LEMMA BeginPreserves ==
    ASSUME FetchInv, NEW h \in Hash, Vk!Begin(h)
    PROVE  FetchInv' /\ vk'.at # "idle" /\ vk'.link = h /\ vk.at = "idle"
<1> DEFINE start(place) == Vk!NewFetch(h, place)
           late == h \in gone
<1>1. /\ vk.at = "idle" /\ UNCHANGED <<conf, lockout, issued, box, gone>> /\ Surrounded
      /\ conf.seed[h] \in Value \cup {0} /\ conf.mode \in {"auto_js", "vkcalls", "legacy"}
  BY ConfType DEF Vk!Begin, Vk!At, FetchInv, Surrounded
<1>2. ASSUME NEW place \in {"js", "calls", "legacy", "answer"}
      PROVE  /\ start(place) \in VkRec /\ start(place).at = place /\ start(place).link = h
             /\ start(place).tries = 0 /\ start(place).captchas = 0 /\ start(place).late = late
  <2> DEFINE i == Vk!Idle
  <2>1. i \in VkRec /\ i.tries = 0 /\ i.captchas = 0
    BY IdlePossible DEF Possible, Vk!Idle
  <2>2. Vk!NewFetch(h, place) = [i EXCEPT !.at = place, !.link = h, !.late = late]
    BY Zenon DEF Vk!NewFetch
  <2>3. late \in BOOLEAN /\ place \in {"idle", "js", "calls", "answer"} \cup OnLegacy
    BY DEF OnLegacy
  <2> HIDE DEF i, late
  <2> QED BY <2>1, <2>2, <2>3 DEF VkRec
<1> HIDE DEF late
<1>3. ASSUME NEW k, k \in VkRec, k.link = h, k.captchas = 0, k.tries = 0, k.late = late,
             k.at \in {"js", "calls", "legacy"} \/ (k.at = "answer" /\ k.unheard = TRUE)
      PROVE  Possible(k)
  <2>1. Attempts(k)
    BY <1>3, SupplyAssumption DEF Attempts, OnLegacy, Solving
  <2>2. Aware(k)
    BY <1>3 DEF Aware, late
  <2> QED BY <1>3, <2>1, <2>2 DEF Possible
<1>4. ASSUME NEW r \in AnswerRec
      PROVE  LET k == [Vk!NewFetch(h, "answer") EXCEPT !.answer = r, !.unheard = TRUE]
             IN  /\ k \in VkRec /\ k.link = h /\ k.captchas = 0 /\ k.tries = 0 /\ k.late = late
                 /\ k.at = "answer" /\ k.unheard = TRUE
  <2> DEFINE s == start("answer")
  <2>1. /\ s \in VkRec /\ s.at = "answer" /\ s.link = h /\ s.tries = 0 /\ s.captchas = 0
        /\ s.late = late
    BY <1>2
  <2> HIDE DEF s
  <2>2. LET k == [s EXCEPT !.answer = r, !.unheard = TRUE]
        IN  /\ k \in VkRec /\ k.link = h /\ k.captchas = 0 /\ k.tries = 0 /\ k.late = late
            /\ k.at = "answer" /\ k.unheard = TRUE
    BY <1>4, <2>1 DEF VkRec
  <2> QED BY <2>2 DEF s
<1>5. CASE conf.seed[h] # 0
  <2>1. conf.seed[h] \in Value
    BY <1>1, <1>5
  <2>2. Vk!Ok(conf.seed[h]) \in AnswerRec
    BY <2>1, FailedAnswer
  <2>3. vk' = [Vk!NewFetch(h, "answer") EXCEPT !.answer = Vk!Ok(conf.seed[h]), !.unheard = TRUE]
    BY <1>5 DEF Vk!Begin, Vk!NoValue
  <2>4. Possible(vk') /\ vk'.at = "answer" /\ vk'.link = h
    BY <1>3, <1>4, <2>2, <2>3
  <2> QED BY <1>1, <2>4 DEF FetchInv, Surrounded, Possible, Attempts, Aware, Quiet, AnswerSinceAsked
<1>6. CASE conf.seed[h] = 0 /\ conf.mode # "auto_js" /\ lockout = TRUE
  <2>1. vk' = [Vk!NewFetch(h, "answer") EXCEPT !.answer = Vk!Failed, !.unheard = TRUE]
    BY <1>6 DEF Vk!Begin, Vk!NoValue
  <2>2. Possible(vk') /\ vk'.at = "answer" /\ vk'.link = h
    BY <1>3, <1>4, <2>1, FailedAnswer
  <2> QED BY <1>1, <2>2 DEF FetchInv, Surrounded, Possible, Attempts, Aware, Quiet, AnswerSinceAsked
<1>7. CASE conf.seed[h] = 0 /\ (conf.mode = "auto_js" \/ lockout = FALSE)
  <2>1. \E p \in {"js", "calls", "legacy"} : vk' = start(p)
    BY <1>7 DEF Vk!Begin, Vk!NoValue
  <2> HIDE DEF start
  <2>2. Possible(vk') /\ vk'.at \in {"js", "calls", "legacy"} /\ vk'.link = h
    BY <1>2, <1>3, <2>1
  <2> QED BY <1>1, <1>7, <2>2 DEF FetchInv, Surrounded, Possible, Attempts, Aware, Quiet, AnswerSinceAsked
<1>8. lockout \in BOOLEAN
  BY <1>1 DEF Surrounded
<1> QED BY <1>1, <1>5, <1>6, <1>7, <1>8

LEMMA SurroundingsPreserve ==
    ASSUME FetchInv, Vk!Surroundings
    PROVE  FetchInv' /\ vk' = vk
<1>1. CASE Vk!Submit
  BY <1>1 DEF Vk!Submit, FetchInv, Surrounded, Possible, Attempts, Aware, Quiet, AnswerSinceAsked
<1>2. CASE Vk!LockoutExpires
  BY <1>2 DEF Vk!LockoutExpires, FetchInv, Surrounded, Possible, Attempts, Aware, Quiet,
              AnswerSinceAsked
<1>3. CASE \E h \in Hash : Vk!CallEnds(h)
  <2>1. PICK h \in Hash : Vk!CallEnds(h)
    BY <1>3
  <2>2. gone' = gone \cup {h} /\ UNCHANGED <<conf, vk, lockout, issued, box>>
    BY <2>1 DEF Vk!CallEnds
  <2>3. Aware(vk)'
    BY <2>2 DEF FetchInv, Possible, Aware
  <2> QED BY <2>2, <2>3 DEF FetchInv, Surrounded, Possible, Attempts, Quiet, AnswerSinceAsked
<1> QED BY <1>1, <1>2, <1>3 DEF Vk!Surroundings

\* Whoever holds the pacer or waits for the fetch is the one the fetch belongs to.
LEMMA BeginFetchPreserves ==
    ASSUME IInv, NEW w \in Worker, BeginFetch(w)
    PROVE  IInv'
<1>1. /\ worker' = [worker EXCEPT ![w].at = "fetch"] /\ pacer' = w /\ pacer = 0
      /\ Vk!Begin(HashOf[CohortOf[w]])
  BY DEF BeginFetch, Cred!BeginFetch, Cred!Moved, Cred!Nobody
<1>2. FetchInv' /\ vk'.at # "idle" /\ vk'.link = HashOf[CohortOf[w]]
  BY <1>1, BeginPreserves, SupplyAssumption DEF IInv
<1>3. OnlyOne(w) /\ worker'[w].at = "fetch"
  BY <1>1, Placed DEF IInv
<1>4. \A o \in Worker \ {w} : worker[o].at # "fetch"
  BY <1>1, SupplyAssumption DEF IInv, Owned
<1>5. Owned'
  BY <1>1, <1>2, <1>3, <1>4 DEF Owned, OnlyOne
<1> QED BY <1>2, <1>3, <1>5 DEF IInv, OnlyOne

\* The fetch is over, with an answer or without one, and so is the wait for it.
LEMMA FetchOver ==
    ASSUME IInv, NEW w \in Worker, worker[w].at = "fetch", OnlyOne(w), worker'[w].at # "fetch",
           vk' = Vk!Idle, UNCHANGED <<conf, lockout, issued, box, gone>>
    PROVE  IInv'
<1>1. FetchInv' /\ vk'.at = "idle"
  BY IdleFetch DEF IInv
<1>2. \A o \in Worker \ {w} : worker[o].at # "fetch"
  BY DEF IInv, Owned
<1>3. Owned'
  BY <1>1, <1>2 DEF Owned, OnlyOne
<1> QED BY <1>1, <1>3 DEF IInv, OnlyOne

LEMMA AnswerPreserves ==
    ASSUME IInv, NEW w \in Worker, Answer(w)
    PROVE  IInv'
<1>1. PICK r \in Cred!Outcome : Vk!Answered(r) /\ Cred!Answer(w, r)
  BY DEF Answer
<1>2. worker[w].at = "fetch" /\ \E p \in {"refused", "settling", "gone", "backoff"} :
                                    worker' = [worker EXCEPT ![w].at = p]
  BY <1>1 DEF Cred!Answer, Cred!Fetched, Cred!MarkUnavailable, Cred!At, Cred!Moved
<1>3. OnlyOne(w) /\ worker'[w].at # "fetch"
  BY <1>2, Placed DEF IInv
<1>4. vk' = Vk!Idle /\ UNCHANGED <<conf, lockout, issued, box, gone>>
  BY <1>1 DEF Vk!Answered
<1> QED BY <1>2, <1>3, <1>4, FetchOver

LEMMA GivesUpPreserves ==
    ASSUME IInv, NEW w \in Worker, GivesUp(w)
    PROVE  IInv'
<1>1. worker' = [worker EXCEPT ![w].at = "gone"] /\ pacer' = Cred!Unpaced(w)
  BY DEF GivesUp, Cred!GivesUp, Cred!Moved
<1>2. OnlyOne(w) /\ worker'[w].at = "gone"
  BY <1>1, Placed DEF IInv
<1>3. CASE worker[w].at = "fetch"
  <2>1. vk' = Vk!Idle /\ UNCHANGED <<conf, lockout, issued, box, gone>>
    BY <1>3 DEF GivesUp, Vk!Abandon
  <2> QED BY <1>2, <1>3, <2>1, FetchOver
<1>4. CASE worker[w].at # "fetch"
  <2>1. UNCHANGED fetchVars
    BY <1>4 DEF GivesUp
  <2> QED BY <1>1, <1>2, <1>4, <2>1, AsideOwned DEF Aside
<1> QED BY <1>3, <1>4

LEMMA InitIInv == Init => IInv
<1> SUFFICES ASSUME Init PROVE IInv
  OBVIOUS
<1>1. /\ conf \in Conf /\ vk = Vk!Idle /\ lockout = FALSE /\ issued = {} /\ box = "unasked"
      /\ gone = {} /\ worker \in [Worker -> Cred!Top]
  BY DEF Init, Vk!Init, Cred!Init
<1>2. Possible(vk) /\ vk.at = "idle"
  BY <1>1, IdlePossible
<1>3. FetchInv
  BY <1>1, <1>2 DEF FetchInv, Surrounded, Quiet, AnswerSinceAsked
<1>4. \A w \in Worker : "at" \in DOMAIN worker[w] /\ worker[w].at \in {"want", "gate"}
  BY <1>1, TopPlaces
<1>5. Shaped /\ Owned
  BY <1>1, <1>2, <1>4 DEF Shaped, Owned
<1> QED BY <1>3, <1>5 DEF IInv

LEMMA NextIInv == IInv /\ [Next]_vars => IInv'
<1> SUFFICES ASSUME IInv, [Next]_vars PROVE IInv'
  OBVIOUS
<1>1. CASE UNCHANGED vars
  BY <1>1 DEF vars, supplyVars, fetchVars, IInv, FetchInv, Surrounded, Possible, Attempts, Aware,
              Quiet, AnswerSinceAsked, Shaped, Owned
<1>2. ASSUME NEW w \in Worker, WorkerStep(w)
      PROVE  IInv'
  <2>1. Aside(w) /\ UNCHANGED fetchVars
    BY <1>2, GateStepAside, GetStepAside, SessionStepAside DEF WorkerStep, IInv
  <2> QED BY <2>1, AsideOwned
<1>3. ASSUME NEW w \in Worker, BeginFetch(w) \/ Answer(w) \/ GivesUp(w)
      PROVE  IInv'
  BY <1>3, BeginFetchPreserves, AnswerPreserves, GivesUpPreserves
<1>4. CASE FetchStep
  <2>1. Continues /\ vk.at # "idle" /\ UNCHANGED supplyVars
    BY <1>4, StepContinues DEF FetchStep, IInv, Working
  <2> QED BY <2>1 DEF Continues, supplyVars, IInv, Shaped, Owned
<1>5. CASE FetchSurroundings
  <2>1. FetchInv' /\ vk' = vk /\ UNCHANGED supplyVars
    BY <1>5, SurroundingsPreserve DEF FetchSurroundings, IInv
  <2> QED BY <2>1 DEF supplyVars, IInv, Shaped, Owned
<1>6. CASE CancelEngine
  <2>1. UNCHANGED <<worker, pacer, conf, vk, lockout, issued, box, gone>>
    BY <1>6 DEF CancelEngine, Cred!CancelEngine, fetchVars
  <2> QED BY <2>1 DEF IInv, FetchInv, Surrounded, Possible, Attempts, Aware, Quiet,
                      AnswerSinceAsked, Shaped, Owned
<1> QED BY <1>1, <1>2, <1>3, <1>4, <1>5, <1>6 DEF Next

LEMMA IInvHolds == Spec => []IInv
<1>1. Init /\ [][Next]_vars => []IInv
  BY InitIInv, NextIInv, PTL
<1> QED BY <1>1 DEF Spec

\* get_credentials runs exactly while the holder of credential_pacer waits for it,
\* no path is tried more often than meant, and a WebView is answered by what the
\* host sent after it was opened.
THEOREM FetchIsOwnHolds == Spec => []FetchIsOwn
<1>1. IInv => FetchIsOwn
  <2> SUFFICES ASSUME IInv PROVE FetchIsOwn
    OBVIOUS
  <2>1. Surrounded /\ Attempts(vk) /\ AnswerSinceAsked /\ Owned
    BY DEF IInv, FetchInv, Possible
  <2>2. vk.at # "idle" => pacer # 0
    BY <2>1, SupplyAssumption DEF Owned
  <2> QED BY <2>1, <2>2 DEF FetchIsOwn, TypeOK, Surrounded, Attempts, Owned
<1> QED BY <1>1, IInvHolds, PTL

\* While captcha_lockout_until lies ahead, no fetch is anywhere on the calls or the
\* legacy path: it was looked at before either began, and set when a fetch ended.
THEOREM LockoutRespectedHolds == Spec => []LockoutRespected
<1>1. IInv => LockoutRespected
  BY DEF IInv, FetchInv, Quiet, LockoutRespected
<1> QED BY <1>1, IInvHolds, PTL

\* The end of the call reaches the worker as such, over every way the fetch may
\* take: Aware is what is left to the fetch at each place once the call is gone.
THEOREM GoneIsNoticedHolds == Spec => []GoneIsNoticed
<1>1. IInv => GoneIsNoticed
  <2> SUFFICES ASSUME IInv PROVE GoneIsNoticed
    OBVIOUS
  <2>1. Aware(vk) /\ vk \in VkRec
    BY DEF IInv, FetchInv, Possible
  <2>2. vk.late \in BOOLEAN /\ vk.unheard \in BOOLEAN
    BY <2>1 DEF VkRec
  <2> QED BY <2>1, <2>2 DEF Aware, GoneIsNoticed
<1> QED BY <1>1, IInvHolds, PTL
=============================================================================
