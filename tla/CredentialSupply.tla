--------------------------- MODULE CredentialSupply ---------------------------
(***************************************************************************)
(* The worker loop and its credential cache (module Credentials) with the  *)
(* real fetch (module VkAuth) in place of the abstract one: worker.rs      *)
(* calling auth.rs.  The composition is shown to implement Credentials:    *)
(* every fetch answers what Credentials expects, while the right worker    *)
(* holds the pacer, and answers at all.                                    *)
(***************************************************************************)
EXTENDS Integers

CONSTANTS Worker, Cohort, CohortOf, Hash, HashOf, PerCred, Value, MaxGen,
          Conf, CallsTries, LegacyTries, MaxCaptchas

\* 0 is nobody, no hash and no credentials; every path is tried at least once.
ASSUME SupplyAssumption ==
    /\ Worker \subseteq Nat \ {0} /\ Hash \subseteq Nat \ {0} /\ Value \subseteq Nat \ {0}
    /\ CohortOf \in [Worker -> Cohort] /\ HashOf \in [Cohort -> Hash]
    /\ Conf \subseteq [mode : {"auto_js", "vkcalls", "legacy"}, captcha : {"wv", "rjs", "auto"},
                      seed : [Hash -> Value \cup {0}]]
    /\ CallsTries \in Nat \ {0} /\ LegacyTries \in Nat \ {0} /\ MaxCaptchas \in Nat

VARIABLES cache, lock, pacer, worker, dead, config, history,
          conf, vk, lockout, issued, box, gone

\* The refinement mapping: the cache, the locks and the workers are the same,
\* and of the fetch Credentials only sees that its owner waits.
Cred == INSTANCE Credentials WITH
            cache <- cache, lock <- lock, pacer <- pacer, worker <- worker,
            dead <- dead, config <- config, history <- history
Vk == INSTANCE VkAuth

supplyVars == <<cache, lock, pacer, worker, dead, config, history>>
fetchVars == <<conf, vk, lockout, issued, box, gone>>
vars == <<supplyVars, fetchVars>>

Init == Cred!Init /\ Vk!Init

\* The pacer's owner calls get_credentials.
BeginFetch(w) == Cred!BeginFetch(w) /\ Vk!Begin(HashOf[CohortOf[w]])

\* It hands the answer to get.
Answer(w) == \E r \in Cred!Outcome : Vk!Answered(r) /\ Cred!Answer(w, r)

\* The select of get drops the fetch with everything else.
GivesUp(w) ==
    /\ Cred!GivesUp(w)
    /\ IF worker[w].at = "fetch" THEN Vk!Abandon ELSE UNCHANGED fetchVars

CancelEngine == Cred!CancelEngine /\ UNCHANGED fetchVars

FetchStep == Vk!Step /\ UNCHANGED supplyVars

FetchSurroundings == Vk!Surroundings /\ UNCHANGED supplyVars

WorkerStep(w) ==
    (Cred!GateStep(w) \/ Cred!GetStep(w) \/ Cred!SessionStep(w)) /\ UNCHANGED fetchVars

Next ==
    \/ \E w \in Worker : WorkerStep(w) \/ BeginFetch(w) \/ Answer(w) \/ GivesUp(w)
    \/ FetchStep \/ FetchSurroundings \/ CancelEngine

Spec == Init /\ [][Next]_vars

\* The executor runs ready tasks; requests and WebViews have timeouts.
Runs(w) ==
    \/ BeginFetch(w)
    \/ /\ \/ Cred!StopsAtGate(w) \/ Cred!GetStep(w) \/ Cred!StartSession(w)
          \/ Cred!LeaseReturned(w) \/ Cred!SessionCancelled(w) \/ Cred!Clear(w)
          \/ Cred!Sort(w) \/ Cred!SortHeldBack(w)
       /\ UNCHANGED fetchVars

FairSpec ==
    /\ Spec
    /\ WF_vars(FetchStep)
    /\ \A w \in Worker : WF_vars(Runs(w)) /\ WF_vars(Answer(w) \/ GivesUp(w))

-----------------------------------------------------------------------------
(* Properties.                                                             *)

\* The rungs of the captcha ladder, and the whole of the legacy path.
Solving == {"solve", "checkbox", "slider", "view"}
OnLegacy == {"legacy", "token", "join"} \cup Solving

\* The fetch runs when and only when the worker that holds the pacer waits for
\* it, for the hash of its cohort, and nothing of it survives its future; no path
\* is tried more often than the code means to, and a ladder is only climbed for a
\* captcha that may still be solved.
TypeOK ==
    /\ conf \in Conf /\ issued \subseteq Value /\ gone \subseteq Hash
    /\ box \in {"unasked", "empty", "before", "since"} /\ lockout \in BOOLEAN
    /\ vk.at = "calls" => vk.tries < CallsTries
    /\ vk.at \in OnLegacy => vk.tries < LegacyTries
    /\ vk.captchas <= MaxCaptchas /\ (vk.at \in Solving => vk.captchas < MaxCaptchas)
    /\ vk.at # "idle" => pacer # 0 /\ worker[pacer].at = "fetch"
                         /\ vk.link = HashOf[CohortOf[pacer]]
    /\ \A w \in Worker : worker[w].at = "fetch" => vk.at # "idle" /\ pacer = w

\* A WebView is never answered by what the host had to say before it was opened:
\* the channel is drained when webview begins.
AnswerSinceAsked == vk.at = "view" => box # "before"

\* After a captcha that was not solved, until the lockout is over, neither path
\* sends anything to VK or opens a WebView for any worker.
LockoutRespected ==
    lockout => conf.mode = "auto_js" \/ vk.at \in {"idle", "answer"}

\* A fetch that began after the call had ended, and got a reply to each of its
\* requests, tells the worker so, whichever path noticed: no error of the calls
\* path and no retry of the legacy path hides it.
GoneIsNoticed ==
    vk.at = "answer" /\ vk.late /\ ~vk.unheard /\ conf.mode # "auto_js"
        => vk.answer = Vk!Unavailable

\* The composition implements the worker loop with the abstract fetch, the
\* promise that a fetch comes to an end included.
ImplementsCredentials == Cred!FairSpec

\* The fetch belongs to the worker that waits for it (TypeOK), and a WebView of
\* it is answered by what came after it was opened.
FetchIsOwn == TypeOK /\ AnswerSinceAsked
=============================================================================
