-------------------------------- MODULE VkAuth --------------------------------
(***************************************************************************)
(* One fetch of TURN credentials in detail (auth.rs, captcha.rs,           *)
(* vk_js_calls.rs, turn_seed.rs).                                          *)
(*                                                                         *)
(* get_credentials climbs down a ladder of ways to be let in: the seed of  *)
(* the host, the account's own call, the VK Calls API (twice), the legacy  *)
(* API (LegacyTries times).  The legacy API may demand captchas, which     *)
(* have a ladder of their own, with the host's WebView on some rungs.  Two *)
(* things outlive a fetch: the lockout after a captcha that was not        *)
(* solved, and the channel the WebView answers through.                    *)
(*                                                                         *)
(* A request is what VK may reply to it; VK and the WebView are external.  *)
(* credential_pacer allows one fetch at a time.                            *)
(***************************************************************************)
EXTENDS Integers, Sequences

CONSTANTS Hash, Value,
          Conf,         \* the ways the engine may be configured
          CallsTries,   \* attempts of vk_calls_with_retries
          LegacyTries,  \* attempts of the legacy path
          MaxCaptchas   \* captchas one legacy attempt puts up with

NoValue == 0
NoHash == 0

VARIABLES conf,     \* mode, captcha mode, seeded hashes
          vk,       \* the fetch
          lockout,  \* captcha_lockout_until lies ahead
          issued,   \* issued_credentials of the broker
          box,      \* the result channel of the WebView, capacity one: empty, or
                    \* filled before or since the last WebView was asked for
          gone      \* hashes whose call VK has ended

vars == <<conf, vk, lockout, issued, box, gone>>

Ok(v) == [kind |-> "ok", value |-> v]
Unavailable == [kind |-> "unavailable", value |-> NoValue]
Failed == [kind |-> "error", value |-> NoValue]
NoAnswer == [kind |-> "none", value |-> NoValue]

Idle == [at |-> "idle", link |-> NoHash, tries |-> 0, captchas |-> 0, rung |-> 0,
         late |-> FALSE, unheard |-> FALSE, answer |-> NoAnswer]

At(place) == vk.at = place
Gone == vk.link \in gone

-----------------------------------------------------------------------------
(* What a step leaves in vk.                                               *)

Answering(r) == [vk EXCEPT !.at = "answer", !.answer = r]

Legacy == [vk EXCEPT !.at = "legacy", !.tries = 0]

\* The calls path is used up: the fallback of vkcalls, the end of auto_js.
CallsUsedUp == IF conf.mode = "auto_js" THEN Answering(Failed) ELSE Legacy

\* One more attempt of the path, or what follows the last.
Retry(k, tries, otherwise) ==
    IF k.tries + 1 < tries THEN [k EXCEPT !.tries = @ + 1] ELSE otherwise

\* A request without an answer about the call.
Unheard(k) == [k EXCEPT !.unheard = TRUE]

-----------------------------------------------------------------------------
(* get_credentials.                                                        *)

NewFetch(h, place) == [Idle EXCEPT !.at = place, !.link = h, !.late = h \in gone]

BeginRegardless(h) ==
    /\ At("idle")
    /\ vk' = IF conf.seed[h] # NoValue
             THEN [NewFetch(h, "answer") EXCEPT !.answer = Ok(conf.seed[h]), !.unheard = TRUE]
             ELSE IF conf.mode = "auto_js" THEN NewFetch(h, "js")
             ELSE NewFetch(h, IF conf.mode = "vkcalls" THEN "calls" ELSE "legacy")
    /\ UNCHANGED <<conf, lockout, issued, box, gone>>

\* A seed is handed out each time it is asked for.  The account's own call
\* knows no lockout.
Begin(h) ==
    /\ At("idle")
    /\ vk' = IF conf.seed[h] # NoValue
             THEN [NewFetch(h, "answer") EXCEPT !.answer = Ok(conf.seed[h]), !.unheard = TRUE]
             ELSE IF conf.mode = "auto_js" THEN NewFetch(h, "js")
             ELSE IF lockout
             THEN [NewFetch(h, "answer") EXCEPT !.answer = Failed, !.unheard = TRUE]
             ELSE NewFetch(h, IF conf.mode = "vkcalls" THEN "calls" ELSE "legacy")
    /\ UNCHANGED <<conf, lockout, issued, box, gone>>

\* CredentialBroker::get_credentials: credentials this account has not had
\* before; whatever goes wrong, the calls path is next.
Broker ==
    /\ At("js")
    /\ \/ \E v \in Value \ issued :
             /\ ~Gone
             /\ vk' = Answering(Ok(v)) /\ issued' = issued \cup {v}
       \/ vk' = [vk EXCEPT !.at = "calls"] /\ UNCHANGED issued
    /\ UNCHANGED <<conf, lockout, box, gone>>

\* An attempt of vk_calls_path is five requests.  The first and the fourth do
\* not look for the end of the call, so it may pass for any other failure.
CallsPath ==
    /\ At("calls")
    /\ \/ ~Gone /\ \E v \in Value : vk' = Answering(Ok(v))
       \/ Gone /\ vk' = Answering(IF conf.mode = "auto_js" THEN Failed ELSE Unavailable)
       \/ vk' = Retry(vk, CallsTries, CallsUsedUp)
       \/ vk' = Unheard(Retry(vk, CallsTries, CallsUsedUp))
    /\ UNCHANGED <<conf, lockout, issued, box, gone>>

\* Mutant: the client id is tried again and no attempt is counted.
LegacyFailedUncounted == [vk EXCEPT !.at = "legacy", !.captchas = 0]

\* legacy_path failed, though not for want of a captcha: the next client id.
LegacyFailed ==
    Retry([vk EXCEPT !.at = "legacy", !.captchas = 0], LegacyTries, Answering(Failed))

LegacyOpensBlindly ==
    /\ At("legacy")
    /\ \/ vk' = Unheard(LegacyFailed)
       \/ Gone /\ vk' = LegacyFailed
       \/ ~Gone /\ vk' = [vk EXCEPT !.at = "token"]
       \/ vk' = Unheard([vk EXCEPT !.at = "token"])
    /\ UNCHANGED <<conf, lockout, issued, box, gone>>

\* Access token and call preview.  A preview that fails is only logged.
LegacyOpens ==
    /\ At("legacy")
    /\ \/ vk' = Unheard(LegacyFailed)
       \/ Gone /\ vk' = Answering(Unavailable)
       \/ ~Gone /\ vk' = [vk EXCEPT !.at = "token"]
       \/ vk' = Unheard([vk EXCEPT !.at = "token"])
    /\ UNCHANGED <<conf, lockout, issued, box, gone>>

\* The rungs of CaptchaSolver::solve: solve_once, or a WebView of the host.
Rungs ==
    CASE conf.captcha = "wv" -> <<"view">>
      [] conf.captcha = "rjs" -> <<"solve", "solve", "view">>
      [] conf.captcha = "auto" -> <<"solve", "solve", "view", "view", "solve", "view">>

Undrained == IF box = "since" THEN "before" ELSE "empty"

\* webview takes out what an earlier WebView may have left in the channel.
Drained == "empty"

\* The r-th rung of the ladder; below the last one is the lockout, and no other
\* legacy attempt is made.
Climb(r) ==
    IF r > Len(Rungs)
    THEN vk' = Answering(Failed) /\ lockout' = TRUE /\ UNCHANGED box
    ELSE /\ vk' = [vk EXCEPT !.at = Rungs[r], !.rung = r]
         /\ box' = IF Rungs[r] = "view" THEN Drained ELSE box
         /\ UNCHANGED lockout

\* A rung did not solve the captcha.
NextRung == Climb(vk.rung + 1)

\* getAnonymousToken, first without and then with the token of the captcha.
TokenRequest ==
    /\ At("token")
    /\ \/ ~Gone /\ vk' = [vk EXCEPT !.at = "join"] /\ UNCHANGED <<lockout, box>>
       \/ Gone /\ vk' = Answering(Unavailable) /\ UNCHANGED <<lockout, box>>
       \/ vk' = Unheard(LegacyFailed) /\ UNCHANGED <<lockout, box>>
       \/ /\ ~Gone /\ vk.captchas >= MaxCaptchas
          /\ vk' = Answering(Failed) /\ lockout' = TRUE /\ UNCHANGED box
    /\ UNCHANGED <<conf, issued, gone>>

\* VK demands a captcha.
CaptchaDemanded ==
    /\ At("token") /\ ~Gone /\ vk.captchas < MaxCaptchas
    /\ Climb(1)
    /\ UNCHANGED <<conf, issued, gone>>

Solved == [vk EXCEPT !.at = "token", !.captchas = @ + 1, !.rung = 0]

\* What the captcha page may turn out to be: a type, one that is not supported,
\* or a page that cannot be read or whose proof of work fails.
Page == {"checkbox", "slider", "unsupported", "broken"}

\* solve_once up to its loop.
OpenPage ==
    /\ At("solve")
    /\ \E p \in Page :
          IF p \in {"checkbox", "slider"}
          THEN vk' = [vk EXCEPT !.at = p] /\ UNCHANGED <<lockout, box>>
          ELSE NextRung
    /\ UNCHANGED <<conf, issued, gone>>

\* What perform_check may bring: the token, or the name of another type.
CheckReply == {"ok", "bot", "limit", "rejected", "slider", "unsupported"}

\* solve_checkbox.  A slider follows when VK names it, and after BOT when there
\* are settings for one.
Checkbox ==
    /\ At("checkbox")
    /\ \E r \in CheckReply :
          \/ r = "ok" /\ vk' = Solved /\ UNCHANGED <<lockout, box>>
          \/ r \in {"slider", "bot"} /\ vk' = [vk EXCEPT !.at = "slider"] /\ UNCHANGED <<lockout, box>>
          \/ r \notin {"ok", "slider"} /\ NextRung
    /\ UNCHANGED <<conf, issued, gone>>

\* solve_slider tries its guesses and never asks for another type, so the loop
\* of solve_once comes to an end.
Slider ==
    /\ At("slider")
    /\ \/ vk' = Solved /\ UNCHANGED <<lockout, box>>
       \/ NextRung
    /\ UNCHANGED <<conf, issued, gone>>

\* webview waits for the channel: a token, an error, or nothing in time.
ViewAnswered ==
    /\ At("view") /\ box # "empty"
    /\ vk' = Solved /\ box' = "empty"
    /\ UNCHANGED <<conf, lockout, issued, gone>>

ViewFails ==
    /\ At("view")
    /\ NextRung
    /\ UNCHANGED <<conf, issued, gone>>

\* Anonymous login and joining the call, whose reply is only searched for
\* credentials.
Join ==
    /\ At("join")
    /\ \/ ~Gone /\ \E v \in Value : vk' = Answering(Ok(v))
       \/ vk' = Unheard(LegacyFailed)
    /\ UNCHANGED <<conf, lockout, issued, box, gone>>

\* get_credentials returns.
Answered(r) ==
    /\ At("answer") /\ r = vk.answer
    /\ vk' = Idle
    /\ UNCHANGED <<conf, lockout, issued, box, gone>>

\* The future is dropped with the engine.
Abandon ==
    /\ vk.at # "idle"
    /\ vk' = Idle
    /\ UNCHANGED <<conf, lockout, issued, box, gone>>

-----------------------------------------------------------------------------
(* The surroundings.                                                       *)

\* submit_result: the host, once asked, answers, perhaps long after the WebView
\* was given up, perhaps twice.
Submit ==
    /\ box = "empty"
    /\ box' = "since"
    /\ UNCHANGED <<conf, vk, lockout, issued, gone>>

LockoutExpires == lockout /\ lockout' = FALSE /\ UNCHANGED <<conf, vk, issued, box, gone>>

CallEnds(h) ==
    /\ h \notin gone
    /\ gone' = gone \cup {h}
    /\ UNCHANGED <<conf, vk, lockout, issued, box>>

-----------------------------------------------------------------------------
Init ==
    /\ conf \in Conf
    /\ vk = Idle /\ lockout = FALSE /\ issued = {} /\ box = "unasked" /\ gone = {}

\* The fetch runs by itself between Begin and Answered.
Step ==
    \/ Broker \/ CallsPath \/ LegacyOpens \/ TokenRequest \/ CaptchaDemanded
    \/ OpenPage \/ Checkbox \/ Slider \/ ViewAnswered \/ ViewFails \/ Join

Surroundings == Submit \/ LockoutExpires \/ \E h \in Hash : CallEnds(h)
=============================================================================
