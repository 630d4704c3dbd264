-------------------------- MODULE MCCredentialSupply --------------------------
(* A small instance of the credential supply for TLC.                      *)
EXTENDS CredentialSupply

MCCohortOf == [w \in Worker |-> w]
MCHashOf == [c \in Cohort |-> 1]

Unseeded == [h \in Hash |-> 0]

\* The account's own call, the calls path with the legacy path and its longest
\* ladder behind it (mode legacy begins where that fallback goes on, and the other
\* ladders are parts of this one), and a seeded hash.
MCConf ==
    {[mode |-> "auto_js", captcha |-> "wv", seed |-> Unseeded],
     [mode |-> "vkcalls", captcha |-> "auto", seed |-> Unseeded],
     [mode |-> "vkcalls", captcha |-> "wv", seed |-> [h \in Hash |-> 1]]}
=============================================================================
