------------------------------- MODULE MCFleet -------------------------------
(* Instances of Fleet for TLC.                                             *)
EXTENDS Fleet

Building == {"offset", "count", "send", "sent"}

\* What later steps and the invariants of the passing run can still see: a
\* registration is read until it is sent and noted, and answered matters
\* until the session is READY.
LiveState ==
    <<idle, net, paused, pc, up, tries, announceSeen, heard,
      [w \in Worker |-> ~up[w] /\ answered[w]],
      [w \in Worker |-> IF pc[w] \in Building THEN draft[w] ELSE NoDraft]>>
=============================================================================
