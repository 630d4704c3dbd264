----------------------------- MODULE StreamRepair -----------------------------
(***************************************************************************)
(* Repair of single paths on request of the server (repair.rs and the      *)
(* reader_loop of session.rs).                                             *)
(*                                                                         *)
(* The server numbers its requests and sends them down every path, so the  *)
(* readers apply them more than once and in any order.  A slot is what is  *)
(* kept for one worker; the operations on it are atomic here (the compare- *)
(* and-exchange loop takes effect at the exchange).                        *)
(***************************************************************************)
EXTENDS Naturals, Sequences, FiniteSets

CONSTANTS MaxSequence, MaxHistory   \* bounds: the histories the check tries

ASSUME RepairAssumption == MaxSequence \in Nat /\ MaxHistory \in Nat

NewSlot == [restart |-> 0, credential |-> 0, last |-> 0, ready |-> 0]

apply_repairTwice(s, n) ==
    IF n < s.last THEN s
    ELSE [s EXCEPT !.last = n, !.restart = @ + 1,
                   !.credential = IF s.last # 0 /\ s.ready < s.last THEN @ + 1 ELSE @]

\* A newer request restarts the path; if the one before it was never resolved
\* the credentials are given up too.
apply_repair(s, n) ==
    IF n <= s.last THEN s
    ELSE [s EXCEPT !.last = n, !.restart = @ + 1,
                   !.credential = IF s.last # 0 /\ s.ready < s.last THEN @ + 1 ELSE @]

apply_alive(s, n) == [s EXCEPT !.ready = IF n > @ THEN n ELSE @]

mark_ready(s) == [s EXCEPT !.ready = s.last]

\* What can happen to the slot: reader_loop hears a request (dropped while the
\* worker is parked), hears that the worker is alive, or its session is READY.
Event == [op : {"repair", "alive"}, n : 1 .. MaxSequence]
            \cup {[op |-> "parked", n |-> MaxSequence], [op |-> "ready", n |-> 0]}

reader_loop(s, e) ==
    CASE e.op = "repair" -> apply_repair(s, e.n)
      [] e.op = "parked" -> s
      [] e.op = "alive" -> apply_alive(s, e.n)
      [] e.op = "ready" -> mark_ready(s)

\* The slot after each event of a history, before the first one at 0.
Slots(history) ==
    LET slot[i \in 0 .. Len(history)] ==
            IF i = 0 THEN NewSlot ELSE reader_loop(slot[i - 1], history[i])
    IN  slot

-----------------------------------------------------------------------------
\* What the last event of a history does: a request restarts the worker if it is
\* newer than all before it.  It gives up the credentials then only if the worker
\* has been neither READY nor reported alive since the request before, and always
\* if it has not been so at all.
RepairsOnce(history) ==
    LET k == Len(history)
        e == history[k]
        before == Slots(history)[k - 1]
        after == Slots(history)[k]
        earlier == {i \in 1 .. k - 1 : history[i].op = "repair"}
        newest == {i \in earlier : \A j \in earlier :
                      \/ history[j].n < history[i].n
                      \/ history[j].n = history[i].n /\ i <= j}
        Covers(j, i) == history[j].op = "alive" /\ history[j].n >= history[i].n
        since == \E i \in newest : \E j \in i + 1 .. k - 1 : history[j].op = "ready" \/ Covers(j, i)
        atAll == since \/ \E i \in newest : \E j \in 1 .. i : Covers(j, i)
    IN  IF e.op = "repair" /\ \A i \in earlier : history[i].n < e.n
        THEN /\ after.restart = before.restart + 1
             /\ since \/ newest = {} => after.credential = before.credential
             /\ ~atAll /\ newest # {} => after.credential = before.credential + 1
        ELSE after.restart = before.restart /\ after.credential = before.credential

\* A request restarts its worker once, however often and however late its
\* copies arrive, and spares the credentials of a worker that came back.
RepairOncePerRequest ==
    \A history \in UNION {[1 .. k -> Event] : k \in 1 .. MaxHistory} : RepairsOnce(history)
=============================================================================
