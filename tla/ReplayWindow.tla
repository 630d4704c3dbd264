----------------------------- MODULE ReplayWindow -----------------------------
(***************************************************************************)
(* The replay window of an inbound path (ReplayWindow of session.rs).      *)
(*                                                                         *)
(* A packet carries the low bits of the sender's counter.  accept_rtp      *)
(* extends them to the counter nearest to the highest one seen, and accept *)
(* keeps one bit per counter of the window in a ring that is reused as the *)
(* window moves.  Both are functions of the window and of the packet.      *)
(***************************************************************************)
EXTENDS Integers, FiniteSets

CONSTANTS ReplaySize,     \* 16384: counters the window remembers
          RtpModulus,     \* 2^16: the sequence numbers of a packet
          MaxCounter      \* bound: counters the check tries as the highest

ASSUME ReplayAssumption ==
    /\ ReplaySize \in Nat \ {0} /\ RtpModulus \in Nat /\ RtpModulus % 2 = 0
    /\ RtpModulus % ReplaySize = 0
    /\ ReplaySize <= RtpModulus \div 2 /\ MaxCounter \in Nat

Nothing == -1   \* highest is None

EmptyWindow == [highest |-> Nothing, seen |-> {}]

bit(c) == c % ReplaySize

Accepted(h, seen) == [ok |-> TRUE, window |-> [highest |-> h, seen |-> seen]]
Refused(win) == [ok |-> FALSE, window |-> win]

\* The window moves to c: the bits it moves over are those of older counters.
Cleared(win, c) ==
    IF c - win.highest >= ReplaySize THEN {}
    ELSE win.seen \ {bit(i) : i \in win.highest + 1 .. c}

acceptUncleared(win, c) ==
    IF win.highest = Nothing \/ c > win.highest THEN Accepted(c, win.seen \cup {bit(c)})
    ELSE IF win.highest - c >= ReplaySize \/ bit(c) \in win.seen THEN Refused(win)
    ELSE Accepted(win.highest, win.seen \cup {bit(c)})

accept(win, c) ==
    IF win.highest = Nothing THEN Accepted(c, win.seen \cup {bit(c)})
    ELSE IF c > win.highest THEN Accepted(c, Cleared(win, c) \cup {bit(c)})
    ELSE IF win.highest - c >= ReplaySize \/ bit(c) \in win.seen THEN Refused(win)
    ELSE Accepted(win.highest, win.seen \cup {bit(c)})

\* The counter with these low bits in the lap of h or in a neighbouring one.
Extended(h, sequence) ==
    LET half == RtpModulus \div 2
        x == (h \div RtpModulus) * RtpModulus + sequence
    IN  IF x + half < h THEN x + RtpModulus
        ELSE IF x > h + half /\ x >= RtpModulus THEN x - RtpModulus
        ELSE x

accept_rtp(win, sequence) ==
    accept(win, IF win.highest = Nothing THEN sequence ELSE Extended(win.highest, sequence))

-----------------------------------------------------------------------------
(* What the window stands for: h is the highest counter accepted and taken *)
(* are the accepted ones among the last ReplaySize.                        *)

Remembered(h) == {c \in h - ReplaySize + 1 .. h : c >= 0}
Window(h, taken) == [highest |-> h, seen |-> {bit(c) : c \in taken \cap Remembered(h)}]

\* Counters less than half a lap away, the ones whose low bits name them.
Near(h) == {c \in h - (RtpModulus \div 2) + 1 .. h + (RtpModulus \div 2) - 1 : c >= 0}

\* A packet is accepted exactly when its counter is ahead of the window, or in
\* it and not accepted before: no packet is taken twice and none in the window
\* is lost, across laps of the sequence number and reuse of the ring; and the
\* window that accept_rtp leaves again stands for what has been accepted.
ReplayExact ==
    /\ \A c \in 0 .. RtpModulus - 1 : accept_rtp(EmptyWindow, c) = Accepted(c, {bit(c)})
    /\ \A h \in 0 .. MaxCounter : \A older \in SUBSET (Remembered(h) \ {h}) : \A c \in Near(h) :
          LET taken == older \cup {h}
              fresh == c > h \/ (c \in Remembered(h) /\ c \notin taken)
              top == IF c > h THEN c ELSE h
              r == accept_rtp(Window(h, taken), c % RtpModulus)
          IN  /\ r.ok = fresh
              /\ r.window = Window(top, IF fresh THEN taken \cup {c} ELSE taken)
=============================================================================
