---------------------------- MODULE MCPacketQueue ----------------------------
(* Instances of PacketQueue for TLC.                                       *)
EXTENDS PacketQueue

CONSTANT Twice  \* the handle that sends twice

MCMaxSends == [s \in Sender |-> IF s = Twice THEN 2 ELSE 1]
=============================================================================
