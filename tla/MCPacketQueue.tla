--------------------------- MODULE MCPacketQueue ---------------------------
(* Instances of PacketQueue for TLC: the margins keep the order of the     *)
(* code's 2 < 10 < 24 < 84 < 1024.                                         *)
EXTENDS PacketQueue, TLC

CONSTANTS c1, c2, p1, p2

Symmetry == Permutations(Producers)
=============================================================================
