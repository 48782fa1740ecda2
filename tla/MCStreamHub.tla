----------------------------- MODULE MCStreamHub -----------------------------
(* Instances of StreamHub for TLC.                                           *)
EXTENDS StreamHub, TLC

CONSTANTS r1, r2, w1, w2, w3, k1, k2

\* Everyone publishes to and plays the same room.
OneRoom == [x \in Conns |-> k1]

\* A publisher and a player in one room, a player in another.
TwoRooms == [x \in Conns |-> IF x = w3 THEN k2 ELSE k1]

\* Every property of the run with overlaps excepts the rooms in stale, which no
\* room ever leaves: TLC need not go on behind such a state.
NobodyStale == stale = {}

Symmetry == Permutations(Readers) \cup Permutations(Writers \ Archivers)
=============================================================================
