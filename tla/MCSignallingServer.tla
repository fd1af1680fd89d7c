------------------------- MODULE MCSignallingServer -------------------------
(* Instances of SignallingServer for TLC.                                  *)
EXTENDS SignallingServer, TLC

Symmetry ==
    Permutations(Nodes) \cup Permutations(RoomNames) \cup Permutations(Sockets)
=============================================================================
