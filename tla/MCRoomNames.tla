---------------------------- MODULE MCRoomNames ----------------------------
(* Instances of RoomNames for TLC. *)
EXTENDS RoomNames, TLC

Perms == Permutations(Servers) \cup Permutations(Calls)
             \cup Permutations(Rooms) \cup Permutations(Names)
=============================================================================
