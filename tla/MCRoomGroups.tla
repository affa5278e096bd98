---------------------------- MODULE MCRoomGroups ----------------------------
(* Instances of RoomGroups for TLC. *)
EXTENDS RoomGroups, TLC

Perms == Permutations(Servers) \cup Permutations(Calls)
             \cup Permutations(Groups) \cup Permutations(Rooms)
=============================================================================
