----------------------------- MODULE MCRoomPurge -----------------------------
(* RoomPurge for TLC: each operation alone, with late writes and faults, the *)
(* two together with a fault, and two history purges of one room.            *)
EXTENDS RoomPurge, TLC

CONSTANTS r1, r2, b1, b2, o1, o2

OneOrBoth ==
    {[jobs |-> {"room"}, who |-> {r1}, late |-> {"upload", "call", "echo"}, faults |-> 0],
     [jobs |-> {"room"}, who |-> {r1}, late |-> {"device", "scoped", "grouped"}, faults |-> 0],
     [jobs |-> {"room"}, who |-> {r1}, late |-> {"call", "echo"}, faults |-> 1],
     [jobs |-> {"room"}, who |-> {r1, r2}, late |-> {}, faults |-> 1],
     [jobs |-> {o1}, who |-> {r1, b1, b2}, late |-> {"upload", "post"}, faults |-> 1],
     [jobs |-> {o1, o2}, who |-> {r1, b1}, late |-> {"post", "echo"}, faults |-> 1],
     [jobs |-> {"room", o1}, who |-> {r1, b1}, late |-> {}, faults |-> 1]}
=============================================================================
