---------------------------- MODULE CallLifecycle ----------------------------
(***************************************************************************)
(* What the calls of a room promise their users (FDR-016), with one state  *)
(* and no projection: at most one call at a time, which lives exactly as   *)
(* long as somebody is in it, takes in one device per step, and never      *)
(* comes back once it is over.                                             *)
(***************************************************************************)

CONSTANTS Devices, CallIDs, NoCall

VARIABLES call,   \* the active call, or NoCall
          in,     \* the devices in it
          over    \* the calls that are recorded as ended

vars == <<call, in, over>>

Init ==
    /\ over = {}
    /\ \/ call = NoCall /\ in = {}
       \/ call \in CallIDs /\ in \subseteq Devices /\ in # {}

\* A device opens call c.
Begins(c) ==
    /\ call' = c
    /\ c \in CallIDs \ over'
    /\ \E d \in Devices : in' = {d}

Start == call = NoCall /\ over' = over /\ \E c \in CallIDs : Begins(c)

\* Devices come one at a time; a transfer takes the place of others.
Change ==
    /\ call # NoCall /\ call' = call
    /\ in' # {} /\ \E d \in Devices : in' \subseteq in \cup {d}
    /\ over' = over

End ==
    /\ call # NoCall
    /\ call' = NoCall /\ in' = {}
    /\ over' = over \cup {call}

\* The only participant moves to another device: its call ends and the new
\* device opens the next one, in one step.
HandOver ==
    /\ call # NoCall
    /\ over' = over \cup {call}
    /\ \E c \in CallIDs : Begins(c)

RoomDeleted ==
    /\ call # NoCall
    /\ call' = NoCall /\ in' = {}
    /\ over' = over

\* The end of a call that is not active is recorded afterwards.
EndRecorded ==
    /\ \E c \in CallIDs \ {call} : over' = over \cup {c}
    /\ UNCHANGED <<call, in>>

Next == Change \/ Start \/ End \/ HandOver \/ RoomDeleted \/ EndRecorded

Spec == Init /\ [][Next]_vars
=============================================================================
