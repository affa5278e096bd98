----------------------------- MODULE RoomNames -----------------------------
(***************************************************************************)
(* Channel-room names: cli/internal/core/rooms.go, the update command of   *)
(* room_command_model.go and the catalog of room_catalog_projection.go.    *)
(*                                                                         *)
(* Several server processes share one event stream.  Each answers reads    *)
(* from its own catalog, a projection that lags the stream.  A room name   *)
(* is claimed by reading the catalog and publishing with the optimistic    *)
(* check "the last evt.room.> message is the one my catalog has applied".  *)
(* An update that keeps the name its process sees is published with the    *)
(* weaker check of Publisher.Append: the sequence of its own subject, read *)
(* just before publishing.                                                 *)
(*                                                                         *)
(* Sequence numbers count the evt.room.> messages alone.  The catalog of a *)
(* process that has applied i of them is past[i]: Apply is a function of   *)
(* the stream's prefix (module Projector is about how it gets there).      *)
(***************************************************************************)
EXTENDS Naturals

CONSTANTS Servers,      \* processes, each with its own catalog
          Calls,        \* concurrent API calls
          Rooms,        \* room IDs (NewRoomID never repeats one)
          Names,        \* canonical names (roomNameKey)
          MaxLog,       \* bound: events in the stream
          MaxTries,     \* maxRoomNameClaimRetries and maxAppendRetries
          PlainUpdates, \* may an update keep the name its process sees?
          None

ASSUME RoomNamesAssumption ==
    /\ MaxLog \in Nat /\ MaxTries \in Nat
    /\ PlainUpdates \in BOOLEAN
    /\ None \notin Names

VARIABLES end,      \* sequence of the last evt.room.> message
          tail,     \* ... of each subject: room and event type
          past,     \* the catalog after each prefix: room -> name or None
          applied,  \* how far each process's catalog has got
          pc, event, server, room, name, seq, tries

stream == <<end, tail, past>>
vars == <<end, tail, past, applied, pc, event, server, room, name, seq, tries>>

\* Event types: "touched" stands for RoomArchived, RoomUnarchived and
\* RoomUniversalChanged, which leave names alone.
Events == {"created", "updated", "touched", "deleted"}

Catalogs == [Rooms -> Names \cup {None}]

Catalog(s) == past[applied[s]]

\* Variant for the checks: RoomUpdated applied to a room the catalog does not hold.
ApplyUpserts(catalog, e, r, n) ==
    [catalog EXCEPT ![r] =
        IF e \in {"created", "updated"} THEN n
        ELSE IF e = "touched" THEN @ ELSE None]

\* RoomCatalogProjection.Apply: only RoomCreated adds a room to the catalog.
Apply(catalog, e, r, n) ==
    [catalog EXCEPT ![r] =
        IF e = "created" \/ (e = "updated" /\ @ # None) THEN n
        ELSE IF e = "touched" THEN @ ELSE None]

TypeOK ==
    /\ end \in 0..MaxLog
    /\ tail \in [Rooms -> [Events -> 0..end]]
    /\ past \in [0..MaxLog -> Catalogs]
    /\ applied \in [Servers -> 0..end]
    /\ pc \in [Calls -> {"idle", "update", "claim", "publish", "conflict",
                         "catchup", "append", "put", "wait"}]
    /\ event \in [Calls -> Events \cup {None}]
    /\ server \in [Calls -> Servers \cup {None}]
    /\ room \in [Calls -> Rooms \cup {None}]
    /\ name \in [Calls -> Names \cup {None}]
    /\ seq \in [Calls -> 0..end]
    /\ tries \in [Calls -> 0..MaxTries]
    /\ \A c \in Calls : pc[c] # "idle" =>
          /\ event[c] \in Events /\ server[c] \in Servers /\ room[c] \in Rooms
          /\ event[c] \in {"created", "updated"} => name[c] \in Names

Init ==
    /\ end = 0
    /\ tail = [r \in Rooms |-> [e \in Events |-> 0]]
    /\ past = [i \in 0..MaxLog |-> [r \in Rooms |-> None]]
    /\ applied = [s \in Servers |-> 0]
    /\ pc = [c \in Calls |-> "idle"]
    /\ event = [c \in Calls |-> None]
    /\ server = [c \in Calls |-> None]
    /\ room = [c \in Calls |-> None]
    /\ name = [c \in Calls |-> None]
    /\ seq = [c \in Calls |-> 0]
    /\ tries = [c \in Calls |-> 0]

-----------------------------------------------------------------------------
(* The projector of process s applies the next message. *)
Project(s) ==
    /\ applied[s] < end
    /\ applied' = [applied EXCEPT ![s] = @ + 1]
    /\ UNCHANGED <<stream, pc, event, server, room, name, seq, tries>>

(* The stream accepts the event of call c as its next message. *)
Publish(c) ==
    /\ end < MaxLog
    /\ end' = end + 1
    /\ tail' = [tail EXCEPT ![room[c]][event[c]] = end + 1]
    /\ past' = [past EXCEPT
                  ![end + 1] = Apply(past[end], event[c], room[c], name[c])]

Begin(c, at, e, s, r, n) ==
    /\ pc[c] = "idle"
    /\ pc' = [pc EXCEPT ![c] = at]
    /\ event' = [event EXCEPT ![c] = e]
    /\ server' = [server EXCEPT ![c] = s]
    /\ room' = [room EXCEPT ![c] = r]
    /\ name' = [name EXCEPT ![c] = n]
    /\ UNCHANGED <<stream, applied, seq, tries>>

\* A step of call c that only moves it on.
Goto(c, at) ==
    /\ pc' = [pc EXCEPT ![c] = at]
    /\ UNCHANGED <<stream, applied, event, server, room, name>>

\* Call c returns; its local variables are gone.
End(c) ==
    /\ pc' = [pc EXCEPT ![c] = "idle"]
    /\ event' = [event EXCEPT ![c] = None]
    /\ server' = [server EXCEPT ![c] = None]
    /\ room' = [room EXCEPT ![c] = None]
    /\ name' = [name EXCEPT ![c] = None]
    /\ seq' = [seq EXCEPT ![c] = 0]
    /\ tries' = [tries EXCEPT ![c] = 0]
    /\ UNCHANGED <<stream, applied>>

(* CreateRoom: a fresh room ID, then the name claim. *)
CreateRoom(c, s, r, n) ==
    /\ tail[r]["created"] = 0
    /\ \A d \in Calls : pc[d] = "idle" \/ room[d] # r
    /\ Begin(c, "claim", "created", s, r, n)

(* RoomCommandModel.UpdateRoom reads the room, fills in the fields the     *)
(* request leaves out and calls UpdateRoom; n is the name given or read.   *)
UpdateCommand(c, s, r, n) ==
    /\ Catalog(s)[r] # None
    /\ Begin(c, "update", "updated", s, r, n)

(* UpdateRoom reads the room again: gone, renamed or keeping its name.     *)
UpdateRoom(c) ==
    LET now == Catalog(server[c])[room[c]] IN
    /\ pc[c] = "update"
    /\ \/ now = None /\ End(c)
       \/ now \notin {None, name[c]} /\ Goto(c, "claim") /\ UNCHANGED <<seq, tries>>
       \/ /\ now = name[c] /\ PlainUpdates
          /\ Goto(c, "append") /\ UNCHANGED <<seq, tries>>

(* ArchiveRoom, UnarchiveRoom, SetRoomUniversal and DeleteRoom: the room   *)
(* must be in the catalog; the event is appended on its own subject.       *)
ArchiveRoom(c, s, r) ==
    /\ Catalog(s)[r] # None
    /\ Begin(c, "append", "touched", s, r, None)

DeleteRoom(c, s, r) ==
    /\ Catalog(s)[r] # None
    /\ Begin(c, "append", "deleted", s, r, None)

-----------------------------------------------------------------------------
\* Variant for the checks: the OCC token read from the stream instead of from the catalog.
NameClaimSnapshotOfStream(c) ==
    LET owners == {r \in Rooms : Catalog(server[c])[r] = name[c]} IN
    /\ pc[c] = "claim"
    /\ \/ owners \ {room[c]} # {} /\ End(c)
       \/ /\ owners = {} \/ room[c] \in owners
          /\ Goto(c, "publish")
          /\ seq' = [seq EXCEPT ![c] = end]
          /\ UNCHANGED tries

(* publishRoomEventWithNameOCC: the snapshot holds the name's owner and    *)
(* the sequence the catalog has applied, read under one lock.  Should the  *)
(* name have several owners, the map's iteration order decides.            *)
NameClaimSnapshot(c) ==
    LET owners == {r \in Rooms : Catalog(server[c])[r] = name[c]} IN
    /\ pc[c] = "claim"
    /\ \/ owners \ {room[c]} # {} /\ End(c)
       \/ /\ owners = {} \/ room[c] \in owners
          /\ Goto(c, "publish")
          /\ seq' = [seq EXCEPT ![c] = applied[server[c]]]
          /\ UNCHANGED tries

\* Variant for the checks: the check on the room's own subject instead of on evt.room.>.
AppendAtSubject(c) ==
    /\ pc[c] = "publish"
    /\ \/ /\ seq[c] >= tail[room[c]][event[c]]
          /\ Publish(c)
          /\ pc' = [pc EXCEPT ![c] = "wait"]
          /\ seq' = [seq EXCEPT ![c] = end + 1]
          /\ UNCHANGED <<applied, event, server, room, name>>
       \/ /\ seq[c] < tail[room[c]][event[c]]
          /\ Goto(c, "conflict") /\ UNCHANGED seq
    /\ UNCHANGED tries

(* AppendAtFilter over evt.room.>: accepted, or ErrConflict. *)
AppendAtFilter(c) ==
    /\ pc[c] = "publish"
    /\ \/ /\ seq[c] = end
          /\ Publish(c)
          /\ pc' = [pc EXCEPT ![c] = "wait"]
          /\ seq' = [seq EXCEPT ![c] = end + 1]
          /\ UNCHANGED <<applied, event, server, room, name>>
       \/ /\ seq[c] # end
          /\ Goto(c, "conflict") /\ UNCHANGED seq
    /\ UNCHANGED tries

(* waitForDirectoryCurrent reads the stream's position ... *)
ReadCurrent(c) ==
    /\ pc[c] = "conflict"
    /\ Goto(c, "catchup")
    /\ seq' = [seq EXCEPT ![c] = end]
    /\ UNCHANGED tries

\* Variant for the checks: a retry counted past the limit.
RetryForever(c) ==
    /\ pc[c] = "catchup"
    /\ applied[server[c]] >= seq[c]
    /\ Goto(c, "claim") /\ tries' = [tries EXCEPT ![c] = @ + 1]
    /\ seq' = [seq EXCEPT ![c] = 0]

(* ... and waits for the catalog; then the next attempt, if any is left.   *)
Retry(c) ==
    /\ pc[c] = "catchup"
    /\ applied[server[c]] >= seq[c]
    /\ IF tries[c] + 1 < MaxTries
       THEN Goto(c, "claim") /\ tries' = [tries EXCEPT ![c] = @ + 1]
            /\ seq' = [seq EXCEPT ![c] = 0]
       ELSE End(c)

(* Publisher.Append and AppendEventually: lastSubjectSeq ... *)
LastSubjectSeq(c) ==
    /\ pc[c] = "append"
    /\ Goto(c, "put")
    /\ seq' = [seq EXCEPT ![c] = tail[room[c]][event[c]]]
    /\ UNCHANGED tries

(* ... then publishAt.  On ErrConflict Append (of RoomUpdated) returns it, *)
(* AppendEventually reads the sequence again.                              *)
PublishAt(c) ==
    /\ pc[c] = "put"
    /\ \/ /\ seq[c] = tail[room[c]][event[c]]
          /\ Publish(c)
          /\ pc' = [pc EXCEPT ![c] = "wait"]
          /\ seq' = [seq EXCEPT ![c] = end + 1]
          /\ UNCHANGED <<applied, event, server, room, name, tries>>
       \/ /\ seq[c] # tail[room[c]][event[c]]
          /\ IF event[c] # "updated" /\ tries[c] + 1 < MaxTries
             THEN Goto(c, "append") /\ tries' = [tries EXCEPT ![c] = @ + 1]
                  /\ UNCHANGED seq
             ELSE End(c)

(* The call returns once its process's catalog holds its event ... *)
Return(c) ==
    /\ pc[c] = "wait"
    /\ applied[server[c]] >= seq[c]
    /\ End(c)

(* ... or earlier with an error: its context ended, or a request failed.   *)
(* In "wait" this is also the publish that was stored and never answered.  *)
GiveUp(c) ==
    /\ pc[c] \notin {"idle", "update"}
    /\ End(c)

Next ==
    \/ \E s \in Servers : Project(s)
    \/ \E c \in Calls, s \in Servers, r \in Rooms :
          \/ \E n \in Names : CreateRoom(c, s, r, n) \/ UpdateCommand(c, s, r, n)
          \/ ArchiveRoom(c, s, r)
          \/ DeleteRoom(c, s, r)
    \/ \E c \in Calls :
          \/ UpdateRoom(c) \/ NameClaimSnapshot(c) \/ AppendAtFilter(c)
          \/ ReadCurrent(c) \/ Retry(c) \/ LastSubjectSeq(c) \/ PublishAt(c)
          \/ Return(c) \/ GiveUp(c)

Spec == Init /\ [][Next]_vars

-----------------------------------------------------------------------------
\* rooms.go:121-128 and 249-264: no two channel rooms hold one name, in any
\* catalog any process can show.  It relates the events of all calls, over
\* every prefix of the stream.
UniqueRoomNames ==
    \A i \in 0..end : \A q, r \in Rooms :
        q # r /\ past[i][q] # None => past[i][q] # past[i][r]

\* A claim that the stream accepts never adds a second owner: at that point of
\* the stream the name is the room's own already or no other room holds it,
\* however stale the catalog it was read from, because the projected state and
\* the OCC token describe one prefix (rooms.go:256-258).
ClaimedNameIsFree ==
    [][\A c \in Calls : pc[c] = "publish" /\ pc'[c] = "wait" =>
          \/ past[end][room[c]] = name[c]
          \/ \A r \in Rooms \ {room[c]} : past[end][r] # name[c]]_vars

\* A deleted room never comes back into a catalog: a RoomUpdated that was
\* decided before the deletion and stored after it is ignored by Apply.
DeletedRoomStaysDeleted ==
    \A r \in Rooms : \A i, j, k \in 0..end :
        i < j /\ j < k /\ past[i][r] # None /\ past[j][r] = None
            => past[k][r] = None

=============================================================================
