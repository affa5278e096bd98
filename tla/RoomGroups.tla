----------------------------- MODULE RoomGroups -----------------------------
(***************************************************************************)
(* Room groups and sidebar layout: cli/internal/core/room_groups.go, its   *)
(* callers in admin_room_layout_management.go and rooms.go, and the        *)
(* projection of room_group_projection.go.                                 *)
(*                                                                         *)
(* A group holds items: rooms and sidebar links.  Every process reads its  *)
(* own projection of the evt.group.> events, which lags the stream.  Most  *)
(* mutations read a snapshot (the layout and the sequence it stands for),  *)
(* decide, and publish with the check that no evt.group.> message came     *)
(* after that sequence; a conflict means wait for the projection and start *)
(* again.  A move is one batch of two messages.  CreateRoomGroup,          *)
(* UpdateRoomGroup, ReorderRoomsInGroup and the group event of DeleteRoom  *)
(* only check the sequence of their own subject.                           *)
(*                                                                         *)
(* Sequence numbers count evt.group.> messages from the layout the system  *)
(* is in when the model starts.  index[i] and entries[i] are the           *)
(* projection after i of them: what the group holds (roomIDs and links)    *)
(* and what its sidebar section lists.  The order of the items is left     *)
(* out.                                                                    *)
(***************************************************************************)
EXTENDS Naturals

CONSTANTS Servers,   \* processes, each with its own projection
          Calls,     \* concurrent API calls
          Groups, Rooms, Links,
          Ops,       \* operations the clients use
          MaxLog,    \* bound: events stored
          MaxTries,  \* maxMoveRoomToGroupRetries and maxAppendRetries
          None

Items == Rooms \cup Links

\* Operations that publish at their snapshot's sequence, and the others.
Bound == {"delete", "place", "moveRoom", "moveLink", "addLink", "dropLink",
          "editLink", "arrange"}
Plain == {"create", "update", "reorder", "dropRoom"}

\* What a projection may hold: the items of each group, None for no group.
Layout == [Groups -> {None} \cup SUBSET Items]

\* None is no group, no item and not what a group holds (nil, "" and a missing map
\* entry in the code); an operation is tried at least once.
ASSUME RoomGroupsAssumption ==
    /\ MaxLog \in Nat /\ MaxTries \in Nat \ {0}
    /\ Ops \subseteq Bound \cup Plain
    /\ Rooms \cap Links = {}
    /\ None \notin Groups \cup Items /\ \A S \in SUBSET Items : None # S

VARIABLES end,      \* sequence of the last evt.group.> message
          tail,     \* ... of the subject of each plain operation on a group
          index,    \* what each group holds after each prefix; None: no group
          entries,  \* what each group's section lists after each prefix
          gone,     \* deleted rooms
          applied,  \* how far each process's projection has got
          pc, next, op, server, group, item, from, list, seq, tries

stream == <<end, tail, index, entries>>
locals == <<op, server, group, item, list>>
vars == <<stream, gone, applied, pc, next, locals, from, seq, tries>>

Index(s) == index[applied[s]]
Entries(s) == entries[applied[s]]

Holders(layout, x) == {g \in Groups : layout[g] # None /\ x \in layout[g]}

\* GroupForRoom and the source of a move snapshot: the map's iteration order
\* decides if there are several; None if there is none.
Sources(layout, x) ==
    IF Holders(layout, x) = {} THEN {None} ELSE Holders(layout, x)

TypeOK ==
    /\ end \in 0..MaxLog
    /\ tail \in [Groups -> [Plain -> 0..end]]
    /\ index \in [0..MaxLog -> Layout]
    /\ entries \in [0..MaxLog -> Layout]
    /\ gone \subseteq Rooms
    /\ applied \in [Servers -> 0..end]
    /\ pc \in [Calls -> {"idle", "snapshot", "recheck", "relink", "noop",
                         "publish", "append", "put", "await", "wait"}]
    /\ next \in [Calls -> {None, "snapshot", "recheck", "relink", "noop"}]
    /\ op \in [Calls -> Ops \cup {None}]
    /\ server \in [Calls -> Servers \cup {None}]
    /\ group \in [Calls -> Groups \cup {None}]
    /\ item \in [Calls -> Items \cup {None}]
    /\ from \in [Calls -> Groups \cup {None}]
    /\ list \in [Calls -> SUBSET Items]
    /\ \A c \in Calls : pc[c] # "idle" =>
          /\ op[c] \in Ops /\ server[c] \in Servers /\ group[c] \in Groups
          /\ op[c] \in {"place", "moveRoom", "dropRoom"} => item[c] \in Rooms
          /\ op[c] \in {"moveLink", "addLink", "dropLink", "editLink"}
                => item[c] \in Links
    /\ seq \in [Calls -> 0..end]
    /\ tries \in [Calls -> 0..MaxTries]

\* A layout the system can be in: no item in two groups, sections in step.
Layouts ==
    {h \in Layout :
        \A f, g \in Groups : f # g /\ h[f] # None /\ h[g] # None
            => h[f] \cap h[g] = {}}

Init ==
    /\ end = 0
    /\ tail = [g \in Groups |-> [e \in Plain |-> 0]]
    /\ \E h \in Layouts :
          /\ index = [i \in 0..MaxLog |-> h]
          /\ entries = [i \in 0..MaxLog |-> h]
    /\ gone = {}
    /\ applied = [s \in Servers |-> 0]
    /\ pc = [c \in Calls |-> "idle"]
    /\ next = [c \in Calls |-> None]
    /\ op = [c \in Calls |-> None]
    /\ server = [c \in Calls |-> None]
    /\ group = [c \in Calls |-> None]
    /\ item = [c \in Calls |-> None]
    /\ from = [c \in Calls |-> None]
    /\ list = [c \in Calls |-> {}]
    /\ seq = [c \in Calls |-> 0]
    /\ tries = [c \in Calls |-> 0]

-----------------------------------------------------------------------------
(* RoomGroupProjection.Apply.  An event on a group the projection does not *)
(* hold changes nothing, unless it creates it.                             *)
Changed(layout, g, drop, add) ==
    [layout EXCEPT ![g] = IF @ = None THEN None ELSE (@ \ drop) \cup add]

\* RoomAddedToGroup, SidebarLinkAddedToGroup.
Added(layout, g, x) == Changed(layout, g, {}, {x})

\* RoomRemovedFromGroup, SidebarLinkRemovedFromGroup.
Removed(layout, g, x) == Changed(layout, g, {x}, {})

\* RoomGroupDeleted.
GroupDeleted(layout, g) == [layout EXCEPT ![g] = None]

Moves == {"place", "moveRoom", "moveLink"}

\* The index after the event of call c (for a move: after its first message).
ApplyIndex(c, layout) ==
    LET g == group[c]  x == item[c] IN
    CASE op[c] = "create" ->
            [layout EXCEPT ![g] = IF @ = None THEN {} ELSE @]
      [] op[c] = "delete" -> GroupDeleted(layout, g)
      [] op[c] \in {"update", "editLink"} -> layout
      [] op[c] \in {"dropLink", "dropRoom"} -> Removed(layout, g, x)
      [] op[c] \in Moves /\ from[c] # None -> Removed(layout, from[c], x)
      [] op[c] \in Moves \cup {"addLink"} /\ from[c] = None -> Added(layout, g, x)
      [] op[c] \in {"reorder", "arrange"} ->
            Changed(layout, g, Rooms, list[c] \cap Rooms)

\* Variant for the checks: RoomsInGroupReordered leaves the section alone.
ApplyEntriesPartly(c, layout) ==
    CASE op[c] = "reorder" -> layout
      [] op[c] = "arrange" -> Changed(layout, group[c], Items, list[c])
      [] op[c] \notin {"reorder", "arrange"} -> ApplyIndex(c, layout)

\* The section after the same event: SidebarGroupEntriesReordered replaces it
\* whole, RoomsInGroupReordered replaces its rooms (reorderRoomEntries).
ApplyEntries(c, layout) ==
    IF op[c] = "arrange" THEN Changed(layout, group[c], Items, list[c])
                         ELSE ApplyIndex(c, layout)

\* The stream stores the event of call c ...
StoreOne(c) ==
    /\ end < MaxLog
    /\ end' = end + 1
    /\ tail' = IF op[c] \in Plain
               THEN [tail EXCEPT ![group[c]][op[c]] = end + 1] ELSE tail
    /\ index' = [index EXCEPT ![end + 1] = ApplyIndex(c, index[end])]
    /\ entries' = [entries EXCEPT ![end + 1] = ApplyEntries(c, entries[end])]

\* ... or its batch: a removal from the source (on the subject DeleteRoom
\* uses too), then an addition to the target.
StoreMove(c) ==
    /\ end + 1 < MaxLog
    /\ end' = end + 2
    /\ tail' = IF op[c] = "moveLink"
               THEN tail ELSE [tail EXCEPT ![from[c]]["dropRoom"] = end + 1]
    /\ index' = [index EXCEPT
          ![end + 1] = ApplyIndex(c, index[end]),
          ![end + 2] = Added(ApplyIndex(c, index[end]), group[c], item[c])]
    /\ entries' = [entries EXCEPT
          ![end + 1] = ApplyEntries(c, entries[end]),
          ![end + 2] = Added(ApplyEntries(c, entries[end]), group[c], item[c])]

Store(c) == IF op[c] \in Moves /\ from[c] # None THEN StoreMove(c) ELSE StoreOne(c)

(* The projector of process s applies the next message. *)
Project(s) ==
    /\ applied[s] < end
    /\ applied' = [applied EXCEPT ![s] = @ + 1]
    /\ UNCHANGED <<stream, gone, pc, next, locals, from, seq, tries>>

Begin(c, o, s, g, x, f, l) ==
    /\ pc[c] = "idle"
    /\ o \in Ops
    /\ pc' = [pc EXCEPT ![c] = IF o \in Bound THEN "snapshot" ELSE "append"]
    /\ op' = [op EXCEPT ![c] = o]
    /\ server' = [server EXCEPT ![c] = s]
    /\ group' = [group EXCEPT ![c] = g]
    /\ item' = [item EXCEPT ![c] = x]
    /\ from' = [from EXCEPT ![c] = f]
    /\ list' = [list EXCEPT ![c] = l]
    /\ UNCHANGED <<stream, applied, next, seq, tries>>

\* A step of call c that only moves it on.
Goto(c, at) ==
    /\ pc' = [pc EXCEPT ![c] = at]
    /\ UNCHANGED <<stream, gone, applied, locals>>

\* Call c returns; its local variables are gone.
End(c) ==
    /\ pc' = [pc EXCEPT ![c] = "idle"]
    /\ next' = [next EXCEPT ![c] = None]
    /\ op' = [op EXCEPT ![c] = None]
    /\ server' = [server EXCEPT ![c] = None]
    /\ group' = [group EXCEPT ![c] = None]
    /\ item' = [item EXCEPT ![c] = None]
    /\ from' = [from EXCEPT ![c] = None]
    /\ list' = [list EXCEPT ![c] = {}]
    /\ seq' = [seq EXCEPT ![c] = 0]
    /\ tries' = [tries EXCEPT ![c] = 0]
    /\ UNCHANGED <<stream, gone, applied>>

-----------------------------------------------------------------------------
(* The operations, as their callers start them.  The room directory that   *)
(* callers look a room up in lags too, so a deleted room may still be seen.*)

\* CreateRoomGroup: a fresh group ID.
CreateRoomGroup(c, s, g) ==
    /\ \A i \in 0..end : index[i][g] = None
    /\ \A d \in Calls : op[d] = "create" => group[d] # g
    /\ Begin(c, "create", s, g, None, None, {})
    /\ UNCHANGED gone

UpdateRoomGroup(c, s, g) ==
    /\ Index(s)[g] # None
    /\ Begin(c, "update", s, g, None, None, {})
    /\ UNCHANGED gone

DeleteRoomGroup(c, s, g) ==
    /\ Begin(c, "delete", s, g, None, None, {})
    /\ UNCHANGED gone

\* CreateRoom and ensureChannelRoomsAreInAGroup: MoveRoomToGroup of a room
\* that the process sees in no group, bound to no source.
MoveRoomToGroup(c, s, r, g) ==
    /\ Holders(Index(s), r) = {}
    /\ Begin(c, "place", s, g, r, None, {})
    /\ UNCHANGED gone

\* AdminMoveRoomToGroup: the caller is authorized for the source group it
\* sees; MoveRoomToGroupFromSource is bound to it.
AdminMoveRoomToGroup(c, s, r, g) ==
    /\ \E f \in Sources(Index(s), r) : Begin(c, "moveRoom", s, g, r, f, {})
    /\ UNCHANGED gone

\* AdminMoveSidebarLinkToGroup, likewise.
MoveSidebarLinkToGroup(c, s, l, g) ==
    /\ \E f \in Holders(Index(s), l) : Begin(c, "moveLink", s, g, l, f, {})
    /\ UNCHANGED gone

\* CreateSidebarLink: a fresh link ID.
CreateSidebarLink(c, s, l, g) ==
    /\ \A i \in 0..end : Holders(index[i], l) = {}
    /\ \A d \in Calls : item[d] # l
    /\ Begin(c, "addLink", s, g, l, None, {})
    /\ UNCHANGED gone

DeleteSidebarLink(c, s, l) ==
    /\ \E g \in Holders(Index(s), l) : Begin(c, "dropLink", s, g, l, None, {})
    /\ UNCHANGED gone

UpdateSidebarLink(c, s, l) ==
    /\ \E g \in Holders(Index(s), l) : Begin(c, "editLink", s, g, l, None, {})
    /\ UNCHANGED gone

\* ReorderSidebarItemsInGroup: the client reorders the section it was shown.
ReorderSidebarItems(c, s, g) ==
    /\ Entries(s)[g] # None
    /\ Begin(c, "arrange", s, g, None, None, Entries(s)[g])
    /\ UNCHANGED gone

\* ReorderRoomsInGroup: the list is a permutation of the group's rooms.
ReorderRoomsInGroup(c, s, g) ==
    /\ Index(s)[g] # None
    /\ Begin(c, "reorder", s, g, None, None, Index(s)[g] \cap Rooms)
    /\ UNCHANGED gone

\* DeleteRoom stores RoomDeleted, then removes the room from the group it was
\* read in, if any.
DeleteRoom(c, s, r) ==
    /\ "dropRoom" \in Ops /\ pc[c] = "idle"
    /\ gone' = gone \cup {r}
    /\ \/ /\ Holders(Index(s), r) = {}
          /\ UNCHANGED <<stream, applied, pc, next, locals, from, seq, tries>>
       \/ \E g \in Holders(Index(s), r) : Begin(c, "dropRoom", s, g, r, None, {})

-----------------------------------------------------------------------------
(* waitForGroupLayoutCurrent: read the stream's position, wait for the     *)
(* projection to reach it, and go on at "at".                              *)
Await(c, at) ==
    /\ Goto(c, "await")
    /\ next' = [next EXCEPT ![c] = at]
    /\ seq' = [seq EXCEPT ![c] = end]

\* Variant for the checks: the retries are not limited.
ResumeAlways(c) ==
    /\ pc[c] = "await"
    /\ applied[server[c]] >= seq[c]
    /\ Goto(c, next[c])
    /\ next' = [next EXCEPT ![c] = None]
    /\ seq' = [seq EXCEPT ![c] = 0]
    /\ UNCHANGED <<from, tries>>

Resume(c) ==
    /\ pc[c] = "await"
    /\ applied[server[c]] >= seq[c]
    /\ IF tries[c] < MaxTries
       THEN /\ Goto(c, next[c])
            /\ next' = [next EXCEPT ![c] = None]
            /\ seq' = [seq EXCEPT ![c] = 0]
            /\ UNCHANGED <<from, tries>>
       ELSE End(c)

\* Publish at the sequence of the snapshot just read, moving from f.
Prepare(c, f) ==
    /\ Goto(c, "publish")
    /\ seq' = [seq EXCEPT ![c] = applied[server[c]]]
    /\ from' = [from EXCEPT ![c] = f]
    /\ UNCHANGED <<next, tries>>

\* The target group is not in the projection: wait for it once.
TargetMissing(c) ==
    /\ pc[c] \in {"snapshot", "recheck"}
    /\ Index(server[c])[group[c]] = None
    /\ \/ pc[c] = "snapshot" /\ Await(c, "recheck") /\ UNCHANGED <<from, tries>>
       \/ pc[c] = "recheck" /\ End(c)

\* Variant for the checks: DeleteRoomGroup looks at the links only.
GroupSnapshotOfLinks(c) ==
    LET held == Index(server[c])[group[c]]
        allowed ==
            CASE op[c] = "delete" -> held \cap Links = {}
              [] op[c] \in {"dropLink", "editLink"} -> item[c] \in held
              [] op[c] = "arrange" -> list[c] = Entries(server[c])[group[c]]
              [] op[c] = "addLink" -> TRUE
    IN
    /\ pc[c] \in {"snapshot", "recheck"} /\ op[c] \notin Moves
    /\ held # None
    /\ IF allowed THEN Prepare(c, None) ELSE End(c)

\* DeleteRoomGroup, the sidebar-link operations and ReorderSidebarItems.
GroupSnapshot(c) ==
    LET held == Index(server[c])[group[c]]
        allowed ==
            CASE op[c] = "delete" -> held = {}
              [] op[c] \in {"dropLink", "editLink"} -> item[c] \in held
              [] op[c] = "arrange" -> list[c] = Entries(server[c])[group[c]]
              [] op[c] = "addLink" -> TRUE
    IN
    /\ pc[c] \in {"snapshot", "recheck"} /\ op[c] \notin Moves
    /\ held # None
    /\ IF allowed THEN Prepare(c, None) ELSE End(c)

\* moveRoomToGroup.  A room already in the target is looked at again once the
\* projection is current.
RoomMoveSnapshot(c) ==
    /\ pc[c] \in {"snapshot", "recheck"} /\ op[c] \in {"place", "moveRoom"}
    /\ Index(server[c])[group[c]] # None
    /\ \E f \in Sources(Index(server[c]), item[c]) :
          \/ op[c] = "moveRoom" /\ f # from[c] /\ End(c)
          \/ /\ op[c] = "moveRoom" => f = from[c]
             /\ \/ f = group[c] /\ Await(c, "noop") /\ UNCHANGED <<from, tries>>
                \/ f # group[c] /\ Prepare(c, f)

RoomMoveNoop(c) ==
    /\ pc[c] = "noop"
    /\ \E f \in Sources(Index(server[c]), item[c]) :
          LET again == /\ Index(server[c])[group[c]] # None
                       /\ op[c] = "moveRoom" => f = from[c]
                       /\ f # group[c]
                       /\ tries[c] + 1 < MaxTries
          IN  IF again
              THEN /\ Goto(c, "snapshot")
                   /\ tries' = [tries EXCEPT ![c] = @ + 1]
                   /\ UNCHANGED <<next, from, seq>>
              ELSE End(c)

\* MoveSidebarLinkBetweenGroups.  A link that is in no group is looked for
\* again ("relink") once the projection is current; the target is not.
LinkMoveSnapshot(c) ==
    /\ pc[c] \in {"snapshot", "recheck", "relink"} /\ op[c] = "moveLink"
    /\ pc[c] = "relink" \/ Index(server[c])[group[c]] # None
    /\ \E f \in Sources(Index(server[c]), item[c]) :
          \/ f = None /\ pc[c] # "relink" /\ Await(c, "relink")
             /\ UNCHANGED <<from, tries>>
          \/ f = None /\ pc[c] = "relink" /\ End(c)
          \/ f # None /\ (f # from[c] \/ f = group[c]) /\ End(c)
          \/ f # None /\ f = from[c] /\ f # group[c] /\ Prepare(c, f)

\* Variant for the checks: stored without looking at the sequence.
AppendAtFilterUnchecked(c) ==
    /\ pc[c] = "publish"
    /\ Store(c)
    /\ pc' = [pc EXCEPT ![c] = "wait"]
    /\ seq' = [seq EXCEPT ![c] = end']
    /\ UNCHANGED <<gone, applied, next, locals, from, tries>>

(* AppendAtFilter and AppendBatch over evt.group.>: accepted, or a conflict *)
(* that counts against the retries.                                        *)
AppendAtFilter(c) ==
    /\ pc[c] = "publish"
    /\ \/ /\ seq[c] = end
          /\ Store(c)
          /\ pc' = [pc EXCEPT ![c] = "wait"]
          /\ seq' = [seq EXCEPT ![c] = end']
          /\ UNCHANGED <<gone, applied, next, locals, from, tries>>
       \/ /\ seq[c] # end
          /\ Await(c, "snapshot")
          /\ tries' = [tries EXCEPT ![c] = @ + 1]
          /\ UNCHANGED from

(* Publisher.Append and AppendEventually: lastSubjectSeq, then publishAt.  *)
LastSubjectSeq(c) ==
    /\ pc[c] = "append"
    /\ Goto(c, "put")
    /\ seq' = [seq EXCEPT ![c] = tail[group[c]][op[c]]]
    /\ UNCHANGED <<next, from, tries>>

\* UpdateRoomGroup and ReorderRoomsInGroup return the conflict.
PublishAt(c) ==
    /\ pc[c] = "put"
    /\ \/ /\ seq[c] = tail[group[c]][op[c]]
          /\ Store(c)
          /\ pc' = [pc EXCEPT ![c] = "wait"]
          /\ seq' = [seq EXCEPT ![c] = end']
          /\ UNCHANGED <<gone, applied, next, locals, from, tries>>
       \/ /\ seq[c] # tail[group[c]][op[c]]
          /\ IF op[c] \in {"create", "dropRoom"} /\ tries[c] + 1 < MaxTries
             THEN /\ Goto(c, "append")
                  /\ tries' = [tries EXCEPT ![c] = @ + 1]
                  /\ UNCHANGED <<next, from, seq>>
             ELSE End(c)

(* The call returns once its process has applied its event, or earlier     *)
(* with an error.                                                          *)
Return(c) ==
    /\ pc[c] = "wait"
    /\ applied[server[c]] >= seq[c]
    /\ End(c)

GiveUp(c) ==
    /\ pc[c] \in {"await", "publish", "append", "put", "wait"}
    /\ End(c)

Start(c) ==
    \E s \in Servers :
        \/ \E g \in Groups :
              \/ CreateRoomGroup(c, s, g) \/ UpdateRoomGroup(c, s, g)
              \/ DeleteRoomGroup(c, s, g)
              \/ ReorderSidebarItems(c, s, g) \/ ReorderRoomsInGroup(c, s, g)
              \/ \E r \in Rooms : MoveRoomToGroup(c, s, r, g)
                                  \/ AdminMoveRoomToGroup(c, s, r, g)
              \/ \E l \in Links : MoveSidebarLinkToGroup(c, s, l, g)
                                  \/ CreateSidebarLink(c, s, l, g)
        \/ \E l \in Links : DeleteSidebarLink(c, s, l) \/ UpdateSidebarLink(c, s, l)
        \/ \E r \in Rooms : DeleteRoom(c, s, r)

Next ==
    \/ \E s \in Servers : Project(s)
    \/ \E c \in Calls :
          \/ Start(c) \/ Resume(c) \/ TargetMissing(c) \/ GroupSnapshot(c)
          \/ RoomMoveSnapshot(c) \/ RoomMoveNoop(c) \/ LinkMoveSnapshot(c)
          \/ AppendAtFilter(c) \/ LastSubjectSeq(c) \/ PublishAt(c)
          \/ Return(c) \/ GiveUp(c)

Spec == Init /\ [][Next]_vars

-----------------------------------------------------------------------------
\* ADR-031 and FDR-017:17-18: no room and no sidebar link is ever in two
\* groups, at any sequence a projection can stop at.
ItemInAtMostOneGroup ==
    \A i \in 0..end, f, g \in Groups :
        f # g /\ index[i][f] # None /\ index[i][g] # None
            => index[i][f] \cap index[i][g] = {}

\* A room that was in a group is in one between any two mutations, unless it
\* was deleted: no interleaving of moves, reorders and group deletions loses
\* it (room_groups.go:255-258, 304-309).
GroupedRoomStaysGrouped ==
    \A r \in Rooms \ gone, i \in 0..end :
        Holders(index[i], r) # {} => Holders(index[end], r) # {}

\* A sidebar link leaves the layout only by DeleteSidebarLink (FDR-017:18:
\* "Sidebar links belong to exactly one group").
LinkStaysGrouped ==
    [][\A l \in Links :
          Holders(index[end], l) # {} /\ Holders(index'[end'], l) = {} =>
              \E c \in Calls : op[c] = "dropLink" /\ item[c] = l]_vars

\* The sidebar section of a group lists exactly what the group holds, however
\* reorders interleave with moves and deletions.
SectionMatchesGroup ==
    \A i \in 0..end : entries[i] = index[i]

\* admin_room_layout_management.go and room_groups.go:317-323: an
\* administrator's move takes the room out of the group it was authorized
\* for, even if others moved the room meanwhile.
MoveLeavesAuthorizedGroup ==
    [][\A c \in Calls :
          op[c] = "moveRoom" /\ pc[c] = "publish" /\ pc'[c] = "wait"
              => Sources(index[end], item[c]) = {from[c]}]_vars
=============================================================================
