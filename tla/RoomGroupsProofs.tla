-------------------------- MODULE RoomGroupsProofs --------------------------
(***************************************************************************)
(* Proofs about RoomGroups, for any number of processes, calls, groups,    *)
(* rooms and links and any length of the stream.                           *)
(***************************************************************************)
EXTENDS RoomGroups, TLAPS

\* Where a call can be with which operation, and its retries.
Control ==
    \A c \in Calls :
        /\ pc[c] # "await" => tries[c] < MaxTries
        /\ pc[c] = "await" => next[c] \in {"snapshot", "recheck", "relink", "noop"}
        /\ pc[c] \in {"publish", "snapshot", "recheck", "relink", "noop", "await"}
              => op[c] \in Bound
        /\ pc[c] \in {"append", "put"} => op[c] \in Plain
        /\ op[c] \notin Moves => from[c] = None
        /\ pc[c] # "idle" /\ op[c] = "dropRoom" => item[c] \in gone

\* What call c found in the layout it read, as far as its event depends on it.
ReadIn(c, held, listed) ==
    /\ op[c] = "delete" => held[group[c]] = {}
    /\ op[c] \in {"place", "moveRoom"} => held[group[c]] # None
    /\ op[c] \in Moves =>
          from[c] \in Sources(held, item[c]) /\ from[c] # group[c]
    /\ op[c] = "arrange" => listed[group[c]] = list[c]

\* The sequence a call publishes at names the layout it read: the past is
\* fixed, so this stays true however far the stream has got.
SnapshotRead ==
    \A c \in Calls : pc[c] = "publish" =>
        ReadIn(c, index[seq[c]], entries[seq[c]])

\* A link that is being created is in no layout, and in no other call.
FreshLink ==
    \A c \in Calls : op[c] = "addLink" /\ pc[c] \notin {"idle", "wait"} =>
        /\ \A i \in 0..end : Holders(index[i], item[c]) = {}
        /\ \A d \in Calls \ {c} : item[d] # item[c]

\* A layout with every item in at most one group.
SingleHolder(layout) ==
    \A x \in Items : \A f, g \in Holders(layout, x) : f = g

IInv == TypeOK /\ Control /\ SnapshotRead /\ SectionMatchesGroup /\ FreshLink

-----------------------------------------------------------------------------
(* What each event does to a layout.                                       *)

\* ApplyIndex, one line per operation.
LEMMA ApplyIndexCases ==
    ASSUME NEW c, NEW h
    PROVE  /\ op[c] = "create" => ApplyIndex(c, h) =
                 [h EXCEPT ![group[c]] = IF @ = None THEN {} ELSE @]
           /\ op[c] = "delete" => ApplyIndex(c, h) = GroupDeleted(h, group[c])
           /\ op[c] \in {"update", "editLink"} => ApplyIndex(c, h) = h
           /\ op[c] \in {"dropLink", "dropRoom"}
                 => ApplyIndex(c, h) = Removed(h, group[c], item[c])
           /\ op[c] \in Moves /\ from[c] # None
                 => ApplyIndex(c, h) = Removed(h, from[c], item[c])
           /\ op[c] \in Moves \cup {"addLink"} /\ from[c] = None
                 => ApplyIndex(c, h) = Added(h, group[c], item[c])
           /\ op[c] \in {"reorder", "arrange"} => ApplyIndex(c, h) =
                 Changed(h, group[c], Rooms, list[c] \cap Rooms)
  BY DEF ApplyIndex, Moves

\* Changed yields a layout; it touches one group, and only if that exists.
LEMMA ChangedLayout ==
    ASSUME NEW h \in Layout, NEW g \in Groups,
           NEW drop, NEW add \in SUBSET Items
    PROVE  /\ Changed(h, g, drop, add) \in Layout
           /\ \A f \in Groups \ {g} : Changed(h, g, drop, add)[f] = h[f]
           /\ h[g] = None => Changed(h, g, drop, add)[g] = None
           /\ h[g] # None => Changed(h, g, drop, add)[g] = (h[g] \ drop) \cup add
  BY DEF Changed, Layout

\* An event turns a layout into a layout, and so does the second of a move.
LEMMA ApplyLayout ==
    ASSUME TypeOK, NEW c \in Calls, pc[c] # "idle", NEW h \in Layout,
           op[c] \in Moves \/ from[c] = None
    PROVE  /\ ApplyIndex(c, h) \in Layout
           /\ ApplyEntries(c, h) \in Layout
           /\ op[c] \in Moves =>
                 /\ Added(ApplyIndex(c, h), group[c], item[c]) \in Layout
                 /\ Added(ApplyEntries(c, h), group[c], item[c]) \in Layout
  <1>1. /\ group[c] \in Groups /\ op[c] \in Ops /\ list[c] \in SUBSET Items
        /\ op[c] \in Moves \cup {"addLink", "dropLink", "dropRoom"}
              => item[c] \in Items
    BY DEF TypeOK, Moves, Items
  <1>2. ApplyIndex(c, h) \in Layout
    <2>1. CASE op[c] = "create"
      <3>1. ApplyIndex(c, h) = [h EXCEPT ![group[c]] = IF @ = None THEN {} ELSE @]
        BY <2>1, ApplyIndexCases
      <3> QED BY <3>1, <1>1 DEF Layout
    <2>2. CASE op[c] = "delete"
      <3>1. ApplyIndex(c, h) = [h EXCEPT ![group[c]] = None]
        BY <2>2, ApplyIndexCases DEF GroupDeleted
      <3> QED BY <3>1, <1>1 DEF Layout
    <2>3. CASE op[c] \in {"update", "editLink"}
      BY <2>3, ApplyIndexCases
    <2>4. CASE op[c] \in {"dropLink", "dropRoom"}
      <3>1. ApplyIndex(c, h) = Changed(h, group[c], {item[c]}, {})
        BY <2>4, ApplyIndexCases DEF Removed
      <3> QED BY <3>1, <1>1, ChangedLayout
    <2>5. CASE op[c] \in Moves /\ from[c] # None
      <3>1. ApplyIndex(c, h) = Changed(h, from[c], {item[c]}, {})
        BY <2>5, ApplyIndexCases DEF Removed
      <3> QED BY <2>5, <3>1, ChangedLayout DEF TypeOK
    <2>6. CASE op[c] \in Moves \cup {"addLink"} /\ from[c] = None
      <3>1. ApplyIndex(c, h) = Changed(h, group[c], {}, {item[c]})
        BY <2>6, ApplyIndexCases DEF Added
      <3> QED BY <2>6, <3>1, <1>1, ChangedLayout
    <2>7. CASE op[c] \in {"reorder", "arrange"}
      <3>1. ApplyIndex(c, h) = Changed(h, group[c], Rooms, list[c] \cap Rooms)
        BY <2>7, ApplyIndexCases
      <3> QED BY <3>1, <1>1, ChangedLayout
    <2> QED
      BY <1>1, <2>1, <2>2, <2>3, <2>4, <2>5, <2>6, <2>7, RoomGroupsAssumption
         DEF Bound, Plain, Moves
  <1>3. ApplyEntries(c, h) \in Layout
    BY <1>1, <1>2, ChangedLayout DEF ApplyEntries
  <1> QED
    BY <1>1, <1>2, <1>3, ChangedLayout DEF Added

\* SidebarGroupEntriesReordered lists what the group holds: then it changes
\* nothing, and every event does the same to a section as to its group.
LEMMA SameEntries ==
    ASSUME TypeOK, NEW c \in Calls, pc[c] # "idle", NEW h \in Layout,
           op[c] = "arrange" => h[group[c]] = list[c]
    PROVE  /\ ApplyEntries(c, h) = ApplyIndex(c, h)
           /\ op[c] = "arrange" => ApplyIndex(c, h) = h
  <1>1. CASE op[c] # "arrange"
    BY <1>1 DEF ApplyEntries
  <1>2. CASE op[c] = "arrange"
    <2>1. group[c] \in Groups /\ list[c] \in SUBSET Items /\ list[c] # None
      BY RoomGroupsAssumption DEF TypeOK
    <2>2. ApplyIndex(c, h) = Changed(h, group[c], Rooms, list[c] \cap Rooms)
      BY <1>2, ApplyIndexCases
    <2>3. Changed(h, group[c], Rooms, list[c] \cap Rooms) = h
      BY <1>2, <2>1 DEF Changed, Layout
    <2>4. Changed(h, group[c], Items, list[c]) = h
      BY <1>2, <2>1 DEF Changed, Layout
    <2> QED BY <1>2, <2>2, <2>3, <2>4 DEF ApplyEntries
  <1> QED BY <1>1, <1>2

\* Where an item is after Changed.
LEMMA ChangedHolders ==
    ASSUME NEW h \in Layout, NEW g \in Groups,
           NEW drop, NEW add \in SUBSET Items, NEW x \in Items
    PROVE  /\ h[g] = None \/ (x \notin add /\ x \notin drop)
                 => Holders(Changed(h, g, drop, add), x) = Holders(h, x)
           /\ h[g] # None /\ x \in add =>
                 Holders(Changed(h, g, drop, add), x) = Holders(h, x) \cup {g}
           /\ x \notin add /\ x \in drop =>
                 Holders(Changed(h, g, drop, add), x) = Holders(h, x) \ {g}
  <1>1. /\ \A f \in Groups \ {g} : Changed(h, g, drop, add)[f] = h[f]
        /\ h[g] = None => Changed(h, g, drop, add)[g] = None
        /\ h[g] # None => Changed(h, g, drop, add)[g] = (h[g] \ drop) \cup add
    BY ChangedLayout
  <1>2. /\ h[g] = None \/ (h[g] # None /\ h[g] \subseteq Items)
        /\ h[g] # None => (h[g] \ drop) \cup add # None
    BY RoomGroupsAssumption DEF Layout
  <1> QED BY <1>1, <1>2 DEF Holders

\* An event moves no item but its own: deleted groups are empty, lists are
\* current (ReorderRoomsInGroup's may not be, but holds rooms only).
LEMMA OtherItems ==
    ASSUME TypeOK, NEW c \in Calls, pc[c] # "idle", NEW h \in Layout,
           NEW x \in Items, op[c] \in Moves \/ from[c] = None,
           x # item[c] \/ op[c] \notin Moves \cup {"addLink", "dropLink", "dropRoom"},
           op[c] = "delete" => h[group[c]] = {},
           op[c] = "arrange" => h[group[c]] = list[c],
           op[c] = "reorder" => x \notin Rooms
    PROVE  Holders(ApplyIndex(c, h), x) = Holders(h, x)
  <1>1. /\ group[c] \in Groups /\ op[c] \in Ops /\ list[c] \in SUBSET Items
        /\ op[c] \in Moves \cup {"addLink"} => item[c] \in Items
    BY DEF TypeOK, Moves, Items
  <1>2. CASE op[c] = "create"
    <2>1. ApplyIndex(c, h) = [h EXCEPT ![group[c]] = IF @ = None THEN {} ELSE @]
      BY <1>2, ApplyIndexCases
    <2> QED BY <2>1, <1>1 DEF Layout, Holders
  <1>3. CASE op[c] = "delete"
    <2>1. ApplyIndex(c, h) = [h EXCEPT ![group[c]] = None]
      BY <1>3, ApplyIndexCases DEF GroupDeleted
    <2> QED BY <1>1, <1>3, <2>1 DEF Layout, Holders
  <1>4. CASE op[c] \in {"update", "editLink"}
    BY <1>4, ApplyIndexCases
  <1>5. CASE op[c] \in {"dropLink", "dropRoom"}
    <2>1. ApplyIndex(c, h) = Changed(h, group[c], {item[c]}, {})
      BY <1>5, ApplyIndexCases DEF Removed
    <2>2. x # item[c] /\ {} \in SUBSET Items
      BY <1>5
    <2> QED BY <2>1, <2>2, <1>1, ChangedHolders
  <1>6. CASE op[c] \in Moves /\ from[c] # None
    <2>1. ApplyIndex(c, h) = Changed(h, from[c], {item[c]}, {})
      BY <1>6, ApplyIndexCases DEF Removed
    <2>2. from[c] \in Groups /\ x # item[c] /\ {} \in SUBSET Items
      BY <1>6 DEF TypeOK
    <2> QED BY <2>1, <2>2, ChangedHolders
  <1>7. CASE op[c] \in Moves \cup {"addLink"} /\ from[c] = None
    <2>1. ApplyIndex(c, h) = Changed(h, group[c], {}, {item[c]})
      BY <1>7, ApplyIndexCases DEF Added
    <2> QED BY <1>7, <2>1, <1>1, ChangedHolders
  <1>8. CASE op[c] = "reorder"
    <2>1. ApplyIndex(c, h) = Changed(h, group[c], Rooms, list[c] \cap Rooms)
      BY <1>8, ApplyIndexCases
    <2> QED BY <1>8, <2>1, <1>1, ChangedHolders
  <1>9. CASE op[c] = "arrange"
    BY <1>9, SameEntries
  <1> QED
    BY <1>1, <1>2, <1>3, <1>4, <1>5, <1>6, <1>7, <1>8, <1>9, RoomGroupsAssumption
       DEF Bound, Plain, Moves

\* Where an event, or the second message of a move, puts its own item.
LEMMA OwnItem ==
    ASSUME TypeOK, NEW c \in Calls, pc[c] # "idle", NEW h \in Layout,
           item[c] \in Items
    PROVE  /\ op[c] \in {"dropLink", "dropRoom"} =>
                 Holders(ApplyIndex(c, h), item[c]) = Holders(h, item[c]) \ {group[c]}
           /\ op[c] \in Moves /\ from[c] # None =>
                 Holders(ApplyIndex(c, h), item[c]) = Holders(h, item[c]) \ {from[c]}
           /\ op[c] \in Moves \cup {"addLink"} /\ from[c] = None =>
                 ApplyIndex(c, h) = Added(h, group[c], item[c])
           /\ Holders(Added(h, group[c], item[c]), item[c])
                 \subseteq Holders(h, item[c]) \cup {group[c]}
           /\ h[group[c]] # None =>
                 group[c] \in Holders(Added(h, group[c], item[c]), item[c])
  <1>1. group[c] \in Groups /\ {item[c]} \in SUBSET Items /\ {} \in SUBSET Items
    BY DEF TypeOK
  <1>2. ASSUME op[c] \in {"dropLink", "dropRoom"}
        PROVE  Holders(ApplyIndex(c, h), item[c]) = Holders(h, item[c]) \ {group[c]}
    <2>1. ApplyIndex(c, h) = Changed(h, group[c], {item[c]}, {})
      BY <1>2, ApplyIndexCases DEF Removed
    <2> QED BY <1>1, <2>1, ChangedHolders
  <1>3. ASSUME op[c] \in Moves, from[c] # None
        PROVE  Holders(ApplyIndex(c, h), item[c]) = Holders(h, item[c]) \ {from[c]}
    <2>1. ApplyIndex(c, h) = Changed(h, from[c], {item[c]}, {})
      BY <1>3, ApplyIndexCases DEF Removed
    <2>2. from[c] \in Groups
      BY <1>3 DEF TypeOK
    <2> QED BY <1>1, <2>1, <2>2, ChangedHolders
  <1>4. op[c] \in Moves \cup {"addLink"} /\ from[c] = None =>
            ApplyIndex(c, h) = Added(h, group[c], item[c])
    BY ApplyIndexCases
  <1>5. /\ Holders(Added(h, group[c], item[c]), item[c])
              \subseteq Holders(h, item[c]) \cup {group[c]}
        /\ h[group[c]] # None =>
              group[c] \in Holders(Added(h, group[c], item[c]), item[c])
    BY <1>1, ChangedHolders DEF Added
  <1> QED BY <1>2, <1>3, <1>4, <1>5

\* What storing does to the stream: it grows, its past is kept.
LEMMA StoreShape ==
    ASSUME TypeOK, Control, NEW c \in Calls, pc[c] # "idle", Store(c)
    PROVE  /\ end' \in 0..MaxLog /\ end < end' /\ end + 1 \in 0..MaxLog
           /\ tail' \in [Groups -> [Plain -> 0..end']]
           /\ index' \in [0..MaxLog -> Layout]
           /\ entries' \in [0..MaxLog -> Layout]
           /\ \A i \in 0..end : index'[i] = index[i] /\ entries'[i] = entries[i]
           /\ index'[end + 1] = ApplyIndex(c, index[end])
           /\ entries'[end + 1] = ApplyEntries(c, entries[end])
           /\ op[c] \in Moves /\ from[c] # None =>
                 /\ end' = end + 2
                 /\ index'[end + 2] = Added(index'[end + 1], group[c], item[c])
                 /\ entries'[end + 2] = Added(entries'[end + 1], group[c], item[c])
           /\ ~(op[c] \in Moves /\ from[c] # None) => end' = end + 1
  <1>1. /\ end \in 0..MaxLog /\ end \in Nat /\ MaxLog \in Nat
        /\ index[end] \in Layout /\ entries[end] \in Layout
        /\ group[c] \in Groups
        /\ op[c] \in Moves \/ from[c] = None
    BY RoomGroupsAssumption DEF TypeOK, Control
  <1>2. /\ ApplyIndex(c, index[end]) \in Layout
        /\ ApplyEntries(c, entries[end]) \in Layout
        /\ op[c] \in Moves =>
              /\ Added(ApplyIndex(c, index[end]), group[c], item[c]) \in Layout
              /\ Added(ApplyEntries(c, entries[end]), group[c], item[c]) \in Layout
    BY <1>1, ApplyLayout
  <1>3. CASE op[c] \in Moves /\ from[c] # None
    <2>1. StoreMove(c)
      BY <1>3 DEF Store
    <2>2. /\ end' = end + 2 /\ end' \in 0..MaxLog /\ end + 1 \in 0..MaxLog
          /\ end + 2 \in 0..MaxLog /\ end + 1 # end + 2
          /\ \A i \in 0..end : i # end + 1 /\ i # end + 2 /\ i \in 0..MaxLog
          /\ 0..end \subseteq 0..end' /\ end + 1 \in 0..end'
      BY <1>1, <2>1 DEF StoreMove
    <2>3. tail' \in [Groups -> [Plain -> 0..end']]
      <3>1. tail \in [Groups -> [Plain -> 0..end']]
        BY <2>2 DEF TypeOK
      <3>2. from[c] \in Groups /\ "dropRoom" \in Plain
        BY <1>3 DEF TypeOK, Plain
      <3> QED BY <2>1, <2>2, <3>1, <3>2 DEF StoreMove
    <2>4. /\ index' \in [0..MaxLog -> Layout]
          /\ \A i \in 0..end : index'[i] = index[i]
          /\ index'[end + 1] = ApplyIndex(c, index[end])
          /\ index'[end + 2] = Added(ApplyIndex(c, index[end]), group[c], item[c])
      BY <1>2, <1>3, <2>1, <2>2 DEF StoreMove, TypeOK
    <2>5. /\ entries' \in [0..MaxLog -> Layout]
          /\ \A i \in 0..end : entries'[i] = entries[i]
          /\ entries'[end + 1] = ApplyEntries(c, entries[end])
          /\ entries'[end + 2] = Added(ApplyEntries(c, entries[end]), group[c], item[c])
      BY <1>2, <1>3, <2>1, <2>2 DEF StoreMove, TypeOK
    <2> QED BY <1>1, <1>3, <2>2, <2>3, <2>4, <2>5
  <1>4. CASE ~(op[c] \in Moves /\ from[c] # None)
    <2>1. StoreOne(c)
      BY <1>4 DEF Store
    <2>2. /\ end' = end + 1 /\ end' \in 0..MaxLog /\ end + 1 \in 0..MaxLog
          /\ \A i \in 0..end : i # end + 1 /\ i \in 0..MaxLog
          /\ 0..end \subseteq 0..end' /\ end + 1 \in 0..end'
      BY <1>1, <2>1 DEF StoreOne
    <2>3. tail' \in [Groups -> [Plain -> 0..end']]
      <3>1. tail \in [Groups -> [Plain -> 0..end']]
        BY <2>2 DEF TypeOK
      <3> QED BY <1>1, <2>1, <2>2, <3>1 DEF StoreOne
    <2>4. /\ index' \in [0..MaxLog -> Layout]
          /\ \A i \in 0..end : index'[i] = index[i]
          /\ index'[end + 1] = ApplyIndex(c, index[end])
      BY <1>2, <2>1, <2>2 DEF StoreOne, TypeOK
    <2>5. /\ entries' \in [0..MaxLog -> Layout]
          /\ \A i \in 0..end : entries'[i] = entries[i]
          /\ entries'[end + 1] = ApplyEntries(c, entries[end])
      BY <1>2, <2>1, <2>2 DEF StoreOne, TypeOK
    <2> QED BY <1>1, <1>4, <2>2, <2>3, <2>4, <2>5
  <1> QED BY <1>3, <1>4

-----------------------------------------------------------------------------
(* The kinds of step a call takes, each with what it must establish.       *)

PCs == {"idle", "snapshot", "recheck", "relink", "noop", "publish", "append",
        "put", "await", "wait"}

LEMMA ProjectStep ==
    ASSUME IInv, NEW s \in Servers, Project(s)
    PROVE  IInv'
  <1>1. TypeOK'
    BY RoomGroupsAssumption DEF IInv, TypeOK, Project, stream, locals
  <1>2. UNCHANGED <<end, index, entries, gone, pc, next, op, group, item, list,
                    from, seq, tries>>
    BY DEF Project, stream, locals
  <1>3. Control' /\ SectionMatchesGroup' /\ FreshLink'
    BY <1>2 DEF IInv, Control, SectionMatchesGroup, FreshLink, Holders
  <1>4. SnapshotRead'
    BY <1>2 DEF IInv, SnapshotRead, ReadIn, Sources, Holders
  <1> QED
    BY <1>1, <1>3, <1>4 DEF IInv

\* A call starts.
LEMMA BeginStep ==
    ASSUME IInv, NEW c \in Calls, NEW o \in Ops, NEW s \in Servers,
           NEW g \in Groups, NEW x \in Items \cup {None},
           NEW f \in Groups \cup {None}, NEW l \in SUBSET Items,
           o \in {"place", "moveRoom", "dropRoom"} => x \in Rooms,
           o \in {"moveLink", "addLink", "dropLink", "editLink"} => x \in Links,
           o \notin Moves => f = None,
           gone' \subseteq Rooms, gone \subseteq gone',
           o = "dropRoom" => x \in gone',
           o = "addLink" =>
               /\ \A i \in 0..end : Holders(index[i], x) = {}
               /\ \A d \in Calls : item[d] # x,
           x \in Links /\ o # "addLink" =>
               \E i \in 0..end : Holders(index[i], x) # {},
           Begin(c, o, s, g, x, f, l)
    PROVE  IInv'
  <1> USE DEF IInv, Begin, stream
  <1>1. TypeOK'
    BY DEF TypeOK
  <1>2. Control'
    BY RoomGroupsAssumption DEF TypeOK, Control, Bound, Plain
  <1>3. SnapshotRead'
    <2> SUFFICES ASSUME NEW d \in Calls, pc'[d] = "publish"
                 PROVE  ReadIn(d, index[seq[d]], entries[seq[d]])'
      BY DEF SnapshotRead
    <2>1. d # c
      BY DEF TypeOK
    <2>2. /\ pc[d] = "publish" /\ seq'[d] = seq[d] /\ index' = index
          /\ entries' = entries /\ op'[d] = op[d] /\ group'[d] = group[d]
          /\ item'[d] = item[d] /\ from'[d] = from[d] /\ list'[d] = list[d]
      BY <2>1 DEF TypeOK
    <2>3. ReadIn(d, index[seq[d]], entries[seq[d]])
      BY <2>2 DEF SnapshotRead
    <2> QED BY <2>2, <2>3 DEF ReadIn, Sources, Holders
  <1>4. SectionMatchesGroup'
    BY DEF SectionMatchesGroup
  <1>5. FreshLink'
    <2> SUFFICES ASSUME NEW d \in Calls, op'[d] = "addLink",
                        pc'[d] \notin {"idle", "wait"}
                 PROVE  /\ \A i \in 0..end : Holders(index[i], item'[d]) = {}
                        /\ \A e \in Calls \ {d} : item'[e] # item'[d]
      BY DEF FreshLink, Holders
    <2>1. CASE d = c
      BY <2>1 DEF TypeOK
    <2>2. CASE d # c
      <3>1. /\ op[d] = "addLink" /\ pc[d] \notin {"idle", "wait"}
            /\ item'[d] = item[d] /\ item[d] \in Links
        BY <2>2 DEF TypeOK
      <3>2. /\ \A i \in 0..end : Holders(index[i], item[d]) = {}
            /\ \A e \in Calls \ {d} : item[e] # item[d]
        BY <3>1 DEF FreshLink
      <3>3. x # item[d]
        <4>1. CASE x \in Links /\ o # "addLink"
          BY <4>1, <3>2
        <4>2. CASE o = "addLink"
          BY <4>2
        <4>3. CASE x \notin Links
          BY <4>3, <3>1
        <4> QED BY <4>1, <4>2, <4>3
      <3> QED BY <3>1, <3>2, <3>3 DEF TypeOK
    <2> QED BY <2>1, <2>2
  <1> QED BY <1>1, <1>2, <1>3, <1>4, <1>5

\* A call returns.
LEMMA EndStep ==
    ASSUME IInv, NEW c \in Calls, End(c)
    PROVE  IInv'
  <1> USE DEF IInv, End, stream
  <1>1. TypeOK'
    BY RoomGroupsAssumption DEF TypeOK
  <1>2. Control'
    BY RoomGroupsAssumption DEF TypeOK, Control
  <1>3. SnapshotRead'
    <2> SUFFICES ASSUME NEW d \in Calls, pc'[d] = "publish"
                 PROVE  ReadIn(d, index[seq[d]], entries[seq[d]])'
      BY DEF SnapshotRead
    <2>1. d # c
      BY DEF TypeOK
    <2>2. /\ pc[d] = "publish" /\ seq'[d] = seq[d] /\ index' = index
          /\ entries' = entries /\ op'[d] = op[d] /\ group'[d] = group[d]
          /\ item'[d] = item[d] /\ from'[d] = from[d] /\ list'[d] = list[d]
      BY <2>1 DEF TypeOK
    <2>3. ReadIn(d, index[seq[d]], entries[seq[d]])
      BY <2>2 DEF SnapshotRead
    <2> QED BY <2>2, <2>3 DEF ReadIn, Sources, Holders
  <1>4. SectionMatchesGroup'
    BY DEF SectionMatchesGroup
  <1>5. FreshLink'
    <2> SUFFICES ASSUME NEW d \in Calls, op'[d] = "addLink",
                        pc'[d] \notin {"idle", "wait"}
                 PROVE  /\ \A i \in 0..end : Holders(index[i], item'[d]) = {}
                        /\ \A e \in Calls \ {d} : item'[e] # item'[d]
      BY DEF FreshLink, Holders
    <2>1. d # c
      BY DEF TypeOK
    <2>2. /\ op[d] = "addLink" /\ pc[d] \notin {"idle", "wait"}
          /\ item'[d] = item[d] /\ item[d] \in Links
      BY <2>1 DEF TypeOK
    <2>3. item[d] # None
      BY <2>2, RoomGroupsAssumption DEF Items
    <2> QED BY <2>2, <2>3 DEF TypeOK, FreshLink
  <1> QED BY <1>1, <1>2, <1>3, <1>4, <1>5

\* A call goes on: only its place, its retries and what it read change.
LEMMA GotoStep ==
    ASSUME IInv, NEW c \in Calls, NEW at \in PCs \ {"idle", "wait"}, Goto(c, at),
           pc[c] \notin {"idle", "wait"},
           NEW n \in {None, "snapshot", "recheck", "relink", "noop"},
           next' = [next EXCEPT ![c] = n],
           NEW q \in 0..end, seq' = [seq EXCEPT ![c] = q],
           NEW f \in Groups \cup {None}, from' = [from EXCEPT ![c] = f],
           NEW t \in 0..MaxTries, tries' = [tries EXCEPT ![c] = t],
           at = "await" => n \in {"snapshot", "recheck", "relink", "noop"},
           at # "await" => t < MaxTries,
           at \in {"append", "put"} => op[c] \in Plain,
           at \notin {"append", "put"} => op[c] \in Bound,
           op[c] \notin Moves => f = None,
           at = "publish" => ReadIn(c, index[seq[c]], entries[seq[c]])'
    PROVE  IInv'
  <1> USE DEF IInv, Goto, stream, locals, PCs
  <1>1. TypeOK'
    BY DEF TypeOK
  <1>2. Control'
    BY DEF TypeOK, Control
  <1>3. SnapshotRead'
    <2> SUFFICES ASSUME NEW d \in Calls, pc'[d] = "publish", d # c
                 PROVE  ReadIn(d, index[seq[d]], entries[seq[d]])'
      BY DEF SnapshotRead, TypeOK
    <2>2. /\ pc[d] = "publish" /\ seq'[d] = seq[d] /\ index' = index
          /\ entries' = entries /\ op'[d] = op[d] /\ group'[d] = group[d]
          /\ item'[d] = item[d] /\ from'[d] = from[d] /\ list'[d] = list[d]
      BY DEF TypeOK
    <2>3. ReadIn(d, index[seq[d]], entries[seq[d]])
      BY <2>2 DEF SnapshotRead
    <2> QED BY <2>2, <2>3 DEF ReadIn, Sources, Holders
  <1>4. SectionMatchesGroup'
    BY DEF SectionMatchesGroup
  <1>5. FreshLink'
    BY DEF TypeOK, FreshLink, Holders
  <1> QED BY <1>1, <1>2, <1>3, <1>4, <1>5

\* What a call that stores has read is the layout the stream is in.
LEMMA StoreRead ==
    ASSUME IInv, NEW c \in Calls,
           (pc[c] = "publish" /\ seq[c] = end) \/ pc[c] = "put"
    PROVE  /\ pc[c] # "idle" /\ group[c] \in Groups
           /\ op[c] \in Moves \/ from[c] = None
           /\ index[end] \in Layout /\ entries[end] = index[end]
           /\ op[c] \in Bound => ReadIn(c, index[end], index[end])
           /\ op[c] \in Bound => pc[c] = "publish"
  <1>1. Bound \cap Plain = {}
    BY DEF Bound, Plain
  <1>2. end \in 0..end /\ end \in 0..MaxLog
    BY RoomGroupsAssumption DEF IInv, TypeOK
  <1> QED
    BY <1>1, <1>2 DEF IInv, TypeOK, Control, SnapshotRead, SectionMatchesGroup

\* A call stores its event, or the batch of its move.
LEMMA StoreStep ==
    ASSUME IInv, NEW c \in Calls, Store(c),
           (pc[c] = "publish" /\ seq[c] = end) \/ pc[c] = "put",
           pc' = [pc EXCEPT ![c] = "wait"], seq' = [seq EXCEPT ![c] = end'],
           UNCHANGED <<gone, applied, next, locals, from, tries>>
    PROVE  IInv'
  <1> DEFINE h == index[end]
  <1>1. /\ pc[c] # "idle" /\ group[c] \in Groups
        /\ op[c] \in Moves \/ from[c] = None
        /\ h \in Layout /\ entries[end] = h
        /\ op[c] \in Bound => ReadIn(c, h, h)
    BY StoreRead
  <1>2. /\ end' \in 0..MaxLog /\ end < end' /\ end + 1 \in 0..MaxLog
        /\ tail' \in [Groups -> [Plain -> 0..end']]
        /\ index' \in [0..MaxLog -> Layout]
        /\ entries' \in [0..MaxLog -> Layout]
        /\ \A i \in 0..end : index'[i] = index[i] /\ entries'[i] = entries[i]
        /\ index'[end + 1] = ApplyIndex(c, h)
        /\ entries'[end + 1] = ApplyEntries(c, h)
        /\ op[c] \in Moves /\ from[c] # None =>
              /\ end' = end + 2
              /\ index'[end + 2] = Added(index'[end + 1], group[c], item[c])
              /\ entries'[end + 2] = Added(entries'[end + 1], group[c], item[c])
        /\ ~(op[c] \in Moves /\ from[c] # None) => end' = end + 1
    BY <1>1, StoreShape DEF IInv
  <1>3. /\ op[c] = "arrange" => h[group[c]] = list[c]
        /\ op[c] = "delete" => h[group[c]] = {}
    BY <1>1 DEF ReadIn, Bound
  <1>4. ApplyEntries(c, h) = ApplyIndex(c, h)
    BY <1>1, <1>3, SameEntries DEF IInv
  <1>5. /\ end \in Nat /\ end' \in Nat /\ 0..end \subseteq 0..end'
        /\ \A i \in 0..end' : i \in 0..end \/ i = end + 1
                \/ (i = end + 2 /\ op[c] \in Moves /\ from[c] # None)
    BY <1>2, RoomGroupsAssumption DEF IInv, TypeOK
  <1>t. TypeOK'
    <2>1. applied' \in [Servers -> 0..end'] /\ seq' \in [Calls -> 0..end']
      <3>1. applied' = applied /\ applied \in [Servers -> 0..end]
            /\ seq \in [Calls -> 0..end] /\ end' \in 0..end'
        BY <1>5 DEF IInv, TypeOK
      <3>2. \A s \in Servers : applied[s] \in 0..end'
        BY <1>5, <3>1
      <3>3. seq \in [Calls -> 0..end']
        BY <1>5, <3>1
      <3> QED BY <3>1, <3>2, <3>3
    <2> QED BY <1>1, <1>2, <2>1 DEF IInv, TypeOK, locals
  <1>6. Control'
    BY <1>1 DEF IInv, TypeOK, Control, locals
  <1>7. SnapshotRead'
    <2> SUFFICES ASSUME NEW d \in Calls, pc'[d] = "publish"
                 PROVE  ReadIn(d, index[seq[d]], entries[seq[d]])'
      BY DEF SnapshotRead
    <2>1. d # c
      BY DEF IInv, TypeOK
    <2>2. /\ pc[d] = "publish" /\ seq'[d] = seq[d] /\ seq[d] \in 0..end
          /\ op'[d] = op[d] /\ group'[d] = group[d]
          /\ item'[d] = item[d] /\ from'[d] = from[d] /\ list'[d] = list[d]
      BY <2>1 DEF IInv, TypeOK, locals
    <2>3. ReadIn(d, index[seq[d]], entries[seq[d]])
      BY <2>2 DEF IInv, SnapshotRead
    <2>4. index'[seq'[d]] = index[seq[d]] /\ entries'[seq'[d]] = entries[seq[d]]
      BY <1>2, <2>2
    <2> QED BY <2>2, <2>3, <2>4 DEF ReadIn, Sources, Holders
  <1>8. SectionMatchesGroup'
    <2> SUFFICES ASSUME NEW i \in 0..end' PROVE entries'[i] = index'[i]
      BY DEF SectionMatchesGroup
    <2>1. CASE i \in 0..end
      BY <2>1, <1>2 DEF IInv, SectionMatchesGroup
    <2>2. CASE i = end + 1
      BY <2>2, <1>2, <1>4
    <2>3. CASE i = end + 2 /\ op[c] \in Moves /\ from[c] # None
      BY <2>3, <1>2, <1>4
    <2> QED BY <1>5, <2>1, <2>2, <2>3
  <1>9. FreshLink'
    <2> SUFFICES ASSUME NEW d \in Calls, op'[d] = "addLink",
                        pc'[d] \notin {"idle", "wait"}
                 PROVE  /\ \A i \in 0..end' : Holders(index'[i], item'[d]) = {}
                        /\ \A e \in Calls \ {d} : item'[e] # item'[d]
      BY DEF FreshLink, Holders
    <2>1. /\ d # c /\ op[d] = "addLink" /\ pc[d] \notin {"idle", "wait"}
          /\ item' = item /\ item[d] \in Links
      BY DEF IInv, TypeOK, locals
    <2> DEFINE x == item[d]
    <2>2. /\ \A i \in 0..end : Holders(index[i], x) = {}
          /\ \A e \in Calls \ {d} : item[e] # x
      BY <2>1 DEF IInv, FreshLink
    <2>3. x \in Items /\ x \notin Rooms /\ x # item[c]
      BY <2>1, <2>2, RoomGroupsAssumption DEF Items
    <2>4. Holders(h, x) = {}
      BY <2>2, <1>5
    <2>5. Holders(index'[end + 1], x) = {}
      BY <2>3, <2>4, <1>1, <1>2, <1>3, OtherItems DEF IInv
    <2>6. op[c] \in Moves /\ from[c] # None => Holders(index'[end + 2], x) = {}
      <3>1. index'[end + 1] \in Layout
        BY <1>2
      <3>2. op[c] \in Moves => {item[c]} \in SUBSET Items
        BY <1>1 DEF IInv, TypeOK, Moves, Items
      <3>3. op[c] \in Moves => Holders(Added(index'[end + 1], group[c], item[c]), x)
                                 = Holders(index'[end + 1], x)
        BY <3>1, <3>2, <2>3, <1>1, ChangedHolders DEF Added
      <3> QED BY <3>3, <2>5, <1>2
    <2> HIDE DEF x
    <2>7. \A i \in 0..end' : Holders(index'[i], x) = {}
      <3> TAKE i \in 0..end'
      <3>1. CASE i \in 0..end
        BY <3>1, <1>2, <2>2
      <3>2. CASE i = end + 1
        BY <3>2, <2>5
      <3>3. CASE i = end + 2 /\ op[c] \in Moves /\ from[c] # None
        BY <3>3, <2>6
      <3> QED BY <1>5, <3>1, <3>2, <3>3
    <2> QED BY <2>1, <2>2, <2>7 DEF x
  <1> QED BY <1>t, <1>6, <1>7, <1>8, <1>9 DEF IInv

-----------------------------------------------------------------------------
(* Every step of the specification is of one of these kinds.               *)

\* The layout a process has applied is a layout of the stream.
LEMMA AppliedPrefix ==
    ASSUME TypeOK, NEW s \in Servers
    PROVE  /\ applied[s] \in 0..end /\ Index(s) = index[applied[s]]
           /\ Index(s) \in Layout /\ Entries(s) \in Layout
  BY RoomGroupsAssumption DEF TypeOK, Index, Entries

LEMMA StartStep ==
    ASSUME IInv, NEW c \in Calls, Start(c)
    PROVE  IInv'
  <1>0. gone \subseteq Rooms /\ None \notin Links /\ Rooms \cap Links = {}
    BY RoomGroupsAssumption DEF IInv, TypeOK, Items
  <1> USE DEF Moves
  <1>1. ASSUME NEW s \in Servers, NEW g \in Groups,
               \/ CreateRoomGroup(c, s, g) \/ UpdateRoomGroup(c, s, g)
               \/ DeleteRoomGroup(c, s, g)
        PROVE  IInv'
    <2>1. \E o \in {"create", "update", "delete"} :
              Begin(c, o, s, g, None, None, {}) /\ o \in Ops /\ UNCHANGED gone
      BY <1>1 DEF CreateRoomGroup, UpdateRoomGroup, DeleteRoomGroup, Begin
    <2> QED BY <2>1, <1>0, BeginStep
  <1>2. ASSUME NEW s \in Servers, NEW g \in Groups,
               ReorderSidebarItems(c, s, g) \/ ReorderRoomsInGroup(c, s, g)
        PROVE  IInv'
    <2>1. \E o \in {"reorder", "arrange"}, l \in SUBSET Items :
              Begin(c, o, s, g, None, None, l) /\ o \in Ops /\ UNCHANGED gone
      <3>1. /\ Index(s)[g] # None => Index(s)[g] \cap Rooms \in SUBSET Items
            /\ Entries(s)[g] # None => Entries(s)[g] \in SUBSET Items
        BY AppliedPrefix DEF IInv, Layout
      <3> QED BY <1>2, <3>1 DEF ReorderSidebarItems, ReorderRoomsInGroup, Begin
    <2> QED BY <2>1, <1>0, BeginStep
  <1>3. ASSUME NEW s \in Servers, NEW g \in Groups, NEW r \in Rooms,
               MoveRoomToGroup(c, s, r, g) \/ AdminMoveRoomToGroup(c, s, r, g)
        PROVE  IInv'
    <2>1. \E o \in {"place", "moveRoom"}, f \in Groups \cup {None} :
              Begin(c, o, s, g, r, f, {}) /\ o \in Ops /\ UNCHANGED gone
      BY <1>3 DEF MoveRoomToGroup, AdminMoveRoomToGroup, Begin, Sources, Holders
    <2>2. r \in Items \cup {None} /\ r \notin Links
      BY <1>0 DEF Items
    <2> QED BY <2>1, <2>2, <1>0, BeginStep
  <1>4. ASSUME NEW s \in Servers, NEW g \in Groups, NEW l \in Links,
               \/ MoveSidebarLinkToGroup(c, s, l, g)
               \/ DeleteSidebarLink(c, s, l) \/ UpdateSidebarLink(c, s, l)
        PROVE  IInv'
    <2>1. \E o \in {"moveLink", "dropLink", "editLink"}, k \in Groups,
             f \in Groups \cup {None} :
              /\ Begin(c, o, s, k, l, f, {}) /\ o \in Ops /\ UNCHANGED gone
              /\ o # "moveLink" => f = None
              /\ Holders(Index(s), l) # {}
      BY <1>4 DEF MoveSidebarLinkToGroup, DeleteSidebarLink, UpdateSidebarLink,
                  Begin, Holders
    <2>2. l \in Items \cup {None}
      BY DEF Items
    <2>3. \E i \in 0..end : Holders(index[i], l) # {}
      BY <2>1, AppliedPrefix DEF IInv
    <2> QED BY <2>1, <2>2, <2>3, <1>0, BeginStep
  <1>5. ASSUME NEW s \in Servers, NEW g \in Groups, NEW l \in Links,
               CreateSidebarLink(c, s, l, g)
        PROVE  IInv'
    <2>1. /\ Begin(c, "addLink", s, g, l, None, {}) /\ "addLink" \in Ops
          /\ UNCHANGED gone
          /\ \A i \in 0..end : Holders(index[i], l) = {}
          /\ \A d \in Calls : item[d] # l
      BY <1>5 DEF CreateSidebarLink, Begin
    <2>2. l \in Items \cup {None}
      BY DEF Items
    <2> QED BY <2>1, <2>2, <1>0, BeginStep
  <1>6. ASSUME NEW s \in Servers, NEW r \in Rooms, DeleteRoom(c, s, r)
        PROVE  IInv'
    <2>1. /\ gone' = gone \cup {r} /\ "dropRoom" \in Ops
          /\ gone' \subseteq Rooms /\ gone \subseteq gone' /\ r \in gone'
      BY <1>0, <1>6 DEF DeleteRoom
    <2>2. CASE UNCHANGED <<stream, applied, pc, next, locals, from, seq, tries>>
      <3>1. UNCHANGED <<end, tail, index, entries, applied, pc, next, op, server,
                        group, item, list, from, seq, tries>>
        BY <2>2 DEF stream, locals
      <3>2. TypeOK' /\ Control'
        BY <2>1, <3>1 DEF IInv, TypeOK, Control
      <3>3. SectionMatchesGroup' /\ FreshLink'
        BY <3>1 DEF IInv, SectionMatchesGroup, FreshLink, Holders
      <3>4. SnapshotRead'
        BY <3>1 DEF IInv, SnapshotRead, ReadIn, Sources, Holders
      <3> QED BY <3>2, <3>3, <3>4 DEF IInv
    <2>3. CASE \E g \in Groups : Begin(c, "dropRoom", s, g, r, None, {})
      <3>1. r \in Items \cup {None} /\ r \notin Links
        BY <1>0 DEF Items
      <3> QED BY <2>1, <2>3, <3>1, BeginStep
    <2> QED BY <1>6, <2>2, <2>3 DEF DeleteRoom, Holders
  <1>7. ASSUME NEW s \in Servers, NEW l \in Links,
               DeleteSidebarLink(c, s, l) \/ UpdateSidebarLink(c, s, l)
        PROVE  IInv'
    <2>1. Groups # {}
      BY <1>7 DEF DeleteSidebarLink, UpdateSidebarLink, Holders
    <2> QED BY <1>4, <1>7, <2>1
  <1> QED
    BY <1>1, <1>2, <1>3, <1>4, <1>5, <1>6, <1>7 DEF Start

LEMMA AwaitStep ==
    ASSUME IInv, NEW c \in Calls, NEW at \in {"snapshot", "recheck", "relink", "noop"},
           pc[c] \in {"snapshot", "recheck", "relink", "noop", "publish"},
           Await(c, at), UNCHANGED from,
           NEW t \in 0..MaxTries, tries' = [tries EXCEPT ![c] = t]
    PROVE  IInv'
  <1>1. /\ Goto(c, "await") /\ next' = [next EXCEPT ![c] = at]
        /\ seq' = [seq EXCEPT ![c] = end] /\ end \in 0..end
        /\ from' = [from EXCEPT ![c] = from[c]] /\ from[c] \in Groups \cup {None}
        /\ op[c] \in Bound /\ (op[c] \notin Moves => from[c] = None)
    BY RoomGroupsAssumption DEF IInv, TypeOK, Control, Await
  <1>2. /\ "await" \in PCs \ {"idle", "wait"} /\ pc[c] \notin {"idle", "wait"}
        /\ at \in {None, "snapshot", "recheck", "relink", "noop"}
    BY DEF PCs
  <1> QED BY <1>1, <1>2, GotoStep

LEMMA PrepareStep ==
    ASSUME IInv, NEW c \in Calls, pc[c] \in {"snapshot", "recheck", "relink"},
           NEW f \in Groups \cup {None}, Prepare(c, f),
           op[c] \in Moves =>
               f \in Sources(Index(server[c]), item[c]) /\ f # group[c],
           op[c] \notin Moves => f = None,
           op[c] \in {"place", "moveRoom"} => Index(server[c])[group[c]] # None,
           op[c] = "delete" => Index(server[c])[group[c]] = {},
           op[c] = "arrange" => list[c] = Entries(server[c])[group[c]]
    PROVE  IInv'
  <1> DEFINE q == applied[server[c]]
  <1>1. server[c] \in Servers
    BY DEF IInv, TypeOK
  <1>2. q \in 0..end /\ Index(server[c]) = index[q] /\ Entries(server[c]) = entries[q]
    BY <1>1, AppliedPrefix DEF IInv, Entries
  <1>3. /\ Goto(c, "publish") /\ seq' = [seq EXCEPT ![c] = q]
        /\ from' = [from EXCEPT ![c] = f]
        /\ next' = [next EXCEPT ![c] = next[c]]
        /\ next[c] \in {None, "snapshot", "recheck", "relink", "noop"}
        /\ tries' = [tries EXCEPT ![c] = tries[c]] /\ tries[c] \in 0..MaxTries
        /\ tries[c] < MaxTries /\ op[c] \in Bound
    BY DEF IInv, TypeOK, Control, Prepare
  <1>4. /\ seq'[c] = q /\ from'[c] = f
        /\ index' = index /\ entries' = entries /\ op' = op
        /\ group' = group /\ item' = item /\ list' = list
    BY <1>3 DEF IInv, TypeOK, Goto, stream, locals
  <1>5. ReadIn(c, index[seq[c]], entries[seq[c]])'
    BY <1>2, <1>4 DEF ReadIn, Sources, Holders
  <1>6. "publish" \in PCs \ {"idle", "wait"} /\ pc[c] \notin {"idle", "wait"}
    BY DEF PCs
  <1>7. /\ Goto(c, "publish") /\ next' = [next EXCEPT ![c] = next[c]]
        /\ op[c] \in Bound /\ q \in 0..end
    BY <1>2, <1>3
  <1> HIDE DEF q
  <1> QED BY <1>3, <1>5, <1>6, <1>7, GotoStep

\* A step of a call that keeps what it has read: at most its retries change.
LEMMA MoveOnStep ==
    ASSUME IInv, NEW c \in Calls, pc[c] \notin {"idle", "wait"},
           NEW at \in PCs \ {"idle", "wait", "await", "publish"}, Goto(c, at),
           NEW n \in {None, "snapshot", "recheck", "relink", "noop"},
           next' = [next EXCEPT ![c] = n],
           NEW q \in 0..end, seq' = [seq EXCEPT ![c] = q],
           UNCHANGED from,
           NEW t \in 0..MaxTries, tries' = [tries EXCEPT ![c] = t], t < MaxTries,
           at \in {"append", "put"} => op[c] \in Plain,
           at \notin {"append", "put"} => op[c] \in Bound
    PROVE  IInv'
  <1>1. /\ from' = [from EXCEPT ![c] = from[c]] /\ from[c] \in Groups \cup {None}
        /\ op[c] \notin Moves => from[c] = None
        /\ at \in PCs \ {"idle", "wait"} /\ at # "await" /\ at # "publish"
    BY DEF IInv, TypeOK, Control
  <1> QED BY <1>1, GotoStep

LEMMA CallStep ==
    ASSUME IInv, NEW c \in Calls,
           \/ Resume(c) \/ TargetMissing(c) \/ GroupSnapshot(c)
           \/ RoomMoveSnapshot(c) \/ RoomMoveNoop(c) \/ LinkMoveSnapshot(c)
           \/ LastSubjectSeq(c)
    PROVE  IInv'
  <1>0. /\ tries' = tries => tries' = [tries EXCEPT ![c] = tries[c]]
        /\ next' = next => next' = [next EXCEPT ![c] = next[c]]
        /\ seq' = seq => seq' = [seq EXCEPT ![c] = seq[c]]
        /\ tries[c] \in 0..MaxTries /\ seq[c] \in 0..end
        /\ next[c] \in {None, "snapshot", "recheck", "relink", "noop"}
        /\ 0 \in 0..end
        /\ server[c] \in Servers \/ pc[c] = "idle"
    BY RoomGroupsAssumption DEF IInv, TypeOK
  <1>1. CASE Resume(c)
    <2>1. CASE End(c)
      BY <2>1, EndStep
    <2>2. CASE /\ tries[c] < MaxTries /\ Goto(c, next[c])
               /\ next' = [next EXCEPT ![c] = None]
               /\ seq' = [seq EXCEPT ![c] = 0] /\ UNCHANGED <<from, tries>>
      <3>1. next[c] \in {"snapshot", "recheck", "relink", "noop"} /\ op[c] \in Bound
            /\ pc[c] \notin {"idle", "wait"}
        BY <1>0, <1>1 DEF IInv, Control, Resume
      <3>2. /\ next[c] \in PCs \ {"idle", "wait", "await", "publish"}
            /\ next[c] \notin {"append", "put"}
        BY <3>1 DEF PCs
      <3> QED BY <1>0, <2>2, <3>1, <3>2, MoveOnStep
    <2> QED BY <1>1, <2>1, <2>2 DEF Resume
  <1>2. CASE TargetMissing(c)
    BY <1>0, <1>2, EndStep, AwaitStep DEF TargetMissing
  <1>3. CASE GroupSnapshot(c)
    <2>1. CASE End(c)
      BY <2>1, EndStep
    <2>2. CASE ~End(c)
      <3>1. /\ Prepare(c, None) /\ pc[c] \in {"snapshot", "recheck", "relink"}
            /\ op[c] \notin Moves /\ op[c] \notin {"place", "moveRoom"}
            /\ op[c] = "delete" => Index(server[c])[group[c]] = {}
            /\ op[c] = "arrange" => list[c] = Entries(server[c])[group[c]]
        BY <1>3, <2>2 DEF GroupSnapshot, Moves
      <3> QED BY <3>1, PrepareStep
    <2> QED BY <2>1, <2>2
  <1>4. CASE RoomMoveSnapshot(c)
    <2>1. PICK f \in Sources(Index(server[c]), item[c]) :
              \/ End(c)
              \/ Await(c, "noop") /\ UNCHANGED <<from, tries>>
              \/ f # group[c] /\ Prepare(c, f)
      BY <1>4 DEF RoomMoveSnapshot
    <2>2. /\ pc[c] \in {"snapshot", "recheck"} /\ op[c] \in {"place", "moveRoom"}
          /\ Index(server[c])[group[c]] # None
      BY <1>4 DEF RoomMoveSnapshot
    <2>3. f \in Groups \cup {None}
      BY DEF Sources, Holders
    <2>4. CASE Await(c, "noop") /\ UNCHANGED <<from, tries>>
      BY <1>0, <2>2, <2>4, AwaitStep
    <2>5. CASE f # group[c] /\ Prepare(c, f)
      BY <2>2, <2>3, <2>5, PrepareStep DEF Moves
    <2> QED BY <2>1, <2>4, <2>5, EndStep
  <1>5. CASE RoomMoveNoop(c)
    <2>1. CASE End(c)
      BY <2>1, EndStep
    <2>2. CASE ~End(c)
      <3>1. /\ pc[c] = "noop" /\ Goto(c, "snapshot") /\ tries[c] + 1 < MaxTries
            /\ tries' = [tries EXCEPT ![c] = tries[c] + 1]
            /\ UNCHANGED <<next, from, seq>>
        BY <1>5, <2>2 DEF RoomMoveNoop
      <3>2. tries[c] + 1 \in 0..MaxTries
        BY <1>0, <3>1, RoomGroupsAssumption
      <3>3. op[c] \in Bound
        BY <3>1 DEF IInv, Control
      <3>4. "snapshot" \in PCs \ {"idle", "wait", "await", "publish"}
        BY DEF PCs
      <3> QED BY <1>0, <3>1, <3>2, <3>3, <3>4, MoveOnStep
    <2> QED BY <2>1, <2>2
  <1>6. CASE LinkMoveSnapshot(c)
    <2>1. PICK f \in Sources(Index(server[c]), item[c]) :
              \/ End(c)
              \/ Await(c, "relink") /\ UNCHANGED <<from, tries>>
              \/ f # group[c] /\ Prepare(c, f)
      BY <1>6 DEF LinkMoveSnapshot
    <2>2. pc[c] \in {"snapshot", "recheck", "relink"} /\ op[c] = "moveLink"
      BY <1>6 DEF LinkMoveSnapshot
    <2>3. f \in Groups \cup {None}
      BY DEF Sources, Holders
    <2>4. CASE Await(c, "relink") /\ UNCHANGED <<from, tries>>
      BY <1>0, <2>2, <2>4, AwaitStep
    <2>5. CASE f # group[c] /\ Prepare(c, f)
      BY <2>2, <2>3, <2>5, PrepareStep DEF Moves
    <2> QED BY <2>1, <2>4, <2>5, EndStep
  <1>7. CASE LastSubjectSeq(c)
    <2>1. /\ pc[c] = "append" /\ Goto(c, "put")
          /\ seq' = [seq EXCEPT ![c] = tail[group[c]][op[c]]]
          /\ UNCHANGED <<next, from, tries>>
      BY <1>7 DEF LastSubjectSeq
    <2>2. op[c] \in Plain /\ tries[c] < MaxTries /\ group[c] \in Groups
      BY <2>1 DEF IInv, Control, TypeOK
    <2>3. tail[group[c]][op[c]] \in 0..end
      BY <2>2 DEF IInv, TypeOK
    <2>4. "put" \in PCs \ {"idle", "wait", "await", "publish"}
      BY DEF PCs
    <2> QED BY <1>0, <2>1, <2>2, <2>3, <2>4, MoveOnStep
  <1> QED BY <1>1, <1>2, <1>3, <1>4, <1>5, <1>6, <1>7

LEMMA PublishStep ==
    ASSUME IInv, NEW c \in Calls, AppendAtFilter(c) \/ PublishAt(c)
    PROVE  IInv'
  <1>1. CASE /\ (pc[c] = "publish" /\ seq[c] = end) \/ pc[c] = "put"
             /\ Store(c) /\ pc' = [pc EXCEPT ![c] = "wait"]
             /\ seq' = [seq EXCEPT ![c] = end']
             /\ UNCHANGED <<gone, applied, next, locals, from, tries>>
    BY <1>1, StoreStep
  <1>2. CASE /\ pc[c] = "publish" /\ Await(c, "snapshot")
             /\ tries' = [tries EXCEPT ![c] = @ + 1] /\ UNCHANGED from
    <2>1. tries[c] < MaxTries /\ tries[c] \in 0..MaxTries
      BY <1>2 DEF IInv, TypeOK, Control
    <2>2. tries[c] + 1 \in 0..MaxTries
      BY <2>1, RoomGroupsAssumption
    <2> QED BY <1>2, <2>2, AwaitStep
  <1>3. CASE /\ pc[c] = "put" /\ Goto(c, "append") /\ tries[c] + 1 < MaxTries
             /\ tries' = [tries EXCEPT ![c] = @ + 1]
             /\ UNCHANGED <<next, from, seq>>
    <2>1. /\ tries[c] + 1 \in 0..MaxTries /\ op[c] \in Plain
          /\ next' = [next EXCEPT ![c] = next[c]]
          /\ next[c] \in {None, "snapshot", "recheck", "relink", "noop"}
          /\ seq' = [seq EXCEPT ![c] = seq[c]] /\ seq[c] \in 0..end
      BY <1>3, RoomGroupsAssumption DEF IInv, TypeOK, Control
    <2>2. "append" \in PCs \ {"idle", "wait", "await", "publish"}
      BY DEF PCs
    <2> QED BY <1>3, <2>1, <2>2, MoveOnStep
  <1>4. CASE End(c)
    BY <1>4, EndStep
  <1> QED BY <1>1, <1>2, <1>3, <1>4 DEF AppendAtFilter, PublishAt

LEMMA NextStep ==
    ASSUME IInv, [Next]_vars
    PROVE  IInv'
  <1>1. CASE UNCHANGED vars
    <2>1. UNCHANGED <<end, tail, index, entries, gone, applied, pc, next, op,
                      server, group, item, list, from, seq, tries>>
      BY <1>1 DEF vars, stream, locals
    <2>2. TypeOK' /\ Control' /\ SectionMatchesGroup'
      BY <2>1 DEF IInv, TypeOK, Control, SectionMatchesGroup
    <2>3. SnapshotRead' /\ FreshLink'
      BY <2>1 DEF IInv, SnapshotRead, ReadIn, Sources, Holders, FreshLink
    <2> QED BY <2>2, <2>3 DEF IInv
  <1>2. CASE \E s \in Servers : Project(s)
    BY <1>2, ProjectStep
  <1>3. CASE \E c \in Calls : Start(c)
    BY <1>3, StartStep
  <1>4. CASE \E c \in Calls : AppendAtFilter(c) \/ PublishAt(c)
    BY <1>4, PublishStep
  <1>5. CASE \E c \in Calls : Return(c) \/ GiveUp(c)
    BY <1>5, EndStep DEF Return, GiveUp
  <1> QED BY <1>1, <1>2, <1>3, <1>4, <1>5, CallStep DEF Next

LEMMA InitIInv ==
    ASSUME Init
    PROVE  IInv
  <1>1. PICK h \in Layout : /\ index = [i \in 0..MaxLog |-> h]
                             /\ entries = [i \in 0..MaxLog |-> h]
    BY DEF Init, Layouts
  <1>2. TypeOK
    BY <1>1, RoomGroupsAssumption DEF Init, TypeOK
  <1>3. Control
    BY RoomGroupsAssumption DEF Init, Control
  <1>4. SectionMatchesGroup
    BY <1>1 DEF SectionMatchesGroup
  <1>5. SnapshotRead /\ FreshLink
    BY DEF Init, SnapshotRead, FreshLink
  <1> QED BY <1>2, <1>3, <1>4, <1>5 DEF IInv

-----------------------------------------------------------------------------
\* Type correctness of the room-group model: the projections hold layouts, no
\* call runs out of tries without returning (maxMoveRoomToGroupRetries,
\* maxAppendRetries).
THEOREM TypeCorrect == Spec => []TypeOK
  <1>1. Init => IInv
    BY InitIInv
  <1>2. IInv /\ [Next]_vars => IInv'
    BY NextStep
  <1>3. IInv => TypeOK
    BY DEF IInv
  <1> QED BY <1>1, <1>2, <1>3, PTL DEF Spec

\* The section of a group always lists what the group holds, whatever
\* operations the clients use: a reorder only takes effect on the very section
\* the client was shown (ReorderSidebarItemsInGroup, reorderRoomEntries).
THEOREM SectionsInStep == Spec => []SectionMatchesGroup
  <1>1. Init => IInv
    BY InitIInv
  <1>2. IInv /\ [Next]_vars => IInv'
    BY NextStep
  <1>3. IInv => SectionMatchesGroup
    BY DEF IInv
  <1> QED BY <1>1, <1>2, <1>3, PTL DEF Spec

-----------------------------------------------------------------------------
(* One group per item.  ReorderRoomsInGroup stores whatever rooms the group *)
(* held when it was read, so a room moved meanwhile would be in two groups; *)
(* nothing but its test calls it, and the theorems below leave it out.      *)

LEMMA SingleHolderLayouts ==
    ASSUME TypeOK
    PROVE  ItemInAtMostOneGroup <=> \A i \in 0..end : SingleHolder(index[i])
  <1>1. \A i \in 0..end : index[i] \in Layout
    BY RoomGroupsAssumption DEF TypeOK
  <1>2. ASSUME NEW h \in Layout
        PROVE  SingleHolder(h) <=>
                 \A f, g \in Groups : f # g /\ h[f] # None /\ h[g] # None
                     => h[f] \cap h[g] = {}
    BY <1>2 DEF SingleHolder, Holders, Layout
  <1> QED BY <1>1, <1>2 DEF ItemInAtMostOneGroup

\* The layouts a stored event adds.
LEMMA StoreSingleHolder ==
    ASSUME IInv, NEW c \in Calls, Store(c), "reorder" \notin Ops,
           (pc[c] = "publish" /\ seq[c] = end) \/ pc[c] = "put",
           SingleHolder(index[end])
    PROVE  /\ SingleHolder(index'[end + 1])
           /\ op[c] \in Moves /\ from[c] # None => SingleHolder(index'[end + 2])
  <1> DEFINE h == index[end]
             h1 == index'[end + 1]
  <1>1. /\ TypeOK /\ pc[c] # "idle" /\ group[c] \in Groups
        /\ op[c] \in Moves \/ from[c] = None
        /\ h \in Layout
        /\ op[c] \in Bound => ReadIn(c, h, h) /\ pc[c] = "publish"
    BY StoreRead DEF IInv
  <1>2. /\ h1 = ApplyIndex(c, h) /\ h1 \in Layout
        /\ op[c] \in Moves /\ from[c] # None
              => index'[end + 2] = Added(h1, group[c], item[c])
    BY <1>1, StoreShape DEF IInv
  <1>3. /\ op[c] = "arrange" => h[group[c]] = list[c]
        /\ op[c] = "delete" => h[group[c]] = {}
        /\ op[c] \in Moves => from[c] \in Sources(h, item[c]) /\ from[c] # group[c]
        /\ op[c] # "reorder"
    BY <1>1 DEF IInv, TypeOK, ReadIn, Bound, Moves
  <1>4. op[c] \in Moves \cup {"addLink", "dropLink", "dropRoom"} => item[c] \in Items
    BY <1>1 DEF TypeOK, Moves, Items
  <1>5. /\ op[c] \in Moves /\ from[c] # None => from[c] \in Holders(h, item[c])
        /\ op[c] \in Moves \cup {"addLink"} /\ from[c] = None
              => Holders(h, item[c]) = {}
    <2>1. CASE op[c] \in Moves
      BY <1>3, <2>1, RoomGroupsAssumption DEF Sources, Holders, Moves
    <2>2. CASE op[c] = "addLink"
      <3>1. pc[c] \notin {"idle", "wait"} /\ end \in 0..end
        BY RoomGroupsAssumption DEF IInv, TypeOK
      <3> QED BY <2>2, <3>1 DEF IInv, FreshLink, Moves
    <2> QED BY <2>1, <2>2
  <1> HIDE DEF h, h1
  <1>6. ASSUME NEW x \in Items PROVE \A f, g \in Holders(h1, x) : f = g
    <2>0. \A f, g \in Holders(h, x) : f = g
      BY DEF SingleHolder, h
    <2>1. CASE x # item[c] \/ op[c] \notin Moves \cup {"addLink", "dropLink", "dropRoom"}
      <3>1. Holders(h1, x) = Holders(h, x)
        BY <1>1, <1>2, <1>3, <2>1, OtherItems
      <3> QED BY <2>0, <3>1
    <2>2. CASE x = item[c] /\ op[c] \in {"dropLink", "dropRoom"}
      <3>1. Holders(h1, x) = Holders(h, x) \ {group[c]}
        BY <1>1, <1>2, <1>4, <2>2, OwnItem
      <3> QED BY <2>0, <3>1
    <2>3. CASE x = item[c] /\ op[c] \in Moves /\ from[c] # None
      <3>1. Holders(h1, x) = Holders(h, x) \ {from[c]}
        BY <1>1, <1>2, <1>4, <2>3, OwnItem
      <3> QED BY <2>0, <3>1
    <2>4. CASE x = item[c] /\ op[c] \in Moves \cup {"addLink"} /\ from[c] = None
      <3>1. h1 = Added(h, group[c], item[c])
        BY <1>1, <1>2, <1>4, <2>4, OwnItem
      <3>2. Holders(h1, x) \subseteq Holders(h, x) \cup {group[c]}
        BY <1>1, <1>4, <2>4, <3>1, OwnItem
      <3>3. Holders(h, x) = {}
        BY <1>5, <2>4
      <3> QED BY <3>2, <3>3
    <2> QED BY <1>1, <2>1, <2>2, <2>3, <2>4 DEF Moves
  <1>7. ASSUME op[c] \in Moves, from[c] # None, NEW x \in Items
        PROVE  \A f, g \in Holders(Added(h1, group[c], item[c]), x) : f = g
    <2>1. CASE x # item[c]
      <3>1. Holders(Added(h1, group[c], item[c]), x) = Holders(h1, x)
        BY <1>1, <1>2, <1>4, <1>7, <2>1, ChangedHolders DEF Added
      <3> QED BY <1>6, <3>1
    <2>2. CASE x = item[c]
      <3>1. Holders(h1, x) = Holders(h, x) \ {from[c]}
        BY <1>1, <1>2, <1>4, <1>7, <2>2, OwnItem
      <3>2. \A f \in Holders(h, x) : f = from[c]
        BY <1>5, <1>7, <2>2 DEF SingleHolder, h
      <3>3. Holders(Added(h1, group[c], item[c]), x) \subseteq Holders(h1, x) \cup {group[c]}
        BY <1>1, <1>2, <1>4, <1>7, <2>2, OwnItem
      <3> QED BY <3>1, <3>2, <3>3
    <2> QED BY <2>1, <2>2
  <1> QED BY <1>2, <1>6, <1>7 DEF SingleHolder, h1

\* A step that changes the layouts, or gives a call its result, stores the
\* event of one call.
LEMMA StreamSteps ==
    ASSUME IInv, [Next]_vars
    PROVE  \/ /\ UNCHANGED <<end, index>> /\ gone \subseteq gone'
              /\ \A c \in Calls : pc'[c] = "wait" => pc[c] = "wait"
           \/ \E c \in Calls :
                 /\ (pc[c] = "publish" /\ seq[c] = end) \/ pc[c] = "put"
                 /\ Store(c) /\ UNCHANGED gone /\ pc' = [pc EXCEPT ![c] = "wait"]
  <1> DEFINE Quiet == /\ UNCHANGED <<end, index>> /\ gone \subseteq gone'
                      /\ \A c \in Calls : pc'[c] = "wait" => pc[c] = "wait"
  <1>1. CASE UNCHANGED vars
    BY <1>1 DEF vars, stream
  <1>2. CASE \E s \in Servers : Project(s)
    BY <1>2 DEF Project, stream
  <1>3. ASSUME NEW c \in Calls, Start(c) PROVE Quiet
    <2>1. /\ UNCHANGED stream
          /\ gone' = gone \/ \E r \in Rooms : gone' = gone \cup {r}
          /\ pc' = pc \/ \E at \in {"snapshot", "append"} : pc' = [pc EXCEPT ![c] = at]
      BY <1>3 DEF Start, Begin, CreateRoomGroup, UpdateRoomGroup,
                  DeleteRoomGroup, ReorderSidebarItems, ReorderRoomsInGroup,
                  MoveRoomToGroup, AdminMoveRoomToGroup, MoveSidebarLinkToGroup,
                  CreateSidebarLink, DeleteSidebarLink, UpdateSidebarLink, DeleteRoom
    <2> QED BY <2>1 DEF IInv, TypeOK, stream
  <1>4. ASSUME NEW c \in Calls, NEW at \in PCs \ {"wait"}, Goto(c, at) PROVE Quiet
    BY <1>4 DEF IInv, TypeOK, Goto, stream
  <1>5. ASSUME NEW c \in Calls, End(c) PROVE Quiet
    BY <1>5 DEF IInv, TypeOK, End, stream
  <1>6. ASSUME NEW c \in Calls,
               \/ Resume(c) \/ TargetMissing(c) \/ GroupSnapshot(c)
               \/ RoomMoveSnapshot(c) \/ RoomMoveNoop(c) \/ LinkMoveSnapshot(c)
               \/ LastSubjectSeq(c) \/ Return(c) \/ GiveUp(c)
        PROVE  End(c) \/ \E at \in PCs \ {"wait"} : Goto(c, at)
    <2>0. {"snapshot", "recheck", "relink", "noop", "await", "publish", "put"}
              \subseteq PCs \ {"wait"}
      BY DEF PCs
    <2>1. CASE Resume(c)
      BY <2>0, <2>1 DEF Resume, IInv, Control
    <2>2. CASE TargetMissing(c) \/ GroupSnapshot(c)
      BY <2>0, <2>2 DEF TargetMissing, GroupSnapshot, Await, Prepare
    <2>3. CASE RoomMoveSnapshot(c) \/ RoomMoveNoop(c)
      BY <2>0, <2>3 DEF RoomMoveSnapshot, RoomMoveNoop, Await, Prepare
    <2>4. CASE LinkMoveSnapshot(c)
      BY <2>0, <2>4 DEF LinkMoveSnapshot, Await, Prepare
    <2>5. CASE LastSubjectSeq(c) \/ Return(c) \/ GiveUp(c)
      BY <2>0, <2>5 DEF LastSubjectSeq, Return, GiveUp
    <2> QED BY <1>6, <2>1, <2>2, <2>3, <2>4, <2>5
  <1>7. ASSUME NEW c \in Calls, AppendAtFilter(c) \/ PublishAt(c)
        PROVE  \/ End(c) \/ Goto(c, "await") \/ Goto(c, "append")
               \/ /\ (pc[c] = "publish" /\ seq[c] = end) \/ pc[c] = "put"
                  /\ Store(c) /\ UNCHANGED gone /\ pc' = [pc EXCEPT ![c] = "wait"]
    BY <1>7 DEF AppendAtFilter, PublishAt, Await
  <1>8. "await" \in PCs \ {"wait"} /\ "append" \in PCs \ {"wait"}
    BY DEF PCs
  <1> HIDE DEF Quiet
  <1>9. \A c \in Calls : (End(c) \/ \E at \in PCs \ {"wait"} : Goto(c, at)) => Quiet
    BY <1>4, <1>5
  <1>10. CASE \E c \in Calls : AppendAtFilter(c) \/ PublishAt(c)
    BY <1>7, <1>8, <1>9, <1>10 DEF Quiet
  <1>11. CASE \E c \in Calls :
                 \/ Resume(c) \/ TargetMissing(c) \/ GroupSnapshot(c)
                 \/ RoomMoveSnapshot(c) \/ RoomMoveNoop(c) \/ LinkMoveSnapshot(c)
                 \/ LastSubjectSeq(c) \/ Return(c) \/ GiveUp(c)
    BY <1>6, <1>9, <1>11 DEF Quiet
  <1>12. CASE \E c \in Calls : Start(c)
    BY <1>3, <1>12 DEF Quiet
  <1> QED BY <1>1, <1>2, <1>10, <1>11, <1>12 DEF Next

LEMMA SingleHolderStep ==
    ASSUME IInv, ItemInAtMostOneGroup, [Next]_vars, "reorder" \notin Ops
    PROVE  ItemInAtMostOneGroup'
  <1>1. CASE UNCHANGED <<end, index>>
    BY <1>1 DEF ItemInAtMostOneGroup
  <1>2. ASSUME NEW c \in Calls, Store(c),
               (pc[c] = "publish" /\ seq[c] = end) \/ pc[c] = "put"
        PROVE  ItemInAtMostOneGroup'
    <2>1. \A i \in 0..end : SingleHolder(index[i])
      BY SingleHolderLayouts DEF IInv
    <2>2. end \in Nat
      BY RoomGroupsAssumption DEF IInv, TypeOK
    <2>3. /\ SingleHolder(index'[end + 1])
          /\ op[c] \in Moves /\ from[c] # None => SingleHolder(index'[end + 2])
      BY <1>2, <2>1, <2>2, StoreSingleHolder
    <2>4. /\ \A i \in 0..end : index'[i] = index[i]
          /\ op[c] \in Moves /\ from[c] # None => end' = end + 2
          /\ ~(op[c] \in Moves /\ from[c] # None) => end' = end + 1
      BY <1>2, StoreRead, StoreShape DEF IInv
    <2>5. \A i \in 0..end' : SingleHolder(index'[i])
      <3> TAKE i \in 0..end'
      <3>1. \/ i \in 0..end \/ i = end + 1
            \/ i = end + 2 /\ op[c] \in Moves /\ from[c] # None
        BY <2>2, <2>4
      <3> QED BY <2>1, <2>3, <2>4, <3>1
    <2>6. TypeOK'
      BY NextStep DEF IInv
    <2>7. ItemInAtMostOneGroup' <=> \A i \in 0..end' : SingleHolder(index'[i])
      <3>1. \A i \in 0..end' : index'[i] \in Layout
        BY <2>6, RoomGroupsAssumption DEF TypeOK
      <3>2. ASSUME NEW h \in Layout
            PROVE  SingleHolder(h) <=>
                     \A f, g \in Groups : f # g /\ h[f] # None /\ h[g] # None
                         => h[f] \cap h[g] = {}
        BY <3>2 DEF SingleHolder, Holders, Layout
      <3>3. \A i \in 0..end' : SingleHolder(index'[i]) <=>
                 \A f, g \in Groups : f # g /\ index'[i][f] # None /\ index'[i][g] # None
                     => index'[i][f] \cap index'[i][g] = {}
        BY <3>1, <3>2
      <3> QED BY <3>3 DEF ItemInAtMostOneGroup
    <2> QED BY <2>5, <2>7
  <1> QED BY <1>1, <1>2, StreamSteps

\* A stored event leaves every room that is not deleted in some group.
LEMMA StoreGrouped ==
    ASSUME IInv, NEW c \in Calls, Store(c), "reorder" \notin Ops,
           (pc[c] = "publish" /\ seq[c] = end) \/ pc[c] = "put",
           NEW r \in Rooms \ gone
    PROVE  /\ Holders(index[end], r) # {} => Holders(index'[end'], r) # {}
           /\ Holders(index'[end + 1], r) # {} => Holders(index'[end'], r) # {}
  <1> DEFINE h == index[end]
             h1 == index'[end + 1]
             h2 == index'[end']
  <1>1. /\ TypeOK /\ pc[c] # "idle" /\ group[c] \in Groups
        /\ op[c] \in Moves \/ from[c] = None
        /\ h \in Layout
        /\ op[c] \in Bound => ReadIn(c, h, h) /\ pc[c] = "publish"
    BY StoreRead DEF IInv
  <1>2. /\ h1 = ApplyIndex(c, h) /\ h1 \in Layout
        /\ op[c] \in Moves /\ from[c] # None => h2 = Added(h1, group[c], item[c])
        /\ ~(op[c] \in Moves /\ from[c] # None) => h2 = h1
    BY <1>1, StoreShape DEF IInv
  <1>3. /\ op[c] = "arrange" => h[group[c]] = list[c]
        /\ op[c] = "delete" => h[group[c]] = {}
        /\ op[c] \in Moves => from[c] # group[c]
        /\ op[c] \in {"place", "moveRoom"} => h[group[c]] # None
        /\ op[c] # "reorder"
    BY <1>1 DEF IInv, TypeOK, ReadIn, Bound, Moves
  <1>4. /\ op[c] \in Moves \cup {"addLink", "dropLink", "dropRoom"} => item[c] \in Items
        /\ r \in Items
    BY <1>1 DEF TypeOK, Moves, Items
  <1>5. r = item[c] => op[c] # "dropRoom" /\ op[c] \notin {"addLink", "dropLink", "moveLink"}
    BY <1>1, RoomGroupsAssumption DEF IInv, TypeOK, Control
  <1> HIDE DEF h, h1, h2
  <1>6. op[c] \in Moves => Holders(h1, r) \subseteq Holders(Added(h1, group[c], item[c]), r)
    BY <1>1, <1>2, <1>4, ChangedHolders DEF Added
  <1>7. CASE r # item[c] \/ op[c] \notin Moves \cup {"addLink", "dropLink", "dropRoom"}
    <2>1. Holders(h1, r) = Holders(h, r)
      BY <1>1, <1>2, <1>3, <1>4, <1>7, OtherItems
    <2> QED BY <1>2, <1>6, <2>1 DEF h, h1, h2
  <1>8. CASE r = item[c] /\ op[c] \in {"place", "moveRoom"}
    <2>1. CASE from[c] # None
      <3>1. h1 = Changed(h, from[c], {item[c]}, {}) /\ from[c] \in Groups
        BY <1>1, <1>2, <1>8, <2>1, ApplyIndexCases DEF Removed, Moves, TypeOK
      <3>2. h1[group[c]] = h[group[c]]
        BY <1>1, <1>3, <1>8, <3>1, ChangedLayout DEF Moves
      <3>3. h1[group[c]] # None /\ item[c] \in Items /\ op[c] \in Moves
        BY <1>3, <1>4, <1>8, <3>2 DEF Moves
      <3>4. group[c] \in Holders(Added(h1, group[c], item[c]), item[c])
        BY <1>1, <1>2, <3>3, OwnItem
      <3> QED BY <1>2, <1>8, <2>1, <3>3, <3>4 DEF h, h1, h2
    <2>2. CASE from[c] = None
      <3>1. item[c] \in Items /\ op[c] \in Moves
        BY <1>4, <1>8 DEF Moves
      <3>2. h1 = Added(h, group[c], item[c])
        BY <1>1, <1>2, <2>2, <3>1, OwnItem
      <3>3. group[c] \in Holders(h1, item[c])
        BY <1>1, <1>3, <1>8, <3>1, <3>2, OwnItem
      <3> QED BY <1>2, <1>8, <2>2, <3>3 DEF h, h1, h2
    <2> QED BY <2>1, <2>2
  <1> QED BY <1>5, <1>7, <1>8 DEF Moves

LEMMA GroupedStep ==
    ASSUME IInv, GroupedRoomStaysGrouped, [Next]_vars, "reorder" \notin Ops
    PROVE  GroupedRoomStaysGrouped'
  <1>1. CASE UNCHANGED <<end, index>> /\ gone \subseteq gone'
    BY <1>1 DEF GroupedRoomStaysGrouped, Holders
  <1>2. ASSUME NEW c \in Calls, Store(c), UNCHANGED gone,
               (pc[c] = "publish" /\ seq[c] = end) \/ pc[c] = "put"
        PROVE  GroupedRoomStaysGrouped'
    <2> SUFFICES ASSUME NEW r \in Rooms \ gone, NEW i \in 0..end',
                        Holders(index'[i], r) # {}
                 PROVE  Holders(index'[end'], r) # {}
      BY <1>2 DEF GroupedRoomStaysGrouped, Holders
    <2>1. /\ \A j \in 0..end : index'[j] = index[j]
          /\ end' \in {end + 1, end + 2} /\ end \in Nat
      BY <1>2, StoreRead, StoreShape, RoomGroupsAssumption DEF IInv, TypeOK
    <2>2. i \in 0..end \/ i = end + 1 \/ i = end'
      BY <2>1, RoomGroupsAssumption DEF IInv, TypeOK
    <2>3. CASE i \in 0..end
      <3>1. Holders(index[end], r) # {}
        BY <2>1, <2>3 DEF GroupedRoomStaysGrouped
      <3> QED BY <1>2, <3>1, StoreGrouped
    <2>4. CASE i = end + 1
      BY <1>2, <2>4, StoreGrouped
    <2> QED BY <2>2, <2>3, <2>4
  <1> QED BY <1>1, <1>2, StreamSteps

LEMMA InitLayouts ==
    ASSUME Init
    PROVE  ItemInAtMostOneGroup /\ GroupedRoomStaysGrouped
  <1>1. end = 0 /\ end \in 0..MaxLog /\ \A i \in 0..end : i = end
    BY RoomGroupsAssumption DEF Init
  <1>2. PICK h \in Layouts : index = [i \in 0..MaxLog |-> h]
    BY DEF Init
  <1>3. index[end] = h
    BY <1>1, <1>2
  <1>4. ItemInAtMostOneGroup
    BY <1>1, <1>3 DEF Layouts, ItemInAtMostOneGroup
  <1>5. GroupedRoomStaysGrouped
    BY <1>1 DEF GroupedRoomStaysGrouped
  <1> QED BY <1>4, <1>5

-----------------------------------------------------------------------------
\* No interleaving of moves, placements, link operations, reorders of a section
\* and group deletions puts a room or a link into two groups: an event is stored
\* only at the sequence its layout was read at (AppendAtFilter, AppendBatch).
THEOREM OneGroupPerItem ==
    ASSUME "reorder" \notin Ops
    PROVE  Spec => []ItemInAtMostOneGroup
  <1>1. Init => IInv /\ ItemInAtMostOneGroup
    BY InitIInv, InitLayouts
  <1>2. IInv /\ ItemInAtMostOneGroup /\ [Next]_vars => IInv' /\ ItemInAtMostOneGroup'
    BY NextStep, SingleHolderStep
  <1> QED BY <1>1, <1>2, PTL DEF Spec

\* No such interleaving loses a room that is not deleted: a move's target is in
\* the layout it is stored at, and only empty groups are deleted.
THEOREM RoomsStayGrouped ==
    ASSUME "reorder" \notin Ops
    PROVE  Spec => []GroupedRoomStaysGrouped
  <1>1. Init => IInv /\ GroupedRoomStaysGrouped
    BY InitIInv, InitLayouts
  <1>2. IInv /\ GroupedRoomStaysGrouped /\ [Next]_vars
            => IInv' /\ GroupedRoomStaysGrouped'
    BY NextStep, GroupedStep
  <1> QED BY <1>1, <1>2, PTL DEF Spec

\* An administrator's move takes the room out of the one group it was authorized
\* for (MoveRoomToGroupFromSource), whatever others stored meanwhile.
THEOREM MovesAuthorized ==
    ASSUME "reorder" \notin Ops
    PROVE  Spec => MoveLeavesAuthorizedGroup
  <1> DEFINE Authorized == \A c \in Calls :
          op[c] = "moveRoom" /\ pc[c] = "publish" /\ pc'[c] = "wait"
              => Sources(index[end], item[c]) = {from[c]}
  <1>1. Init => IInv /\ ItemInAtMostOneGroup
    BY InitIInv, InitLayouts
  <1>2. IInv /\ ItemInAtMostOneGroup /\ [Next]_vars => IInv' /\ ItemInAtMostOneGroup'
    BY NextStep, SingleHolderStep
  <1>3. IInv /\ ItemInAtMostOneGroup /\ [Next]_vars => Authorized
    <2> SUFFICES ASSUME IInv, ItemInAtMostOneGroup, [Next]_vars,
                        NEW c \in Calls, op[c] = "moveRoom", pc[c] = "publish",
                        pc'[c] = "wait"
                 PROVE  Sources(index[end], item[c]) = {from[c]}
      OBVIOUS
    <2>1. seq[c] = end
      <3>1. PICK d \in Calls : /\ (pc[d] = "publish" /\ seq[d] = end) \/ pc[d] = "put"
                               /\ pc' = [pc EXCEPT ![d] = "wait"]
        BY StreamSteps
      <3> QED BY <3>1 DEF IInv, TypeOK
    <2>2. ReadIn(c, index[end], index[end]) /\ index[end] \in Layout /\ item[c] \in Items
      BY <2>1, StoreRead DEF Bound, IInv, TypeOK, Items
    <2>3. SingleHolder(index[end])
      BY SingleHolderLayouts, RoomGroupsAssumption DEF IInv, TypeOK
    <2>4. from[c] \in Sources(index[end], item[c])
      BY <2>2 DEF ReadIn, Moves
    <2> QED BY <2>2, <2>3, <2>4 DEF Sources, SingleHolder
  <1> QED BY <1>1, <1>2, <1>3, PTL DEF Spec, MoveLeavesAuthorizedGroup

\* What groups_links shows of MoveSidebarLinkBetweenGroups is its doing alone: the
\* other operations, reorders, placements and group deletions included, never
\* drop a sidebar link that nobody deleted.
THEOREM LinksStayGrouped ==
    ASSUME "moveLink" \notin Ops
    PROVE  Spec => LinkStaysGrouped
  <1> DEFINE Kept == \A l \in Links :
          Holders(index[end], l) # {} /\ Holders(index'[end'], l) = {} =>
              \E c \in Calls : op[c] = "dropLink" /\ item[c] = l
  <1>1. IInv /\ [Next]_vars => Kept
    <2> SUFFICES ASSUME IInv, [Next]_vars, NEW l \in Links, Holders(index[end], l) # {},
                        \A c \in Calls : ~(op[c] = "dropLink" /\ item[c] = l)
                 PROVE  Holders(index'[end'], l) # {}
      OBVIOUS
    <2>1. CASE UNCHANGED <<end, index>>
      BY <2>1
    <2>2. ASSUME NEW c \in Calls, Store(c),
                 (pc[c] = "publish" /\ seq[c] = end) \/ pc[c] = "put"
          PROVE  Holders(index'[end'], l) # {}
      <3> DEFINE h == index[end]
                 h1 == index'[end + 1]
                 h2 == index'[end']
      <3>1. /\ TypeOK /\ pc[c] # "idle" /\ group[c] \in Groups
            /\ op[c] \in Moves \/ from[c] = None
            /\ h \in Layout
            /\ op[c] \in Bound => ReadIn(c, h, h) /\ pc[c] = "publish"
        BY <2>2, StoreRead DEF IInv
      <3>2. /\ h1 = ApplyIndex(c, h) /\ h1 \in Layout
            /\ op[c] \in Moves /\ from[c] # None => h2 = Added(h1, group[c], item[c])
            /\ ~(op[c] \in Moves /\ from[c] # None) => h2 = h1
        BY <2>2, <3>1, StoreShape DEF IInv
      <3>3. /\ op[c] = "arrange" => h[group[c]] = list[c]
            /\ op[c] = "delete" => h[group[c]] = {}
        BY <3>1 DEF ReadIn, Bound
      <3>4. /\ op[c] \in Moves \cup {"addLink", "dropLink", "dropRoom"} => item[c] \in Items
            /\ l \in Items /\ l \notin Rooms
        BY <3>1, RoomGroupsAssumption DEF TypeOK, Moves, Items
      <3>5. l = item[c] => op[c] \notin Moves \cup {"dropLink", "dropRoom"}
        BY <3>1, RoomGroupsAssumption DEF TypeOK, Moves
      <3> HIDE DEF h, h1, h2
      <3>6. op[c] \in Moves => Holders(h1, l) \subseteq Holders(Added(h1, group[c], item[c]), l)
        BY <3>1, <3>2, <3>4, ChangedHolders DEF Added
      <3>7. Holders(h, l) \subseteq Holders(h1, l)
        <4>1. CASE l # item[c] \/ op[c] # "addLink"
          <5>1. l # item[c] \/ op[c] \notin Moves \cup {"addLink", "dropLink", "dropRoom"}
            BY <3>5, <4>1
          <5> QED BY <3>1, <3>2, <3>3, <3>4, <5>1, OtherItems
        <4>2. CASE op[c] = "addLink"
          <5>1. h1 = Changed(h, group[c], {}, {item[c]}) /\ {item[c]} \in SUBSET Items
            BY <3>1, <3>2, <3>4, <4>2, ApplyIndexCases DEF Added, Moves
          <5> QED BY <3>1, <3>4, <5>1, ChangedHolders
        <4> QED BY <4>1, <4>2
      <3> QED BY <3>2, <3>6, <3>7 DEF h, h2
    <2> QED BY <2>1, <2>2, StreamSteps
  <1>2. Init => IInv
    BY InitIInv
  <1>3. IInv /\ [Next]_vars => IInv'
    BY NextStep
  <1> QED BY <1>1, <1>2, <1>3, PTL DEF Spec, LinkStaysGrouped
=============================================================================
