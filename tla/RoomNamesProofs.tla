-------------------------- MODULE RoomNamesProofs --------------------------
(***************************************************************************)
(* Proofs about RoomNames, for any number of processes, calls, rooms and   *)
(* names and any length of the stream.                                     *)
(***************************************************************************)
EXTENDS RoomNames, TLAPS

\* Only claims and appends publish, each with the events that may use it.
Paths ==
    \A c \in Calls :
        /\ pc[c] \in {"claim", "publish", "conflict", "catchup", "update"}
              => event[c] \in {"created", "updated"}
        /\ pc[c] \in {"append", "put"} =>
              /\ event[c] # "created"
              /\ event[c] = "updated" => PlainUpdates
        /\ pc[c] = "update" => event[c] = "updated"

\* What a claim read still holds of the prefix it names: the past is fixed.
ClaimRead ==
    \A c \in Calls : pc[c] = "publish" =>
        \/ past[seq[c]][room[c]] = name[c]
        \/ \A r \in Rooms \ {room[c]} : past[seq[c]][r] # name[c]

\* A room that nobody has created is in no catalog, and one call at a time
\* is creating it.
Unborn ==
    /\ \A r \in Rooms : tail[r]["created"] = 0 =>
          \A i \in 0..end : past[i][r] = None
    /\ \A c \in Calls : pc[c] \notin {"idle", "wait"} /\ event[c] = "created" =>
          /\ tail[room[c]]["created"] = 0
          /\ \A d \in Calls \ {c} : pc[d] = "idle" \/ room[d] # room[c]

IInv == TypeOK /\ Paths /\ ClaimRead /\ Unborn

-----------------------------------------------------------------------------
\* Apply yields a catalog, and gives a name to no room but the one it is for.
LEMMA ApplyCatalog ==
    ASSUME NEW k \in Catalogs, NEW e \in Events, NEW r \in Rooms, NEW n,
           e \in {"created", "updated"} => n \in Names
    PROVE  /\ Apply(k, e, r, n) \in Catalogs
           /\ \A q \in Rooms \ {r} : Apply(k, e, r, n)[q] = k[q]
           /\ Apply(k, e, r, n)[r] \in {n, k[r], None}
           /\ k[r] = None /\ e # "created" => Apply(k, e, r, n)[r] = None
           /\ e \notin {"created", "updated"}
                 => Apply(k, e, r, n)[r] \in {k[r], None}
  BY DEF Apply, Catalogs, Events

\* What a stored event does to the stream: one more catalog, the others kept.
LEMMA PublishStream ==
    ASSUME TypeOK, NEW c \in Calls, pc[c] # "idle", Publish(c)
    PROVE  /\ end' = end + 1 /\ end' \in 0..MaxLog /\ end + 1 \in 0..MaxLog
           /\ tail' \in [Rooms -> [Events -> 0..end']]
           /\ past' \in [0..MaxLog -> Catalogs]
           /\ \A i \in 0..end : past'[i] = past[i]
           /\ past'[end + 1] = Apply(past[end], event[c], room[c], name[c])
           /\ \A r \in Rooms : r # room[c] \/ event[c] # "created"
                 => tail'[r]["created"] = tail[r]["created"]
           /\ event[c] = "created" => tail'[room[c]]["created"] = end + 1
           /\ past[end] \in Catalogs
  <1>1. /\ end' = end + 1 /\ end + 1 \in 0..MaxLog /\ end \in 0..MaxLog
        /\ room[c] \in Rooms /\ event[c] \in Events
    BY RoomNamesAssumption DEF TypeOK, Publish
  <1>2. Apply(past[end], event[c], room[c], name[c]) \in Catalogs
    BY <1>1, ApplyCatalog DEF TypeOK
  <1>3. \A i \in 0..end : i # end + 1 /\ i \in 0..MaxLog
    BY <1>1, RoomNamesAssumption
  <1>4. /\ past' \in [0..MaxLog -> Catalogs]
        /\ \A i \in 0..end : past'[i] = past[i]
        /\ past'[end + 1] = Apply(past[end], event[c], room[c], name[c])
    BY <1>1, <1>2, <1>3 DEF TypeOK, Publish
  <1>5. tail' \in [Rooms -> [Events -> 0..end']]
    <2>1. 0..end \subseteq 0..end' /\ end + 1 \in 0..end'
      BY <1>1
    <2>2. tail \in [Rooms -> [Events -> 0..end']]
      BY <2>1 DEF TypeOK
    <2> QED BY <1>1, <2>1, <2>2 DEF Publish
  <1>6. /\ \A r \in Rooms : r # room[c] \/ event[c] # "created"
                 => tail'[r]["created"] = tail[r]["created"]
        /\ event[c] = "created" => tail'[room[c]]["created"] = end + 1
    BY <1>1 DEF TypeOK, Publish, Events
  <1> QED
    BY <1>1, <1>4, <1>5, <1>6 DEF TypeOK

\* A stored event moves the stream's end.
LEMMA PublishMoves ==
    ASSUME TypeOK, NEW c \in Calls, Publish(c)
    PROVE  ~UNCHANGED stream
  <1>1. end' = end + 1
    BY DEF Publish
  <1>2. end \in Nat
    BY RoomNamesAssumption DEF TypeOK
  <1>3. end' # end
    BY <1>1, <1>2
  <1> QED BY <1>3 DEF stream

\* Every step keeps the types.
LEMMA TypeStep ==
    ASSUME TypeOK, [Next]_vars
    PROVE  TypeOK'
  <1>0. CASE UNCHANGED vars
    BY <1>0 DEF vars, TypeOK
  <1>1. ASSUME NEW s \in Servers, Project(s) PROVE TypeOK'
    BY <1>1 DEF TypeOK, Project, stream
  <1>2. ASSUME NEW c \in Calls, End(c) PROVE TypeOK'
    BY <1>2, RoomNamesAssumption DEF TypeOK, End, stream
  <1>b. ASSUME NEW c \in Calls, NEW s \in Servers, NEW r \in Rooms,
               NEW n \in Names \cup {None}, NEW e \in Events,
               NEW at \in {"claim", "update", "append"},
               e \in {"created", "updated"} => n \in Names,
               Begin(c, at, e, s, r, n)
        PROVE  TypeOK'
    BY <1>b DEF TypeOK, Begin, stream
  <1>3. ASSUME NEW c \in Calls, NEW s \in Servers, NEW r \in Rooms, NEW n \in Names,
               CreateRoom(c, s, r, n) \/ UpdateCommand(c, s, r, n)
        PROVE  TypeOK'
    BY <1>3, <1>b DEF CreateRoom, UpdateCommand, Events
  <1>4. ASSUME NEW c \in Calls, NEW s \in Servers, NEW r \in Rooms,
               ArchiveRoom(c, s, r) \/ DeleteRoom(c, s, r)
        PROVE  TypeOK'
    BY <1>4, <1>b DEF ArchiveRoom, DeleteRoom, Events
  <1>5. ASSUME NEW c \in Calls, UpdateRoom(c) PROVE TypeOK'
    BY <1>2, <1>5 DEF TypeOK, UpdateRoom, Goto, stream
  <1>6. ASSUME NEW c \in Calls, NameClaimSnapshot(c) PROVE TypeOK'
    <2>1. CASE End(c)
      BY <2>1, <1>2
    <2>2. CASE /\ Goto(c, "publish") /\ UNCHANGED tries
               /\ seq' = [seq EXCEPT ![c] = applied[server[c]]]
      BY <2>2, <1>6 DEF TypeOK, NameClaimSnapshot, Goto, stream
    <2> QED BY <2>1, <2>2, <1>6 DEF NameClaimSnapshot
  <1>7. ASSUME NEW c \in Calls, pc[c] # "idle", Publish(c),
               pc' = [pc EXCEPT ![c] = "wait"], seq' = [seq EXCEPT ![c] = end + 1],
               UNCHANGED <<applied, event, server, room, name, tries>>
        PROVE  TypeOK'
    <2>1. /\ end' = end + 1 /\ end' \in 0..MaxLog
          /\ tail' \in [Rooms -> [Events -> 0..end']]
          /\ past' \in [0..MaxLog -> Catalogs]
      BY <1>7, PublishStream
    <2>2. 0..end \subseteq 0..end' /\ end + 1 \in 0..end'
      BY <2>1, RoomNamesAssumption DEF TypeOK
    <2>3. applied' \in [Servers -> 0..end'] /\ seq' \in [Calls -> 0..end']
      BY <1>7, <2>2 DEF TypeOK
    <2> QED BY <1>7, <2>1, <2>3 DEF TypeOK
  <1>8. ASSUME NEW c \in Calls, AppendAtFilter(c) PROVE TypeOK'
    BY <1>7, <1>8 DEF TypeOK, AppendAtFilter, Goto, stream
  <1>9. ASSUME NEW c \in Calls, ReadCurrent(c) PROVE TypeOK'
    BY <1>9 DEF TypeOK, ReadCurrent, Goto, stream
  <1>10. ASSUME NEW c \in Calls, Retry(c) PROVE TypeOK'
    <2>1. CASE End(c)
      BY <2>1, <1>2
    <2>2. CASE ~End(c)
      <3>1. /\ tries[c] + 1 < MaxTries /\ Goto(c, "claim") /\ pc[c] = "catchup"
            /\ tries' = [tries EXCEPT ![c] = @ + 1]
            /\ seq' = [seq EXCEPT ![c] = 0]
        BY <2>2, <1>10 DEF Retry
      <3>2. tries' \in [Calls -> 0..MaxTries] /\ seq' \in [Calls -> 0..end]
        BY <3>1, RoomNamesAssumption DEF TypeOK
      <3> QED BY <3>1, <3>2 DEF TypeOK, Goto, stream
    <2> QED BY <2>1, <2>2
  <1>11. ASSUME NEW c \in Calls, LastSubjectSeq(c) PROVE TypeOK'
    BY <1>11 DEF TypeOK, LastSubjectSeq, Goto, stream
  <1>12. ASSUME NEW c \in Calls, PublishAt(c) PROVE TypeOK'
    <2>1. CASE End(c)
      BY <2>1, <1>2
    <2>2. CASE Publish(c)
      <3>1. end' # end
        BY <2>2, RoomNamesAssumption DEF Publish, TypeOK
      <3>2. ~Goto(c, "append") /\ ~End(c)
        BY <3>1 DEF Goto, End, stream
      <3> QED BY <2>2, <3>2, <1>7, <1>12 DEF PublishAt
    <2>3. CASE ~End(c) /\ ~Publish(c)
      <3>1. /\ tries[c] + 1 < MaxTries /\ Goto(c, "append") /\ pc[c] = "put"
            /\ tries' = [tries EXCEPT ![c] = @ + 1] /\ UNCHANGED seq
        BY <2>3, <1>12 DEF PublishAt
      <3>2. tries' \in [Calls -> 0..MaxTries]
        BY <3>1, RoomNamesAssumption DEF TypeOK
      <3> QED BY <3>1, <3>2 DEF TypeOK, Goto, stream
    <2> QED BY <2>1, <2>2, <2>3
  <1>13. ASSUME NEW c \in Calls, Return(c) \/ GiveUp(c) PROVE TypeOK'
    BY <1>2, <1>13 DEF Return, GiveUp
  <1> QED
    BY <1>0, <1>1, <1>3, <1>4, <1>5, <1>6, <1>8, <1>9, <1>10, <1>11, <1>12, <1>13
       DEF Next

-----------------------------------------------------------------------------
\* The steps that store nothing leave every prefix's catalog as it is, and
\* keep what the invariant says of the calls.
LEMMA QuietStep ==
    ASSUME IInv, [Next]_vars, UNCHANGED stream
    PROVE  Paths' /\ ClaimRead' /\ Unborn'
  <1>0. CASE UNCHANGED vars
    BY <1>0 DEF vars, IInv, Paths, ClaimRead, Unborn
  <1>1. ASSUME NEW s \in Servers, Project(s) PROVE Paths' /\ ClaimRead' /\ Unborn'
    BY <1>1 DEF IInv, Project, Paths, ClaimRead, Unborn, stream
  <1>2. ASSUME NEW c \in Calls, End(c) PROVE Paths' /\ ClaimRead' /\ Unborn'
    BY <1>2 DEF IInv, TypeOK, End, Paths, ClaimRead, Unborn, stream
  <1>3. ASSUME NEW c \in Calls, NEW s \in Servers, NEW r \in Rooms, NEW n \in Names,
               CreateRoom(c, s, r, n)
        PROVE  Paths' /\ ClaimRead' /\ Unborn'
    BY <1>3 DEF IInv, TypeOK, CreateRoom, Begin, Paths, ClaimRead, Unborn, stream
  <1>4. ASSUME NEW c \in Calls, NEW s \in Servers, NEW r \in Rooms, Catalog(s)[r] # None,
               NEW n, NEW at, NEW e, Begin(c, at, e, s, r, n),
               <<at, e>> \in {<<"update", "updated">>, <<"append", "touched">>,
                              <<"append", "deleted">>}
        PROVE  Paths' /\ ClaimRead' /\ Unborn'
    <2>1. \A d \in Calls : pc[d] \notin {"idle", "wait"} /\ event[d] = "created"
             => room[d] # r
      BY <1>4 DEF IInv, TypeOK, Unborn, Catalog
    <2> QED BY <1>4, <2>1 DEF IInv, TypeOK, Begin, Paths, ClaimRead, Unborn, stream
  <1>g. ASSUME NEW c \in Calls, NEW at \in {"claim", "conflict", "catchup", "append", "put"},
               Goto(c, at), pc[c] \notin {"idle", "wait"},
               IF at \in {"append", "put"}
               THEN event[c] # "created" /\ (event[c] = "updated" => PlainUpdates)
               ELSE event[c] \in {"created", "updated"},
               \A d \in Calls \ {c} : seq'[d] = seq[d]
        PROVE  Paths' /\ ClaimRead' /\ Unborn'
    BY <1>g DEF IInv, TypeOK, Goto, Paths, ClaimRead, Unborn, stream
  <1>p. ~\E c \in Calls : Publish(c)
    BY PublishMoves DEF IInv
  <1>5. ASSUME NEW c \in Calls, UpdateRoom(c) PROVE Paths' /\ ClaimRead' /\ Unborn'
    <2>1. pc[c] = "update" /\ event[c] = "updated"
      BY <1>5 DEF UpdateRoom, IInv, Paths
    <2> QED BY <2>1, <1>2, <1>5, <1>g DEF UpdateRoom
  <1>6. ASSUME NEW c \in Calls, NameClaimSnapshot(c)
        PROVE  Paths' /\ ClaimRead' /\ Unborn'
    <2>1. CASE End(c)
      BY <1>2, <2>1
    <2>2. CASE ~End(c)
      <3>1. /\ pc[c] = "claim" /\ Goto(c, "publish")
            /\ seq' = [seq EXCEPT ![c] = applied[server[c]]]
            /\ \/ past[applied[server[c]]][room[c]] = name[c]
               \/ \A r \in Rooms \ {room[c]} : past[applied[server[c]]][r] # name[c]
        BY <1>6, <2>2 DEF NameClaimSnapshot, Catalog
      <3>2. Paths' /\ Unborn'
        BY <3>1 DEF IInv, TypeOK, Goto, Paths, Unborn, stream
      <3>3. ClaimRead'
        BY <3>1 DEF IInv, TypeOK, Goto, ClaimRead, stream
      <3> QED BY <3>2, <3>3
    <2> QED BY <2>1, <2>2
  <1>7. ASSUME NEW c \in Calls, AppendAtFilter(c) PROVE Paths' /\ ClaimRead' /\ Unborn'
    <2>1. pc[c] = "publish" /\ event[c] \in {"created", "updated"}
      BY <1>7 DEF AppendAtFilter, IInv, Paths
    <2> QED BY <2>1, <1>7, <1>g, <1>p DEF AppendAtFilter
  <1>8. ASSUME NEW c \in Calls, ReadCurrent(c) \/ LastSubjectSeq(c)
        PROVE  Paths' /\ ClaimRead' /\ Unborn'
    <2>0. \A d \in Calls \ {c} : seq'[d] = seq[d]
      BY <1>8 DEF ReadCurrent, LastSubjectSeq, IInv, TypeOK
    <2>1. CASE ReadCurrent(c)
      <3>1. pc[c] = "conflict" /\ event[c] \in {"created", "updated"}
        BY <2>1 DEF ReadCurrent, IInv, Paths
      <3> QED BY <2>0, <2>1, <3>1, <1>g DEF ReadCurrent
    <2>2. CASE LastSubjectSeq(c)
      <3>1. /\ pc[c] = "append" /\ event[c] # "created"
            /\ event[c] = "updated" => PlainUpdates
        BY <2>2 DEF LastSubjectSeq, IInv, Paths
      <3> QED BY <2>0, <2>2, <3>1, <1>g DEF LastSubjectSeq
    <2> QED BY <1>8, <2>1, <2>2
  <1>9. ASSUME NEW c \in Calls, Retry(c) PROVE Paths' /\ ClaimRead' /\ Unborn'
    <2>1. CASE End(c)
      BY <2>1, <1>2
    <2>2. CASE Goto(c, "claim") /\ seq' = [seq EXCEPT ![c] = 0]
      <3>1. pc[c] = "catchup" /\ event[c] \in {"created", "updated"}
        BY <1>9 DEF Retry, IInv, Paths
      <3>2. \A d \in Calls \ {c} : seq'[d] = seq[d]
        BY <2>2 DEF IInv, TypeOK
      <3> QED BY <2>2, <3>1, <3>2, <1>g
    <2> QED BY <2>1, <2>2, <1>9 DEF Retry
  <1>10. ASSUME NEW c \in Calls, PublishAt(c) PROVE Paths' /\ ClaimRead' /\ Unborn'
    <2>1. CASE End(c)
      BY <2>1, <1>2
    <2>2. CASE Goto(c, "append") /\ UNCHANGED seq
      <3>1. /\ pc[c] = "put" /\ event[c] # "created"
            /\ event[c] = "updated" => PlainUpdates
        BY <1>10 DEF PublishAt, IInv, Paths
      <3> QED BY <2>2, <3>1, <1>g
    <2> QED BY <2>1, <2>2, <1>10, <1>p DEF PublishAt
  <1>11. ASSUME NEW c \in Calls, Return(c) \/ GiveUp(c)
         PROVE  Paths' /\ ClaimRead' /\ Unborn'
    BY <1>2, <1>11 DEF Return, GiveUp
  <1> QED
    BY <1>0, <1>1, <1>3, <1>4, <1>5, <1>6, <1>7, <1>8, <1>9, <1>10, <1>11
       DEF Next, UpdateCommand, ArchiveRoom, DeleteRoom

\* A step that stores an event is a call's publish, by claim or by append.
LEMMA StoreStep ==
    ASSUME IInv, [Next]_vars, ~UNCHANGED stream
    PROVE  \E c \in Calls :
              /\ Publish(c)
              /\ pc' = [pc EXCEPT ![c] = "wait"]
              /\ seq' = [seq EXCEPT ![c] = end + 1]
              /\ UNCHANGED <<applied, event, server, room, name, tries>>
              /\ \/ pc[c] = "publish" /\ seq[c] = end
                 \/ pc[c] = "put"
  <1>1. ASSUME NEW c \in Calls PROVE ~End(c) /\ \A at : ~Goto(c, at)
    BY DEF End, Goto
  <1> QED
    BY <1>1 DEF Next, vars, stream, Project, CreateRoom, UpdateCommand, ArchiveRoom,
        DeleteRoom, Begin, UpdateRoom, NameClaimSnapshot, AppendAtFilter, ReadCurrent,
        Retry, LastSubjectSeq, PublishAt, Return, GiveUp

\* Storing an event keeps what the invariant says of the calls.
LEMMA PublishStep ==
    ASSUME IInv, NEW c \in Calls, pc[c] \in {"publish", "put"}, Publish(c),
           pc' = [pc EXCEPT ![c] = "wait"], seq' = [seq EXCEPT ![c] = end + 1],
           UNCHANGED <<applied, event, server, room, name, tries>>
    PROVE  Paths' /\ ClaimRead' /\ Unborn'
  <1>0. /\ TypeOK /\ end \in Nat /\ end' = end + 1
        /\ room[c] \in Rooms /\ event[c] \in Events
        /\ event[c] \in {"created", "updated"} => name[c] \in Names
    BY RoomNamesAssumption DEF IInv, TypeOK, Publish
  <1>1. /\ \A i \in 0..end : past'[i] = past[i]
        /\ past'[end + 1] = Apply(past[end], event[c], room[c], name[c])
        /\ \A r \in Rooms : r # room[c] \/ event[c] # "created"
                 => tail'[r]["created"] = tail[r]["created"]
        /\ event[c] = "created" => tail'[room[c]]["created"] = end + 1
        /\ past[end] \in Catalogs
    BY <1>0, PublishStream
  <1>2. Paths'
    BY DEF IInv, TypeOK, Paths
  <1>3. ClaimRead'
    <2> SUFFICES ASSUME NEW d \in Calls, pc'[d] = "publish"
                 PROVE  \/ past'[seq'[d]][room[d]] = name[d]
                        \/ \A r \in Rooms \ {room[d]} : past'[seq'[d]][r] # name[d]
      BY DEF ClaimRead
    <2>1. d # c /\ pc[d] = "publish" /\ seq'[d] = seq[d] /\ seq[d] \in 0..end
      BY DEF IInv, TypeOK
    <2> QED BY <2>1, <1>1 DEF IInv, ClaimRead
  <1>4. ASSUME NEW r \in Rooms, tail'[r]["created"] = 0, NEW i \in 0..end'
        PROVE  past'[i][r] = None
    <2>1. tail[r]["created"] = 0 /\ (r # room[c] \/ event[c] # "created")
      BY <1>0, <1>1, <1>4
    <2>2. CASE i \in 0..end
      BY <2>1, <2>2, <1>1 DEF IInv, Unborn
    <2>3. CASE i = end + 1
      <3>1. past[end][r] = None
        BY <2>1, <1>0 DEF IInv, Unborn
      <3> QED BY <2>1, <2>3, <3>1, <1>0, <1>1, ApplyCatalog
    <2> QED BY <2>2, <2>3, <1>0
  <1>5. ASSUME NEW d \in Calls, pc'[d] \notin {"idle", "wait"}, event[d] = "created"
        PROVE  /\ tail'[room[d]]["created"] = 0
               /\ \A b \in Calls \ {d} : pc'[b] = "idle" \/ room[b] # room[d]
    <2>1. d # c /\ pc[d] \notin {"idle", "wait"} /\ pc[c] # "idle"
      BY <1>5 DEF IInv, TypeOK
    <2>2. /\ room[d] \in Rooms /\ room[d] # room[c] /\ tail[room[d]]["created"] = 0
          /\ \A b \in Calls \ {d} : pc[b] = "idle" \/ room[b] # room[d]
      BY <2>1, <1>5 DEF IInv, Unborn, TypeOK
    <2> QED BY <2>1, <2>2, <1>1 DEF IInv, TypeOK
  <1> QED
    BY <1>2, <1>3, <1>4, <1>5 DEF Unborn

LEMMA InvariantInit == Init => IInv
  <1> SUFFICES ASSUME Init PROVE IInv
    OBVIOUS
  <1>1. TypeOK
    BY RoomNamesAssumption DEF Init, TypeOK, Catalogs
  <1>2. Paths /\ ClaimRead /\ Unborn
    BY RoomNamesAssumption DEF Init, Paths, ClaimRead, Unborn
  <1> QED BY <1>1, <1>2 DEF IInv

LEMMA InvariantStep == IInv /\ [Next]_vars => IInv'
  <1> SUFFICES ASSUME IInv, [Next]_vars PROVE IInv'
    OBVIOUS
  <1>1. TypeOK'
    BY TypeStep DEF IInv
  <1>2. CASE UNCHANGED stream
    BY <1>1, <1>2, QuietStep DEF IInv
  <1>3. CASE ~UNCHANGED stream
    BY <1>1, <1>3, StoreStep, PublishStep DEF IInv
  <1> QED BY <1>2, <1>3

\* Type correctness of RoomNames.
THEOREM TypeCorrect == Spec => []TypeOK
  BY InvariantInit, InvariantStep, PTL DEF Spec, IInv

\* A name claim that the stream accepts adds no second owner, however far the
\* claiming process's catalog lags: publishRoomEventWithNameOCC is safe.
THEOREM ClaimsAreExclusive == Spec => ClaimedNameIsFree
  <1>1. IInv /\ [Next]_vars =>
           [\A c \in Calls : pc[c] = "publish" /\ pc'[c] = "wait" =>
              \/ past[end][room[c]] = name[c]
              \/ \A r \in Rooms \ {room[c]} : past[end][r] # name[c]]_vars
    <2> SUFFICES ASSUME IInv, [Next]_vars, NEW c \in Calls,
                        pc[c] = "publish", pc'[c] = "wait"
                 PROVE  \/ past[end][room[c]] = name[c]
                        \/ \A r \in Rooms \ {room[c]} : past[end][r] # name[c]
      OBVIOUS
    <2>1. CASE ~UNCHANGED stream
      <3>1. PICK d \in Calls : /\ pc' = [pc EXCEPT ![d] = "wait"]
                               /\ \/ pc[d] = "publish" /\ seq[d] = end
                                  \/ pc[d] = "put"
        BY <2>1, StoreStep
      <3>2. d = c /\ seq[c] = end
        BY <3>1 DEF IInv, TypeOK
      <3> QED BY <3>2 DEF IInv, ClaimRead
    <2>2. CASE UNCHANGED stream
      <3>0. ASSUME NEW d \in Calls,
                   End(d) \/ \E at \in {"claim", "publish", "conflict", "catchup",
                                        "append", "put"} : Goto(d, at)
            PROVE  pc'[c] # "wait"
        BY <3>0 DEF End, Goto, IInv, TypeOK
      <3>1. ~\E d \in Calls : Publish(d)
        BY <2>2, PublishMoves DEF IInv
      <3>2. CASE UNCHANGED pc
        BY <3>2
      <3>3. CASE \E d \in Calls, s \in Servers, r \in Rooms :
                    \/ \E n \in Names : CreateRoom(d, s, r, n) \/ UpdateCommand(d, s, r, n)
                    \/ ArchiveRoom(d, s, r)
                    \/ DeleteRoom(d, s, r)
        <4>1. \E d \in Calls, at \in {"claim", "update", "append"} :
                 pc' = [pc EXCEPT ![d] = at]
          BY <3>3 DEF CreateRoom, UpdateCommand, ArchiveRoom, DeleteRoom, Begin
        <4>2. pc = [d \in Calls |-> pc[d]]
          BY DEF IInv, TypeOK
        <4> QED BY <4>1, <4>2
      <3>4. CASE \E d \in Calls :
                    \/ UpdateRoom(d) \/ NameClaimSnapshot(d) \/ AppendAtFilter(d)
                    \/ ReadCurrent(d) \/ Retry(d) \/ LastSubjectSeq(d) \/ PublishAt(d)
                    \/ Return(d) \/ GiveUp(d)
        <4>1. \E d \in Calls :
                 End(d) \/ \E at \in {"claim", "publish", "conflict", "catchup",
                                      "append", "put"} : Goto(d, at)
          BY <3>1, <3>4 DEF UpdateRoom, NameClaimSnapshot, AppendAtFilter, ReadCurrent,
             Retry, LastSubjectSeq, PublishAt, Return, GiveUp
        <4> QED BY <4>1, <3>0
      <3> QED BY <3>2, <3>3, <3>4 DEF Next, vars, Project
    <2> QED BY <2>1, <2>2
  <1> QED
    BY <1>1, InvariantInit, InvariantStep, PTL DEF Spec, ClaimedNameIsFree

-----------------------------------------------------------------------------
\* One step of UniqueRoomNames, when no update keeps the name it saw.
LEMMA UniqueStep ==
    ASSUME ~PlainUpdates, IInv, UniqueRoomNames, [Next]_vars
    PROVE  UniqueRoomNames'
  <1>1. CASE UNCHANGED stream
    BY <1>1 DEF UniqueRoomNames, stream
  <1>2. CASE ~UNCHANGED stream
    <2>1. PICK c \in Calls : /\ Publish(c)
                             /\ \/ pc[c] = "publish" /\ seq[c] = end
                                \/ pc[c] = "put"
      BY <1>2, StoreStep
    <2>2. /\ end \in Nat /\ end' = end + 1 /\ TypeOK
          /\ room[c] \in Rooms /\ event[c] \in Events
          /\ event[c] \in {"created", "updated"} => name[c] \in Names
      BY <2>1, RoomNamesAssumption DEF IInv, TypeOK, Publish
    <2>3. /\ \A i \in 0..end : past'[i] = past[i]
          /\ past'[end + 1] = Apply(past[end], event[c], room[c], name[c])
          /\ past[end] \in Catalogs
      BY <2>1, <2>2, PublishStream
    <2>4. \A i \in 0..end' : i \in 0..end \/ i = end + 1
      BY <2>2
    <2>5. ASSUME NEW q \in Rooms, NEW r \in Rooms, q # r, past'[end + 1][q] # None
          PROVE  past'[end + 1][q] # past'[end + 1][r]
      <3>1. past[end][q] # None => past[end][q] # past[end][r]
        BY <2>2, <2>5 DEF UniqueRoomNames
      <3>2. past[end][r] # None => past[end][r] # past[end][q]
        BY <2>2, <2>5 DEF UniqueRoomNames
      <3>3. /\ \A p \in Rooms \ {room[c]} : past'[end + 1][p] = past[end][p]
            /\ past'[end + 1][room[c]] \in {name[c], past[end][room[c]], None}
        BY <2>2, <2>3, ApplyCatalog
      <3>4. CASE pc[c] = "publish"
        <4>1. CASE past[end][room[c]] = name[c]
          <5>1. past'[end + 1][room[c]] \in {past[end][room[c]], None}
            BY <3>3, <4>1
          <5> QED BY <2>5, <3>1, <3>2, <3>3, <5>1
        <4>2. CASE \A p \in Rooms \ {room[c]} : past[end][p] # name[c]
          BY <2>5, <3>1, <3>2, <3>3, <4>2
        <4> QED BY <2>1, <3>4, <4>1, <4>2 DEF IInv, ClaimRead
      <3>5. CASE pc[c] = "put"
        <4>1. event[c] \notin {"created", "updated"}
          BY <3>5 DEF IInv, Paths
        <4>2. past'[end + 1][room[c]] \in {past[end][room[c]], None}
          BY <2>2, <2>3, <4>1, ApplyCatalog
        <4> QED BY <2>5, <3>1, <3>2, <3>3, <4>2
      <3> QED BY <2>1, <3>4, <3>5
    <2> QED BY <2>2, <2>3, <2>4, <2>5 DEF UniqueRoomNames
  <1> QED BY <1>1, <1>2

\* Room names are unique in every catalog of every process, for histories in
\* which every update of a room is a rename through the claim: what the
\* wildcard check of publishRoomEventWithNameOCC gives by itself.
THEOREM NamesAreUnique ==
    ASSUME ~PlainUpdates
    PROVE  Spec => []UniqueRoomNames
  <1>1. Init => UniqueRoomNames
    BY RoomNamesAssumption DEF Init, UniqueRoomNames
  <1>2. IInv /\ UniqueRoomNames /\ [Next]_vars => UniqueRoomNames'
    BY UniqueStep
  <1> QED
    BY <1>1, <1>2, InvariantInit, InvariantStep, PTL DEF Spec

\* One step of DeletedRoomStaysDeleted.
LEMMA DeletedStep ==
    ASSUME IInv, DeletedRoomStaysDeleted, [Next]_vars
    PROVE  DeletedRoomStaysDeleted'
  <1>1. CASE UNCHANGED stream
    BY <1>1 DEF DeletedRoomStaysDeleted, stream
  <1>2. CASE ~UNCHANGED stream
    <2>1. PICK c \in Calls : Publish(c) /\ pc[c] \in {"publish", "put"}
      BY <1>2, StoreStep
    <2>2. /\ end \in Nat /\ end' = end + 1 /\ TypeOK
          /\ room[c] \in Rooms /\ event[c] \in Events
          /\ event[c] \in {"created", "updated"} => name[c] \in Names
      BY <2>1, RoomNamesAssumption DEF IInv, TypeOK, Publish
    <2>3. /\ \A i \in 0..end : past'[i] = past[i]
          /\ past'[end + 1] = Apply(past[end], event[c], room[c], name[c])
          /\ past[end] \in Catalogs
      BY <2>1, <2>2, PublishStream
    <2>4. SUFFICES ASSUME NEW r \in Rooms, NEW i \in 0..end', NEW j \in 0..end',
                          NEW k \in 0..end', i < j, j < k,
                          past'[i][r] # None, past'[j][r] = None
                   PROVE  past'[k][r] = None
      BY DEF DeletedRoomStaysDeleted
    <2>5. /\ i \in 0..end /\ j \in 0..end /\ (k \in 0..end \/ k = end + 1)
          /\ j <= end
      BY <2>2, <2>4
    <2>6. past[i][r] # None /\ past[j][r] = None
      BY <2>3, <2>4, <2>5
    <2>7. CASE k \in 0..end
      BY <2>3, <2>4, <2>5, <2>6, <2>7 DEF DeletedRoomStaysDeleted
    <2>8. CASE k = end + 1
      <3>1. past[end][r] = None
        <4>1. CASE j = end
          BY <2>6, <4>1
        <4>2. CASE j # end
          <5>1. j < end /\ end \in 0..end
            BY <2>2, <2>5, <4>2
          <5> QED BY <2>4, <2>5, <2>6, <5>1 DEF DeletedRoomStaysDeleted
        <4> QED BY <4>1, <4>2
      <3>2. tail[r]["created"] # 0
        BY <2>5, <2>6 DEF IInv, Unborn
      <3>3. ~(r = room[c] /\ event[c] = "created")
        BY <2>1, <3>2 DEF IInv, Unborn, Paths
      <3> QED BY <2>2, <2>3, <2>8, <3>1, <3>3, ApplyCatalog
    <2> QED BY <2>5, <2>7, <2>8
  <1> QED BY <1>1, <1>2

\* A deleted room is gone for good, whatever updates were under way when it
\* was deleted.
THEOREM DeletionIsFinal == Spec => []DeletedRoomStaysDeleted
  <1>1. Init => DeletedRoomStaysDeleted
    BY RoomNamesAssumption DEF Init, DeletedRoomStaysDeleted
  <1>2. IInv /\ DeletedRoomStaysDeleted /\ [Next]_vars => DeletedRoomStaysDeleted'
    BY DeletedStep
  <1> QED
    BY <1>1, <1>2, InvariantInit, InvariantStep, PTL DEF Spec
=============================================================================
