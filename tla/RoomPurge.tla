------------------------------ MODULE RoomPurge ------------------------------
(***************************************************************************)
(* The permanent deletion of one archived channel room (core/room_purge.go *)
(* and its _state, _references, _assets and _runtime files), the purge of  *)
(* its message history up to a barrier (core/room_history_purge.go), and   *)
(* the secure deletion both are built on (events/secure_delete.go).        *)
(*                                                                         *)
(* Workers are requests and background passes of any process; a worker     *)
(* that holds the room's purge lease may lose it and go on for a while.    *)
(* Writers that were authorized earlier keep writing to the room at any    *)
(* time.  The steps of a worker are its durable reads and writes; what it  *)
(* only sends to clients, counts or logs is left out.  Workers wait for    *)
(* their projections before they read them, and a write they have not      *)
(* projected yet is a write that comes later: projections are not kept     *)
(* apart from the stream here.                                             *)
(***************************************************************************)
EXTENDS Naturals, FiniteSets, FiniteSetsExt

CONSTANTS Requests, Passes,       \* requests being served, background passes
          None,
          Assets, CallKeys,       \* attachment IDs (each with its derivatives), call
                                  \* key references
          Ops,                    \* operation IDs of history purges
          MaxPasses,              \* roomPurgeMaxQuiescencePasses
          Budgets                 \* bounds: [jobs, who, late, faults], the operations
                                  \* asked for, the workers, the writes of others and
                                  \* the number of faults of a behaviour

LateWrites == {"upload", "post", "echo", "call", "device", "scoped", "grouped"}

Workers == Requests \cup Passes

ASSUME RoomPurgeAssumption ==
    /\ Requests \cap Passes = {}
    /\ Assets # {} /\ CallKeys # {} /\ Assets \cap CallKeys = {}
    /\ Ops \cap (Assets \cup CallKeys \cup {"room"}) = {}
    /\ None \notin Workers \cup Assets \cup CallKeys \cup Ops
    /\ MaxPasses \in Nat
    /\ Budgets \subseteq [jobs : SUBSET ({"room"} \cup Ops), who : SUBSET Workers,
                   late : SUBSET LateWrites, faults : Nat]

VARIABLES log,       \* the room's live events [seq, t, ref]
          end,       \* the last sequence of the room's subjects
          history,   \* asset -> live events of its aggregate
          created,   \* assets the projection knows as created and not deleted
          bytes,     \* assets with stored bytes
          unposted,  \* assets uploaded, and shown by no message so far
          keys,      \* call keys that exist
          issued,    \* call keys ever created: call IDs are not used again
          starting,  \* call key -> the room tail its join has seen, until the join has
                     \* stored CallStarted or given up; else 0
          live,      \* calls with devices that LiveKit lists
          grouped,   \* some group lists the room
          scoped,    \* room-scoped RBAC, preference and runtime state exists
          marker,    \* roomPurgeState of the room
          ops,       \* operation ID -> roomHistoryPurgeState
          lease,     \* the worker whose lease record is stored, or None
          w,         \* the workers
          jobs, who, late, faults  \* what is left of the budget

stream == <<log, end>>
media  == <<history, created, bytes, unposted>>
calls  == <<keys, issued, starting, live>>
side   == <<grouped, scoped>>
bounds == <<jobs, who, late, faults>>
vars   == <<stream, media, calls, side, marker, ops, lease, w, bounds>>

EventTypes == {"meta", "body", "call", "barrier", "tomb"}
NoMarker   == [st |-> "none", assets |-> {}, keys |-> {}]
NoOp       == [id |-> None, st |-> "none", barrier |-> 0]
NoRecord(i) == [NoOp EXCEPT !.id = i]      \* operation i has no record

\* A worker that does nothing: the locals of every operation at their zero.
Idle == [pc |-> "idle", job |-> "none",
         assets |-> {}, keys |-> {}, cleaned |-> {},  \* roomPurgeReferences
         cur |-> FALSE,      \* the marker revision it holds is the current one
         tail |-> 0,         \* the room tail it read
         through |-> 0, keep |-> {},  \* bounds of the secure delete in progress
         todo |-> {}, asset |-> None, \* assets still to delete, the one at hand
         pass |-> 0,
         op |-> NoOp]        \* its copy of a history purge record

Seqs(L)   == {e.seq : e \in L}
Tail      == Max({0} \cup Seqs(log))       \* LastSubjectSeq of the room's filter
Gone      == \E e \in log : e.t = "tomb"   \* GetRoom finds no room
CallRefs(L) == {e.ref : e \in {f \in L : f.t = "call"}}
BodyRefs(L) == {e.ref : e \in {f \in L : f.t = "body"}} \ {None}

Append(t, ref) ==
    /\ end' = end + 1
    /\ log' = log \cup {[seq |-> end + 1, t |-> t, ref |-> ref]}

\* The room before anybody deletes anything: a message with an attachment, a
\* running call, a place in a group, and the lifecycle event of its creation.
Init ==
    /\ LET a == CHOOSE b \in Assets : TRUE
           k == CHOOSE j \in CallKeys : TRUE
       IN
        /\ log = {[seq |-> 1, t |-> "meta", ref |-> None],
                  [seq |-> 2, t |-> "body", ref |-> a],
                  [seq |-> 3, t |-> "call", ref |-> k]}
        /\ bytes = {a} /\ created = {a}
        /\ keys = {k} /\ issued = {k} /\ live = {k}
        /\ history = [b \in Assets |-> IF b = a THEN {"created"} ELSE {}]
    /\ end = 3 /\ unposted = {} /\ starting = [k \in CallKeys |-> 0]
    /\ grouped = TRUE /\ scoped = TRUE
    /\ marker = NoMarker /\ ops = [o \in Ops |-> NoRecord(o)]
    /\ lease = None /\ w = [p \in Workers |-> Idle]
    /\ \E b \in Budgets : jobs = b.jobs /\ who = b.who /\ late = b.late /\ faults = b.faults

-----------------------------------------------------------------------------
(* Steps of a worker. *)

\* Worker p, at pc, sets the fields of s and goes on.
At(p, pcs)   == w[p].pc \in pcs
Goto(p, pc)  == w' = [w EXCEPT ![p].pc = pc]
Set(p, s)    == w' = [w EXCEPT ![p] = s]

\* withRoomPurgeLease: acquire (a worker that finds the lease taken returns
\* ErrRoomPurgeInProgress and changes nothing), and release what is still its own.
Acquire(p) == lease = None /\ lease' = p
Release(p) == lease' = IF lease = p THEN None ELSE lease

\* The operation returns.
Return(p) == Release(p) /\ Set(p, Idle)

\* A worker about to schedule the retry of history purge i.
Retry(i) == [Idle EXCEPT !.pc = "retry", !.op = NoRecord(i)]

\* A room purge or a start returns an error; the cleanup of a history purge
\* goes on to schedule its retry.
Abort(p) == /\ Release(p)
            /\ Set(p, IF w[p].job = "history" THEN Retry(w[p].op.id) ELSE Idle)

\* The room's call in the CallState projection, which RoomDeleted clears.
ActiveCalls == {e.ref : e \in {f \in log : /\ f.t = "call"
                                         /\ \A g \in log : g.t = "tomb" => g.seq < f.seq}}

\* updateRoomPurgeState: compare and swap on the marker's revision.  A lost race
\* is taken for success when the stored marker is complete.
UpdateMarker(p, m, s) ==
    \/ /\ w[p].cur
       /\ marker' = m
       /\ w' = [q \in Workers |-> IF q = p THEN s ELSE [w[q] EXCEPT !.cur = FALSE]]
       /\ IF s = Idle THEN Release(p) ELSE UNCHANGED lease
    \/ /\ ~w[p].cur /\ marker.st = "complete"
       /\ Set(p, IF s = Idle THEN Idle ELSE [s EXCEPT !.cur = TRUE])
       /\ IF s = Idle THEN Release(p) ELSE UNCHANGED lease
       /\ UNCHANGED marker
    \/ /\ ~w[p].cur /\ marker.st # "complete"
       /\ Abort(p)
       /\ UNCHANGED marker

\* roomPurgeIsQuiescent
Quiescent(p) ==
    /\ \E e \in log : log = {e} /\ e.t = "tomb"
    /\ ~scoped /\ ~grouped
    /\ created = {}
    /\ \A a \in w[p].assets : history[a] = {"deleted"}
    /\ ActiveCalls = {}

-----------------------------------------------------------------------------
(* PurgeArchivedRoom. *)

\* The owner's request takes the lease.
PurgeArchivedRoom(p) ==
    /\ "room" \in jobs
    /\ At(p, {"idle"}) /\ Acquire(p)
    /\ Set(p, [Idle EXCEPT !.pc = "prepare", !.job = "room"])
    /\ UNCHANGED <<stream, media, calls, side, marker, ops, bounds>>

\* Without a marker the room itself must be there.
PrepareFirst(p) ==
    /\ marker.st = "none"
    /\ IF Gone THEN Return(p) ELSE Goto(p, "createMarker") /\ UNCHANGED lease

\* A marker is taken up, or written anew while the room is still there and the
\* marker is complete or of another name or group (renamed).
PrepareAgain(p, renamed) ==
    /\ marker.st # "none"
    /\ Set(p, IF ~Gone /\ (marker.st = "complete" \/ renamed)
                THEN [w[p] EXCEPT !.pc = "restartMarker", !.cur = TRUE]
                ELSE [w[p] EXCEPT !.pc = IF marker.st = "complete" THEN "againCollect" ELSE "firstCollect",
                                  !.cur = TRUE, !.assets = marker.assets,
                                  !.keys = marker.keys, !.cleaned = marker.keys])
    /\ UNCHANGED lease

PrepareRoomFirst(p) ==
    /\ At(p, {"prepare"})
    /\ IF Gone /\ marker.st # "complete" THEN Return(p)
       ELSE PrepareFirst(p) \/ \E renamed \in BOOLEAN : PrepareAgain(p, renamed)
    /\ UNCHANGED <<stream, media, calls, side, marker, ops, bounds>>

\* prepareRoomPurge reads the marker and the room ...
Prepare(p) ==
    /\ At(p, {"prepare"})
    /\ PrepareFirst(p) \/ \E renamed \in BOOLEAN : PrepareAgain(p, renamed)
    /\ UNCHANGED <<stream, media, calls, side, marker, ops, bounds>>

\* ... creates the marker, or looks again when another request has ...
CreateMarker(p) ==
    /\ At(p, {"createMarker"})
    /\ IF marker.st = "none"
         THEN /\ marker' = [NoMarker EXCEPT !.st = "progress"]
              /\ Set(p, [w[p] EXCEPT !.pc = "firstCollect", !.cur = TRUE])
         ELSE Goto(p, "prepare") /\ UNCHANGED marker
    /\ UNCHANGED <<stream, media, calls, side, ops, lease, bounds>>

\* ... or writes it anew.
RestartMarker(p) ==
    /\ At(p, {"restartMarker"})
    /\ UpdateMarker(p, [NoMarker EXCEPT !.st = "progress"], [w[p] EXCEPT !.pc = "firstCollect"])
    /\ UNCHANGED <<stream, media, calls, side, ops, bounds>>

\* collectRoomPurgeReferences: what the events and the asset projection name, and
\* at the start of a pass the room's tail.
AfterCollect == [firstCollect |-> "live", againCollect |-> "recheck",
                 collect |-> "passLive", lastCollect |-> "lastLive"]
Collect(p) ==
    /\ At(p, DOMAIN AfterCollect)
    /\ Set(p, [w[p] EXCEPT !.pc = AfterCollect[@],
                           !.assets = @ \cup created,
                           !.keys = @ \cup CallRefs(log),
                           !.tail = IF w[p].pc = "collect" THEN Tail ELSE @])
    /\ UNCHANGED <<stream, media, calls, side, marker, ops, lease, bounds>>

\* purgeRoomLiveCall: the active call and those LiveKit lists are noted, and
\* their devices removed.
AfterLive == [live |-> "tombstone", passLive |-> "keys", lastLive |-> "lastKeys"]
PurgeLiveCall(p) ==
    /\ At(p, DOMAIN AfterLive)
    /\ Set(p, [w[p] EXCEPT !.pc = AfterLive[@], !.keys = @ \cup ActiveCalls \cup live])
    /\ live' = {}
    /\ UNCHANGED <<stream, media, keys, issued, starting, side, marker, ops, lease, bounds>>

\* A completed purge asked for again: nothing left, or the marker is reopened.
Recheck(p) ==
    /\ At(p, {"recheck"})
    /\ IF Quiescent(p)
         THEN Return(p) /\ UNCHANGED marker
         ELSE UpdateMarker(p, [marker EXCEPT !.st = "progress"], [w[p] EXCEPT !.pc = "live"])
    /\ UNCHANGED <<stream, media, calls, side, ops, bounds>>

\* ensureArchivedRoomPurgeTombstone
EnsureTombstone(p) ==
    /\ At(p, {"tombstone"})
    /\ IF Gone THEN UNCHANGED stream ELSE Append("tomb", None)
    /\ Goto(p, "cascade")
    /\ UNCHANGED <<media, calls, side, marker, ops, lease, bounds>>

\* ensureRoomPurgeGroupCascade, called before the passes, in every pass and
\* before the last look.
AfterCascade == [cascade |-> "collect", passCascade |-> "scoped", lastCascade |-> "lastCheck"]
GroupCascade(p) ==
    /\ At(p, DOMAIN AfterCascade)
    /\ grouped' = FALSE
    /\ Goto(p, AfterCascade[w[p].pc])
    /\ UNCHANGED <<stream, media, calls, scoped, marker, ops, lease, bounds>>

\* purgeRoomCallKeys: destroy one key, or go on.
ShredKey(p) ==
    /\ At(p, {"keys", "lastKeys"})
    /\ \/ \E k \in w[p].keys \ w[p].cleaned :
            /\ keys' = keys \ {k}
            /\ Set(p, [w[p] EXCEPT !.cleaned = @ \cup {k}])
       \/ /\ w[p].keys \subseteq w[p].cleaned
          /\ Set(p, LET A == w[p].assets \cup created
                    IN IF w[p].pc = "lastKeys" THEN [w[p] EXCEPT !.pc = "lastCascade"]
                       ELSE [w[p] EXCEPT !.pc = "assets", !.assets = A, !.todo = A])
          /\ UNCHANGED keys
    /\ UNCHANGED <<stream, media, issued, starting, live, side, marker, ops, lease, bounds>>

\* purgeRoomAssetsWithScope, for both operations: the bytes of one asset ...
DeleteBytes(p) ==
    /\ At(p, {"assets"})
    /\ \/ \E a \in w[p].todo :
            /\ bytes' = bytes \ {a}
            /\ Set(p, [w[p] EXCEPT !.pc = "assetTombstone", !.asset = a, !.todo = @ \ {a}])
       \/ /\ w[p].todo = {}
          /\ Goto(p, IF w[p].job = "room" THEN "passCascade" ELSE "erase")
          /\ UNCHANGED bytes
    /\ UNCHANGED <<stream, history, created, unposted, calls, side, marker, ops, lease, bounds>>

\* ... then its AssetDeleted event ...
AssetTombstone(p) ==
    /\ At(p, {"assetTombstone"})
    /\ history' = [history EXCEPT ![w[p].asset] = @ \cup {"deleted"}]
    /\ created' = created \ {w[p].asset}
    /\ Goto(p, "assetErase")
    /\ UNCHANGED <<stream, bytes, unposted, calls, side, marker, ops, lease, bounds>>

\* ... then the erasure of everything before that event.
AssetErase(p) ==
    /\ At(p, {"assetErase"})
    /\ history' = [history EXCEPT ![w[p].asset] = {"deleted"}]
    /\ Set(p, [w[p] EXCEPT !.pc = "assets", !.asset = None])
    /\ UNCHANGED <<stream, created, bytes, unposted, calls, side, marker, ops, lease, bounds>>

\* Secure deletion of the scoped RBAC aggregate and the room's preference
\* events, then purgeRoomRuntimeState.
PurgeScoped(p) ==
    /\ At(p, {"scoped"})
    /\ scoped' = FALSE
    /\ Goto(p, "journal")
    /\ UNCHANGED <<stream, media, calls, grouped, marker, ops, lease, bounds>>

\* captureReferences and updateRoomPurgeState
Journal(p) ==
    /\ At(p, {"journal"})
    /\ UpdateMarker(p, [st |-> "progress", assets |-> w[p].assets, keys |-> w[p].keys],
                    [w[p] EXCEPT !.pc = "replace"])
    /\ UNCHANGED <<stream, media, calls, side, ops, bounds>>

\* The loop's continue: another pass, or ErrRoomPurgeNotQuiescent.
NextPass(p) ==
    IF w[p].pass + 1 < MaxPasses
      THEN Set(p, [w[p] EXCEPT !.pc = "collect", !.tail = 0, !.pass = @ + 1]) /\ UNCHANGED lease
      ELSE Abort(p)

\* replaceRoomHistoryWithTombstone, its append at the tail the pass has read.
ReplaceAppend(p, atTail) ==
    /\ At(p, {"replace"})
    /\ \/ /\ atTail
          /\ Append("tomb", None)
          /\ Set(p, [w[p] EXCEPT !.pc = "erase", !.tail = 0, !.through = end + 1, !.keep = {end + 1}])
          /\ UNCHANGED lease
       \/ /\ ~atTail
          /\ NextPass(p) /\ UNCHANGED stream
    /\ UNCHANGED <<media, calls, side, marker, ops, bounds>>

ReplaceAnywhere(p) == ReplaceAppend(p, TRUE)
Replace(p) == ReplaceAppend(p, Tail = w[p].tail)

ErasableUnbounded(p) == {e \in log : e.seq \notin w[p].keep}
\* secureDeleteAggregate erases what is at most through and not kept ...
Erasable(p) == {e \in log : e.seq <= w[p].through /\ e.seq \notin w[p].keep}

EraseOne(p) ==
    /\ At(p, {"erase"})
    /\ \E e \in Erasable(p) : /\ \A f \in Erasable(p) : e.seq <= f.seq
                              /\ log' = log \ {e}
    /\ UNCHANGED <<end, media, calls, side, marker, ops, lease, w, bounds>>

EraseDoneUnchecked(p) ==
    /\ At(p, {"erase"})
    /\ Goto(p, IF w[p].job = "room" THEN "check" ELSE "finish")
    /\ UNCHANGED <<stream, media, calls, side, marker, ops, lease, bounds>>

\* ... counts what it was told to keep as it is fetched, and fails when one was not
\* there; one that another worker has erased may have been fetched before.
EraseDone(p) ==
    /\ At(p, {"erase"}) /\ Erasable(p) = {}
    /\ \/ /\ Set(p, [w[p] EXCEPT !.pc = IF w[p].job = "room" THEN "check" ELSE "finish",
                                !.through = 0, !.keep = {}])
          /\ UNCHANGED lease
       \/ ~(w[p].keep \subseteq Seqs(log)) /\ Abort(p)
    /\ UNCHANGED <<stream, media, calls, side, marker, ops, bounds>>

\* The two looks at what is left.
Check(p) ==
    /\ At(p, {"check", "lastCheck"})
    /\ IF Quiescent(p)
         THEN Goto(p, IF w[p].pc = "check" THEN "lastCollect" ELSE "complete") /\ UNCHANGED lease
         ELSE NextPass(p)
    /\ UNCHANGED <<stream, media, calls, side, marker, ops, bounds>>

\* The marker is set to complete, its references cleared, and the request ends.
Complete(p) ==
    /\ At(p, {"complete"})
    /\ UpdateMarker(p, [NoMarker EXCEPT !.st = "complete"], Idle)
    /\ UNCHANGED <<stream, media, calls, side, ops, bounds>>

-----------------------------------------------------------------------------
(* StartRoomHistoryPurge and the history purge worker.                     *)

Store(r)   == ops' = [ops EXCEPT ![r.id] = r]
Remove(id) == ops' = [ops EXCEPT ![id] = NoRecord(id)]

\* The request, with a new operation ID and the room revision the client saw: take
\* the lease and find no running operation of the room ...
StartRoomHistoryPurge(p, o) ==
    /\ o \in jobs /\ jobs' = jobs \ {o}
    /\ At(p, {"idle"}) /\ Acquire(p)
    /\ ~Gone /\ \A i \in Ops : ops[i].st # "running"
    /\ Set(p, [Idle EXCEPT !.pc = "create", !.job = "start", !.tail = Tail,
                           !.op = [id |-> o, st |-> "running", barrier |-> 0]])
    /\ UNCHANGED <<stream, media, calls, side, marker, ops, who, late, faults>>

\* ... create the running record ...
CreateOperation(p) ==
    /\ At(p, {"create"})
    /\ Store(w[p].op)
    /\ Goto(p, "barrier")
    /\ UNCHANGED <<stream, media, calls, side, marker, lease, bounds>>

\* ... append the barrier at that revision, or on a conflict purge the record ...
PublishBarrier(p) ==
    /\ At(p, {"barrier"})
    /\ \/ /\ Tail = w[p].tail
          /\ Append("barrier", w[p].op.id)
          /\ Set(p, [w[p] EXCEPT !.pc = "putBarrier", !.op.barrier = end + 1])
          /\ UNCHANGED <<ops, lease>>
       \/ /\ Tail # w[p].tail
          /\ Remove(w[p].op.id)
          /\ Return(p) /\ UNCHANGED stream
    /\ UNCHANGED <<media, calls, side, marker, bounds>>

\* ... and store its sequence in the record.
PutBarrier(p) ==
    /\ At(p, {"putBarrier"})
    /\ Store(w[p].op)
    /\ Return(p)
    /\ UNCHANGED <<stream, media, calls, side, marker, bounds>>

PublishedScan(o) == ops[o].barrier # 0
\* processPendingRoomHistoryPurges lists the running records ...
Pending(o) == ops[o].st = "running"

\* ... and processRoomHistoryPurge reads one of them.
ScanHistoryPurges(p, o) ==
    /\ At(p, {"idle"}) /\ Pending(o)
    /\ Set(p, [Idle EXCEPT !.op = ops[o], !.pc = IF ops[o].barrier = 0 THEN "recover" ELSE "work"])
    /\ UNCHANGED <<stream, media, calls, side, marker, ops, lease, bounds>>

\* recoverRoomHistoryPurgeBarrier, without the lease: the sequence of the
\* operation's barrier is taken from the room's events and stored.
RecoverBarrier(p) ==
    /\ At(p, {"recover"})
    /\ LET own == {e \in log : e.t = "barrier" /\ e.ref = w[p].op.id}
       IN  \/ \E e \in own : Store([w[p].op EXCEPT !.barrier = e.seq]) /\ Goto(p, "work")
           \/ own = {} /\ Goto(p, "fail") /\ UNCHANGED ops
    /\ UNCHANGED <<stream, media, calls, side, marker, lease, bounds>>

\* failRoomHistoryPurge stores the worker's own copy as failed.
FailHistoryPurge(p) ==
    /\ At(p, {"fail"})
    /\ Store([w[p].op EXCEPT !.st = "failed"])
    /\ Set(p, Idle)
    /\ UNCHANGED <<stream, media, calls, side, marker, lease, bounds>>

\* processRoomHistoryPurge under the lease; a lease that is taken leads to a retry.
ProcessHistoryPurge(p) ==
    /\ At(p, {"work"})
    /\ LET o == ops[w[p].op.id]
       IN  \/ /\ o.st = "running" /\ Acquire(p)
              /\ Set(p, [Idle EXCEPT !.job = "history", !.op = o, !.pc = "snapshot"])
           \/ /\ o.st # "running" /\ lease = None
              /\ Set(p, Idle) /\ UNCHANGED lease
           \/ /\ lease # None
              /\ Set(p, Retry(w[p].op.id)) /\ UNCHANGED lease
    /\ UNCHANGED <<stream, media, calls, side, marker, ops, bounds>>

KeptBarrierOnly(p) == {w[p].op.barrier}
\* The room's events up to the barrier that messages do not own (isMessageOwnedRoomEvent).
Kept(p) == Seqs({e \in log : e.seq <= w[p].op.barrier /\ e.t # "body"})

\* cleanupRoomHistoryThrough: what the messages up to the barrier refer to.
HistorySnapshot(p) ==
    /\ At(p, {"snapshot"})
    /\ IF w[p].op.barrier \in Seqs(log)
         THEN LET A == BodyRefs({e \in log : e.seq <= w[p].op.barrier})
              IN  /\ Set(p, [w[p] EXCEPT !.pc = "assets", !.assets = A, !.todo = A,
                                         !.through = w[p].op.barrier, !.keep = Kept(p)])
                  /\ UNCHANGED lease
         ELSE Abort(p)
    /\ UNCHANGED <<stream, media, calls, side, marker, ops, bounds>>

FinishHistoryPurgeHeld(p) ==
    /\ At(p, {"finish"})
    /\ Store([w[p].op EXCEPT !.st = "completed"])
    /\ Set(p, Idle)
    /\ UNCHANGED <<stream, media, calls, side, marker, lease, bounds>>

\* The record is stored as completed, and the lease released.
FinishHistoryPurge(p) ==
    /\ At(p, {"finish"})
    /\ Store([w[p].op EXCEPT !.st = "completed"])
    /\ Return(p)
    /\ UNCHANGED <<stream, media, calls, side, marker, bounds>>

\* scheduleRoomHistoryPurgeRetry reads the record ...
ReadForRetry(p) ==
    /\ At(p, {"retry"})
    /\ LET o == ops[w[p].op.id]
       IN  Set(p, IF o.st = "running" THEN [Idle EXCEPT !.pc = "putRetry", !.op = o] ELSE Idle)
    /\ UNCHANGED <<stream, media, calls, side, marker, ops, lease, bounds>>

\* ... and stores it again with the delay.
PutRetry(p) ==
    /\ At(p, {"putRetry"})
    /\ Store(w[p].op)
    /\ Set(p, Idle)
    /\ UNCHANGED <<stream, media, calls, side, marker, lease, bounds>>

-----------------------------------------------------------------------------
(* Writers authorized earlier, and faults.  A room that is there may refuse   *)
(* new content (archived, locked): nothing obliges these steps to be taken.   *)

Late(x) == x \in late /\ late' = late \ {x} /\ UNCHANGED <<jobs, who>>
Fault   == faults > 0 /\ faults' = faults - 1 /\ UNCHANGED <<jobs, who>>

\* An upload stores the bytes ...
UploadBytes(a) ==
    /\ Late("upload") /\ history[a] = {} /\ a \notin bytes \cup unposted
    /\ bytes' = bytes \cup {a} /\ unposted' = unposted \cup {a}
    /\ UNCHANGED <<stream, history, created, calls, side, marker, ops, lease, w, faults>>

\* ... then records the asset, at a room tail at which the room accepts content ...
RecordAssetCreated(a) ==
    /\ a \in unposted /\ history[a] = {} /\ ~Gone
    /\ history' = [history EXCEPT ![a] = {"created"}]
    /\ created' = created \cup {a}
    /\ UNCHANGED <<stream, bytes, unposted, calls, side, marker, ops, lease, w, bounds>>

\* ... or is refused or fails, also when the event was stored, and takes the bytes
\* back.
RefuseAsset(a) ==
    /\ a \in unposted /\ history[a] = {}
    /\ \/ UNCHANGED <<history, created, bounds>>
       \/ /\ ~Gone /\ Fault /\ UNCHANGED late
          /\ history' = [history EXCEPT ![a] = {"created"}]
          /\ created' = created \cup {a}
    /\ bytes' = bytes \ {a} /\ unposted' = unposted \ {a}
    /\ UNCHANGED <<stream, calls, side, marker, ops, lease, w>>

\* A message is stored at a room tail at which the room accepts content.  Its
\* attachment was resolved some time before: it has been recorded, may have been
\* shown already, and may be deleted by now.
PostMessage(a) ==
    /\ Late("post") /\ ~Gone /\ history[a] # {}
    /\ Append("body", a)
    /\ unposted' = unposted \ {a}
    /\ UNCHANGED <<history, created, bytes, calls, side, marker, ops, lease, w, faults>>

\* The echo of a reply that was posted before, and may be erased by now: a clone of
\* its body, stored without a look at the room.
EchoMessage(a) ==
    /\ Late("echo") /\ history[a] # {} /\ a \notin unposted
    /\ Append("body", a)
    /\ UNCHANGED <<media, calls, side, marker, ops, lease, w, faults>>

\* A join that starts a call creates its key ...
CreateCallKey(k) ==
    /\ Late("call") /\ k \notin issued
    /\ keys' = keys \cup {k} /\ issued' = issued \cup {k}
    /\ starting' = [starting EXCEPT ![k] = Tail]
    /\ UNCHANGED <<stream, media, live, side, marker, ops, lease, w, faults>>

\* ... then stores CallStarted, at the tail it has seen ...
CallStarted(k) ==
    /\ starting[k] # 0 /\ Tail = starting[k]
    /\ Append("call", k)
    /\ starting' = [starting EXCEPT ![k] = 0]
    /\ UNCHANGED <<media, keys, issued, live, side, marker, ops, lease, w, bounds>>

\* ... or destroys the key: the tail has moved, or the append has failed, also
\* when the event was stored.
CallFails(k) ==
    /\ starting[k] # 0
    /\ \/ UNCHANGED <<stream, bounds>>
       \/ Tail = starting[k] /\ Append("call", k) /\ Fault /\ UNCHANGED late
    /\ keys' = keys \ {k} /\ starting' = [starting EXCEPT ![k] = 0]
    /\ UNCHANGED <<media, issued, live, side, marker, ops, lease, w>>

\* A device connects to LiveKit, or is back, with the token of an earlier join.
ConnectDevice(k) ==
    /\ Late("device") /\ k \in issued /\ starting[k] = 0
    /\ live' = live \cup {k}
    /\ UNCHANGED <<stream, media, keys, issued, starting, side, marker, ops, lease, w, faults>>

\* A role grant, a preference or a read cursor of the room ...
WriteScoped ==
    /\ Late("scoped") /\ scoped' = TRUE
    /\ UNCHANGED <<stream, media, calls, grouped, marker, ops, lease, w, faults>>

\* ... and a move of the room into a group.
MoveIntoGroup ==
    /\ Late("grouped") /\ grouped' = TRUE
    /\ UNCHANGED <<stream, media, calls, scoped, marker, ops, lease, w, faults>>

Working == {"prepare", "createMarker", "restartMarker", "recheck", "tombstone", "keys",
            "lastKeys", "assets", "assetTombstone", "assetErase", "scoped", "journal",
            "replace", "erase", "check", "lastCheck", "complete", "snapshot", "finish",
            "create", "putBarrier"}
               \cup DOMAIN AfterCascade \cup DOMAIN AfterCollect \cup DOMAIN AfterLive

\* A call fails, or the context was cancelled because the lease was lost.
StepFails(p) ==
    /\ At(p, Working)
    /\ IF lease = p THEN Fault ELSE UNCHANGED <<jobs, who, faults>>
    /\ Abort(p)
    /\ UNCHANGED <<stream, media, calls, side, marker, ops, late>>

\* The barrier's append fails, stored or not: the record is purged.
BarrierFails(p) ==
    /\ At(p, {"barrier"}) /\ Fault
    /\ \/ Tail = w[p].tail /\ Append("barrier", w[p].op.id)
       \/ UNCHANGED stream
    /\ Remove(w[p].op.id) /\ Return(p)
    /\ UNCHANGED <<media, calls, side, marker, late>>

\* The process dies and its lease record expires; or a background pass gives up
\* on an error before it has the lease, until its next scan.
Crash(p) ==
    /\ ~At(p, {"idle"}) /\ Fault
    /\ Return(p)
    /\ UNCHANGED <<stream, media, calls, side, marker, ops, late>>

\* The lease record expires under a slow worker.
LoseLease(p) ==
    /\ lease = p /\ Fault
    /\ lease' = None
    /\ UNCHANGED <<stream, media, calls, side, marker, ops, w, late>>

-----------------------------------------------------------------------------
PurgeStep(p) ==
    \/ Prepare(p) \/ CreateMarker(p) \/ RestartMarker(p) \/ Collect(p) \/ Recheck(p)
    \/ PurgeLiveCall(p) \/ EnsureTombstone(p) \/ GroupCascade(p) \/ ShredKey(p)
    \/ DeleteBytes(p) \/ AssetTombstone(p) \/ AssetErase(p) \/ PurgeScoped(p) \/ Journal(p)
    \/ Replace(p) \/ EraseOne(p) \/ EraseDone(p) \/ Check(p) \/ Complete(p)

HistoryStep(p) ==
    \/ CreateOperation(p) \/ PublishBarrier(p) \/ PutBarrier(p) \/ RecoverBarrier(p)
    \/ FailHistoryPurge(p) \/ ProcessHistoryPurge(p) \/ HistorySnapshot(p)
    \/ FinishHistoryPurge(p) \/ ReadForRetry(p) \/ PutRetry(p)

Next ==
    \/ \E p \in Requests \cap who :
        PurgeArchivedRoom(p) \/ \E o \in Ops : StartRoomHistoryPurge(p, o)
    \/ \E p \in Passes \cap who, o \in Ops : ScanHistoryPurges(p, o)
    \/ \E p \in Workers :
        \/ PurgeStep(p) \/ HistoryStep(p)
        \/ StepFails(p) \/ BarrierFails(p) \/ Crash(p) \/ LoseLease(p)
    \/ \E a \in Assets : \/ UploadBytes(a) \/ RecordAssetCreated(a) \/ RefuseAsset(a)
                         \/ PostMessage(a) \/ EchoMessage(a)
    \/ \E k \in CallKeys : \/ CreateCallKey(k) \/ CallStarted(k) \/ CallFails(k)
                           \/ ConnectDevice(k)
    \/ WriteScoped \/ MoveIntoGroup

Spec == Init /\ [][Next]_vars

\* A worker takes its next step.  The ticker of the background passes goes through
\* every running record again and again.  The owner, to whom no success was
\* reported yet, asks again and finds the lease free every now and then.
Fairness ==
    /\ \A p \in Workers : WF_vars(PurgeStep(p) \/ HistoryStep(p))
    /\ \A o \in Ops : SF_vars(\E p \in Passes \cap who : ScanHistoryPurges(p, o))
    /\ SF_vars(marker.st = "progress" /\ \E p \in Requests \cap who : PurgeArchivedRoom(p))
FairSpec == Spec /\ Fairness
-----------------------------------------------------------------------------
(* Properties. *)

OpRecord == [id : Ops \cup {None}, st : {"none", "running", "completed", "failed"},
             barrier : Nat]

\* A message names its attachment, a call its key, a barrier its operation.
Event ==
    {e \in [seq : 1..end, t : EventTypes, ref : Assets \cup CallKeys \cup Ops \cup {None}] :
        /\ e.t = "body" => e.ref \in Assets
        /\ e.t = "call" => e.ref \in CallKeys
        /\ e.t = "barrier" => e.ref \in Ops
        /\ e.t \in {"meta", "tomb"} => e.ref = None}

\* Where a worker of each operation can be.
RoomPCs == {"prepare", "createMarker", "restartMarker", "recheck", "tombstone", "keys",
            "assets", "assetTombstone", "assetErase", "scoped", "journal", "replace",
            "erase", "check", "lastKeys", "lastCheck", "complete"}
               \cup DOMAIN AfterCascade \cup DOMAIN AfterCollect \cup DOMAIN AfterLive
HistoryPCs == {"snapshot", "assets", "assetTombstone", "assetErase", "erase", "finish"}
StartPCs == {"create", "barrier", "putBarrier"}
FreePCs == {"idle", "recover", "fail", "work", "retry", "putRetry"}

PCs == RoomPCs \cup HistoryPCs \cup FreePCs \cup StartPCs

WorkerState ==
    [pc : PCs,
     job : {"none", "room", "start", "history"},
     assets : SUBSET Assets, keys : SUBSET CallKeys, cleaned : SUBSET CallKeys,
     cur : BOOLEAN, tail : Nat, through : Nat, keep : SUBSET Nat,
     todo : SUBSET Assets, asset : Assets \cup {None}, pass : Nat, op : OpRecord]

\* Types, and a stored lease has a worker at work under it: nobody goes away
\* leaving the room locked (the deferred release of withRoomPurgeLease).
TypeOK ==
    /\ end \in Nat /\ log \subseteq Event
    /\ history \in [Assets -> SUBSET {"created", "deleted"}]
    /\ created \cup bytes \cup unposted \subseteq Assets
    /\ keys \cup issued \cup live \subseteq CallKeys
    /\ starting \in [CallKeys -> Nat]
    /\ {grouped, scoped} \subseteq BOOLEAN
    /\ marker \in [st : {"none", "progress", "complete"},
                   assets : SUBSET Assets, keys : SUBSET CallKeys]
    /\ ops \in [Ops -> OpRecord]
    /\ w \in [Workers -> WorkerState]
    /\ lease \in Workers \cup {None}
    /\ lease # None => w[lease].job # "none"

\* No event that names a call key or an attachment is erased while the key or
\* the bytes exist: what is left after a crash, a failure, a lost lease or a late
\* write can still be found from the room's events, or by the join or the upload
\* that has not stored its own event yet (the order of a pass, the expected
\* sequence of replaceRoomHistoryWithTombstone, cleanupRoomHistoryThrough).
NothingOrphaned ==
    /\ keys \subseteq CallRefs(log) \cup {k \in CallKeys : starting[k] # 0}
    /\ bytes \subseteq BodyRefs(log) \cup unposted

\* Once the room's RoomDeleted event is stored, one is there at every moment, also
\* while two workers erase the room at the same time (the tombstone-first order
\* and the upper bound of SecureDeleteAggregateThroughExcept).
TombstoneStays == [][Gone => Gone']_vars

\* A history purge that reports completion has left no message event up to the
\* barrier it published, and no bytes that only those messages name (with
\* NothingOrphaned), whichever worker stored the record last.
CompletedMeansErased ==
    \A o \in Ops : ops[o].st = "completed" =>
        \A b, e \in log : b.t = "barrier" /\ b.ref = o /\ e.t = "body" => e.seq > b.seq

\* While the room exists, only message events before a stored barrier are ever
\* erased, and only attachments that such a message names lose their bytes: the
\* room's lifecycle, its calls, every event written after the barrier and an
\* attachment that only later messages show stay (cleanupRoomHistoryThrough,
\* keepSequences).  An attachment also named after the barrier is not spared.
HistoryPurgeIsSelective ==
    [][~Gone =>
          LET old == {e \in log : e.t = "body" /\ \E b \in log : b.t = "barrier" /\ e.seq < b.seq}
          IN  log \ log' \subseteq old /\ (bytes \cap created) \ bytes' \subseteq BodyRefs(old)]_vars

\* A purge that has begun is completed: after any crash, lost lease, failed step or
\* late write the owner's retries take up the marker, and when it is complete
\* nothing of the room older than its tombstone is left (PurgeArchivedRoom with
\* its marker, its passes and its second look).  Writes that come after the last
\* look are not promised to be found.
PurgeCompletes ==
    (marker.st = "progress") ~>
        (marker.st = "complete" /\ \E t \in log : t.t = "tomb" /\ \A e \in log : t.seq <= e.seq)

\* A running history purge ends, unless the room itself is deleted under it: one
\* that stopped between its record, its barrier and the record of the barrier is
\* recovered or failed by a later pass (processRoomHistoryPurge).
HistoryPurgeEnds ==
    \A o \in Ops : (ops[o].st = "running") ~> (ops[o].st # "running" \/ Gone)
=============================================================================
