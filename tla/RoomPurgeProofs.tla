-------------------------- MODULE RoomPurgeProofs --------------------------
(***************************************************************************)
(* Proofs about RoomPurge, for any number of workers, operations, assets,  *)
(* calls, late writes and faults.                                          *)
(***************************************************************************)
EXTENDS RoomPurge, TLAPS

\* Each operation has its own steps, and nobody else takes them; whoever works for
\* a history purge knows its ID.
JobSteps(s) ==
    /\ s.job = "room"    => s.pc \in RoomPCs
    /\ s.job = "history" => s.pc \in HistoryPCs
    /\ s.job = "start"   => s.pc \in StartPCs
    /\ s.job = "none"    => s.pc \in FreePCs
    /\ s.job # "room" /\ s.pc # "idle" => s.op.id \in Ops

\* The room's events: a sequence names one event, an operation has one barrier,
\* and the last event stored is never erased, so that the tail a worker reads is
\* the stream's own end.
Sequenced ==
    /\ \A e, f \in log : e.seq = f.seq => e = f
    /\ \A e, f \in log : e.t = "barrier" /\ f.t = "barrier" /\ e.ref = f.ref => e = f
    /\ \E e \in log : e.seq = end

\* Attachments are recorded before they are shown, and never again after their
\* deletion; calls, and the devices in them, have had a key.
Recorded ==
    /\ \A e \in log : /\ e.t = "body" => history[e.ref] # {} /\ e.ref \notin unposted
                      /\ e.t = "call" => e.ref \in issued
    /\ keys \cup live \subseteq issued
    /\ \A k \in CallKeys : starting[k] # 0 => k \in issued
    /\ \A a \in created : history[a] # {}
    /\ \A a \in bytes : history[a] # {} => a \in created

\* What a purge has noted is recorded; keys it has cleaned stay destroyed.
Noted(S, K, cleaned) ==
    /\ \A a \in S : history[a] # {}
    /\ K \subseteq issued /\ cleaned \subseteq issued /\ cleaned \cap keys = {}

\* A record of a history purge names the operation's barrier, if the room is there.
NamesBarrier(o) ==
    o.barrier # 0 =>
        /\ o.barrier <= end
        /\ \A e \in log : e.seq = o.barrier <=> e.t = "barrier" /\ e.ref = o.id
        /\ Gone \/ \E e \in log : e.seq = o.barrier

\* A room purge works under a tombstone once it has stored or seen one.
Untombed == {"prepare", "createMarker", "restartMarker", "firstCollect", "againCollect",
             "recheck", "live", "tombstone"}
Tombed(s) == s.job = "room" /\ s.pc \notin Untombed => Gone

\* The pass of a room purge: what the room's events up to the tail it has read
\* refer to is noted, then destroyed.
Passing(s) ==
    s.job = "room" /\ s.pc \in {"passLive", "keys", "assets", "assetTombstone", "assetErase",
                                "passCascade", "scoped", "journal", "replace"} =>
        /\ s.tail <= end
        /\ \A e \in log : e.seq <= s.tail =>
              /\ e.t = "call" => e.ref \in s.keys
              /\ e.t = "body" /\ e.ref \in bytes =>
                    e.ref \in IF s.pc \in {"passLive", "keys"} THEN s.assets ELSE s.todo
        /\ s.pc \notin {"passLive", "keys"} => s.keys \subseteq s.cleaned
        /\ s.pc \in {"passCascade", "scoped", "journal", "replace"} => s.todo = {}

\* ... after which it erases what is before the tombstone it has stored.
RoomErasing(s) ==
    s.job = "room" /\ s.pc = "erase" =>
        /\ s.through \in 1..end /\ s.keep = {s.through}
        /\ \E e \in log : e.t = "tomb" /\ e.seq >= s.through
        /\ \A e \in log : e.seq < s.through =>
              (e.t = "call" => e.ref \notin keys) /\ (e.t = "body" => e.ref \notin bytes)

\* A history purge deletes the attachments that messages up to its barrier name,
\* whoever else names them, and then erases those messages.
HistoryErasing(s) ==
    s.job = "history" /\ s.pc \in {"assets", "assetTombstone", "assetErase", "erase"} =>
        /\ s.through = s.op.barrier /\ s.through \in 1..end /\ s.keep \subseteq 1..end
        /\ \A e \in log : e.seq <= s.through =>
              /\ e.t = "body" <=> e.seq \notin s.keep
              /\ e.t = "body" /\ e.ref \in bytes => e.ref \in s.todo
        /\ \A a \in s.todo \cap bytes : \E e \in log : e.t = "body" /\ e.ref = a /\ e.seq <= s.through
        /\ s.pc = "erase" => s.todo = {}

\* A completed one has erased them.
ErasedThrough(o) ==
    o.barrier # 0 /\ \A e \in log : e.t = "body" => e.seq > o.barrier

\* The copies of a record that workers hold, and will store.
Copied(s) ==
    /\ NamesBarrier(s.op)
    /\ s.pc \in {"recover", "fail", "putRetry"} \cup StartPCs \/ s.job = "history"
          => s.op.st = "running"
    /\ s.job = "history" /\ s.pc = "finish" => ErasedThrough(s.op)

\* A request that is about to store its barrier: the operation has none yet, and
\* the room was there at the tail it has read.
Beginning == {"create", "barrier"}
Starting(p) ==
    w[p].pc \in Beginning =>
        /\ \A e \in log : e.t = "barrier" => e.ref # w[p].op.id
        /\ w[p].tail <= end /\ (Gone => w[p].tail < end)
        /\ \A q \in Workers : w[q].pc \in Beginning /\ w[q].op.id = w[p].op.id => q = p

\* An operation ID that was not used: no barrier, and no request that stores one.
Fresh ==
    \A i \in jobs :
        /\ \A e \in log : e.t = "barrier" => e.ref # i
        /\ \A q \in Workers : w[q].pc \in Beginning => w[q].op.id # i

Known(s) ==
    /\ Noted(s.assets \cup s.todo, s.keys, s.cleaned)
    /\ s.pc \in {"assetTombstone", "assetErase"} =>
          s.asset \in Assets \ bytes /\ history[s.asset] # {}

Worker(s) ==
    JobSteps(s) /\ Tombed(s) /\ Known(s) /\ Passing(s) /\ RoomErasing(s)
        /\ HistoryErasing(s) /\ Copied(s)

IInv ==
    /\ TypeOK /\ Sequenced /\ Recorded /\ NothingOrphaned
    /\ Noted(marker.assets, marker.keys, marker.keys)
    /\ \A i \in Ops : /\ ops[i].id = i /\ NamesBarrier(ops[i])
                      /\ ops[i].st = "completed" => ErasedThrough(ops[i])
    /\ \A p \in Workers : Worker(w[p]) /\ Starting(p)
    /\ Fresh

-----------------------------------------------------------------------------
(* Types.                                                                  *)

\* Every place a worker can be.
LEMMA PCList ==
    /\ RoomPCs = {"prepare", "createMarker", "restartMarker", "firstCollect", "againCollect",
                  "recheck", "live", "tombstone", "cascade", "collect", "passLive", "keys",
                  "assets", "assetTombstone", "assetErase", "passCascade", "scoped", "journal",
                  "replace", "erase", "check", "lastCollect", "lastLive", "lastKeys",
                  "lastCascade", "lastCheck", "complete"}
    /\ PCs = RoomPCs \cup {"snapshot", "finish", "idle", "recover", "fail", "work", "retry",
                           "putRetry", "create", "barrier", "putBarrier"}
  BY DEF PCs, RoomPCs, HistoryPCs, FreePCs, StartPCs, AfterCascade, AfterCollect, AfterLive

LEMMA IdleTyped ==
    /\ Idle \in WorkerState /\ NoOp \in OpRecord /\ Idle.op = NoOp /\ NoOp.barrier = 0
    /\ \A i \in Ops : NoRecord(i) \in OpRecord /\ NoRecord(i).id = i
                      /\ NoRecord(i).barrier = 0 /\ NoRecord(i).st = "none"
  BY PCList DEF Idle, WorkerState, NoOp, NoRecord, OpRecord

\* Setting fields of a worker.
LEMMA SetPC ==
    ASSUME NEW s \in WorkerState, NEW pc \in PCs
    PROVE  /\ [s EXCEPT !.pc = pc] \in WorkerState
           /\ [s EXCEPT !.pc = pc].pc = pc
           /\ [s EXCEPT !.pc = pc].job = s.job
           /\ [s EXCEPT !.pc = pc].op = s.op
  BY DEF WorkerState

\* The workers and the lease: their part of the types, with JobSteps.
WorkersOK ==
    /\ w \in [Workers -> WorkerState]
    /\ lease \in Workers \cup {None}
    /\ lease # None => w[lease].job # "none"
    /\ \A p \in Workers : JobSteps(w[p])

\* A step of worker p that leaves it in s, the others as they are (up to the
\* currency of the marker revision they hold).
Takes(p, s) ==
    /\ s \in WorkerState
    /\ w' \in [Workers -> WorkerState]
    /\ w'[p] = s
    /\ \A q \in Workers \ {p} : w'[q] = w[q] \/ w'[q] = [w[q] EXCEPT !.cur = FALSE]

\* The lease is kept, taken or given back.
Leases(p, s) ==
    \/ lease' = lease /\ (lease = p => s.job # "none")
    \/ lease' = p /\ s.job # "none"
    \/ lease' = IF lease = p THEN None ELSE lease
    \/ lease' = None

LEMMA TakesOK ==
    ASSUME WorkersOK, NEW p \in Workers, NEW s, Takes(p, s), JobSteps(s), Leases(p, s)
    PROVE  WorkersOK'
  <1>1. ASSUME NEW q \in Workers
        PROVE  /\ JobSteps(w'[q])
               /\ q # p => w'[q].job = w[q].job
    BY DEF WorkersOK, Takes, JobSteps, WorkerState
  <1>2. lease' \in Workers \cup {None} /\ p # None
    BY RoomPurgeAssumption DEF WorkersOK, Leases
  <1>3. ASSUME lease' # None PROVE w'[lease'].job # "none"
    <2>1. CASE lease' = p
      BY <1>2, <2>1 DEF WorkersOK, Takes, Leases
    <2>2. CASE lease' # p
      BY <1>1, <1>2, <1>3, <2>2 DEF WorkersOK, Takes, Leases
    <2> QED BY <2>1, <2>2
  <1> QED BY <1>1, <1>2, <1>3 DEF WorkersOK, Takes

LEMMA SetTakes ==
    ASSUME WorkersOK, NEW p \in Workers, NEW s \in WorkerState, Set(p, s)
    PROVE  Takes(p, s)
  BY DEF WorkersOK, Takes, Set

LEMMA GotoTakes ==
    ASSUME WorkersOK, NEW p \in Workers, NEW pc \in PCs, Goto(p, pc)
    PROVE  Takes(p, [w[p] EXCEPT !.pc = pc])
  <1>1. w[p] \in WorkerState /\ [w[p] EXCEPT !.pc = pc] \in WorkerState
    BY SetPC DEF WorkersOK
  <1>2. w' = [w EXCEPT ![p] = [w[p] EXCEPT !.pc = pc]]
    BY DEF Goto
  <1> QED BY <1>1, <1>2 DEF WorkersOK, Takes

\* What a worker is that is done, or has given up.
Stopped == {Idle} \cup {Retry(i) : i \in Ops}

LEMMA StoppedFields ==
    ASSUME NEW s \in Stopped
    PROVE  /\ s \in WorkerState /\ JobSteps(s) /\ s.job = "none" /\ s.pc \in {"idle", "retry"}
           /\ s.assets = {} /\ s.keys = {} /\ s.cleaned = {} /\ s.todo = {}
           /\ s.op.barrier = 0 /\ s.op \in OpRecord
  <1>1. CASE s = Idle
    BY <1>1, IdleTyped DEF Idle, JobSteps, FreePCs
  <1>2. ASSUME NEW i \in Ops, s = Retry(i)
        PROVE  /\ s \in WorkerState /\ s.job = "none" /\ s.pc = "retry"
               /\ s.assets = {} /\ s.keys = {} /\ s.cleaned = {} /\ s.todo = {}
               /\ s.op = NoRecord(i)
    <2>1. PICK o \in OpRecord : o = NoRecord(i)
      BY IdleTyped
    <2>2. s = [Idle EXCEPT !.pc = "retry", !.op = o]
      BY <1>2, <2>1 DEF Retry
    <2>3. "retry" \in PCs
      BY PCList
    <2> QED BY <2>1, <2>2, <2>3, IdleTyped DEF Idle, WorkerState
  <1>3. ASSUME NEW i \in Ops, s = Retry(i)
        PROVE  /\ JobSteps(s) /\ s.op.barrier = 0 /\ s.op \in OpRecord
    BY <1>2, <1>3, IdleTyped DEF JobSteps, FreePCs
  <1> QED BY <1>1, <1>2, <1>3 DEF Stopped

LEMMA ReturnTakes ==
    ASSUME WorkersOK, NEW p \in Workers, Return(p)
    PROVE  Idle \in Stopped /\ Takes(p, Idle) /\ Leases(p, Idle)
  BY SetTakes, IdleTyped DEF Return, Release, Leases, Stopped

LEMMA AbortTakes ==
    ASSUME WorkersOK, NEW p \in Workers, Abort(p)
    PROVE  \E s \in Stopped : Takes(p, s) /\ Leases(p, s)
  <1>1. PICK s : /\ s = IF w[p].job = "history" THEN Retry(w[p].op.id) ELSE Idle
                 /\ Set(p, s)
    BY DEF Abort
  <1>2. s \in Stopped
    <2>1. CASE w[p].job = "history"
      <3>1. w[p].op.id \in Ops
        BY <2>1 DEF WorkersOK, JobSteps, HistoryPCs
      <3> QED BY <1>1, <2>1, <3>1 DEF Stopped
    <2>2. CASE w[p].job # "history"
      BY <1>1, <2>2 DEF Stopped
    <2> QED BY <2>1, <2>2
  <1> QED BY <1>1, <1>2, SetTakes, StoppedFields DEF Abort, Release, Leases

\* updateRoomPurgeState leaves the worker in s, or gives up.
LEMMA UpdateMarkerTakes ==
    ASSUME WorkersOK, NEW p \in Workers, NEW s \in WorkerState,
           NEW m, s = Idle \/ s.job # "none", UpdateMarker(p, m, s)
    PROVE  /\ \E r \in {s, [s EXCEPT !.cur = TRUE]} \cup Stopped :
                 Takes(p, r) /\ Leases(p, r)
           /\ marker' \in {m, marker}
  <1>1. CASE /\ marker' = m
             /\ w' = [q \in Workers |-> IF q = p THEN s ELSE [w[q] EXCEPT !.cur = FALSE]]
             /\ IF s = Idle THEN Release(p) ELSE UNCHANGED lease
    <2>1. \A q \in Workers : [w[q] EXCEPT !.cur = FALSE] \in WorkerState
      BY DEF WorkersOK, WorkerState
    <2>2. Takes(p, s)
      BY <1>1, <2>1 DEF Takes
    <2> QED BY <1>1, <2>2 DEF Leases, Release
  <1>2. CASE /\ Set(p, IF s = Idle THEN Idle ELSE [s EXCEPT !.cur = TRUE])
             /\ IF s = Idle THEN Release(p) ELSE UNCHANGED lease
             /\ UNCHANGED marker
    <2>1. [s EXCEPT !.cur = TRUE] \in WorkerState /\ [s EXCEPT !.cur = TRUE].job = s.job
      BY DEF WorkerState
    <2> QED BY <1>2, <2>1, SetTakes, IdleTyped DEF Leases, Release
  <1>3. CASE Abort(p) /\ UNCHANGED marker
    BY <1>3, AbortTakes
  <1> QED BY <1>1, <1>2, <1>3 DEF UpdateMarker

-----------------------------------------------------------------------------
(* What the writes to the room's events, keys and bytes leave true, of     *)
(* records, of what was noted, and of a worker that does not take the step.*)

SharedTypes ==
    /\ end \in Nat /\ log \subseteq Event
    /\ history \in [Assets -> SUBSET {"created", "deleted"}]
    /\ created \cup bytes \cup unposted \subseteq Assets
    /\ keys \cup issued \cup live \subseteq CallKeys
    /\ starting \in [CallKeys -> Nat]

Base == SharedTypes /\ Sequenced /\ Recorded /\ NothingOrphaned

\* For workers that hold records of O.
Preserved(O) ==
    /\ Base' /\ (Gone => Gone') /\ (end' = end => log' \subseteq log)
    /\ end <= end'
    /\ \A S \in SUBSET Assets, K, C \in SUBSET CallKeys : Noted(S, K, C) => Noted(S, K, C)'
    /\ \A o \in O : NamesBarrier(o) => NamesBarrier(o)'
    /\ \A o \in O : NamesBarrier(o) /\ ErasedThrough(o) => ErasedThrough(o)'
    /\ \A s \in WorkerState : s.op \in O /\ Worker(s) => Worker(s)'

LEMMA EventFields ==
    ASSUME SharedTypes, NEW e \in log
    PROVE  /\ e.seq \in Nat /\ e.seq >= 1 /\ e.seq <= end /\ e.t \in EventTypes
           /\ e.t = "body" <=> e.ref \in Assets
           /\ e.t = "call" <=> e.ref \in CallKeys
           /\ e.t = "barrier" <=> e.ref \in Ops
           /\ e.t \in {"meta", "tomb"} => e.ref = None
  <1>1. e \in Event
    BY DEF SharedTypes
  <1>2. e.seq \in 1..end /\ e.t \in EventTypes /\ end \in Nat
    BY <1>1 DEF Event, SharedTypes
  <1>3. /\ e.t = "body" => e.ref \in Assets
        /\ e.t = "call" => e.ref \in CallKeys
        /\ e.t = "barrier" => e.ref \in Ops
        /\ e.t \in {"meta", "tomb"} => e.ref = None
    BY <1>1 DEF Event
  <1> QED BY <1>2, <1>3, RoomPurgeAssumption DEF EventTypes

LEMMA AlikeWorker ==
    ASSUME NEW s \in WorkerState, Worker(s)
    PROVE  Worker([s EXCEPT !.cur = FALSE]) /\ Worker([s EXCEPT !.cur = TRUE])
  <1>1. ASSUME NEW b \in BOOLEAN PROVE Worker([s EXCEPT !.cur = b])
    <2> DEFINE r == [s EXCEPT !.cur = b]
    <2>1. /\ r.pc = s.pc /\ r.job = s.job /\ r.assets = s.assets /\ r.keys = s.keys
          /\ r.cleaned = s.cleaned /\ r.tail = s.tail /\ r.through = s.through
          /\ r.keep = s.keep /\ r.todo = s.todo /\ r.asset = s.asset /\ r.op = s.op
      BY DEF WorkerState
    <2> HIDE DEF r
    <2>2. JobSteps(r) /\ Tombed(r) /\ Known(r) /\ Copied(r)
      BY <2>1 DEF Worker, JobSteps, Tombed, Known, Copied
    <2>3. Passing(r) /\ RoomErasing(r) /\ HistoryErasing(r)
      BY <2>1 DEF Worker, Passing, RoomErasing, HistoryErasing
    <2> QED BY <2>2, <2>3 DEF Worker, r
  <1> QED BY <1>1

LEMMA PreserveAlike ==
    ASSUME WorkersOK, NEW p \in Workers, NEW s, Takes(p, s), Worker(s)', NEW O,
           \A q \in Workers : Worker(w[q]) /\ w[q].op \in O, Preserved(O)
    PROVE  \A q \in Workers : Worker(w[q])'
  <1> SUFFICES ASSUME NEW q \in Workers PROVE Worker(w[q])'
    OBVIOUS
  <1>0. \A r : r = s => Worker(r)'
    OBVIOUS
  <1>1. CASE q = p
    <2>1. w'[q] = s
      BY <1>1 DEF Takes
    <2> QED BY <1>0, <2>1
  <1>2. CASE q # p
    <2>1. /\ w[q] \in WorkerState
          /\ w'[q] = w[q] \/ w'[q] = [w[q] EXCEPT !.cur = FALSE]
          /\ w'[q] \in WorkerState /\ w'[q].op = w[q].op
      BY <1>2 DEF WorkersOK, Takes, WorkerState
    <2>2. Worker(w'[q])
      BY <2>1, AlikeWorker
    <2>3. \A r \in WorkerState : r.op \in O /\ Worker(r) => Worker(r)'
      BY DEF Preserved
    <2> QED BY <2>1, <2>2, <2>3
  <1> QED BY <1>1, <1>2

\* Nothing is stored but, at most, which devices are in a call.
Unwritten ==
    /\ UNCHANGED <<log, end, history, created, bytes, unposted, keys, issued, starting>>
    /\ live' \subseteq live \cup issued

LEMMA UnwrittenPreserves ==
    ASSUME Base, Unwritten
    PROVE  Preserved(OpRecord)
  <1> USE DEF Unwritten
  <1>1. Base' /\ (Gone => Gone') /\ (end' = end => log' \subseteq log) /\ end <= end'
    <2>1. Event' = Event
      BY DEF Event
    <2>3. SharedTypes' /\ Sequenced' /\ end <= end'
      BY <2>1 DEF Base, SharedTypes, Sequenced
    <2>2. Recorded' /\ NothingOrphaned'
      BY DEF Base, Recorded, NothingOrphaned, CallRefs, BodyRefs
    <2> QED BY <2>2, <2>3 DEF Base, Gone
  <1>2. /\ \A S, K, C : Noted(S, K, C) => Noted(S, K, C)'
        /\ \A o : NamesBarrier(o) => NamesBarrier(o)'
        /\ \A o : ErasedThrough(o) => ErasedThrough(o)'
    BY DEF Noted, NamesBarrier, ErasedThrough, Gone
  <1>3. ASSUME NEW s, Worker(s) PROVE Worker(s)'
    <2>1. JobSteps(s)' /\ Tombed(s)' /\ Known(s)' /\ Copied(s)'
      BY <1>3 DEF Worker, JobSteps, Tombed, Known, Copied, Gone, Noted, NamesBarrier,
                  ErasedThrough
    <2>2. Passing(s)' /\ RoomErasing(s)' /\ HistoryErasing(s)'
      BY <1>3 DEF Worker, Passing, RoomErasing, HistoryErasing
    <2> QED BY <2>1, <2>2 DEF Worker
  <1> QED BY <1>1, <1>2, <1>3 DEF Preserved

\* An event is stored: a message with a recorded attachment, the CallStarted of a
\* key that was issued, an operation's only barrier, or a tombstone.
LEMMA AppendPreserves ==
    ASSUME Base, NEW t \in {"body", "call", "barrier", "tomb"}, NEW ref, Append(t, ref),
           t = "body" => ref \in Assets /\ history[ref] # {} /\ ref \notin unposted',
           t = "call" => ref \in issued,
           t = "barrier" => ref \in Ops /\ \A e \in log : e.t = "barrier" => e.ref # ref,
           t = "tomb" => ref = None,
           UNCHANGED <<history, created, bytes, issued, live>>,
           unposted' = unposted \/ (t = "body" /\ unposted' = unposted \ {ref}),
           keys' \subseteq keys,
           starting' = starting \/ (t = "call" /\ starting' = [starting EXCEPT ![ref] = 0]),
           NEW O \in SUBSET OpRecord, \A o \in O : t = "barrier" => o.id # ref \/ o.barrier = 0
    PROVE  /\ Preserved(O)
           /\ log \subseteq log' /\ end' = end + 1
           /\ \A e \in log' : e \in log \/ (e.seq = end' /\ e.t = t /\ e.ref = ref)
           /\ \E e \in log' : e.seq = end' /\ e.t = t /\ e.ref = ref
           /\ \A e \in log' : e.seq <= end => e \in log
  <1> DEFINE n == [seq |-> end + 1, t |-> t, ref |-> ref]
  <1>1. /\ end \in Nat /\ end' = end + 1 /\ end' \in Nat /\ log' = log \cup {n}
        /\ n.seq = end + 1 /\ n.t = t /\ n.ref = ref
    BY DEF Base, SharedTypes, Append
  <1>2. n \in Event'
    BY <1>1 DEF Event, EventTypes, Base, SharedTypes
  <1> HIDE DEF n
  <1>3. \A e \in log : e.seq \in Nat /\ e.seq <= end
    BY EventFields DEF Base
  <1>4. Event \subseteq Event'
    BY <1>1 DEF Event
  <1>5. (Gone => Gone') /\ ~(n.seq <= end)
    BY <1>1 DEF Gone
  <1>6. Base'
    <2>1. SharedTypes'
      BY <1>1, <1>2, <1>4 DEF Base, SharedTypes
    <2>2. Sequenced'
      <3>1. \A e, f \in log' : e.seq = f.seq => e = f
        BY <1>1, <1>3, <1>5 DEF Base, Sequenced
      <3>2. \A e, f \in log' : e.t = "barrier" /\ f.t = "barrier" /\ e.ref = f.ref => e = f
        BY <1>1 DEF Base, Sequenced
      <3> QED BY <1>1, <3>1, <3>2 DEF Sequenced
    <2>3. Recorded'
      BY <1>1 DEF Base, SharedTypes, Recorded
    <2>4. NothingOrphaned'
      <3>1. ASSUME NEW k \in keys' PROVE k \in CallRefs(log') \cup {j \in CallKeys : starting'[j] # 0}
        <4>1. k \in CallKeys /\ k \in CallRefs(log) \cup {j \in CallKeys : starting[j] # 0}
          BY <3>1 DEF Base, NothingOrphaned, SharedTypes
        <4>2. CallRefs(log) \subseteq CallRefs(log') /\ (t = "call" => ref \in CallRefs(log'))
          BY <1>1 DEF CallRefs
        <4>3. k # ref \/ t # "call" => starting'[k] = starting[k]
          BY <4>1 DEF Base, SharedTypes
        <4> QED BY <4>1, <4>2, <4>3
      <3>2. ASSUME NEW a \in bytes' PROVE a \in BodyRefs(log') \cup unposted'
        <4>1. t = "body" => ref # None
          BY RoomPurgeAssumption
        <4>2. BodyRefs(log) \subseteq BodyRefs(log') /\ (t = "body" => ref \in BodyRefs(log'))
          BY <1>1, <4>1 DEF BodyRefs
        <4> QED BY <3>2, <4>2 DEF Base, NothingOrphaned
      <3> QED BY <3>1, <3>2 DEF NothingOrphaned
    <2> QED BY <2>1, <2>2, <2>3, <2>4 DEF Base
  <1>7. \A S, K, C : Noted(S, K, C) => Noted(S, K, C)'
    BY DEF Noted
  <1>8. ASSUME NEW o \in OpRecord, t = "barrier" => o.id # ref \/ o.barrier = 0, NamesBarrier(o)
        PROVE  NamesBarrier(o)' /\ (ErasedThrough(o) => ErasedThrough(o)')
    <2>1. o.barrier \in Nat
      BY DEF OpRecord
    <2>2. CASE o.barrier = 0
      BY <2>2 DEF NamesBarrier, ErasedThrough
    <2>3. CASE o.barrier # 0
      <3>1. /\ o.barrier <= end /\ o.barrier <= end' /\ n.seq # o.barrier /\ n.seq > o.barrier
            /\ ~(n.t = "barrier" /\ n.ref = o.id)
        BY <1>1, <1>8, <2>1, <2>3 DEF NamesBarrier
      <3>2. \A e \in log' : e.seq = o.barrier <=> e.t = "barrier" /\ e.ref = o.id
        BY <1>1, <1>8, <2>3, <3>1 DEF NamesBarrier
      <3>3. Gone' \/ \E e \in log' : e.seq = o.barrier
        BY <1>1, <1>5, <1>8, <2>3 DEF NamesBarrier
      <3>4. ErasedThrough(o) => ErasedThrough(o)'
        BY <1>1, <3>1 DEF ErasedThrough
      <3> QED BY <3>1, <3>2, <3>3, <3>4 DEF NamesBarrier
    <2> QED BY <2>2, <2>3
  <1>10. ASSUME NEW s \in WorkerState, t = "barrier" => s.op.id # ref \/ s.op.barrier = 0, Worker(s)
         PROVE  Worker(s)'
    <2>0. /\ s.tail \in Nat /\ s.through \in Nat /\ s.op \in OpRecord
          /\ s.todo \subseteq Assets
      BY DEF WorkerState
    <2>1. JobSteps(s)' /\ Tombed(s)' /\ Known(s)'
      <3>1. Noted(s.assets \cup s.todo, s.keys, s.cleaned)'
        BY <1>10 DEF Worker, Known, Noted
      <3> QED BY <1>5, <1>10, <3>1 DEF Worker, JobSteps, Tombed, Known
    <2>2. Copied(s)'
      BY <1>8, <1>10, <2>0 DEF Worker, Copied
    <2>3. Passing(s)'
      BY <1>1, <1>3, <1>10, <2>0 DEF Worker, Passing
    <2>4. RoomErasing(s)'
      <3> SUFFICES ASSUME s.job = "room", s.pc = "erase" PROVE RoomErasing(s)'
        BY DEF RoomErasing
      <3>1. /\ s.through \in 1..end /\ s.keep = {s.through} /\ ~(n.seq < s.through)
            /\ s.through \in 1..end'
        BY <1>1, <1>10, <2>0 DEF Worker, RoomErasing
      <3>2. \E e \in log' : e.t = "tomb" /\ e.seq >= s.through
        BY <1>1, <1>10 DEF Worker, RoomErasing
      <3> QED BY <1>1, <1>10, <3>1, <3>2 DEF Worker, RoomErasing
    <2>5. HistoryErasing(s)'
      <3> SUFFICES ASSUME s.job = "history",
                          s.pc \in {"assets", "assetTombstone", "assetErase", "erase"}
                   PROVE  HistoryErasing(s)'
        BY DEF HistoryErasing
      <3>1. s.through \in 1..end /\ s.keep \subseteq 1..end
        BY <1>10 DEF Worker, HistoryErasing
      <3>2. ~(n.seq <= s.through) /\ s.through \in 1..end' /\ s.keep \subseteq 1..end'
        BY <1>1, <2>0, <3>1
      <3> QED BY <1>1, <1>10, <3>1, <3>2 DEF Worker, HistoryErasing
    <2> QED BY <2>1, <2>2, <2>3, <2>4, <2>5 DEF Worker
  <1>11. Preserved(O)
    BY <1>1, <1>5, <1>6, <1>7, <1>8, <1>10 DEF Preserved
  <1> QED BY <1>1, <1>5, <1>11

\* A secure deletion erases one event: an older one that names nothing left.
LEMMA ErasePreserves ==
    ASSUME Base, NEW r \in WorkerState, Worker(r), r.pc = "erase",
           NEW x \in log, x.seq <= r.through, x.seq \notin r.keep, log' = log \ {x},
           UNCHANGED <<end, history, created, bytes, unposted, keys, issued, starting, live>>
    PROVE  Preserved(OpRecord)
  <1>0. /\ r.job \in {"none", "room", "start", "history"} /\ r.through \in Nat
        /\ end \in Nat /\ x.seq \in Nat /\ r.op \in OpRecord
    BY EventFields DEF WorkerState, Base, SharedTypes
  <1>1. r.job \in {"room", "history"}
    BY <1>0 DEF Worker, JobSteps, FreePCs, StartPCs
  <1>2. /\ x.seq < end
        /\ x.t = "call" => x.ref \notin keys
        /\ x.t = "body" => x.ref \notin bytes
        /\ Gone => Gone'
        /\ x.t = "barrier" => Gone'
        /\ x.t = "tomb" => \E e \in log' : e.t = "tomb" /\ e.seq > x.seq
    <2>1. CASE r.job = "room"
      <3>1. /\ r.through \in 1..end /\ r.keep = {r.through}
            /\ \A e \in log : e.seq < r.through =>
                  (e.t = "call" => e.ref \notin keys) /\ (e.t = "body" => e.ref \notin bytes)
        BY <2>1 DEF Worker, RoomErasing
      <3>2. PICK y \in log : y.t = "tomb" /\ y.seq >= r.through
        BY <2>1 DEF Worker, RoomErasing
      <3>3. x.seq < r.through
        BY <1>0, <3>1
      <3>4. y.seq \in Nat /\ y.seq > x.seq /\ y \in log'
        BY <1>0, <3>2, <3>3, EventFields DEF Base
      <3>5. Gone'
        BY <3>2, <3>4 DEF Gone
      <3>6. x.seq < end
        BY <1>0, <3>1, <3>3
      <3> QED BY <3>1, <3>2, <3>3, <3>4, <3>5, <3>6
    <2>2. CASE r.job = "history"
      <3>1. /\ r.through = r.op.barrier /\ r.through \in 1..end
            /\ x.t = "body" /\ x.ref \notin bytes
        BY <2>2 DEF Worker, HistoryErasing
      <3>2. NamesBarrier(r.op)
        BY DEF Worker, Copied
      <3>3. x.seq # r.op.barrier
        BY <1>0, <3>1, <3>2 DEF NamesBarrier
      <3>4. x.seq < end
        BY <1>0, <3>1, <3>3
      <3>5. Gone => Gone'
        BY <3>1 DEF Gone
      <3> QED BY <3>1, <3>4, <3>5
    <2> QED BY <1>1, <2>1, <2>2
  <1>3. log' \subseteq log /\ \A e \in log : e # x => e \in log'
    OBVIOUS
  <1>4. Base'
    <2>0. Event' = Event
      BY DEF Event
    <2>1. SharedTypes'
      BY <2>0 DEF Base, SharedTypes
    <2>2. Sequenced'
      <3>1. PICK y \in log : y.seq = end
        BY DEF Base, Sequenced
      <3>2. y \in log'
        BY <1>0, <1>2, <3>1
      <3> QED BY <1>3, <3>1, <3>2 DEF Base, Sequenced
    <2>3. Recorded'
      BY <1>3 DEF Base, Recorded
    <2>4. NothingOrphaned'
      <3>1. ASSUME NEW k \in keys PROVE k \in CallRefs(log') \cup {j \in CallKeys : starting[j] # 0}
        BY <1>2, <1>3 DEF Base, NothingOrphaned, CallRefs
      <3>2. ASSUME NEW a \in bytes PROVE a \in BodyRefs(log') \cup unposted
        BY <1>2, <1>3 DEF Base, NothingOrphaned, BodyRefs
      <3> QED BY <3>1, <3>2 DEF NothingOrphaned
    <2> QED BY <2>1, <2>2, <2>3, <2>4 DEF Base
  <1>5. \A S, K, C : Noted(S, K, C) => Noted(S, K, C)'
    BY DEF Noted
  <1>6. ASSUME NEW o, NamesBarrier(o) PROVE NamesBarrier(o)'
    <2>1. ASSUME o.barrier # 0 PROVE Gone' \/ \E e \in log' : e.seq = o.barrier
      BY <1>2, <1>3, <1>6, <2>1 DEF NamesBarrier
    <2> QED BY <1>3, <1>6, <2>1 DEF NamesBarrier
  <1>7. ASSUME NEW o, ErasedThrough(o) PROVE ErasedThrough(o)'
    BY <1>3, <1>7 DEF ErasedThrough
  <1>8. ASSUME NEW s \in WorkerState, Worker(s) PROVE Worker(s)'
    <2>1. JobSteps(s)' /\ Tombed(s)' /\ Known(s)' /\ Copied(s)'
      BY <1>2, <1>5, <1>6, <1>7, <1>8 DEF Worker, JobSteps, Tombed, Known, Copied
    <2>2. Passing(s)' /\ HistoryErasing(s)'
      BY <1>2, <1>3, <1>8 DEF Worker, Passing, HistoryErasing
    <2>3. RoomErasing(s)'
      <3> SUFFICES ASSUME s.job = "room", s.pc = "erase" PROVE RoomErasing(s)'
        BY DEF RoomErasing
      <3>1. PICK y \in log : y.t = "tomb" /\ y.seq >= s.through
        BY <1>8 DEF Worker, RoomErasing
      <3>2. \E e \in log' : e.t = "tomb" /\ e.seq >= s.through
        <4>1. CASE y = x
          <5>1. PICK z \in log' : z.t = "tomb" /\ z.seq > x.seq
            BY <1>2, <3>1, <4>1
          <5>2. z.seq \in Nat /\ s.through \in Nat
            BY EventFields, <1>3 DEF Base, WorkerState
          <5> QED BY <1>0, <3>1, <4>1, <5>1, <5>2
        <4>2. CASE y # x
          BY <1>3, <3>1, <4>2
        <4> QED BY <4>1, <4>2
      <3> QED BY <1>3, <1>8, <3>2 DEF Worker, RoomErasing
    <2> QED BY <2>1, <2>2, <2>3 DEF Worker
  <1> QED BY <1>0, <1>2, <1>3, <1>4, <1>5, <1>6, <1>7, <1>8 DEF Preserved

\* Keys and bytes are destroyed; a join that has given up has destroyed its key.
LEMMA DestroyPreserves ==
    ASSUME Base, keys' \subseteq keys, bytes' \subseteq bytes,
           starting' \in [CallKeys -> Nat],
           \A k \in CallKeys : starting'[k] = starting[k] \/ (starting'[k] = 0 /\ k \notin keys'),
           UNCHANGED <<log, end, history, created, unposted, issued, live>>
    PROVE  Preserved(OpRecord)
  <1>1. Base'
    <2>0. Event' = Event
      BY DEF Event
    <2>1. SharedTypes' /\ Sequenced'
      BY <2>0 DEF Base, SharedTypes, Sequenced
    <2>2. Recorded' /\ NothingOrphaned'
      BY DEF Base, SharedTypes, Recorded, NothingOrphaned
    <2> QED BY <2>1, <2>2 DEF Base
  <1>2. Gone => Gone'
    BY DEF Gone
  <1>3. /\ \A S, K, C : Noted(S, K, C) => Noted(S, K, C)'
        /\ \A o : NamesBarrier(o) => NamesBarrier(o)'
        /\ \A o : ErasedThrough(o) => ErasedThrough(o)'
    BY <1>2 DEF Noted, NamesBarrier, ErasedThrough
  <1>4. ASSUME NEW s, Worker(s) PROVE Worker(s)'
    <2>1. JobSteps(s)' /\ Tombed(s)' /\ Known(s)' /\ Copied(s)'
      BY <1>2, <1>3, <1>4 DEF Worker, JobSteps, Tombed, Known, Copied
    <2>2. Passing(s)' /\ RoomErasing(s)' /\ HistoryErasing(s)'
      BY <1>4 DEF Worker, Passing, RoomErasing, HistoryErasing
    <2> QED BY <2>1, <2>2 DEF Worker
  <1>5. end <= end' /\ log' \subseteq log
    BY DEF Base, SharedTypes
  <1> QED BY <1>1, <1>2, <1>3, <1>4, <1>5 DEF Preserved

\* An asset is recorded, or recorded as deleted once its bytes are; an upload that
\* was not shown takes its bytes back.
LEMMA AssetPreserves ==
    ASSUME Base, NEW a \in Assets, NEW H \in SUBSET {"created", "deleted"},
           history' = [history EXCEPT ![a] = H], history[a] # {} => H # {},
           created' \in {created, created \cup {a}, created \ {a}}, a \in created' => H # {},
           bytes' \in {bytes, bytes \ {a}}, a \in bytes' /\ H # {} => a \in created',
           unposted' \in {unposted, unposted \ {a}}, a \in bytes' => unposted' = unposted,
           UNCHANGED <<log, end, keys, issued, starting, live>>
    PROVE  Preserved(OpRecord)
  <1>1. /\ \A b \in Assets : history[b] # {} => history'[b] # {}
        /\ history'[a] = H
        /\ history' \in [Assets -> SUBSET {"created", "deleted"}]
        /\ \A b \in Assets \ {a} : history'[b] = history[b]
    BY DEF Base, SharedTypes
  <1>2. Base'
    <2>0. Event' = Event
      BY DEF Event
    <2>1. SharedTypes' /\ Sequenced'
      BY <1>1, <2>0 DEF Base, SharedTypes, Sequenced
    <2>2. \A e \in log : e.t = "body" => e.ref \in Assets
      BY EventFields DEF Base
    <2>3. Recorded'
      BY <1>1, <2>2 DEF Base, SharedTypes, Recorded
    <2>4. NothingOrphaned'
      BY DEF Base, NothingOrphaned
    <2> QED BY <2>1, <2>3, <2>4 DEF Base
  <1>3. Gone => Gone'
    BY DEF Gone
  <1>4. /\ \A S \in SUBSET Assets : \A K, C : Noted(S, K, C) => Noted(S, K, C)'
        /\ \A o : NamesBarrier(o) => NamesBarrier(o)'
        /\ \A o : ErasedThrough(o) => ErasedThrough(o)'
    BY <1>1, <1>3 DEF Noted, NamesBarrier, ErasedThrough
  <1>5. ASSUME NEW s \in WorkerState, Worker(s) PROVE Worker(s)'
    <2>0. s.assets \cup s.todo \in SUBSET Assets
      BY DEF WorkerState
    <2>1. JobSteps(s)' /\ Tombed(s)' /\ Copied(s)'
      BY <1>3, <1>4, <1>5 DEF Worker, JobSteps, Tombed, Copied
    <2>2. Known(s)'
      BY <1>1, <1>4, <1>5, <2>0 DEF Worker, Known
    <2>3. Passing(s)' /\ RoomErasing(s)' /\ HistoryErasing(s)'
      BY <1>5 DEF Worker, Passing, RoomErasing, HistoryErasing
    <2> QED BY <2>1, <2>2, <2>3 DEF Worker
  <1>6. end <= end' /\ log' \subseteq log
    BY DEF Base, SharedTypes
  <1> QED BY <1>2, <1>3, <1>4, <1>5, <1>6 DEF Preserved

\* An upload stores the bytes of an asset that nobody has recorded.
LEMMA UploadPreserves ==
    ASSUME Base, NEW a \in Assets, history[a] = {},
           bytes' = bytes \cup {a}, unposted' = unposted \cup {a},
           UNCHANGED <<log, end, history, created, keys, issued, starting, live>>
    PROVE  Preserved(OpRecord)
  <1>1. \A e \in log : e.t = "body" => e.ref # a
    BY DEF Base, Recorded
  <1>2. Base'
    <2>0. Event' = Event
      BY DEF Event
    <2>1. SharedTypes' /\ Sequenced'
      BY <2>0 DEF Base, SharedTypes, Sequenced
    <2>2. Recorded'
      BY <1>1 DEF Base, Recorded
    <2>3. NothingOrphaned'
      BY DEF Base, NothingOrphaned
    <2> QED BY <2>1, <2>2, <2>3 DEF Base
  <1>3. Gone => Gone'
    BY DEF Gone
  <1>4. /\ \A S, K, C : Noted(S, K, C) => Noted(S, K, C)'
        /\ \A o : NamesBarrier(o) => NamesBarrier(o)'
        /\ \A o : ErasedThrough(o) => ErasedThrough(o)'
    BY <1>3 DEF Noted, NamesBarrier, ErasedThrough
  <1>5. ASSUME NEW s, Worker(s) PROVE Worker(s)'
    <2>1. JobSteps(s)' /\ Tombed(s)' /\ Copied(s)'
      BY <1>3, <1>4, <1>5 DEF Worker, JobSteps, Tombed, Copied
    <2>2. Known(s)'
      BY <1>4, <1>5 DEF Worker, Known
    <2>3. Passing(s)' /\ RoomErasing(s)'
      BY <1>1, <1>5 DEF Worker, Passing, RoomErasing
    <2>4. a \notin s.todo
      BY <1>5 DEF Worker, Known, Noted
    <2>5. HistoryErasing(s)'
      BY <1>1, <1>5, <2>4 DEF Worker, HistoryErasing
    <2> QED BY <2>1, <2>2, <2>3, <2>5 DEF Worker
  <1>6. end <= end' /\ log' \subseteq log
    BY DEF Base, SharedTypes
  <1> QED BY <1>2, <1>3, <1>4, <1>5, <1>6 DEF Preserved

\* A join creates the key of a call nobody had before.
LEMMA KeyPreserves ==
    ASSUME Base, NEW k \in CallKeys, k \notin issued, keys' = keys \cup {k},
           issued' = issued \cup {k}, NEW n \in Nat \ {0}, starting' = [starting EXCEPT ![k] = n],
           UNCHANGED <<log, end, history, created, bytes, unposted, live>>
    PROVE  Preserved(OpRecord)
  <1>1. \A e \in log : e.t = "call" => e.ref # k
    BY DEF Base, Recorded
  <1>2. Base'
    <2>0. Event' = Event
      BY DEF Event
    <2>1. SharedTypes' /\ Sequenced'
      BY <2>0 DEF Base, SharedTypes, Sequenced
    <2>2. starting'[k] # 0 /\ \A j \in CallKeys \ {k} : starting'[j] = starting[j]
      BY DEF Base, SharedTypes
    <2>3. Recorded'
      BY <2>2 DEF Base, SharedTypes, Recorded
    <2>4. NothingOrphaned'
      BY <2>2 DEF Base, SharedTypes, NothingOrphaned
    <2> QED BY <2>1, <2>3, <2>4 DEF Base
  <1>3. Gone => Gone'
    BY DEF Gone
  <1>4. /\ \A S, K, C : Noted(S, K, C) => Noted(S, K, C)'
        /\ \A o : NamesBarrier(o) => NamesBarrier(o)'
        /\ \A o : ErasedThrough(o) => ErasedThrough(o)'
    BY <1>3 DEF Noted, NamesBarrier, ErasedThrough
  <1>5. ASSUME NEW s, Worker(s) PROVE Worker(s)'
    <2>1. JobSteps(s)' /\ Tombed(s)' /\ Known(s)' /\ Copied(s)'
      BY <1>3, <1>4, <1>5 DEF Worker, JobSteps, Tombed, Known, Copied
    <2>2. Passing(s)' /\ RoomErasing(s)' /\ HistoryErasing(s)'
      BY <1>1, <1>5 DEF Worker, Passing, RoomErasing, HistoryErasing
    <2> QED BY <2>1, <2>2 DEF Worker
  <1>6. end <= end' /\ log' \subseteq log
    BY DEF Base, SharedTypes
  <1> QED BY <1>2, <1>3, <1>4, <1>5, <1>6 DEF Preserved

-----------------------------------------------------------------------------
(* What a step has to show.                                                *)

MarkerOK ==
    /\ marker \in [st : {"none", "progress", "complete"},
                   assets : SUBSET Assets, keys : SUBSET CallKeys]
    /\ Noted(marker.assets, marker.keys, marker.keys)

RecordOK(o) == o \in OpRecord /\ NamesBarrier(o) /\ (o.st = "completed" => ErasedThrough(o))

OpsOK ==
    /\ ops \in [Ops -> OpRecord]
    /\ \A i \in Ops : ops[i].id = i /\ RecordOK(ops[i])

SideOK == {grouped, scoped} \subseteq BOOLEAN

\* What steps do besides: the state around the room, and no operation ID is new.
Aside == SideOK' /\ jobs' \subseteq jobs

\* The body of HistoryPurgeIsSelective.
Old == {e \in log : e.t = "body" /\ \E b \in log : b.t = "barrier" /\ e.seq < b.seq}
Selective ==
    ~Gone => log \ log' \subseteq Old /\ (bytes \cap created) \ bytes' \subseteq BodyRefs(Old)

StepOK == IInv' /\ (Gone => Gone') /\ Selective

LEMMA Parts ==
    ASSUME IInv
    PROVE  /\ Base /\ MarkerOK /\ OpsOK /\ SideOK /\ WorkersOK /\ Fresh
           /\ \A p \in Workers : /\ w[p] \in WorkerState /\ Worker(w[p]) /\ Starting(p)
                                 /\ JobSteps(w[p]) /\ w[p].op \in OpRecord
  <1>1. /\ Base /\ MarkerOK /\ SideOK /\ Fresh
        /\ \A p \in Workers : w[p] \in WorkerState /\ Worker(w[p]) /\ Starting(p)
    BY DEF IInv, TypeOK, Base, SharedTypes, MarkerOK, SideOK
  <1>2. WorkersOK
    BY DEF IInv, TypeOK, WorkersOK, Worker
  <1>3. OpsOK
    BY DEF IInv, TypeOK, OpsOK, RecordOK
  <1> QED BY <1>1, <1>2, <1>3 DEF Worker, WorkerState

LEMMA PartsAfter ==
    ASSUME Base', MarkerOK', OpsOK', SideOK', WorkersOK', Fresh',
           \A p \in Workers : Worker(w[p])', \A p \in Workers : Starting(p)'
    PROVE  IInv'
  <1>1. TypeOK'
    BY DEF TypeOK, Base, SharedTypes, MarkerOK, OpsOK, SideOK, WorkersOK
  <1>2. (\A p \in Workers : Worker(w[p]) /\ Starting(p))'
    OBVIOUS
  <1>3. (\A i \in Ops : /\ ops[i].id = i /\ NamesBarrier(ops[i])
                        /\ ops[i].st = "completed" => ErasedThrough(ops[i]))'
    BY DEF OpsOK, RecordOK
  <1> QED BY <1>1, <1>2, <1>3 DEF IInv, Base, MarkerOK

LEMMA MarkerUnchanged ==
    ASSUME MarkerOK, NEW O, Preserved(O), UNCHANGED marker
    PROVE  MarkerOK'
  BY DEF MarkerOK, Preserved

LEMMA RecordKept ==
    ASSUME NEW O, Preserved(O), NEW o \in O, RecordOK(o)
    PROVE  RecordOK(o)'
  BY DEF RecordOK, Preserved

LEMMA OpsUnchanged ==
    ASSUME OpsOK, NEW O, Preserved(O), UNCHANGED ops, \A i \in Ops : ops[i] \in O
    PROVE  OpsOK'
  <1>1. ASSUME NEW i \in Ops PROVE ops'[i].id = i /\ RecordOK(ops[i])'
    <2>1. PICK o : o = ops[i]
      OBVIOUS
    <2>2. o \in O /\ RecordOK(o) /\ o.id = i
      BY <2>1 DEF OpsOK
    <2>3. RecordOK(o)'
      BY <2>2, RecordKept
    <2>4. o = ops'[i]
      BY <2>1
    <2> QED BY <2>2, <2>3, <2>4
  <1> QED BY <1>1 DEF OpsOK

\* A step of one worker that leaves it in s.
LEMMA StepOf ==
    ASSUME IInv, NEW p \in Workers, NEW s, Takes(p, s), Leases(p, s), Worker(s)',
           NEW O, Preserved(O), \A q \in Workers : w[q].op \in O,
           MarkerOK', OpsOK', SideOK', Fresh', \A q \in Workers : Starting(q)'
    PROVE  IInv'
  <1>1. JobSteps(s)
    BY DEF Worker, JobSteps
  <1>2. WorkersOK'
    BY <1>1, Parts, TakesOK
  <1>3. \A q \in Workers : Worker(w[q])'
    BY Parts, PreserveAlike
  <1>4. Base'
    BY DEF Preserved
  <1> QED BY <1>2, <1>3, <1>4, PartsAfter

\* Somebody may be about to store a barrier, and finds everything as it was.
LEMMA StartingKept ==
    ASSUME IInv, NEW p \in Workers, NEW s, Takes(p, s), jobs' \subseteq jobs,
           s.pc \in Beginning => w[p].pc \in Beginning /\ s.op = w[p].op /\ s.tail = w[p].tail,
           end' \in Nat, end <= end', end' = end => log' \subseteq log,
           \A e \in log' : e.t = "barrier" => \/ e \in log
                                              \/ /\ w[p].pc \in Beginning /\ s.pc \notin Beginning
                                                 /\ e.ref = w[p].op.id
    PROVE  Fresh' /\ \A q \in Workers : Starting(q)'
  <1>0. \A q \in Workers : w[q] \in WorkerState /\ Starting(q)
    BY Parts
  <1>1. end \in Nat /\ Fresh
    BY Parts DEF Base, SharedTypes
  <1>2. \A r \in Workers : w'[r].pc \in Beginning =>
            w[r].pc \in Beginning /\ w'[r].op = w[r].op /\ w'[r].tail = w[r].tail
    BY <1>0 DEF Takes, WorkerState
  <1>3. Fresh'
    BY <1>1, <1>2 DEF Fresh
  <1>4. ASSUME NEW q \in Workers, w'[q].pc \in Beginning PROVE Starting(q)'
    <2>1. w[q].pc \in Beginning /\ w'[q].op = w[q].op /\ w'[q].tail = w[q].tail
      BY <1>2, <1>4
    <2>2. /\ \A e \in log : e.t = "barrier" => e.ref # w[q].op.id
          /\ w[q].tail <= end /\ (Gone => w[q].tail < end)
          /\ \A r \in Workers : w[r].pc \in Beginning /\ w[r].op.id = w[q].op.id => r = q
      BY <1>0, <2>1 DEF Starting
    <2>3. \A e \in log' : e.t = "barrier" => e.ref # w'[q].op.id
      BY <1>4, <2>1, <2>2 DEF Takes
    <2>4. w[q].tail \in Nat
      BY <1>0 DEF WorkerState
    <2>5. w'[q].tail <= end' /\ (Gone' => w'[q].tail < end')
      <3>1. CASE end' = end
        BY <2>1, <2>2, <3>1 DEF Gone
      <3>2. CASE end' # end
        BY <1>1, <2>1, <2>2, <2>4, <3>2
      <3> QED BY <3>1, <3>2
    <2>6. \A r \in Workers : w'[r].pc \in Beginning /\ w'[r].op.id = w'[q].op.id => r = q
      BY <1>2, <2>1, <2>2
    <2> QED BY <2>3, <2>5, <2>6 DEF Starting
  <1> QED BY <1>3, <1>4 DEF Starting

\* A step that stores or destroys something, but no barrier and no record.
LEMMA Writes ==
    ASSUME IInv, NEW p \in Workers, NEW s, Takes(p, s), Leases(p, s), Worker(s)',
           Preserved(OpRecord), MarkerOK' \/ UNCHANGED marker, UNCHANGED ops, Aside,
           s.pc \notin Beginning,
           \A e \in log' : e.t = "barrier" => e \in log, Selective
    PROVE  StepOK
  <1>1. OpsOK' /\ MarkerOK'
    BY Parts, OpsUnchanged, MarkerUnchanged DEF OpsOK
  <1>2. end' \in Nat /\ end <= end' /\ (end' = end => log' \subseteq log) /\ (Gone => Gone')
    BY DEF Preserved, Base, SharedTypes
  <1>3. Fresh' /\ \A q \in Workers : Starting(q)'
    BY <1>2, StartingKept DEF Aside
  <1>4. IInv'
    BY <1>1, <1>3, Parts, StepOf DEF Aside
  <1> QED BY <1>2, <1>4 DEF StepOK

LEMMA Grows ==
    ASSUME log \subseteq log', bytes \cap created \subseteq bytes'
    PROVE  Selective
  BY DEF Selective

\* A step that stores nothing in the room.
LEMMA Moves ==
    ASSUME IInv, NEW p \in Workers, NEW s, Takes(p, s), Leases(p, s), Worker(s),
           Unwritten, UNCHANGED ops, MarkerOK', Aside, s.pc \notin Beginning
    PROVE  StepOK
  <1>1. Preserved(OpRecord)
    BY Parts, UnwrittenPreserves
  <1>2. s \in WorkerState /\ s.op \in OpRecord
    BY DEF Takes, WorkerState
  <1>3. Worker(s)'
    BY <1>1, <1>2 DEF Preserved
  <1>4. Selective /\ \A e \in log' : e.t = "barrier" => e \in log
    BY Grows DEF Unwritten
  <1> QED BY <1>1, <1>3, <1>4, Writes

LEMMA MarkerStays ==
    ASSUME IInv, Unwritten, UNCHANGED marker
    PROVE  MarkerOK'
  BY Parts, UnwrittenPreserves, MarkerUnchanged

LEMMA StoppedWorker ==
    ASSUME NEW s \in Stopped
    PROVE  Worker(s) /\ s \in WorkerState /\ s.pc \notin Beginning
  <1>1. /\ s.job = "none" /\ s.pc \in {"idle", "retry"} /\ s.assets = {} /\ s.keys = {}
        /\ s.cleaned = {} /\ s.todo = {} /\ s.op.barrier = 0 /\ s \in WorkerState /\ JobSteps(s)
    BY StoppedFields
  <1>2. Tombed(s) /\ Known(s) /\ Passing(s) /\ RoomErasing(s) /\ HistoryErasing(s)
    BY <1>1 DEF Tombed, Known, Noted, Passing, RoomErasing, HistoryErasing
  <1>3. Copied(s)
    BY <1>1 DEF Copied, NamesBarrier, StartPCs
  <1> QED BY <1>1, <1>2, <1>3 DEF Worker, Beginning

\* A worker gives up, or is done.
LEMMA GivesUp ==
    ASSUME IInv, NEW p \in Workers, Abort(p) \/ Return(p), Unwritten, UNCHANGED <<marker, ops>>,
           Aside
    PROVE  StepOK
  <1>1. PICK s \in Stopped : Takes(p, s) /\ Leases(p, s)
    BY Parts, AbortTakes, ReturnTakes
  <1>2. MarkerOK'
    BY MarkerStays
  <1> QED BY <1>1, <1>2, StoppedWorker, Moves

LEMMA JobOf ==
    ASSUME NEW s \in WorkerState, JobSteps(s)
    PROVE  /\ s.pc \in RoomPCs \ HistoryPCs => s.job = "room"
           /\ s.pc \in {"snapshot", "finish"} => s.job = "history" /\ s.op.id \in Ops
           /\ s.pc \in {"assets", "assetTombstone", "assetErase", "erase"}
                 => s.job \in {"room", "history"}
           /\ s.pc \in StartPCs => s.job = "start" /\ s.op.id \in Ops
           /\ s.pc \in FreePCs => s.job = "none"
           /\ s.pc \in FreePCs \ {"idle"} => s.op.id \in Ops
  <1>1. s.job \in {"none", "room", "start", "history"}
    BY DEF WorkerState
  <1>2. /\ RoomPCs \cap (StartPCs \cup FreePCs \cup {"snapshot", "finish"}) = {}
        /\ HistoryPCs = {"snapshot", "assets", "assetTombstone", "assetErase", "erase", "finish"}
        /\ StartPCs \cap (FreePCs \cup HistoryPCs) = {} /\ FreePCs \cap HistoryPCs = {}
        /\ "idle" \notin StartPCs \cup HistoryPCs
    BY PCList DEF HistoryPCs, FreePCs, StartPCs
  <1>3. CASE s.job = "room"
    BY <1>2, <1>3 DEF JobSteps
  <1>4. CASE s.job = "history"
    BY <1>2, <1>4 DEF JobSteps
  <1>5. CASE s.job = "start"
    BY <1>2, <1>5 DEF JobSteps
  <1>6. CASE s.job = "none"
    BY <1>2, <1>6 DEF JobSteps
  <1> QED BY <1>1, <1>3, <1>4, <1>5, <1>6

LEMMA TailIsEnd ==
    ASSUME Base
    PROVE  Tail = end
  <1> DEFINE S == {0} \cup Seqs(log)
  <1>1. end \in S /\ \A y \in S : y \in Nat /\ end >= y
    BY EventFields DEF Base, SharedTypes, Sequenced, Seqs
  <1>2. \A x \in S : (\A y \in S : x >= y) => x = end
    BY <1>1
  <1> HIDE DEF S
  <1>3. Max(S) = end
    BY <1>1, <1>2 DEF Max
  <1> QED BY <1>3 DEF Tail, S

\* What a worker of the room purge outside its passes and its erasing is.
LEMMA RoomWorker ==
    ASSUME NEW s \in WorkerState, s.job = "room",
           s.pc \in RoomPCs \ {"passLive", "keys", "assets", "assetTombstone", "assetErase",
                               "passCascade", "scoped", "journal", "replace", "erase"},
           s.pc \in Untombed \/ Gone, Known(s), NamesBarrier(s.op)
    PROVE  Worker(s)
  <1>1. s.pc \notin {"recover", "fail", "putRetry"} \cup StartPCs
    BY PCList DEF StartPCs
  <1>2. JobSteps(s) /\ Tombed(s) /\ Passing(s) /\ RoomErasing(s) /\ HistoryErasing(s)
    BY DEF JobSteps, Tombed, Passing, RoomErasing, HistoryErasing
  <1>3. Copied(s)
    BY <1>1 DEF Copied
  <1> QED BY <1>2, <1>3 DEF Worker

-----------------------------------------------------------------------------
(* The steps of a room purge.                                              *)

\* Steps that only move on.
Onward(a, b) ==
    \/ a = "prepare" /\ b = "createMarker"
    \/ a = "createMarker" /\ b = "prepare"
    \/ a = "restartMarker" /\ b = "firstCollect"
    \/ a = "recheck" /\ b = "live"
    \/ a = "cascade" /\ b = "collect"
    \/ a = "passCascade" /\ b = "scoped"
    \/ a = "scoped" /\ b = "journal"
    \/ a = "journal" /\ b = "replace"
    \/ a = "check" /\ b = "lastCollect"
    \/ a = "lastKeys" /\ b = "lastCascade"
    \/ a = "lastCascade" /\ b = "lastCheck"
    \/ a = "lastCheck" /\ b = "complete"

LEMMA OnwardWorker ==
    ASSUME NEW r \in WorkerState, Worker(r), NEW b, Onward(r.pc, b)
    PROVE  LET s == [r EXCEPT !.pc = b]
           IN  /\ Worker(s) /\ s \in WorkerState /\ s.job = "room"
               /\ s.pc \notin Beginning /\ b \in PCs /\ s # Idle
  <1> DEFINE s == [r EXCEPT !.pc = b]
  <1>1. r.job = "room"
    <2>1. r.pc \in RoomPCs \ HistoryPCs
      BY PCList DEF Onward, HistoryPCs
    <2> QED BY <2>1, JobOf DEF Worker
  <1>2. b \in PCs /\ b \in RoomPCs /\ b \notin {"assetTombstone", "assetErase", "erase"}
        /\ b \notin {"recover", "fail", "putRetry", "finish"} \cup StartPCs \cup Beginning
    BY PCList DEF Onward, StartPCs, Beginning
  <1>3. /\ s \in WorkerState /\ s.pc = b /\ s.job = "room" /\ s.assets = r.assets
        /\ s.keys = r.keys /\ s.cleaned = r.cleaned /\ s.tail = r.tail
        /\ s.todo = r.todo /\ s.op = r.op
    BY <1>1, <1>2, SetPC DEF WorkerState
  <1> HIDE DEF s
  <1>4. JobSteps(s) /\ RoomErasing(s) /\ HistoryErasing(s)
    BY <1>2, <1>3 DEF JobSteps, RoomErasing, HistoryErasing
  <1>5. Tombed(s) /\ Known(s)
    BY <1>1, <1>2, <1>3 DEF Worker, Tombed, Known, Onward, Untombed
  <1>6. Passing(s)
    BY <1>1, <1>3 DEF Worker, Passing, Onward
  <1>7. Copied(s)
    BY <1>1, <1>2, <1>3 DEF Worker, Copied
  <1>8. Worker(s) /\ s.pc \notin Beginning /\ s # Idle
    BY <1>2, <1>3, <1>4, <1>5, <1>6, <1>7 DEF Worker, Idle
  <1> QED BY <1>2, <1>3, <1>8 DEF s

LEMMA OnwardStep ==
    ASSUME IInv, NEW p \in Workers, NEW b, Onward(w[p].pc, b), Goto(p, b),
           UNCHANGED <<lease, marker, ops>>, Unwritten, Aside
    PROVE  StepOK
  <1> DEFINE s == [w[p] EXCEPT !.pc = b]
  <1>1. /\ Worker(s) /\ s \in WorkerState /\ s.job = "room"
        /\ s.pc \notin Beginning /\ b \in PCs
    BY Parts, OnwardWorker
  <1>2. Takes(p, s) /\ MarkerOK'
    BY <1>1, Parts, GotoTakes, MarkerStays
  <1> HIDE DEF s
  <1>3. Leases(p, s)
    BY <1>1 DEF Leases
  <1> QED BY <1>1, <1>2, <1>3, Moves

LEMMA GroupCascadeStep ==
    ASSUME IInv, NEW p \in Workers, GroupCascade(p)
    PROVE  StepOK
  <1>1. PICK b : b = AfterCascade[w[p].pc]
    OBVIOUS
  <1>2. w[p].pc \in {"cascade", "passCascade", "lastCascade"}
    BY DEF GroupCascade, At, AfterCascade
  <1>3. Onward(w[p].pc, b)
    BY <1>1, <1>2 DEF AfterCascade, Onward
  <1>4. /\ Goto(p, b) /\ UNCHANGED <<lease, marker, ops>> /\ Unwritten /\ Aside
    BY <1>1, Parts DEF GroupCascade, Unwritten, Aside, SideOK, stream, media, calls, bounds
  <1> QED BY <1>3, <1>4, OnwardStep

LEMMA PurgeScopedStep ==
    ASSUME IInv, NEW p \in Workers, PurgeScoped(p)
    PROVE  StepOK
  <1>1. Onward(w[p].pc, "journal") /\ Goto(p, "journal")
    BY DEF PurgeScoped, At, Onward
  <1>2. UNCHANGED <<lease, marker, ops>> /\ Unwritten /\ Aside
    BY Parts DEF PurgeScoped, Unwritten, Aside, SideOK, stream, media, calls, bounds
  <1> QED BY <1>1, <1>2, OnwardStep

\* updateRoomPurgeState with a marker that notes what is known.
LEMMA UpdateMarkerStep ==
    ASSUME IInv, NEW p \in Workers, NEW s \in WorkerState, s = Idle \/ s.job # "none",
           Worker(s), s.pc \notin Beginning,
           NEW m, UpdateMarker(p, m, s), Unwritten, UNCHANGED ops, Aside,
           m \in [st : {"none", "progress", "complete"},
                  assets : SUBSET Assets, keys : SUBSET CallKeys],
           Noted(m.assets, m.keys, m.keys)
    PROVE  StepOK
  <1>1. /\ marker' \in {m, marker}
        /\ \E r \in {s, [s EXCEPT !.cur = TRUE]} \cup Stopped : Takes(p, r) /\ Leases(p, r)
    BY Parts, UpdateMarkerTakes
  <1>2. MarkerOK'
    <2>1. CASE marker' = marker
      BY <2>1, MarkerStays
    <2>2. CASE marker' = m
      <3>1. Noted(m.assets, m.keys, m.keys)'
        BY Parts, UnwrittenPreserves DEF Preserved
      <3> QED BY <2>2, <3>1 DEF MarkerOK
    <2> QED BY <1>1, <2>1, <2>2
  <1>3. PICK r \in {s, [s EXCEPT !.cur = TRUE]} \cup Stopped : Takes(p, r) /\ Leases(p, r)
    BY <1>1
  <1>4. Worker([s EXCEPT !.cur = TRUE]) /\ [s EXCEPT !.cur = TRUE].pc = s.pc
    BY AlikeWorker DEF WorkerState
  <1>5. Worker(r) /\ r.pc \notin Beginning
    BY <1>3, <1>4, StoppedWorker
  <1> QED BY <1>2, <1>3, <1>5, Moves

\* The marker of a purge at its beginning or its end.
LEMMA BareMarker ==
    ASSUME NEW st \in {"progress", "complete"}
    PROVE  LET m == [NoMarker EXCEPT !.st = st]
           IN  /\ m \in [st : {"none", "progress", "complete"},
                         assets : SUBSET Assets, keys : SUBSET CallKeys]
               /\ m.assets = {} /\ m.keys = {} /\ Noted(m.assets, m.keys, m.keys)
  BY DEF NoMarker, Noted

LEMMA RestartMarkerStep ==
    ASSUME IInv, NEW p \in Workers, RestartMarker(p)
    PROVE  StepOK
  <1> DEFINE s == [w[p] EXCEPT !.pc = "firstCollect"]
             m == [NoMarker EXCEPT !.st = "progress"]
  <1>0. Unwritten /\ UNCHANGED ops /\ Aside
    BY Parts DEF RestartMarker, Unwritten, Aside, SideOK, stream, media, calls, side, bounds
  <1>1. Onward(w[p].pc, "firstCollect")
    BY DEF RestartMarker, At, Onward
  <1>2. Worker(s) /\ s \in WorkerState /\ s.job = "room" /\ s.pc \notin Beginning
    BY <1>1, Parts, OnwardWorker
  <1>3. /\ m \in [st : {"none", "progress", "complete"},
                  assets : SUBSET Assets, keys : SUBSET CallKeys]
        /\ Noted(m.assets, m.keys, m.keys)
    BY BareMarker
  <1> HIDE DEF s, m
  <1>4. UpdateMarker(p, m, s)
    BY DEF RestartMarker, s, m
  <1> QED BY <1>0, <1>2, <1>3, <1>4, UpdateMarkerStep

LEMMA RecheckStep ==
    ASSUME IInv, NEW p \in Workers, Recheck(p)
    PROVE  StepOK
  <1>0. Unwritten /\ UNCHANGED ops /\ Aside
    BY Parts DEF Recheck, Unwritten, Aside, SideOK, stream, media, calls, side, bounds
  <1>1. CASE Return(p) /\ UNCHANGED marker
    BY <1>0, <1>1, GivesUp
  <1>2. CASE UpdateMarker(p, [marker EXCEPT !.st = "progress"], [w[p] EXCEPT !.pc = "live"])
    <2> DEFINE s == [w[p] EXCEPT !.pc = "live"]
               m == [marker EXCEPT !.st = "progress"]
    <2>1. Onward(w[p].pc, "live")
      BY DEF Recheck, At, Onward
    <2>2. Worker(s) /\ s \in WorkerState /\ s.job = "room" /\ s.pc \notin Beginning
      BY <2>1, Parts, OnwardWorker
    <2>3. /\ m \in [st : {"none", "progress", "complete"},
                    assets : SUBSET Assets, keys : SUBSET CallKeys]
          /\ m.assets = marker.assets /\ m.keys = marker.keys
      BY Parts DEF MarkerOK
    <2>4. Noted(m.assets, m.keys, m.keys)
      BY <2>3, Parts DEF MarkerOK
    <2> HIDE DEF s, m
    <2>5. UpdateMarker(p, m, s)
      BY <1>2 DEF s, m
    <2> QED BY <1>0, <2>2, <2>3, <2>4, <2>5, UpdateMarkerStep
  <1> QED BY <1>1, <1>2 DEF Recheck

LEMMA JournalStep ==
    ASSUME IInv, NEW p \in Workers, Journal(p)
    PROVE  StepOK
  <1>0. Unwritten /\ UNCHANGED ops /\ Aside
    BY Parts DEF Journal, Unwritten, Aside, SideOK, stream, media, calls, side, bounds
  <1> DEFINE s == [w[p] EXCEPT !.pc = "replace"]
             m == [st |-> "progress", assets |-> w[p].assets, keys |-> w[p].keys]
  <1>1. Onward(w[p].pc, "replace") /\ w[p].pc = "journal"
    BY DEF Journal, At, Onward
  <1>2. Worker(s) /\ s \in WorkerState /\ s.job = "room" /\ s.pc \notin Beginning
    BY <1>1, Parts, OnwardWorker
  <1>3. /\ m \in [st : {"none", "progress", "complete"},
                  assets : SUBSET Assets, keys : SUBSET CallKeys]
        /\ m.assets = w[p].assets /\ m.keys = w[p].keys
    BY Parts DEF WorkerState
  <1>4. w[p].job = "room"
    BY <1>1, Parts, JobOf, PCList DEF HistoryPCs
  <1>5. w[p].keys \subseteq w[p].cleaned
    BY <1>1, <1>4, Parts DEF Worker, Passing
  <1>6. Noted(m.assets, m.keys, m.keys)
    BY <1>3, <1>5, Parts DEF Worker, Known, Noted
  <1> HIDE DEF s, m
  <1>7. UpdateMarker(p, m, s)
    BY DEF Journal, s, m
  <1> QED BY <1>0, <1>2, <1>3, <1>6, <1>7, UpdateMarkerStep

LEMMA CompleteStep ==
    ASSUME IInv, NEW p \in Workers, Complete(p)
    PROVE  StepOK
  <1>0. Unwritten /\ UNCHANGED ops /\ Aside
    BY Parts DEF Complete, Unwritten, Aside, SideOK, stream, media, calls, side, bounds
  <1> DEFINE m == [NoMarker EXCEPT !.st = "complete"]
  <1>1. /\ m \in [st : {"none", "progress", "complete"},
                  assets : SUBSET Assets, keys : SUBSET CallKeys]
        /\ Noted(m.assets, m.keys, m.keys)
    BY BareMarker
  <1> HIDE DEF m
  <1>2. UpdateMarker(p, m, Idle) /\ Idle \in Stopped
    BY DEF Complete, m, Stopped
  <1> QED BY <1>0, <1>1, <1>2, StoppedWorker, UpdateMarkerStep

\* What a worker adds to its references when it looks is recorded.
LEMMA CollectedKnown ==
    ASSUME Base, NEW A \in SUBSET Assets, NEW K \in SUBSET CallKeys, NEW C, Noted(A, K, C)
    PROVE  /\ A \cup created \in SUBSET Assets /\ K \cup CallRefs(log) \in SUBSET CallKeys
           /\ Noted(A \cup created, K \cup CallRefs(log), C)
           /\ Noted(A \cup created, K, C)
  <1>1. CallRefs(log) \subseteq CallKeys
    BY EventFields DEF Base, CallRefs
  <1>2. CallRefs(log) \subseteq issued
    BY DEF Base, Recorded, CallRefs
  <1>3. \A a \in created : history[a] # {}
    BY DEF Base, Recorded
  <1>4. created \subseteq Assets
    BY DEF Base, SharedTypes
  <1> QED BY <1>1, <1>2, <1>3, <1>4 DEF Noted

LEMMA PurgeArchivedRoomStep ==
    ASSUME IInv, NEW p \in Workers, PurgeArchivedRoom(p)
    PROVE  StepOK
  <1> DEFINE s == [Idle EXCEPT !.pc = "prepare", !.job = "room"]
  <1>0. /\ Unwritten /\ UNCHANGED <<marker, ops>> /\ Aside /\ lease' = p /\ Set(p, s)
    BY Parts DEF PurgeArchivedRoom, Acquire, Unwritten, Aside, SideOK, stream, media, calls,
                 side, bounds
  <1>1. /\ s.pc = "prepare" /\ s.job = "room" /\ s.assets = {} /\ s.keys = {} /\ s.cleaned = {}
        /\ s.todo = {} /\ s.op = NoOp /\ s \in WorkerState
    <2>1. "prepare" \in PCs
      BY PCList
    <2>2. s \in WorkerState /\ s.pc = "prepare" /\ s.job = "room"
      BY <2>1, IdleTyped DEF WorkerState
    <2> QED BY <2>2 DEF Idle
  <1> HIDE DEF s
  <1>2. Takes(p, s) /\ Leases(p, s) /\ MarkerOK'
    BY <1>0, <1>1, Parts, SetTakes, MarkerStays DEF Leases
  <1>3. Known(s) /\ NamesBarrier(s.op)
    BY <1>1, IdleTyped DEF Known, Noted, NamesBarrier
  <1>4. "prepare" \in RoomPCs /\ "prepare" \in Untombed /\ s.pc \notin Beginning
    BY <1>1, PCList DEF Untombed, Beginning
  <1>5. Worker(s)
    BY <1>1, <1>3, <1>4, RoomWorker
  <1> QED BY <1>0, <1>2, <1>4, <1>5, Moves

LEMMA PrepareStep ==
    ASSUME IInv, NEW p \in Workers, Prepare(p)
    PROVE  StepOK
  <1>r. PICK r : r = w[p]
    OBVIOUS
  <1>0. /\ r \in WorkerState /\ Worker(r) /\ r.pc = "prepare" /\ r.job = "room"
        /\ Unwritten /\ UNCHANGED <<marker, ops>> /\ Aside /\ MarkerOK /\ MarkerOK'
    <2>1. Unwritten /\ UNCHANGED <<marker, ops>> /\ Aside
      BY Parts DEF Prepare, Unwritten, Aside, SideOK, stream, media, calls, side, bounds
    <2> QED BY <1>r, <2>1, Parts, JobOf, PCList, MarkerStays DEF Prepare, At, HistoryPCs
  <1>1. CASE PrepareFirst(p)
    <2>1. CASE Return(p)
      BY <1>0, <2>1, GivesUp
    <2>2. CASE Goto(p, "createMarker") /\ UNCHANGED lease
      <3>1. Onward(w[p].pc, "createMarker")
        BY <1>r, <1>0 DEF Onward
      <3> QED BY <1>0, <2>2, <3>1, OnwardStep
    <2> QED BY <1>1, <2>1, <2>2 DEF PrepareFirst
  <1>2. ASSUME NEW renamed \in BOOLEAN, PrepareAgain(p, renamed) PROVE StepOK
    <2>1. PICK s : /\ Set(p, s) /\ UNCHANGED lease
                   /\ \/ s = [r EXCEPT !.pc = "restartMarker", !.cur = TRUE]
                      \/ \E pc \in {"againCollect", "firstCollect"} :
                            s = [r EXCEPT !.pc = pc, !.cur = TRUE, !.assets = marker.assets,
                                          !.keys = marker.keys, !.cleaned = marker.keys]
      BY <1>r, <1>2 DEF PrepareAgain
    <2>2. /\ s \in WorkerState /\ s.job = "room" /\ s.todo = r.todo /\ s.op = r.op
          /\ s.pc \in {"restartMarker", "againCollect", "firstCollect"}
          /\ \/ s.assets = r.assets /\ s.keys = r.keys /\ s.cleaned = r.cleaned
             \/ s.assets = marker.assets /\ s.keys = marker.keys /\ s.cleaned = marker.keys
      <3>1. /\ marker.assets \in SUBSET Assets /\ marker.keys \in SUBSET CallKeys
            /\ {"restartMarker", "againCollect", "firstCollect"} \subseteq PCs
        BY <1>0, PCList DEF MarkerOK
      <3>2. CASE s = [r EXCEPT !.pc = "restartMarker", !.cur = TRUE]
        BY <1>0, <3>1, <3>2 DEF WorkerState
      <3>3. ASSUME NEW pc \in {"againCollect", "firstCollect"},
                   s = [r EXCEPT !.pc = pc, !.cur = TRUE, !.assets = marker.assets,
                                 !.keys = marker.keys, !.cleaned = marker.keys]
            PROVE  /\ s \in WorkerState /\ s.job = "room" /\ s.todo = r.todo /\ s.op = r.op
                   /\ s.pc = pc /\ s.assets = marker.assets /\ s.keys = marker.keys
                   /\ s.cleaned = marker.keys
        BY <1>0, <3>1, <3>3 DEF WorkerState
      <3> QED BY <2>1, <3>2, <3>3
    <2>3. Known(s) /\ NamesBarrier(s.op)
      BY <1>0, <2>2 DEF Worker, Known, Noted, MarkerOK, Copied
    <2>4. Worker(s) /\ s.pc \notin Beginning
      BY <2>2, <2>3, RoomWorker, PCList DEF Untombed, Beginning
    <2>5. Takes(p, s) /\ Leases(p, s)
      BY <2>1, <2>2, Parts, SetTakes DEF Leases
    <2> QED BY <1>0, <2>4, <2>5, Moves
  <1> QED BY <1>1, <1>2 DEF Prepare

LEMMA CreateMarkerStep ==
    ASSUME IInv, NEW p \in Workers, CreateMarker(p)
    PROVE  StepOK
  <1>r. PICK r : r = w[p]
    OBVIOUS
  <1>0. /\ r \in WorkerState /\ Worker(r) /\ r.pc = "createMarker" /\ r.job = "room"
        /\ Unwritten /\ UNCHANGED <<ops, lease>> /\ Aside
    <2>1. Unwritten /\ UNCHANGED <<ops, lease>> /\ Aside
      BY Parts DEF CreateMarker, Unwritten, Aside, SideOK, stream, media, calls, side, bounds
    <2> QED BY <1>r, <2>1, Parts, JobOf, PCList DEF CreateMarker, At, HistoryPCs
  <1>1. CASE Goto(p, "prepare") /\ UNCHANGED marker
    <2>1. Onward(w[p].pc, "prepare")
      BY <1>r, <1>0 DEF Onward
    <2> QED BY <1>0, <1>1, <2>1, OnwardStep
  <1>2. CASE /\ marker' = [NoMarker EXCEPT !.st = "progress"]
             /\ Set(p, [w[p] EXCEPT !.pc = "firstCollect", !.cur = TRUE])
    <2> DEFINE s == [r EXCEPT !.pc = "firstCollect", !.cur = TRUE]
    <2>1. /\ s \in WorkerState /\ s.job = "room" /\ s.pc = "firstCollect" /\ s.todo = r.todo
          /\ s.op = r.op /\ s.assets = r.assets /\ s.keys = r.keys /\ s.cleaned = r.cleaned
      BY <1>0, PCList DEF WorkerState
    <2>2. Set(p, s)
      BY <1>r, <1>2
    <2> HIDE DEF s
    <2>3. Takes(p, s) /\ Leases(p, s)
      BY <1>0, <2>1, <2>2, Parts, SetTakes DEF Leases
    <2>4. Known(s) /\ NamesBarrier(s.op)
      BY <1>0, <2>1 DEF Worker, Known, Copied
    <2>5. Worker(s) /\ s.pc \notin Beginning
      BY <2>1, <2>4, RoomWorker, PCList DEF Untombed, Beginning
    <2>6. MarkerOK'
      BY <1>2, BareMarker DEF MarkerOK, Noted
    <2> QED BY <1>0, <2>3, <2>5, <2>6, Moves
  <1> QED BY <1>1, <1>2 DEF CreateMarker

LEMMA TombstoneAppended ==
    ASSUME Base, Append("tomb", None),
           UNCHANGED <<history, created, bytes, unposted, keys, issued, starting, live>>
    PROVE  /\ Preserved(OpRecord) /\ Gone' /\ log \subseteq log'
           /\ \A e \in log' : e.t = "barrier" => e \in log
           /\ \E e \in log' : e.t = "tomb" /\ e.seq = end + 1
           /\ \A e \in log' : e.seq <= end => e \in log
  <1>1. PICK t : t = "tomb"
    OBVIOUS
  <1>2. /\ Preserved(OpRecord) /\ log \subseteq log' /\ end' = end + 1
        /\ \A e \in log' : e \in log \/ (e.seq = end' /\ e.t = t /\ e.ref = None)
        /\ \E e \in log' : e.seq = end' /\ e.t = t /\ e.ref = None
        /\ \A e \in log' : e.seq <= end => e \in log
    BY <1>1, AppendPreserves
  <1> QED BY <1>1, <1>2 DEF Gone

LEMMA EnsureTombstoneStep ==
    ASSUME IInv, NEW p \in Workers, EnsureTombstone(p)
    PROVE  StepOK
  <1>r. PICK r : r = w[p]
    OBVIOUS
  <1> DEFINE s == [r EXCEPT !.pc = "cascade"]
  <1>0. /\ r \in WorkerState /\ Worker(r) /\ r.pc = "tombstone" /\ r.job = "room"
        /\ "cascade" \in PCs /\ "cascade" \in RoomPCs
    BY <1>r, Parts, JobOf, PCList DEF EnsureTombstone, At, HistoryPCs
  <1>1. UNCHANGED <<lease, marker, ops>> /\ Aside
        /\ UNCHANGED <<history, created, bytes, unposted, keys, issued, starting, live>>
        /\ Goto(p, "cascade")
    BY Parts DEF EnsureTombstone, Aside, SideOK, bounds, calls, media, side
  <1>2. Takes(p, s)
    BY <1>0, <1>1, <1>r, Parts, GotoTakes
  <1>3. /\ s \in WorkerState /\ s.pc = "cascade" /\ s.job = "room" /\ s.assets = r.assets
        /\ s.keys = r.keys /\ s.cleaned = r.cleaned /\ s.todo = r.todo /\ s.op = r.op
    BY <1>0, SetPC DEF WorkerState
  <1> HIDE DEF s
  <1>4. /\ Preserved(OpRecord) /\ Gone' /\ \A e \in log' : e.t = "barrier" => e \in log
        /\ log \subseteq log'
    <2>1. CASE Gone /\ UNCHANGED <<log, end>>
      <3>1. Unwritten
        BY <1>1, <2>1 DEF Unwritten
      <3> QED BY <2>1, <3>1, Parts, UnwrittenPreserves DEF Gone
    <2>2. CASE Append("tomb", None)
      BY <1>1, <2>2, Parts, TombstoneAppended
    <2> QED BY <2>1, <2>2 DEF EnsureTombstone, stream
  <1>5. Known(s)' /\ Copied(s)'
    <2>1. Known(r)' /\ Copied(r)'
      BY <1>0, <1>3, <1>4, Parts DEF Preserved, Worker, WorkerState
    <2> QED BY <1>0, <1>3, <2>1 DEF Known, Copied, StartPCs
  <1>6. Worker(s)'
    <2>1. JobSteps(s)' /\ Tombed(s)' /\ Passing(s)' /\ RoomErasing(s)' /\ HistoryErasing(s)'
      BY <1>0, <1>3, <1>4 DEF JobSteps, Tombed, Untombed, Passing, RoomErasing, HistoryErasing
    <2> QED BY <1>5, <2>1 DEF Worker
  <1>7. Leases(p, s) /\ Selective
    BY <1>1, <1>3, <1>4, Grows DEF Leases, Beginning
  <1>8. s.pc \notin Beginning
    BY <1>3 DEF Beginning
  <1> QED BY <1>1, <1>2, <1>4, <1>6, <1>7, <1>8, Writes

LEMMA CollectStep ==
    ASSUME IInv, NEW p \in Workers, Collect(p)
    PROVE  StepOK
  <1>r. PICK r : r = w[p]
    OBVIOUS
  <1>0. /\ r \in WorkerState /\ Worker(r)
        /\ r.pc \in {"firstCollect", "againCollect", "collect", "lastCollect"}
        /\ r.job = "room" /\ r.op \in OpRecord /\ Base
    <2>1. r.pc \in {"firstCollect", "againCollect", "collect", "lastCollect"}
      BY <1>r DEF Collect, At, AfterCollect
    <2> QED BY <1>r, <2>1, Parts, JobOf, PCList DEF HistoryPCs
  <1>1. UNCHANGED <<lease, marker, ops>> /\ Aside /\ Unwritten
    BY Parts DEF Collect, Aside, SideOK, bounds, calls, stream, media, side, Unwritten
  <1>A. PICK A : A = r.assets \cup created
    OBVIOUS
  <1>K. PICK K : K = r.keys \cup CallRefs(log)
    OBVIOUS
  <1>t. PICK t : t = IF r.pc = "collect" THEN Tail ELSE r.tail
    OBVIOUS
  <1>c. PICK pc : pc = AfterCollect[r.pc]
    OBVIOUS
  <1> DEFINE s == [r EXCEPT !.pc = pc, !.assets = A, !.keys = K, !.tail = t]
  <1>2. Set(p, s)
    BY <1>r, <1>A, <1>K, <1>t, <1>c DEF Collect
  <1>3. /\ r.assets \cup r.todo \in SUBSET Assets /\ r.keys \in SUBSET CallKeys
        /\ Noted(r.assets \cup r.todo, r.keys, r.cleaned) /\ Tail = end /\ end \in Nat
        /\ r.tail \in Nat
    BY <1>0, TailIsEnd DEF Worker, Known, WorkerState, Base, SharedTypes
  <1>b. PICK B : B = r.assets \cup r.todo
    OBVIOUS
  <1>4. /\ B \cup created \in SUBSET Assets /\ K \in SUBSET CallKeys
        /\ Noted(B \cup created, K, r.cleaned)
    <2>1. B \in SUBSET Assets /\ r.keys \in SUBSET CallKeys /\ Noted(B, r.keys, r.cleaned)
      BY <1>3, <1>b
    <2> QED BY <1>0, <1>K, <2>1, CollectedKnown
  <1>5. Noted(A \cup r.todo, K, r.cleaned) /\ A \in SUBSET Assets
    <2>1. B \cup created = A \cup r.todo
      BY <1>b, <1>A
    <2> QED BY <1>4, <2>1
  <1>6. /\ \A e \in log : e.t = "call" => e.ref \in K
        /\ \A e \in log : e.t = "body" /\ e.ref \in bytes => e.ref \in A
    BY <1>0, <1>A, <1>K DEF Base, Recorded, CallRefs
  <1>7. /\ r.pc = "firstCollect" => pc = "live"
        /\ r.pc = "againCollect" => pc = "recheck"
        /\ r.pc = "collect" => pc = "passLive" /\ t = end
        /\ r.pc = "lastCollect" => pc = "lastLive"
        /\ pc \in {"live", "recheck", "passLive", "lastLive"}
        /\ t \in Nat
    BY <1>0, <1>3, <1>t, <1>c DEF AfterCollect
  <1>8. /\ s \in WorkerState /\ s.pc = pc /\ s.job = "room"
        /\ s.assets = A /\ s.keys = K /\ s.cleaned = r.cleaned
        /\ s.todo = r.todo /\ s.op = r.op /\ s.tail = t
    <2>1. pc \in PCs
      BY <1>7, PCList
    <2> QED BY <1>0, <1>4, <1>5, <1>7, <2>1 DEF WorkerState
  <1> HIDE DEF s
  <1>9. Known(s) /\ NamesBarrier(s.op)
    BY <1>0, <1>5, <1>7, <1>8 DEF Worker, Known, Copied
  <1>10. s.pc \in RoomPCs /\ s.pc \notin Beginning /\ (s.pc \in Untombed \/ Gone)
    BY <1>0, <1>7, <1>8, PCList DEF Worker, Tombed, Untombed, Beginning
  <1>11. Worker(s)
    <2>1. CASE s.pc = "passLive"
      <3>1. JobSteps(s) /\ Tombed(s) /\ RoomErasing(s) /\ HistoryErasing(s) /\ Copied(s)
        BY <1>8, <1>9, <1>10, <2>1
           DEF JobSteps, Tombed, RoomErasing, HistoryErasing, Copied, StartPCs
      <3>2. Passing(s)
        BY <1>0, <1>3, <1>6, <1>7, <1>8, <2>1 DEF Passing
      <3> QED BY <1>9, <3>1, <3>2 DEF Worker
    <2>2. CASE s.pc # "passLive"
      BY <1>7, <1>8, <1>9, <1>10, <2>2, RoomWorker
    <2> QED BY <2>1, <2>2
  <1>12. Takes(p, s) /\ MarkerOK' /\ Leases(p, s)
    BY <1>1, <1>2, <1>8, Parts, SetTakes, MarkerStays DEF Leases
  <1> QED BY <1>1, <1>10, <1>11, <1>12, Moves

\* The calls that are known or have devices have had a key.
LEMMA PurgeLiveCallStep ==
    ASSUME IInv, NEW p \in Workers, PurgeLiveCall(p)
    PROVE  StepOK
  <1>r. PICK r : r = w[p]
    OBVIOUS
  <1>0. /\ r \in WorkerState /\ Worker(r) /\ r.pc \in {"live", "passLive", "lastLive"}
        /\ r.job = "room" /\ r.op \in OpRecord /\ Base
    <2>1. r.pc \in {"live", "passLive", "lastLive"}
      BY <1>r DEF PurgeLiveCall, At, AfterLive
    <2> QED BY <1>r, <2>1, Parts, JobOf, PCList DEF HistoryPCs
  <1>1. UNCHANGED <<lease, marker, ops>> /\ Aside /\ Unwritten
    BY Parts DEF PurgeLiveCall, Aside, SideOK, bounds, calls, stream, media, side, Unwritten
  <1>K. PICK K : K = r.keys \cup ActiveCalls \cup live
    OBVIOUS
  <1>c. PICK pc : pc = AfterLive[r.pc]
    OBVIOUS
  <1> DEFINE s == [r EXCEPT !.pc = pc, !.keys = K]
  <1>2. Set(p, s)
    BY <1>r, <1>K, <1>c DEF PurgeLiveCall
  <1>3. K \subseteq issued /\ K \in SUBSET CallKeys /\ r.keys \subseteq K
    <2>1. ActiveCalls \subseteq issued
      BY <1>0 DEF ActiveCalls, Base, Recorded
    <2>2. r.keys \cup live \subseteq issued /\ issued \subseteq CallKeys
      BY <1>0 DEF Worker, Known, Noted, Base, Recorded, SharedTypes
    <2> QED BY <1>K, <2>1, <2>2
  <1>4. /\ r.pc = "live" => pc = "tombstone"
        /\ r.pc = "passLive" => pc = "keys"
        /\ r.pc = "lastLive" => pc = "lastKeys"
        /\ pc \in {"tombstone", "keys", "lastKeys"}
    BY <1>0, <1>c DEF AfterLive
  <1>5. /\ s \in WorkerState /\ s.pc = pc /\ s.job = "room"
        /\ s.assets = r.assets /\ s.keys = K /\ s.cleaned = r.cleaned
        /\ s.todo = r.todo /\ s.op = r.op /\ s.tail = r.tail
    <2>1. pc \in PCs
      BY <1>4, PCList
    <2> QED BY <1>0, <1>3, <2>1 DEF WorkerState
  <1> HIDE DEF s
  <1>6. Known(s) /\ NamesBarrier(s.op)
    BY <1>0, <1>3, <1>4, <1>5 DEF Worker, Known, Noted, Copied
  <1>7. s.pc \in RoomPCs /\ s.pc \notin Beginning /\ (s.pc \in Untombed \/ Gone)
    BY <1>0, <1>4, <1>5, PCList DEF Worker, Tombed, Untombed, Beginning
  <1>8. Worker(s)
    <2>1. CASE s.pc = "keys"
      <3>1. JobSteps(s) /\ Tombed(s) /\ RoomErasing(s) /\ HistoryErasing(s) /\ Copied(s)
        BY <1>5, <1>6, <1>7, <2>1
           DEF JobSteps, Tombed, RoomErasing, HistoryErasing, Copied, StartPCs
      <3>2. Passing(s)
        BY <1>0, <1>3, <1>4, <1>5, <2>1 DEF Worker, Passing
      <3> QED BY <1>6, <3>1, <3>2 DEF Worker
    <2>2. CASE s.pc # "keys"
      BY <1>4, <1>5, <1>6, <1>7, <2>2, RoomWorker
    <2> QED BY <2>1, <2>2
  <1>9. Takes(p, s) /\ MarkerOK' /\ Leases(p, s)
    BY <1>1, <1>2, <1>5, Parts, SetTakes, MarkerStays DEF Leases
  <1> QED BY <1>1, <1>7, <1>8, <1>9, Moves

LEMMA ShredKeyStep ==
    ASSUME IInv, NEW p \in Workers, ShredKey(p)
    PROVE  StepOK
  <1>r. PICK r : r = w[p]
    OBVIOUS
  <1>0. /\ r \in WorkerState /\ Worker(r) /\ r.pc \in {"keys", "lastKeys"}
        /\ r.job = "room" /\ r.op \in OpRecord /\ Base
    BY <1>r, Parts, JobOf, PCList DEF ShredKey, At, HistoryPCs
  <1>1. UNCHANGED <<lease, marker, ops, log, end, history, created, bytes, unposted, issued, starting, live>>
        /\ Aside
    BY Parts DEF ShredKey, Aside, SideOK, bounds, calls, stream, media, side
  <1>2. ASSUME NEW k \in r.keys \ r.cleaned, keys' = keys \ {k},
               Set(p, [r EXCEPT !.cleaned = @ \cup {k}])
        PROVE  StepOK
    <2> DEFINE s == [r EXCEPT !.cleaned = @ \cup {k}]
    <2>1. /\ s \in WorkerState /\ s.pc = r.pc /\ s.job = "room" /\ s.assets = r.assets
          /\ s.keys = r.keys /\ s.cleaned = r.cleaned \cup {k} /\ s.tail = r.tail
          /\ s.todo = r.todo /\ s.op = r.op
      BY <1>0 DEF WorkerState
    <2>2. Takes(p, s)
      BY <1>2, <2>1, Parts, SetTakes
    <2> HIDE DEF s
    <2>3. Preserved(OpRecord)
      <3>1. starting' \in [CallKeys -> Nat] /\ starting' = starting
        BY <1>0, <1>1 DEF Base, SharedTypes
      <3> QED BY <1>0, <1>1, <1>2, <3>1, DestroyPreserves
    <2>4. JobSteps(r)' /\ Tombed(r)' /\ Known(r)' /\ Passing(r)' /\ Copied(r)'
      BY <1>0, <2>3 DEF Preserved, Worker
    <2>5. JobSteps(s)' /\ Tombed(s)' /\ RoomErasing(s)' /\ HistoryErasing(s)' /\ Copied(s)'
      BY <1>0, <2>1, <2>4 DEF JobSteps, Tombed, Untombed, RoomErasing, HistoryErasing, Copied, StartPCs
    <2>6. Passing(s)'
      BY <1>0, <2>1, <2>4 DEF Passing
    <2>7. Known(s)'
      BY <1>0, <1>2, <2>1, <2>4 DEF Known, Noted
    <2>8. Worker(s)'
      BY <2>5, <2>6, <2>7 DEF Worker
    <2>9. s.pc \notin Beginning /\ Leases(p, s) /\ Selective
      BY <1>0, <1>1, <1>r, <2>1, Grows DEF Leases, Beginning
    <2> QED BY <1>1, <2>2, <2>3, <2>8, <2>9, Writes
  <1>3. CASE /\ w[p].pc = "lastKeys" /\ UNCHANGED keys
             /\ Set(p, [w[p] EXCEPT !.pc = "lastCascade"])
    <2>1. Onward(w[p].pc, "lastCascade") /\ Goto(p, "lastCascade") /\ Unwritten
      BY <1>1, <1>3 DEF Onward, Set, Goto, Unwritten
    <2> QED BY <1>1, <2>1, OnwardStep
  <1>4. ASSUME r.pc = "keys", UNCHANGED keys, r.keys \subseteq r.cleaned, NEW A,
               A = r.assets \cup created,
               Set(p, [r EXCEPT !.pc = "assets", !.assets = A, !.todo = A])
        PROVE  StepOK
    <2> DEFINE s == [r EXCEPT !.pc = "assets", !.assets = A, !.todo = A]
    <2>1. Unwritten /\ r.assets \in SUBSET Assets /\ r.keys \in SUBSET CallKeys
          /\ Noted(r.assets, r.keys, r.cleaned)
      BY <1>0, <1>1, <1>4 DEF Unwritten, Worker, Known, Noted, WorkerState
    <2>2. A \in SUBSET Assets /\ Noted(A, r.keys, r.cleaned)
      BY <1>0, <1>4, <2>1, CollectedKnown
    <2>3. /\ s \in WorkerState /\ s.pc = "assets" /\ s.job = "room" /\ s.assets = A
          /\ s.keys = r.keys /\ s.cleaned = r.cleaned /\ s.tail = r.tail
          /\ s.todo = A /\ s.op = r.op
      BY <1>0, <2>2, PCList DEF WorkerState
    <2>4. Takes(p, s) /\ MarkerOK'
      BY <1>1, <1>4, <2>1, <2>3, Parts, SetTakes, MarkerStays
    <2> HIDE DEF s
    <2>5. JobSteps(s) /\ Tombed(s) /\ RoomErasing(s) /\ HistoryErasing(s) /\ Copied(s)
      BY <1>0, <2>3 DEF Worker, JobSteps, Tombed, Untombed, RoomErasing, HistoryErasing, Copied, StartPCs, RoomPCs
    <2>6. Known(s)
      BY <2>2, <2>3 DEF Known
    <2>7. Passing(s)
      BY <1>0, <1>4, <2>3 DEF Worker, Passing
    <2>8. Worker(s) /\ s.pc \notin Beginning /\ Leases(p, s)
      BY <1>r, <1>1, <2>3, <2>5, <2>6, <2>7 DEF Worker, Leases, Beginning
    <2> QED BY <1>1, <2>1, <2>4, <2>8, Moves
  <1>5. \/ \E k \in r.keys \ r.cleaned :
            keys' = keys \ {k} /\ Set(p, [r EXCEPT !.cleaned = @ \cup {k}])
        \/ /\ r.keys \subseteq r.cleaned /\ UNCHANGED keys
           /\ Set(p, LET A == r.assets \cup created
                     IN IF r.pc = "lastKeys" THEN [r EXCEPT !.pc = "lastCascade"]
                        ELSE [r EXCEPT !.pc = "assets", !.assets = A, !.todo = A])
    BY <1>r DEF ShredKey
  <1> QED BY <1>0, <1>r, <1>2, <1>3, <1>4, <1>5

\* The steps of a worker with one asset at hand ...
AssetMove(r, s) ==
    /\ r.pc \in {"assetTombstone", "assetErase"}
    /\ s.job = r.job /\ s.assets = r.assets /\ s.keys = r.keys /\ s.cleaned = r.cleaned
    /\ s.tail = r.tail /\ s.through = r.through /\ s.keep = r.keep /\ s.todo = r.todo
    /\ s.op = r.op
    /\ s.pc = "assets" \/ (s.pc = "assetErase" /\ s.asset = r.asset)

\* ... that only change the asset's record.
AssetWrite(a) ==
    /\ \E H \in SUBSET {"created", "deleted"} :
          H # {} /\ history' = [history EXCEPT ![a] = H]
    /\ created' \in {created, created \ {a}}
    /\ UNCHANGED <<log, end, bytes, unposted, keys, issued, starting, live, marker, ops, lease>>

LEMMA AssetStep ==
    ASSUME IInv, NEW p \in Workers, NEW r, r = w[p], NEW s \in WorkerState, Takes(p, s),
           AssetMove(r, s), AssetWrite(r.asset), Aside
    PROVE  StepOK
  <1> USE DEF AssetMove
  <1>0. /\ r \in WorkerState /\ Worker(r) /\ r.job \in {"room", "history"}
        /\ r.op \in OpRecord /\ Base /\ s.op \in OpRecord
    BY Parts, JobOf DEF WorkerState
  <1>1. r.asset \in Assets /\ r.asset \notin bytes
    BY <1>0 DEF Worker, Known
  <1>2. Preserved(OpRecord)
    <2>1. PICK H \in SUBSET {"created", "deleted"} :
              H # {} /\ history' = [history EXCEPT ![r.asset] = H]
      BY DEF AssetWrite
    <2> QED BY <1>0, <1>1, <2>1, AssetPreserves DEF AssetWrite
  <1>3. JobSteps(s) /\ Tombed(s) /\ RoomErasing(s)
    BY <1>0 DEF Worker, JobSteps, Tombed, Untombed, RoomErasing, RoomPCs, HistoryPCs
  <1>4. Known(s) /\ Copied(s)
    BY <1>0 DEF Worker, Known, Copied, StartPCs
  <1>5. Passing(s)
    BY <1>0 DEF Worker, Passing
  <1>6. HistoryErasing(s)
    BY <1>0 DEF Worker, HistoryErasing
  <1>7. Worker(s)
    BY <1>3, <1>4, <1>5, <1>6 DEF Worker
  <1>8. Worker(s)'
    BY <1>0, <1>2, <1>7 DEF Preserved
  <1>9. s.pc \notin Beginning /\ Leases(p, s) /\ Selective
    BY <1>0, Grows DEF Leases, AssetWrite, Beginning
  <1> QED BY <1>2, <1>8, <1>9, Writes DEF AssetWrite

LEMMA AssetTombstoneStep ==
    ASSUME IInv, NEW p \in Workers, AssetTombstone(p)
    PROVE  StepOK
  <1>r. PICK r : r = w[p]
    OBVIOUS
  <1>0. r \in WorkerState /\ Worker(r) /\ r.pc = "assetTombstone" /\ "assetErase" \in PCs
    BY <1>r, Parts, PCList DEF AssetTombstone, At
  <1>1. /\ UNCHANGED <<log, end, bytes, unposted, keys, issued, starting, live, marker, ops, lease>> /\ Aside
        /\ Goto(p, "assetErase") /\ created' = created \ {r.asset}
    BY <1>r, Parts DEF AssetTombstone, Aside, SideOK, bounds, calls, stream, side
  <1>2. PICK H : H = history[r.asset] \cup {"deleted"}
    OBVIOUS
  <1>3. r.asset \in Assets
    BY <1>0 DEF Worker, Known
  <1>4. H \in SUBSET {"created", "deleted"} /\ H # {}
    BY <1>2, <1>3, Parts DEF Base, SharedTypes
  <1>5. history' = [history EXCEPT ![r.asset] = H]
    BY <1>r, <1>2 DEF AssetTombstone
  <1> DEFINE s == [r EXCEPT !.pc = "assetErase"]
  <1>6. /\ s \in WorkerState /\ s.job = r.job /\ s.assets = r.assets /\ s.keys = r.keys
        /\ s.cleaned = r.cleaned /\ s.tail = r.tail /\ s.through = r.through
        /\ s.keep = r.keep /\ s.todo = r.todo /\ s.op = r.op
        /\ s.pc = "assetErase" /\ s.asset = r.asset
    BY <1>0 DEF WorkerState
  <1>7. Takes(p, s)
    BY <1>0, <1>1, <1>r, Parts, GotoTakes
  <1> HIDE DEF s
  <1>8. AssetMove(r, s)
    BY <1>0, <1>6 DEF AssetMove
  <1>9. AssetWrite(r.asset)
    BY <1>1, <1>4, <1>5 DEF AssetWrite
  <1> QED BY <1>r, <1>1, <1>6, <1>7, <1>8, <1>9, AssetStep

LEMMA AssetEraseStep ==
    ASSUME IInv, NEW p \in Workers, AssetErase(p)
    PROVE  StepOK
  <1>r. PICK r : r = w[p]
    OBVIOUS
  <1>0. r \in WorkerState /\ Worker(r) /\ r.pc = "assetErase" /\ "assets" \in PCs
    BY <1>r, Parts, PCList DEF AssetErase, At
  <1>1. /\ UNCHANGED <<log, end, bytes, unposted, keys, issued, starting, live, marker, ops, lease>> /\ Aside
        /\ created' = created /\ history' = [history EXCEPT ![r.asset] = {"deleted"}]
        /\ Set(p, [r EXCEPT !.pc = "assets", !.asset = None])
    BY <1>r, Parts DEF AssetErase, Aside, SideOK, bounds, calls, stream, side
  <1> DEFINE s == [r EXCEPT !.pc = "assets", !.asset = None]
  <1>2. /\ s \in WorkerState /\ s.job = r.job /\ s.assets = r.assets /\ s.keys = r.keys
        /\ s.cleaned = r.cleaned /\ s.tail = r.tail /\ s.through = r.through
        /\ s.keep = r.keep /\ s.todo = r.todo /\ s.op = r.op /\ s.pc = "assets"
    BY <1>0 DEF WorkerState
  <1>3. Takes(p, s)
    BY <1>1, <1>2, Parts, SetTakes
  <1> HIDE DEF s
  <1>4. AssetMove(r, s)
    BY <1>0, <1>2 DEF AssetMove
  <1>5. AssetWrite(r.asset)
    BY <1>1 DEF AssetWrite
  <1> QED BY <1>r, <1>1, <1>2, <1>3, <1>4, <1>5, AssetStep

\* While the room exists, what a history purge has to delete is before its barrier.
LEMMA BeforeBarrier ==
    ASSUME Base, NEW r \in WorkerState, Worker(r), r.job = "history",
           r.pc \in {"assets", "assetTombstone", "assetErase", "erase"}, ~Gone,
           NEW e \in log, e.t = "body", e.seq <= r.through
    PROVE  \E b \in log : b.t = "barrier" /\ e.seq < b.seq
  <1>0. e.seq \in Nat /\ end \in Nat
    BY EventFields DEF Base, SharedTypes
  <1>1. r.through = r.op.barrier /\ r.through \in 1..end
    BY DEF Worker, HistoryErasing
  <1>2. NamesBarrier(r.op)
    BY DEF Worker, Copied, StartPCs
  <1>3. PICK b \in log : b.seq = r.op.barrier
    BY <1>0, <1>1, <1>2 DEF NamesBarrier
  <1>4. b.t = "barrier" /\ e.seq # r.op.barrier
    BY <1>0, <1>1, <1>2, <1>3 DEF NamesBarrier
  <1> QED BY <1>0, <1>1, <1>3, <1>4

LEMMA DeleteBytesStep ==
    ASSUME IInv, NEW p \in Workers, DeleteBytes(p)
    PROVE  StepOK
  <1>r. PICK r : r = w[p]
    OBVIOUS
  <1>0. /\ r \in WorkerState /\ Worker(r) /\ r.pc = "assets"
        /\ r.job \in {"room", "history"} /\ r.op \in OpRecord /\ Base
    BY <1>r, Parts, JobOf, PCList DEF DeleteBytes, At, HistoryPCs
  <1>1. UNCHANGED <<lease, marker, ops, log, end, history, created, unposted, keys, issued, starting, live>>
        /\ Aside
    BY Parts DEF DeleteBytes, Aside, SideOK, bounds, calls, stream, side
  <1>2. ASSUME NEW a \in r.todo, bytes' = bytes \ {a},
               Set(p, [r EXCEPT !.pc = "assetTombstone", !.asset = a, !.todo = @ \ {a}])
        PROVE  StepOK
    <2> DEFINE s == [r EXCEPT !.pc = "assetTombstone", !.asset = a, !.todo = @ \ {a}]
    <2>0. a \in Assets /\ history[a] # {}
      BY <1>0 DEF Worker, Known, Noted, WorkerState
    <2>1. /\ s \in WorkerState /\ s.pc = "assetTombstone" /\ s.job = r.job
          /\ s.assets = r.assets /\ s.keys = r.keys /\ s.cleaned = r.cleaned
          /\ s.tail = r.tail /\ s.through = r.through /\ s.keep = r.keep
          /\ s.todo = r.todo \ {a} /\ s.asset = a /\ s.op = r.op
      BY <1>0, <2>0, PCList DEF WorkerState
    <2>2. Takes(p, s)
      BY <1>2, <2>1, Parts, SetTakes
    <2> HIDE DEF s
    <2>3. Preserved(OpRecord)
      <3>1. starting' \in [CallKeys -> Nat] /\ starting' = starting
        BY <1>0, <1>1 DEF Base, SharedTypes
      <3> QED BY <1>0, <1>1, <1>2, <3>1, DestroyPreserves
    <2>4. /\ JobSteps(r)' /\ Tombed(r)' /\ Known(r)' /\ Passing(r)' /\ Copied(r)'
          /\ HistoryErasing(r)'
      BY <1>0, <2>3 DEF Preserved, Worker
    <2>5. JobSteps(s)' /\ Tombed(s)' /\ RoomErasing(s)' /\ Copied(s)'
      BY <1>0, <2>1, <2>4 DEF JobSteps, Tombed, Untombed, RoomErasing, Copied, StartPCs, RoomPCs, HistoryPCs
    <2>6. Passing(s)'
      BY <1>0, <1>2, <2>1, <2>4 DEF Passing
    <2>7. HistoryErasing(s)'
      BY <1>0, <1>2, <2>1, <2>4 DEF HistoryErasing
    <2>8. Known(s)'
      BY <1>0, <1>1, <1>2, <2>0, <2>1, <2>4 DEF Known, Noted
    <2>9. Worker(s)'
      BY <2>5, <2>6, <2>7, <2>8 DEF Worker
    <2>10. Selective
      <3> SUFFICES ASSUME ~Gone, NEW b \in (bytes \cap created) \ bytes' PROVE b \in BodyRefs(Old)
        BY <1>1 DEF Selective
      <3>1. b = a /\ a \in bytes /\ a # None
        BY <1>2, <2>0, RoomPurgeAssumption
      <3>2. r.job = "history"
        BY <1>0 DEF Worker, Tombed, Untombed
      <3>3. PICK e \in log : e.t = "body" /\ e.ref = a /\ e.seq <= r.through
        BY <1>0, <1>2, <3>1, <3>2 DEF Worker, HistoryErasing
      <3>4. e \in Old
        BY <1>0, <3>2, <3>3, BeforeBarrier DEF Old
      <3> QED BY <3>1, <3>3, <3>4 DEF BodyRefs
    <2>11. s.pc \notin Beginning /\ Leases(p, s)
      BY <1>0, <1>1, <1>r, <2>1 DEF Leases, Beginning
    <2> QED BY <1>1, <2>2, <2>3, <2>9, <2>10, <2>11, Writes
  <1>3. ASSUME r.todo = {}, UNCHANGED bytes, NEW pc,
               pc = IF r.job = "room" THEN "passCascade" ELSE "erase", Goto(p, pc)
        PROVE  StepOK
    <2> DEFINE s == [r EXCEPT !.pc = pc]
    <2>0. pc \in PCs /\ Unwritten
      BY <1>1, <1>3, PCList DEF Unwritten
    <2>1. /\ s \in WorkerState /\ s.pc = pc /\ s.job = r.job
          /\ s.assets = r.assets /\ s.keys = r.keys /\ s.cleaned = r.cleaned
          /\ s.tail = r.tail /\ s.through = r.through /\ s.keep = r.keep
          /\ s.todo = {} /\ s.op = r.op
      BY <1>0, <1>3, <2>0 DEF WorkerState
    <2>2. Takes(p, s) /\ MarkerOK'
      BY <1>r, <1>1, <1>3, <2>0, Parts, GotoTakes, MarkerStays
    <2> HIDE DEF s
    <2>3. JobSteps(s) /\ Tombed(s) /\ Known(s) /\ Copied(s) /\ RoomErasing(s)
      BY <1>0, <1>3, <2>1 DEF Worker, JobSteps, Tombed, Untombed, Known, Copied, StartPCs, RoomErasing, RoomPCs,
                              HistoryPCs, AfterCascade
    <2>4. Passing(s)
      BY <1>0, <1>3, <2>1 DEF Worker, Passing
    <2>5. HistoryErasing(s)
      BY <1>0, <1>3, <2>1 DEF Worker, HistoryErasing
    <2>6. Worker(s) /\ s.pc \notin Beginning /\ Leases(p, s)
      BY <1>r, <1>0, <1>1, <1>3, <2>1, <2>3, <2>4, <2>5 DEF Worker, Leases, Beginning
    <2> QED BY <1>1, <2>0, <2>2, <2>6, Moves
  <1>4. \/ \E a \in r.todo :
             /\ bytes' = bytes \ {a}
             /\ Set(p, [r EXCEPT !.pc = "assetTombstone", !.asset = a, !.todo = @ \ {a}])
        \/ /\ r.todo = {} /\ UNCHANGED bytes
           /\ Goto(p, IF r.job = "room" THEN "passCascade" ELSE "erase")
    BY <1>r DEF DeleteBytes
  <1> QED BY <1>2, <1>3, <1>4

\* The loop's continue.
LEMMA NextPassStep ==
    ASSUME IInv, NEW p \in Workers, NextPass(p), Unwritten, UNCHANGED <<marker, ops>>, Aside,
           w[p].pc \in {"replace", "check", "lastCheck"}
    PROVE  StepOK
  <1>1. CASE Abort(p)
    BY <1>1, GivesUp
  <1>2. CASE /\ Set(p, [w[p] EXCEPT !.pc = "collect", !.tail = 0, !.pass = @ + 1])
             /\ UNCHANGED lease
    <2>r. PICK r : r = w[p]
      OBVIOUS
    <2>0. /\ r \in WorkerState /\ Worker(r) /\ r.job = "room"
          /\ r.pc \in {"replace", "check", "lastCheck"}
      BY <2>r, Parts, JobOf, PCList DEF HistoryPCs
    <2>n. PICK n \in Nat : n = r.pass + 1
      BY <2>0 DEF WorkerState
    <2> DEFINE s == [r EXCEPT !.pc = "collect", !.tail = 0, !.pass = n]
    <2>1. /\ s \in WorkerState /\ s.pc = "collect" /\ s.job = "room"
          /\ s.assets = r.assets /\ s.keys = r.keys /\ s.cleaned = r.cleaned
          /\ s.todo = r.todo /\ s.op = r.op
      BY <2>0, PCList DEF WorkerState
    <2>2. MarkerOK' /\ Set(p, s)
      BY <1>2, <2>r, <2>n, MarkerStays
    <2> HIDE DEF s
    <2>6. Takes(p, s)
      BY <2>1, <2>2, Parts, SetTakes
    <2>3. Gone /\ Known(s) /\ NamesBarrier(s.op)
      BY <2>0, <2>1 DEF Worker, Tombed, Untombed, Known, Copied
    <2>4. s.pc \in RoomPCs
      BY <2>1, PCList
    <2>5. Worker(s) /\ s.pc \notin Beginning /\ Leases(p, s)
      BY <1>2, <2>r, <2>1, <2>3, <2>4, RoomWorker DEF Leases, Beginning
    <2> QED BY <2>2, <2>5, <2>6, Moves
  <1> QED BY <1>1, <1>2 DEF NextPass

LEMMA CheckStep ==
    ASSUME IInv, NEW p \in Workers, Check(p)
    PROVE  StepOK
  <1>1. Unwritten /\ UNCHANGED <<marker, ops>> /\ Aside /\ w[p].pc \in {"check", "lastCheck"}
    BY Parts DEF Check, At, Unwritten, Aside, SideOK, bounds, calls, stream, media, side
  <1>2. CASE NextPass(p)
    BY <1>1, <1>2, NextPassStep
  <1>3. ASSUME NEW b, b = IF w[p].pc = "check" THEN "lastCollect" ELSE "complete",
               Goto(p, b), UNCHANGED lease
        PROVE  StepOK
    <2>1. Onward(w[p].pc, b)
      BY <1>1, <1>3 DEF Onward
    <2> QED BY <1>1, <1>3, <2>1, OnwardStep
  <1> QED BY <1>2, <1>3 DEF Check

\* The tombstone is stored at the tail the pass has read: what is before it
\* names no key and no bytes any more.
LEMMA ReplaceStep ==
    ASSUME IInv, NEW p \in Workers, Replace(p)
    PROVE  StepOK
  <1>r. PICK r : r = w[p]
    OBVIOUS
  <1>0. /\ r \in WorkerState /\ Worker(r) /\ r.pc = "replace" /\ r.job = "room"
        /\ r.op \in OpRecord /\ Base
    BY <1>r, Parts, JobOf, PCList DEF Replace, ReplaceAppend, At, HistoryPCs
  <1>1. UNCHANGED <<marker, ops, history, created, bytes, unposted, keys, issued, starting, live>> /\ Aside
    BY Parts DEF Replace, ReplaceAppend, Aside, SideOK, bounds, calls, media, side
  <1>2. CASE NextPass(p) /\ UNCHANGED <<log, end>>
    <2>1. Unwritten
      BY <1>1, <1>2 DEF Unwritten
    <2> QED BY <1>0, <1>r, <1>1, <1>2, <2>1, NextPassStep
  <1>3. ASSUME Tail = r.tail, Append("tomb", None), UNCHANGED lease, NEW n, n = end + 1,
               Set(p, [r EXCEPT !.pc = "erase", !.tail = 0, !.through = n, !.keep = {n}])
        PROVE  StepOK
    <2> DEFINE s == [r EXCEPT !.pc = "erase", !.tail = 0, !.through = n, !.keep = {n}]
    <2>0. r.tail = end /\ end \in Nat /\ n \in Nat /\ end' = n
      BY <1>0, <1>3, TailIsEnd DEF Base, SharedTypes, Append
    <2>1. /\ s \in WorkerState /\ s.pc = "erase" /\ s.job = "room"
          /\ s.assets = r.assets /\ s.keys = r.keys /\ s.cleaned = r.cleaned
          /\ s.todo = r.todo /\ s.op = r.op /\ s.through = n /\ s.keep = {n}
      BY <1>0, <2>0, PCList DEF WorkerState
    <2>2. Takes(p, s)
      BY <1>3, <2>1, Parts, SetTakes
    <2> HIDE DEF s
    <2>3. /\ Preserved(OpRecord) /\ Gone' /\ log \subseteq log'
          /\ \A e \in log' : e.t = "barrier" => e \in log
          /\ \E e \in log' : e.t = "tomb" /\ e.seq = end + 1
          /\ \A e \in log' : e.seq <= end => e \in log
      BY <1>0, <1>1, <1>3, TombstoneAppended
    <2>4. Known(r)' /\ Copied(r)'
      BY <1>0, <2>3 DEF Preserved, Worker
    <2>5. JobSteps(s)' /\ Tombed(s)' /\ Known(s)' /\ Copied(s)' /\ Passing(s)' /\ HistoryErasing(s)'
      BY <1>0, <2>1, <2>3, <2>4
         DEF JobSteps, Tombed, Untombed, Known, Copied, StartPCs, Passing, HistoryErasing, RoomPCs
    <2>6. r.keys \subseteq r.cleaned /\ r.todo = {} /\ r.cleaned \cap keys = {}
      BY <1>0 DEF Worker, Passing, Known, Noted
    <2>7. \A e \in log : (e.t = "call" => e.ref \notin keys) /\ (e.t = "body" => e.ref \notin bytes)
      <3> SUFFICES ASSUME NEW e \in log
                   PROVE  (e.t = "call" => e.ref \notin keys) /\ (e.t = "body" => e.ref \notin bytes)
        OBVIOUS
      <3>1. e.seq <= r.tail
        BY <1>0, <2>0, EventFields DEF Base
      <3>2. (e.t = "call" => e.ref \in r.keys) /\ (e.t = "body" /\ e.ref \in bytes => e.ref \in r.todo)
        BY <1>0, <3>1 DEF Worker, Passing
      <3> QED BY <2>6, <3>2
    <2>8. RoomErasing(s)'
      <3>1. n \in 1..end' /\ n >= n
        BY <1>3, <2>0
      <3>2. \E e \in log' : e.t = "tomb" /\ e.seq >= n
        <4>1. PICK e \in log' : e.t = "tomb" /\ e.seq = end + 1
          BY <2>3
        <4>2. e.seq = n
          BY <1>3, <4>1
        <4> QED BY <3>1, <4>1, <4>2
      <3>3. ASSUME NEW e \in log', e.seq < n
            PROVE  (e.t = "call" => e.ref \notin keys') /\ (e.t = "body" => e.ref \notin bytes')
        <4>1. e.seq \in Nat
          BY EventFields, <2>3 DEF Preserved, Base, SharedTypes, Event
        <4>2. e \in log
          BY <1>3, <2>0, <2>3, <3>3, <4>1
        <4> QED BY <1>1, <2>7, <4>2
      <3> QED BY <2>1, <3>1, <3>2, <3>3 DEF RoomErasing
    <2>9. Worker(s)'
      BY <2>5, <2>8 DEF Worker
    <2>10. s.pc \notin Beginning /\ Leases(p, s) /\ Selective
      BY <1>1, <1>3, <1>r, <2>1, <2>3, Grows DEF Leases, Beginning
    <2> QED BY <1>1, <2>2, <2>3, <2>9, <2>10, Writes
  <1>4. \/ /\ Tail = r.tail /\ Append("tomb", None) /\ UNCHANGED lease
           /\ Set(p, [r EXCEPT !.pc = "erase", !.tail = 0, !.through = end + 1, !.keep = {end + 1}])
        \/ NextPass(p) /\ UNCHANGED <<log, end>>
    BY <1>r DEF Replace, ReplaceAppend, stream
  <1> QED BY <1>2, <1>3, <1>4

LEMMA EraseOneStep ==
    ASSUME IInv, NEW p \in Workers, EraseOne(p)
    PROVE  StepOK
  <1>r. PICK r : r = w[p]
    OBVIOUS
  <1>0. /\ r \in WorkerState /\ Worker(r) /\ r.pc = "erase" /\ r.job \in {"room", "history"}
        /\ r.op \in OpRecord /\ Base
    BY <1>r, Parts, JobOf, PCList DEF EraseOne, At, HistoryPCs
  <1>1. UNCHANGED <<end, marker, ops, history, created, bytes, unposted, keys, issued, starting, live, lease, w>>
        /\ Aside
    BY Parts DEF EraseOne, Aside, SideOK, bounds, calls, media, side
  <1>2. PICK x \in log : x.seq <= r.through /\ x.seq \notin r.keep /\ log' = log \ {x}
    BY <1>r DEF EraseOne, Erasable
  <1>3. Preserved(OpRecord)
    BY <1>0, <1>1, <1>2, ErasePreserves
  <1>4. Worker(r)'
    BY <1>0, <1>3 DEF Preserved
  <1>5. Takes(p, r)
    BY <1>0, <1>1, <1>r, Parts DEF Takes, WorkersOK
  <1>6. Leases(p, r)
    BY <1>0, <1>1 DEF Leases, Beginning
  <1>7. Selective
    <2> SUFFICES ASSUME ~Gone PROVE x \in Old
      BY <1>1, <1>2 DEF Selective
    <2>1. r.job = "history"
      BY <1>0 DEF Worker, Tombed, Untombed
    <2>2. x.t = "body"
      BY <1>0, <1>2, <2>1 DEF Worker, HistoryErasing
    <2> QED BY <1>0, <1>2, <2>1, <2>2, BeforeBarrier DEF Old
  <1>8. r.pc \notin Beginning
        /\ \A e \in log' : e.t = "barrier" => e \in log
    BY <1>0, <1>2 DEF Beginning
  <1> QED BY <1>1, <1>3, <1>4, <1>5, <1>6, <1>7, <1>8, Writes

LEMMA EraseDoneStep ==
    ASSUME IInv, NEW p \in Workers, EraseDone(p)
    PROVE  StepOK
  <1>r. PICK r : r = w[p]
    OBVIOUS
  <1>0. /\ r \in WorkerState /\ Worker(r) /\ r.pc = "erase" /\ r.job \in {"room", "history"}
        /\ r.op \in OpRecord /\ Base
    BY <1>r, Parts, JobOf, PCList DEF EraseDone, At, HistoryPCs
  <1>1. UNCHANGED <<marker, ops>> /\ Unwritten /\ Aside
    BY Parts DEF EraseDone, Aside, SideOK, bounds, calls, stream, media, side, Unwritten
  <1>2. CASE Abort(p)
    BY <1>1, <1>2, GivesUp
  <1>3. ASSUME UNCHANGED lease, NEW pc, pc = IF r.job = "room" THEN "check" ELSE "finish",
               Set(p, [r EXCEPT !.pc = pc, !.through = 0, !.keep = {}])
        PROVE  StepOK
    <2> DEFINE s == [r EXCEPT !.pc = pc, !.through = 0, !.keep = {}]
    <2>1. /\ s \in WorkerState /\ s.pc = pc /\ s.job = r.job
          /\ s.assets = r.assets /\ s.keys = r.keys /\ s.cleaned = r.cleaned
          /\ s.todo = r.todo /\ s.op = r.op
      <3>1. pc \in PCs
        BY <1>3, PCList
      <3>2. {} \in SUBSET Nat /\ 0 \in Nat
        OBVIOUS
      <3>3. s \in WorkerState
        BY <1>0, <3>1, <3>2 DEF WorkerState
      <3> QED BY <1>0, <3>3 DEF WorkerState
    <2>2. Takes(p, s) /\ MarkerOK'
      BY <1>1, <1>3, <2>1, Parts, SetTakes, MarkerStays
    <2> HIDE DEF s
    <2>3. JobSteps(s) /\ Tombed(s) /\ Known(s)
      BY <1>0, <1>3, <2>1 DEF Worker, JobSteps, Tombed, Untombed, Known, RoomPCs, HistoryPCs
    <2>4. Passing(s) /\ RoomErasing(s) /\ HistoryErasing(s)
      BY <1>3, <2>1 DEF Passing, RoomErasing, HistoryErasing
    <2>5. r.job = "history" => ErasedThrough(r.op)
      <3> SUFFICES ASSUME r.job = "history" PROVE ErasedThrough(r.op)
        OBVIOUS
      <3>1. /\ r.through = r.op.barrier /\ r.through \in 1..end /\ end \in Nat
            /\ \A e \in log : e.seq <= r.through => (e.t = "body" <=> e.seq \notin r.keep)
        BY <1>0 DEF Worker, HistoryErasing, Base, SharedTypes
      <3>2. \A e \in log : e.seq <= r.through => e.seq \in r.keep
        BY <1>r DEF EraseDone, Erasable
      <3>3. ASSUME NEW e \in log, e.t = "body" PROVE e.seq > r.op.barrier
        <4>1. e.seq \in Nat /\ ~(e.seq <= r.through)
          BY <1>0, <3>1, <3>2, <3>3, EventFields DEF Base
        <4> QED BY <3>1, <4>1
      <3>4. r.op.barrier # 0
        BY <3>1
      <3> QED BY <3>3, <3>4 DEF ErasedThrough
    <2>6. Copied(s)
      BY <1>0, <1>3, <2>1, <2>5 DEF Worker, Copied, StartPCs
    <2>7. Worker(s) /\ s.pc \notin Beginning /\ Leases(p, s)
      BY <1>r, <1>0, <1>3, <2>1, <2>3, <2>4, <2>6 DEF Worker, Leases, Beginning
    <2> QED BY <1>1, <2>2, <2>7, Moves
  <1>4. \/ /\ UNCHANGED lease
           /\ Set(p, [r EXCEPT !.pc = IF r.job = "room" THEN "check" ELSE "finish",
                               !.through = 0, !.keep = {}])
        \/ Abort(p)
    BY <1>r DEF EraseDone
  <1> QED BY <1>2, <1>3, <1>4


-----------------------------------------------------------------------------
(* The steps of a history purge.                                           *)

\* One record is stored.
LEMMA OpsStored ==
    ASSUME OpsOK, NEW O, Preserved(O), \A i \in Ops : ops[i] \in O,
           NEW o, o.id \in Ops, ops' = [ops EXCEPT ![o.id] = o], RecordOK(o)'
    PROVE  OpsOK'
  <1>1. o \in OpRecord
    BY DEF RecordOK
  <1>2. ops' \in [Ops -> OpRecord]
    BY <1>1 DEF OpsOK
  <1>3. ASSUME NEW i \in Ops PROVE ops'[i].id = i /\ RecordOK(ops[i])'
    <2>1. CASE i = o.id
      <3>1. ops'[i] = o
        BY <2>1 DEF OpsOK
      <3> QED BY <2>1, <3>1
    <2>2. CASE i # o.id
      <3>1. PICK x : x = ops[i]
        OBVIOUS
      <3>2. x \in O /\ RecordOK(x) /\ x.id = i /\ ops'[i] = x
        BY <2>2, <3>1 DEF OpsOK
      <3>3. RecordOK(x)'
        BY <3>2, RecordKept
      <3> QED BY <3>2, <3>3
    <2> QED BY <2>1, <2>2
  <1> QED BY <1>2, <1>3 DEF OpsOK

\* A step that stores a record, and nothing in the room.
LEMMA Records ==
    ASSUME IInv, NEW p \in Workers, NEW s, Takes(p, s), Leases(p, s), Worker(s),
           Unwritten, UNCHANGED marker, Aside,
           s.pc \in Beginning => w[p].pc \in Beginning /\ s.op = w[p].op /\ s.tail = w[p].tail,
           NEW o, o.id \in Ops, ops' = [ops EXCEPT ![o.id] = o], RecordOK(o)
    PROVE  StepOK
  <1>1. Preserved(OpRecord)
    BY Parts, UnwrittenPreserves
  <1>2. s \in WorkerState /\ s.op \in OpRecord /\ o \in OpRecord
    BY DEF Takes, WorkerState, RecordOK
  <1>3. Worker(s)'
    BY <1>1, <1>2 DEF Preserved
  <1>4. RecordOK(o)'
    BY <1>1, <1>2, RecordKept
  <1>5. OpsOK'
    BY <1>1, <1>4, Parts, OpsStored DEF OpsOK
  <1>6. MarkerOK'
    BY MarkerStays
  <1>7. end' \in Nat /\ end <= end' /\ log' = log
    BY Parts DEF Base, SharedTypes, Unwritten
  <1>8. Fresh' /\ \A q \in Workers : Starting(q)'
    BY <1>7, StartingKept DEF Aside
  <1>9. IInv'
    BY <1>1, <1>3, <1>5, <1>6, <1>8, Parts, StepOf DEF Aside
  <1>10. Selective
    BY Grows DEF Unwritten
  <1>11. Gone => Gone'
    BY <1>1 DEF Preserved
  <1> QED BY <1>9, <1>10, <1>11 DEF StepOK

\* ... when it is the worker's own copy but for the status, and the worker's last step.
LEMMA RecordsSame ==
    ASSUME IInv, NEW p \in Workers, NEW s \in Stopped, Takes(p, s), Leases(p, s),
           Unwritten, UNCHANGED marker, Aside,
           NEW o \in OpRecord, o.id \in Ops, ops' = [ops EXCEPT ![o.id] = o],
           o.id = w[p].op.id, o.barrier = w[p].op.barrier,
           o.st = "completed" => ErasedThrough(o)
    PROVE  StepOK
  <1>1. Worker(s) /\ s.pc \notin Beginning
    BY StoppedWorker
  <1>2. NamesBarrier(w[p].op)
    BY Parts DEF Worker, Copied
  <1>3. NamesBarrier(o)
    BY <1>2 DEF NamesBarrier
  <1>4. RecordOK(o)
    BY <1>3 DEF RecordOK
  <1> QED BY <1>1, <1>4, Records

\* A worker without a lease has nothing to release.
LEMMA NotHolding ==
    ASSUME IInv, NEW p \in Workers, w[p].job = "none"
    PROVE  lease # p
  BY Parts, RoomPurgeAssumption DEF WorkersOK

\* A worker without an operation of its own, with a copy of the record.
LEMMA FreeWorker ==
    ASSUME NEW s \in WorkerState, s.job = "none", s.pc \in FreePCs, Known(s),
           NamesBarrier(s.op), s.op.id \in Ops,
           s.pc \in {"recover", "fail", "putRetry"} => s.op.st = "running"
    PROVE  Worker(s) /\ s.pc \notin Beginning
  <1>1. s.pc \notin StartPCs \cup {"assetTombstone", "assetErase"} \cup Beginning
    BY DEF FreePCs, StartPCs, Beginning
  <1>2. JobSteps(s) /\ Tombed(s) /\ Passing(s) /\ RoomErasing(s) /\ HistoryErasing(s)
    BY DEF JobSteps, Tombed, Passing, RoomErasing, HistoryErasing
  <1>3. Copied(s)
    BY <1>1 DEF Copied
  <1> QED BY <1>1, <1>2, <1>3 DEF Worker

\* A running record is read.
LEMMA ReadsRecord ==
    ASSUME IInv, NEW p \in Workers, NEW pc \in {"recover", "work", "putRetry"}, NEW i \in Ops,
           ops[i].st = "running", NEW s, s = [Idle EXCEPT !.op = ops[i], !.pc = pc],
           Set(p, s), lease' = lease, w[p].job = "none",
           Unwritten, UNCHANGED <<marker, ops>>, Aside
    PROVE  StepOK
  <1>o. PICK o : o = ops[i]
    OBVIOUS
  <1>0. /\ o \in OpRecord /\ NamesBarrier(o) /\ o.st = "running" /\ o.id \in Ops
        /\ pc \in PCs /\ pc \in FreePCs
    BY <1>o, Parts, PCList DEF OpsOK, RecordOK, FreePCs
  <1>1. s \in WorkerState
    BY <1>o, <1>0, IdleTyped DEF WorkerState
  <1>2. /\ s.pc = pc /\ s.job = "none" /\ s.assets = {} /\ s.todo = {}
        /\ s.keys = {} /\ s.cleaned = {} /\ s.op = o
    BY <1>o, IdleTyped DEF Idle
  <1>3. Takes(p, s) /\ MarkerOK'
    BY <1>1, Parts, SetTakes, MarkerStays
  <1>4. Known(s)
    BY <1>0, <1>2 DEF Known, Noted
  <1>5. Worker(s) /\ s.pc \notin Beginning
    BY <1>0, <1>1, <1>2, <1>4, FreeWorker
  <1>6. Leases(p, s)
    BY NotHolding DEF Leases
  <1> QED BY <1>3, <1>5, <1>6, Moves

LEMMA ScanHistoryPurgesStep ==
    ASSUME IInv, NEW p \in Workers, NEW i \in Ops, ScanHistoryPurges(p, i)
    PROVE  StepOK
  <1>1. PICK pc : pc = IF ops[i].barrier = 0 THEN "recover" ELSE "work"
    OBVIOUS
  <1>s. PICK s : s = [Idle EXCEPT !.op = ops[i], !.pc = pc]
    OBVIOUS
  <1>2. /\ Unwritten /\ UNCHANGED <<marker, ops>> /\ Aside /\ lease' = lease
        /\ ops[i].st = "running" /\ w[p].pc = "idle" /\ Set(p, s)
    BY <1>1, <1>s, Parts DEF ScanHistoryPurges, Pending, At, Unwritten, Aside, SideOK, stream,
                             media, calls, side, bounds
  <1>3. w[p].job = "none" /\ pc \in {"recover", "work", "putRetry"}
    BY <1>1, <1>2, Parts, JobOf DEF FreePCs
  <1> QED BY <1>s, <1>2, <1>3, ReadsRecord

LEMMA ReadForRetryStep ==
    ASSUME IInv, NEW p \in Workers, ReadForRetry(p)
    PROVE  StepOK
  <1>i. PICK i : i = w[p].op.id
    OBVIOUS
  <1>1. /\ Unwritten /\ UNCHANGED <<marker, ops>> /\ Aside /\ lease' = lease
        /\ w[p].pc = "retry"
    BY Parts DEF ReadForRetry, At, Unwritten, Aside, SideOK, stream, media, calls, side, bounds
  <1>2. w[p].job = "none" /\ lease # p /\ i \in Ops
    <2>1. w[p].job = "none" /\ i \in Ops
      BY <1>i, <1>1, Parts, JobOf DEF FreePCs
    <2> QED BY <2>1, NotHolding
  <1>3. ASSUME ops[i].st = "running", NEW s, s = [Idle EXCEPT !.pc = "putRetry", !.op = ops[i]],
               Set(p, s)
        PROVE  StepOK
    <2>1. s = [Idle EXCEPT !.op = ops[i], !.pc = "putRetry"]
      BY <1>3 DEF Idle
    <2> QED BY <1>1, <1>2, <1>3, <2>1, ReadsRecord
  <1>4. CASE Set(p, Idle)
    <2>1. Return(p)
      BY <1>1, <1>2, <1>4 DEF Return, Release
    <2> QED BY <1>1, <2>1, GivesUp
  <1> QED BY <1>i, <1>3, <1>4 DEF ReadForRetry

LEMMA FailHistoryPurgeStep ==
    ASSUME IInv, NEW p \in Workers, FailHistoryPurge(p)
    PROVE  StepOK
  <1>o. PICK o : o = [w[p].op EXCEPT !.st = "failed"]
    OBVIOUS
  <1>1. /\ Unwritten /\ UNCHANGED marker /\ Aside /\ lease' = lease
        /\ ops' = [ops EXCEPT ![o.id] = o] /\ w[p].pc = "fail" /\ Set(p, Idle)
    BY <1>o, Parts DEF FailHistoryPurge, Store, At, Unwritten, Aside, SideOK, stream, media,
                       calls, side, bounds
  <1>2. /\ o \in OpRecord /\ o.barrier = w[p].op.barrier /\ o.st = "failed"
        /\ o.id = w[p].op.id
    BY <1>o, Parts DEF OpRecord
  <1>3. w[p].job = "none" /\ o.id \in Ops
    BY <1>1, <1>2, Parts, JobOf DEF FreePCs
  <1>4. Takes(p, Idle) /\ Idle \in Stopped
    BY <1>1, Parts, SetTakes, IdleTyped DEF Stopped
  <1>5. Leases(p, Idle)
    BY <1>1, <1>3, NotHolding DEF Leases
  <1> QED BY <1>1, <1>2, <1>3, <1>4, <1>5, RecordsSame

LEMMA PutRetryStep ==
    ASSUME IInv, NEW p \in Workers, PutRetry(p)
    PROVE  StepOK
  <1>o. PICK o : o = w[p].op
    OBVIOUS
  <1>1. /\ Unwritten /\ UNCHANGED marker /\ Aside /\ lease' = lease
        /\ ops' = [ops EXCEPT ![o.id] = o] /\ w[p].pc = "putRetry" /\ Set(p, Idle)
    BY <1>o, Parts DEF PutRetry, Store, At, Unwritten, Aside, SideOK, stream, media, calls, side,
                       bounds
  <1>2. o \in OpRecord /\ o.st = "running"
    BY <1>o, <1>1, Parts DEF Worker, Copied
  <1>3. w[p].job = "none" /\ o.id \in Ops
    BY <1>o, <1>1, Parts, JobOf DEF FreePCs
  <1>4. Takes(p, Idle) /\ Idle \in Stopped
    BY <1>1, Parts, SetTakes, IdleTyped DEF Stopped
  <1>5. Leases(p, Idle)
    BY <1>1, <1>3, NotHolding DEF Leases
  <1> QED BY <1>o, <1>1, <1>2, <1>3, <1>4, <1>5, RecordsSame

LEMMA PutBarrierStep ==
    ASSUME IInv, NEW p \in Workers, PutBarrier(p)
    PROVE  StepOK
  <1>o. PICK o : o = w[p].op
    OBVIOUS
  <1>1. /\ Unwritten /\ UNCHANGED marker /\ Aside
        /\ ops' = [ops EXCEPT ![o.id] = o] /\ w[p].pc = "putBarrier" /\ Return(p)
    BY <1>o, Parts DEF PutBarrier, Store, At, Unwritten, Aside, SideOK, stream, media, calls,
                       side, bounds
  <1>2. o \in OpRecord /\ o.st = "running" /\ o.id \in Ops
    BY <1>o, <1>1, Parts, JobOf DEF Worker, Copied, StartPCs
  <1>3. Idle \in Stopped /\ Takes(p, Idle) /\ Leases(p, Idle)
    BY <1>1, Parts, ReturnTakes
  <1> QED BY <1>o, <1>1, <1>2, <1>3, RecordsSame

LEMMA FinishHistoryPurgeStep ==
    ASSUME IInv, NEW p \in Workers, FinishHistoryPurge(p)
    PROVE  StepOK
  <1>o. PICK o : o = [w[p].op EXCEPT !.st = "completed"]
    OBVIOUS
  <1>1. /\ Unwritten /\ UNCHANGED marker /\ Aside
        /\ ops' = [ops EXCEPT ![o.id] = o] /\ w[p].pc = "finish" /\ Return(p)
    BY <1>o, Parts DEF FinishHistoryPurge, Store, At, Unwritten, Aside, SideOK, stream, media,
                       calls, side, bounds
  <1>2. /\ o \in OpRecord /\ o.barrier = w[p].op.barrier /\ o.st = "completed"
        /\ o.id = w[p].op.id
    BY <1>o, Parts DEF OpRecord
  <1>3. w[p].job = "history" /\ o.id \in Ops
    BY <1>1, <1>2, Parts, JobOf
  <1>4. ErasedThrough(w[p].op)
    BY <1>1, <1>3, Parts DEF Worker, Copied
  <1>5. ErasedThrough(o)
    BY <1>2, <1>4 DEF ErasedThrough
  <1>6. Idle \in Stopped /\ Takes(p, Idle) /\ Leases(p, Idle)
    BY <1>1, Parts, ReturnTakes
  <1> QED BY <1>1, <1>2, <1>3, <1>5, <1>6, RecordsSame

LEMMA CreateOperationStep ==
    ASSUME IInv, NEW p \in Workers, CreateOperation(p)
    PROVE  StepOK
  <1>r. PICK r : r = w[p]
    OBVIOUS
  <1>0. /\ r \in WorkerState /\ Worker(r) /\ r.pc = "create" /\ r.job = "start"
        /\ r.op \in OpRecord /\ r.op.id \in Ops /\ r.op.st = "running" /\ NamesBarrier(r.op)
    BY <1>r, Parts, JobOf DEF CreateOperation, At, Worker, Copied, StartPCs
  <1>1. /\ Unwritten /\ UNCHANGED <<marker, lease>> /\ Aside
        /\ ops' = [ops EXCEPT ![r.op.id] = r.op] /\ Goto(p, "barrier")
    BY <1>r, Parts DEF CreateOperation, Store, Unwritten, Aside, SideOK, stream, media, calls,
                       side, bounds
  <1> DEFINE s == [r EXCEPT !.pc = "barrier"]
  <1>2. /\ s \in WorkerState /\ s.pc = "barrier" /\ s.job = "start" /\ s.assets = r.assets
        /\ s.todo = r.todo /\ s.keys = r.keys /\ s.cleaned = r.cleaned /\ s.op = r.op
        /\ s.tail = r.tail
    BY <1>0, PCList DEF WorkerState
  <1>3. Takes(p, s)
    BY <1>r, <1>1, Parts, GotoTakes, PCList
  <1> HIDE DEF s
  <1>4. Known(s) /\ Copied(s) /\ JobSteps(s)
    BY <1>0, <1>2 DEF Worker, Known, Copied, JobSteps, StartPCs
  <1>5. Tombed(s) /\ Passing(s) /\ RoomErasing(s) /\ HistoryErasing(s)
    BY <1>2 DEF Tombed, Passing, RoomErasing, HistoryErasing
  <1>6. Worker(s) /\ Leases(p, s) /\ w[p].pc \in Beginning /\ s.op = w[p].op /\ s.tail = w[p].tail
    BY <1>r, <1>0, <1>1, <1>2, <1>4, <1>5 DEF Worker, Leases, Beginning
  <1>7. RecordOK(r.op)
    BY <1>0 DEF RecordOK
  <1> QED BY <1>0, <1>1, <1>3, <1>6, <1>7, Records

\* An operation has one barrier, and the recovery finds it.
LEMMA RecoverBarrierStep ==
    ASSUME IInv, NEW p \in Workers, RecoverBarrier(p)
    PROVE  StepOK
  <1>r. PICK r : r = w[p]
    OBVIOUS
  <1>0. /\ r \in WorkerState /\ Worker(r) /\ r.pc = "recover" /\ r.job = "none"
        /\ r.op \in OpRecord /\ r.op.id \in Ops /\ Base /\ r.op.st = "running"
    BY <1>r, Parts, JobOf DEF RecoverBarrier, At, Worker, Copied, FreePCs
  <1>1. Unwritten /\ UNCHANGED <<marker, lease>> /\ Aside /\ MarkerOK'
    <2>1. Unwritten /\ UNCHANGED <<marker, lease>> /\ Aside
      BY Parts DEF RecoverBarrier, Aside, SideOK, stream, media, calls, side, bounds, Unwritten
    <2> QED BY <2>1, MarkerStays
  <1>2. ASSUME NEW pc \in {"work", "fail"}, Goto(p, pc)
        PROVE  \E s : Takes(p, s) /\ Leases(p, s) /\ Worker(s) /\ s.pc \notin Beginning
    <2> DEFINE s == [r EXCEPT !.pc = pc]
    <2>0. pc \in PCs /\ pc \in FreePCs
      BY PCList DEF FreePCs
    <2>1. /\ s \in WorkerState /\ s.pc = pc /\ s.job = "none" /\ s.assets = r.assets
          /\ s.todo = r.todo /\ s.keys = r.keys /\ s.cleaned = r.cleaned /\ s.op = r.op
      BY <1>0, <2>0 DEF WorkerState
    <2>2. Takes(p, s)
      BY <1>r, <1>2, <2>0, Parts, GotoTakes
    <2> HIDE DEF s
    <2>3. Known(s) /\ NamesBarrier(s.op)
      BY <1>0, <2>1 DEF Worker, Known, Copied
    <2>4. Worker(s) /\ s.pc \notin Beginning
      BY <1>0, <2>0, <2>1, <2>3, FreeWorker
    <2>5. Leases(p, s)
      BY <1>r, <1>0, <1>1, NotHolding DEF Leases
    <2> QED BY <2>2, <2>4, <2>5
  <1>3. CASE Goto(p, "fail") /\ UNCHANGED ops
    BY <1>1, <1>2, <1>3, Moves
  <1>4. ASSUME NEW e \in log, e.t = "barrier", e.ref = r.op.id, NEW o,
               o = [r.op EXCEPT !.barrier = e.seq],
               ops' = [ops EXCEPT ![o.id] = o], Goto(p, "work")
        PROVE  StepOK
    <2>1. PICK s : Takes(p, s) /\ Leases(p, s) /\ Worker(s) /\ s.pc \notin Beginning
      BY <1>2, <1>4
    <2>2. e.seq \in Nat /\ e.seq <= end
      BY <1>0, EventFields DEF Base
    <2>3. /\ o \in OpRecord /\ o.barrier = e.seq /\ o.st = "running" /\ o.id = r.op.id
      BY <1>0, <1>4, <2>2 DEF OpRecord
    <2>4. \A f \in log : f.seq = e.seq <=> f.t = "barrier" /\ f.ref = o.id
      BY <1>0, <1>4, <2>3 DEF Base, Sequenced
    <2>5. RecordOK(o)
      BY <2>2, <2>3, <2>4 DEF NamesBarrier, RecordOK
    <2> QED BY <1>0, <1>1, <1>4, <2>1, <2>3, <2>5, Records
  <1>5. \/ \E e \in log : /\ e.t = "barrier" /\ e.ref = r.op.id
                          /\ Store([r.op EXCEPT !.barrier = e.seq]) /\ Goto(p, "work")
        \/ Goto(p, "fail") /\ UNCHANGED ops
    BY <1>r DEF RecoverBarrier
  <1> QED BY <1>3, <1>4, <1>5 DEF Store

LEMMA ProcessHistoryPurgeStep ==
    ASSUME IInv, NEW p \in Workers, ProcessHistoryPurge(p)
    PROVE  StepOK
  <1>i. PICK i : i = w[p].op.id
    OBVIOUS
  <1>0. w[p].job = "none" /\ i \in Ops /\ lease # p
    <2>1. w[p].job = "none" /\ i \in Ops
      BY <1>i, Parts, JobOf DEF ProcessHistoryPurge, At, FreePCs
    <2> QED BY <2>1, NotHolding
  <1>1. Unwritten /\ UNCHANGED <<marker, ops>> /\ Aside /\ MarkerOK'
    <2>1. Unwritten /\ UNCHANGED <<marker, ops>> /\ Aside
      BY Parts DEF ProcessHistoryPurge, Aside, SideOK, stream, media, calls, side, bounds, Unwritten
    <2> QED BY <2>1, MarkerStays
  <1>2. ASSUME NEW o, o = ops[i], o.st = "running", lease' = p,
               Set(p, [Idle EXCEPT !.job = "history", !.op = o, !.pc = "snapshot"])
        PROVE  StepOK
    <2> DEFINE s == [Idle EXCEPT !.job = "history", !.op = o, !.pc = "snapshot"]
    <2>0. o \in OpRecord /\ NamesBarrier(o) /\ o.id \in Ops /\ "snapshot" \in PCs
      BY <1>0, <1>2, Parts, PCList DEF OpsOK, RecordOK
    <2>1. s \in WorkerState
      BY <2>0, IdleTyped DEF WorkerState
    <2>2. /\ s.pc = "snapshot" /\ s.job = "history" /\ s.assets = {}
          /\ s.todo = {} /\ s.keys = {} /\ s.cleaned = {} /\ s.op = o
      BY DEF Idle
    <2>3. Takes(p, s)
      BY <1>2, <2>1, Parts, SetTakes
    <2> HIDE DEF s
    <2>4. Known(s) /\ Copied(s) /\ JobSteps(s)
      BY <1>2, <2>0, <2>2 DEF Known, Noted, Copied, StartPCs, JobSteps, HistoryPCs
    <2>5. Tombed(s) /\ Passing(s) /\ RoomErasing(s) /\ HistoryErasing(s)
      BY <2>2 DEF Tombed, Passing, RoomErasing, HistoryErasing
    <2>6. Worker(s) /\ s.pc \notin Beginning /\ Leases(p, s)
      BY <1>2, <2>2, <2>4, <2>5 DEF Worker, Leases, Beginning
    <2> QED BY <1>1, <2>3, <2>6, Moves
  <1>3. ASSUME NEW s \in Stopped, Set(p, s), UNCHANGED lease
        PROVE  StepOK
    <2>1. Worker(s) /\ s \in WorkerState /\ s.pc \notin Beginning
      BY StoppedWorker
    <2>2. Takes(p, s) /\ Leases(p, s)
      BY <1>0, <1>3, <2>1, Parts, SetTakes DEF Leases
    <2> QED BY <1>1, <2>1, <2>2, Moves
  <1>4. Idle \in Stopped /\ Retry(i) \in Stopped
    BY <1>0 DEF Stopped
  <1> QED BY <1>i, <1>2, <1>3, <1>4 DEF ProcessHistoryPurge, Acquire

\* What the messages up to the barrier name is noted; nothing else is erased.
LEMMA HistorySnapshotStep ==
    ASSUME IInv, NEW p \in Workers, HistorySnapshot(p)
    PROVE  StepOK
  <1>r. PICK r : r = w[p]
    OBVIOUS
  <1>0. /\ r \in WorkerState /\ Worker(r) /\ r.pc = "snapshot" /\ r.job = "history"
        /\ r.op \in OpRecord /\ r.op.id \in Ops /\ Base /\ NamesBarrier(r.op)
        /\ r.op.st = "running"
    BY <1>r, Parts, JobOf DEF HistorySnapshot, At, Worker, Copied
  <1>1. Unwritten /\ UNCHANGED <<marker, ops>> /\ Aside /\ MarkerOK'
    <2>1. Unwritten /\ UNCHANGED <<marker, ops>> /\ Aside
      BY Parts DEF HistorySnapshot, Aside, SideOK, stream, media, calls, side, bounds, Unwritten
    <2> QED BY <2>1, MarkerStays
  <1>2. CASE Abort(p)
    BY <1>1, <1>2, GivesUp
  <1>3. ASSUME r.op.barrier \in Seqs(log), UNCHANGED lease,
               NEW b, b = r.op.barrier, NEW A, A = BodyRefs({e \in log : e.seq <= b}),
               NEW K, K = Seqs({e \in log : e.seq <= b /\ e.t # "body"}),
               Set(p, [r EXCEPT !.pc = "assets", !.assets = A, !.todo = A,
                                !.through = b, !.keep = K])
        PROVE  StepOK
    <2> DEFINE s == [r EXCEPT !.pc = "assets", !.assets = A, !.todo = A,
                              !.through = b, !.keep = K]
    <2>0. end \in Nat /\ \A e \in log : e.seq \in 1..end
      BY <1>0, EventFields DEF Base, SharedTypes
    <2>1. b \in 1..end /\ K \subseteq 1..end /\ b \in Nat /\ K \subseteq Nat
      BY <1>3, <2>0 DEF Seqs
    <2>2. \A a \in A : \E e \in log : e.t = "body" /\ e.ref = a /\ e.seq <= b
      BY <1>3 DEF BodyRefs
    <2>3. A \subseteq Assets
      BY <1>0, <2>2, EventFields DEF Base
    <2>4. /\ s \in WorkerState /\ s.pc = "assets" /\ s.job = "history" /\ s.assets = A
          /\ s.keys = r.keys /\ s.cleaned = r.cleaned /\ s.todo = A /\ s.op = r.op
          /\ s.through = b /\ s.keep = K
      BY <1>0, <2>1, <2>3, PCList DEF WorkerState
    <2>5. Takes(p, s)
      BY <1>3, <2>4, Parts, SetTakes
    <2> HIDE DEF s
    <2>6. \A a \in A : history[a] # {}
      BY <1>0, <2>2 DEF Base, Recorded
    <2>7. Known(s) /\ Copied(s)
      BY <1>0, <2>4, <2>6 DEF Worker, Known, Noted, Copied, StartPCs
    <2>8. JobSteps(s) /\ Tombed(s) /\ Passing(s) /\ RoomErasing(s)
      BY <1>0, <2>4 DEF JobSteps, Tombed, Passing, RoomErasing, HistoryPCs
    <2>9. HistoryErasing(s)
      <3>1. ASSUME NEW e \in log, e.seq <= b PROVE e.t = "body" <=> e.seq \notin K
        <4>1. CASE e.t # "body"
          BY <1>3, <3>1, <4>1 DEF Seqs
        <4>2. CASE e.t = "body"
          BY <1>0, <1>3, <4>2 DEF Base, Sequenced, Seqs
        <4> QED BY <4>1, <4>2
      <3>2. ASSUME NEW e \in log, e.seq <= b, e.t = "body" PROVE e.ref \in A
        <4>1. e.ref # None
          BY <1>0, <3>2, EventFields, RoomPurgeAssumption DEF Base
        <4> QED BY <1>3, <3>2, <4>1 DEF BodyRefs
      <3> QED BY <1>3, <2>1, <2>2, <2>4, <3>1, <3>2 DEF HistoryErasing
    <2>10. Worker(s) /\ s.pc \notin Beginning /\ Leases(p, s)
      BY <1>r, <1>3, <2>4, <2>7, <2>8, <2>9 DEF Worker, Leases, Beginning
    <2> QED BY <1>1, <2>5, <2>10, Moves
  <1>4. \/ /\ r.op.barrier \in Seqs(log) /\ UNCHANGED lease
           /\ LET A == BodyRefs({e \in log : e.seq <= r.op.barrier})
              IN  Set(p, [r EXCEPT !.pc = "assets", !.assets = A, !.todo = A,
                                   !.through = r.op.barrier,
                                   !.keep = Seqs({e \in log : e.seq <= r.op.barrier /\ e.t # "body"})])
        \/ Abort(p)
    BY <1>r DEF HistorySnapshot, Kept
  <1> QED BY <1>2, <1>3, <1>4

\* A new operation: its ID was not used, and the room is there.
LEMMA StartRoomHistoryPurgeStep ==
    ASSUME IInv, NEW p \in Workers, NEW i \in Ops, StartRoomHistoryPurge(p, i)
    PROVE  StepOK
  <1>n. PICK n : n = end
    OBVIOUS
  <1> DEFINE o == [id |-> i, st |-> "running", barrier |-> 0]
             s == [Idle EXCEPT !.pc = "create", !.job = "start", !.tail = n, !.op = o]
  <1>0. Tail = end /\ end \in Nat
    BY Parts, TailIsEnd DEF Base, SharedTypes
  <1>1. /\ Unwritten /\ UNCHANGED <<marker, ops>> /\ SideOK' /\ Set(p, s) /\ lease' = p
        /\ ~Gone /\ i \in jobs /\ jobs' = jobs \ {i}
    BY <1>n, <1>0, Parts DEF StartRoomHistoryPurge, Acquire, Unwritten, SideOK, stream, media, calls, side
  <1>2. o \in OpRecord /\ o.barrier = 0 /\ o.st = "running" /\ o.id = i /\ "create" \in PCs
    BY PCList DEF OpRecord
  <1> HIDE DEF o
  <1>3. s \in WorkerState
    BY <1>n, <1>0, <1>2, IdleTyped DEF WorkerState
  <1>4. /\ s.pc = "create" /\ s.job = "start" /\ s.assets = {}
        /\ s.todo = {} /\ s.keys = {} /\ s.cleaned = {} /\ s.op = o /\ s.tail = end
    BY <1>n DEF Idle
  <1>5. Takes(p, s)
    BY <1>1, <1>3, Parts, SetTakes
  <1> HIDE DEF s
  <1>6. Known(s) /\ Copied(s) /\ JobSteps(s)
    BY <1>2, <1>4 DEF Known, Noted, Copied, NamesBarrier, JobSteps, StartPCs
  <1>7. Tombed(s) /\ Passing(s) /\ RoomErasing(s) /\ HistoryErasing(s)
    BY <1>4 DEF Tombed, Passing, RoomErasing, HistoryErasing
  <1>8. Worker(s) /\ Leases(p, s)
    BY <1>1, <1>4, <1>6, <1>7 DEF Worker, Leases
  <1>9. Preserved(OpRecord) /\ MarkerOK'
    BY <1>1, Parts, UnwrittenPreserves, MarkerStays
  <1>10. Worker(s)' /\ OpsOK'
    <2>1. Worker(s)'
      BY <1>2, <1>3, <1>4, <1>8, <1>9 DEF Preserved
    <2> QED BY <1>1, <1>9, <2>1, Parts, OpsUnchanged DEF OpsOK
  <1>11. /\ \A q \in Workers \ {p} : /\ w'[q].pc = w[q].pc /\ w'[q].op = w[q].op
                                     /\ w'[q].tail = w[q].tail
         /\ w'[p] = s /\ log' = log /\ end' = end /\ ~Gone'
    BY <1>1, <1>5, Parts DEF Takes, WorkerState, Unwritten, Gone
  <1>12. /\ \A e \in log : e.t = "barrier" => e.ref # i
         /\ \A q \in Workers : w[q].pc \in Beginning => w[q].op.id # i
    BY <1>1, Parts DEF Fresh
  <1>13. Fresh'
    BY <1>1, <1>2, <1>4, <1>11, Parts DEF Fresh
  <1>14. ASSUME NEW q \in Workers, w'[q].pc \in Beginning PROVE Starting(q)'
    <2>1. CASE q = p
      <3>1. w'[q].op.id = i /\ w'[q].tail = end
        BY <1>2, <1>4, <1>11, <2>1
      <3>2. \A r \in Workers : w'[r].pc \in Beginning /\ w'[r].op.id = i => r = q
        BY <1>11, <1>12, <2>1
      <3> QED BY <1>0, <1>11, <1>12, <3>1, <3>2 DEF Starting
    <2>2. CASE q # p
      <3>1. w[q].pc \in Beginning /\ w'[q].op = w[q].op /\ w'[q].tail = w[q].tail /\ Starting(q)
        BY <1>11, <1>14, <2>2, Parts
      <3>2. w[q].op.id # i
        BY <1>12, <3>1
      <3>3. \A r \in Workers : w'[r].pc \in Beginning /\ w'[r].op.id = w'[q].op.id => r = q
        BY <1>2, <1>4, <1>11, <3>1, <3>2 DEF Starting
      <3> QED BY <1>11, <3>1, <3>3 DEF Starting
    <2> QED BY <2>1, <2>2
  <1>15. \A q \in Workers : Starting(q)'
    BY <1>14 DEF Starting
  <1>16. IInv'
    BY <1>1, <1>5, <1>8, <1>9, <1>10, <1>13, <1>15, Parts, StepOf
  <1>17. Selective
    BY <1>1, Grows DEF Unwritten
  <1> QED BY <1>1, <1>16, <1>17 DEF StepOK

\* The record is purged: the barrier was not stored.
LEMMA RecordPurged ==
    ASSUME IInv, NEW p \in Workers, w[p].pc = "barrier", Remove(w[p].op.id), Return(p),
           Unwritten, UNCHANGED marker, Aside
    PROVE  StepOK
  <1>i. PICK i : i = w[p].op.id
    OBVIOUS
  <1>1. i \in Ops
    BY <1>i, Parts, JobOf DEF StartPCs
  <1>o. PICK o : o = NoRecord(i)
    OBVIOUS
  <1>2. o.id = i /\ o \in OpRecord /\ o.barrier = 0 /\ o.st = "none"
    BY <1>1, <1>o, IdleTyped
  <1>3. ops' = [ops EXCEPT ![o.id] = o] /\ RecordOK(o)
    BY <1>i, <1>o, <1>2 DEF Remove, RecordOK, NamesBarrier
  <1>4. Takes(p, Idle) /\ Leases(p, Idle) /\ Worker(Idle) /\ Idle.pc \notin Beginning
    BY Parts, ReturnTakes, StoppedWorker
  <1> QED BY <1>1, <1>2, <1>3, <1>4, Records

\* The records but those that name a barrier of operation i.
LEMMA RecordsBut ==
    ASSUME NEW i
    PROVE  \E O \in SUBSET OpRecord : \A x \in OpRecord : x \in O <=> x.id # i \/ x.barrier = 0
  <1> DEFINE P == {x \in OpRecord : x.id # i \/ x.barrier = 0}
  <1>1. P \in SUBSET OpRecord /\ \A x \in OpRecord : x \in P <=> x.id # i \/ x.barrier = 0
    OBVIOUS
  <1> HIDE DEF P
  <1> QED BY <1>1

\* What a request that stores its barrier leaves: the operation's only one, at the
\* new end; no record names another.
LEMMA BarrierStored ==
    ASSUME IInv, NEW p \in Workers, w[p].pc = "barrier", NEW i, i = w[p].op.id,
           Append("barrier", i), Tail = w[p].tail,
           UNCHANGED <<history, created, bytes, unposted, keys, issued, starting, live>>,
           NEW O \in SUBSET OpRecord, \A o \in OpRecord : o \in O <=> o.id # i \/ o.barrier = 0
    PROVE  /\ Preserved(O) /\ \A q \in Workers : w[q].op \in O
           /\ \A j \in Ops : ops[j] \in O
           /\ i \in Ops /\ Selective /\ end \in Nat /\ end' = end + 1
           /\ \A e \in log' : e \in log \/ (e.t = "barrier" /\ e.ref = i)
           /\ \A e \in log' : e.seq = end' <=> e.t = "barrier" /\ e.ref = i
           /\ \E e \in log' : e.seq = end'
  <1>1. Starting(p) /\ Base /\ end \in Nat /\ Tail = end /\ i \in Ops
    BY Parts, TailIsEnd, JobOf DEF Base, SharedTypes, StartPCs
  <1>2. (\A e \in log : e.t = "barrier" => e.ref # i) /\ ~Gone
    BY <1>1 DEF Starting, Beginning
  <1>t. PICK t : t = "barrier"
    OBVIOUS
  <1>4. /\ Preserved(O)
        /\ log \subseteq log' /\ end' = end + 1
        /\ \A e \in log' : e \in log \/ (e.seq = end' /\ e.t = t /\ e.ref = i)
        /\ \E e \in log' : e.seq = end' /\ e.t = t /\ e.ref = i
        /\ \A e \in log' : e.seq <= end => e \in log
    <2>1. t \in {"body", "call", "barrier", "tomb"} /\ Append(t, i)
      BY <1>t
    <2>2. \A o \in O : t = "barrier" => o.id # i \/ o.barrier = 0
      OBVIOUS
    <2> QED BY <1>1, <1>2, <1>t, <2>1, <2>2, AppendPreserves
  <1>5. ASSUME NEW o \in OpRecord, NamesBarrier(o) PROVE o \in O
    BY <1>2, <1>5 DEF NamesBarrier
  <1>6. \A q \in Workers : w[q].op \in O
    BY <1>5, Parts DEF Worker, Copied
  <1>7. \A j \in Ops : ops[j] \in O
    BY <1>5, Parts DEF OpsOK, RecordOK
  <1>8. Selective
    BY <1>4, Grows
  <1>9. \A e \in log : e.seq # end'
    BY <1>1, <1>4, EventFields DEF Base
  <1>10. \A e \in log' : e.seq = end' <=> e.t = "barrier" /\ e.ref = i
    BY <1>2, <1>4, <1>9, <1>t
  <1> QED BY <1>1, <1>4, <1>6, <1>7, <1>8, <1>10, <1>t

LEMMA BarrierRecorded ==
    ASSUME IInv, NEW p \in Workers, w[p].pc = "barrier", Append("barrier", w[p].op.id),
           Tail = w[p].tail, NEW s, Takes(p, s), Leases(p, s), s.pc \notin Beginning,
           UNCHANGED <<history, created, bytes, unposted, keys, issued, starting, live, marker>>,
           Aside, Worker(s)', UNCHANGED ops \/ Remove(w[p].op.id)
    PROVE  StepOK
  <1>i. PICK i : i = w[p].op.id
    OBVIOUS
  <1>1. PICK O \in SUBSET OpRecord : \A x \in OpRecord : x \in O <=> x.id # i \/ x.barrier = 0
    BY RecordsBut
  <1>2. /\ Preserved(O) /\ \A q \in Workers : w[q].op \in O
        /\ \A j \in Ops : ops[j] \in O
        /\ i \in Ops /\ Selective /\ end \in Nat /\ end' = end + 1
        /\ \A e \in log' : e \in log \/ (e.t = "barrier" /\ e.ref = i)
    <2>1. /\ Append("barrier", i)
          /\ UNCHANGED <<history, created, bytes, unposted, keys, issued, starting, live>>
      BY <1>i
    <2> QED BY <1>i, <1>1, <2>1, BarrierStored
  <1>3. Fresh' /\ \A q \in Workers : Starting(q)'
    <2>1. end' \in Nat /\ end <= end' /\ ~(end' = end) /\ w[p].pc \in Beginning
      BY <1>2 DEF Beginning
    <2> QED BY <1>i, <1>2, <2>1, StartingKept DEF Aside
  <1>4. MarkerOK'
    BY <1>2, Parts, MarkerUnchanged
  <1>5. OpsOK'
    <2>1. CASE UNCHANGED ops
      BY <1>2, <2>1, Parts, OpsUnchanged
    <2>2. CASE Remove(w[p].op.id)
      <3>1. PICK o : o = NoRecord(i)
        OBVIOUS
      <3>2. o.id = i /\ o \in OpRecord /\ o.barrier = 0 /\ o.st = "none"
        BY <1>2, <3>1, IdleTyped
      <3>3. ops' = [ops EXCEPT ![o.id] = o] /\ RecordOK(o)'
        BY <1>i, <2>2, <3>1, <3>2 DEF Remove, RecordOK, NamesBarrier
      <3> QED BY <1>2, <3>2, <3>3, Parts, OpsStored
    <2> QED BY <2>1, <2>2
  <1>6. IInv'
    BY <1>2, <1>3, <1>4, <1>5, StepOf DEF Aside
  <1>7. Gone => Gone'
    BY <1>2 DEF Preserved
  <1> QED BY <1>2, <1>6, <1>7 DEF StepOK

LEMMA PublishBarrierStep ==
    ASSUME IInv, NEW p \in Workers, PublishBarrier(p)
    PROVE  StepOK
  <1>r. PICK r : r = w[p]
    OBVIOUS
  <1>0. /\ r \in WorkerState /\ Worker(r) /\ r.pc = "barrier" /\ r.job = "start"
        /\ r.op \in OpRecord /\ r.op.st = "running"
    BY <1>r, Parts, JobOf DEF PublishBarrier, At, Worker, Copied, StartPCs
  <1>1. /\ UNCHANGED <<history, created, bytes, unposted, keys, issued, starting, live, marker>>
        /\ Aside
    BY Parts DEF PublishBarrier, Aside, SideOK, media, calls, side, bounds
  <1>2. CASE Remove(w[p].op.id) /\ Return(p) /\ UNCHANGED <<log, end>>
    <2>1. Unwritten
      BY <1>1, <1>2 DEF Unwritten
    <2> QED BY <1>r, <1>0, <1>1, <1>2, <2>1, RecordPurged
  <1>3. ASSUME Tail = r.tail, Append("barrier", r.op.id), UNCHANGED <<ops, lease>>,
               NEW o, o = [r.op EXCEPT !.barrier = end + 1],
               Set(p, [r EXCEPT !.pc = "putBarrier", !.op = o])
        PROVE  StepOK
    <2> DEFINE s == [r EXCEPT !.pc = "putBarrier", !.op = o]
    <2>i. PICK i : i = r.op.id
      OBVIOUS
    <2>1. PICK O \in SUBSET OpRecord : \A x \in OpRecord : x \in O <=> x.id # i \/ x.barrier = 0
      BY RecordsBut
    <2>2. /\ Preserved(O) /\ \A q \in Workers : w[q].op \in O
          /\ end \in Nat /\ end' = end + 1 /\ i \in Ops
          /\ \A e \in log' : e.seq = end' <=> e.t = "barrier" /\ e.ref = i
          /\ \E e \in log' : e.seq = end'
      <3>1. /\ Append("barrier", i) /\ i = w[p].op.id /\ w[p].pc = "barrier"
            /\ Tail = w[p].tail
        BY <1>r, <1>0, <1>3, <2>i
      <3> QED BY <1>1, <2>1, <3>1, BarrierStored
    <2>3. o \in OpRecord /\ o.st = "running" /\ o.barrier = end' /\ end' <= end' /\ o.id = i
      BY <1>0, <1>3, <2>i, <2>2 DEF OpRecord
    <2>4. /\ s \in WorkerState /\ s.pc = "putBarrier" /\ s.job = "start" /\ s.assets = r.assets
          /\ s.todo = r.todo /\ s.keys = r.keys /\ s.cleaned = r.cleaned /\ s.op = o
      BY <1>0, <2>3, PCList DEF WorkerState
    <2>5. Takes(p, s)
      BY <1>3, <2>4, Parts, SetTakes
    <2> HIDE DEF s
    <2>6. Known(r)'
      BY <1>r, <1>0, <2>2 DEF Preserved, Worker
    <2>7. NamesBarrier(o)'
      BY <2>2, <2>3 DEF NamesBarrier
    <2>8. Known(s)' /\ Copied(s)' /\ JobSteps(s)'
      BY <2>2, <2>3, <2>4, <2>6, <2>7 DEF Known, Copied, JobSteps, StartPCs
    <2>9. Tombed(s)' /\ Passing(s)' /\ RoomErasing(s)' /\ HistoryErasing(s)'
      BY <2>4 DEF Tombed, Passing, RoomErasing, HistoryErasing
    <2>10. Worker(s)'
      BY <2>8, <2>9 DEF Worker
    <2>11. Leases(p, s) /\ s.pc \notin Beginning
      BY <1>3, <2>4 DEF Leases, Beginning
    <2> QED BY <1>r, <1>0, <1>1, <1>3, <2>5, <2>10, <2>11, BarrierRecorded
  <1>4. \/ /\ Tail = r.tail /\ Append("barrier", r.op.id) /\ UNCHANGED <<ops, lease>>
           /\ Set(p, [r EXCEPT !.pc = "putBarrier", !.op.barrier = end + 1])
        \/ Remove(w[p].op.id) /\ Return(p) /\ UNCHANGED <<log, end>>
    BY <1>r DEF PublishBarrier, stream
  <1>5. [r EXCEPT !.pc = "putBarrier", !.op.barrier = end + 1]
          = [r EXCEPT !.pc = "putBarrier", !.op = [r.op EXCEPT !.barrier = end + 1]]
    BY <1>0 DEF WorkerState
  <1> QED BY <1>2, <1>3, <1>4, <1>5

LEMMA BarrierFailsStep ==
    ASSUME IInv, NEW p \in Workers, BarrierFails(p)
    PROVE  StepOK
  <1>1. /\ UNCHANGED <<history, created, bytes, unposted, keys, issued, starting, live, marker>>
        /\ Aside /\ w[p].pc = "barrier" /\ Remove(w[p].op.id) /\ Return(p)
    BY Parts DEF BarrierFails, Fault, Aside, SideOK, media, calls, side, At
  <1>2. CASE UNCHANGED <<log, end>>
    <2>1. Unwritten
      BY <1>1, <1>2 DEF Unwritten
    <2> QED BY <1>1, <2>1, RecordPurged
  <1>3. CASE Tail = w[p].tail /\ Append("barrier", w[p].op.id)
    <2>1. Takes(p, Idle) /\ Leases(p, Idle) /\ Idle \in Stopped
      BY <1>1, Parts, ReturnTakes
    <2>2. Worker(Idle) /\ Idle \in WorkerState /\ Idle.pc \notin Beginning
      BY <2>1, StoppedWorker
    <2>i. PICK i : i = w[p].op.id
      OBVIOUS
    <2>3. PICK O \in SUBSET OpRecord : \A x \in OpRecord : x \in O <=> x.id # i \/ x.barrier = 0
      BY RecordsBut
    <2>4. Preserved(O)
      BY <1>1, <1>3, <2>i, <2>3, BarrierStored
    <2>5. Idle.op \in O
      BY <2>3, IdleTyped
    <2>6. Worker(Idle)'
      BY <2>2, <2>4, <2>5 DEF Preserved
    <2> QED BY <1>1, <1>3, <2>1, <2>2, <2>6, BarrierRecorded
  <1> QED BY <1>2, <1>3 DEF BarrierFails, stream

-----------------------------------------------------------------------------
(* Faults and the writes of others.                                        *)

LEMMA StepFailsStep ==
    ASSUME IInv, NEW p \in Workers, StepFails(p) \/ Crash(p)
    PROVE  StepOK
  <1>1. Unwritten /\ UNCHANGED <<marker, ops>> /\ Aside /\ (Abort(p) \/ Return(p))
    BY Parts DEF StepFails, Crash, Fault, Unwritten, Aside, SideOK, stream, media, calls, side
  <1> QED BY <1>1, GivesUp

\* A step of no worker.
LEMMA Others ==
    ASSUME IInv, UNCHANGED <<w, marker, ops>>, lease' \in {lease, None}, Aside,
           Preserved(OpRecord), Selective, \A e \in log' : e.t = "barrier" => e \in log
    PROVE  StepOK
  <1>1. MarkerOK' /\ OpsOK' /\ Base'
    BY Parts, MarkerUnchanged, OpsUnchanged DEF Preserved, OpsOK
  <1>2. WorkersOK'
    BY Parts DEF WorkersOK, JobSteps
  <1>3. \A q \in Workers : Worker(w[q])'
    <2> SUFFICES ASSUME NEW q \in Workers PROVE Worker(w[q])'
      OBVIOUS
    <2>1. PICK r : r = w[q]
      OBVIOUS
    <2>2. Worker(r)'
      BY <2>1, Parts DEF Preserved
    <2>3. r = w'[q]
      BY <2>1
    <2> QED BY <2>2, <2>3
  <1>4. /\ end \in Nat /\ end' \in Nat /\ end <= end' /\ (end' = end => log' \subseteq log)
        /\ (Gone => Gone')
    BY Parts DEF Preserved, Base, SharedTypes
  <1>5. Fresh'
    BY Parts DEF Fresh, Aside
  <1>6. ASSUME NEW q \in Workers PROVE Starting(q)'
    <2> SUFFICES ASSUME w[q].pc \in Beginning PROVE Starting(q)'
      BY DEF Starting
    <2>1. /\ \A e \in log : e.t = "barrier" => e.ref # w[q].op.id
          /\ w[q].tail <= end /\ (Gone => w[q].tail < end)
          /\ \A r \in Workers : w[r].pc \in Beginning /\ w[r].op.id = w[q].op.id => r = q
      BY Parts DEF Starting
    <2>2. w[q].tail \in Nat
      BY Parts DEF WorkerState
    <2>3. w[q].tail <= end' /\ (Gone' => w[q].tail < end')
      <3>1. CASE end' = end
        BY <1>4, <2>1, <3>1 DEF Gone
      <3>2. CASE end' # end
        BY <1>4, <2>1, <2>2, <3>2
      <3> QED BY <3>1, <3>2
    <2>4. \A e \in log' : e.t = "barrier" => e.ref # w[q].op.id
      BY <2>1
    <2> QED BY <2>1, <2>3, <2>4 DEF Starting
  <1>7. IInv'
    BY <1>1, <1>2, <1>3, <1>5, <1>6, PartsAfter DEF Aside
  <1> QED BY <1>4, <1>7 DEF StepOK

\* ... that stores nothing in the room.
LEMMA OthersUnwritten ==
    ASSUME IInv, UNCHANGED <<w, marker, ops>>, lease' \in {lease, None}, Aside, Unwritten
    PROVE  StepOK
  <1>1. Preserved(OpRecord) /\ Selective /\ \A e \in log' : e.t = "barrier" => e \in log
    BY Parts, UnwrittenPreserves, Grows DEF Unwritten
  <1> QED BY <1>1, Others

\* ... that stores a message or the start of a call.
LEMMA OthersAppend ==
    ASSUME IInv, UNCHANGED <<w, marker, ops, lease>>, Aside,
           NEW t \in {"body", "call"}, NEW ref, Append(t, ref),
           t = "body" => ref \in Assets /\ history[ref] # {} /\ ref \notin unposted',
           t = "call" => ref \in issued,
           UNCHANGED <<history, created, bytes, issued, live>>,
           unposted' = unposted \/ (t = "body" /\ unposted' = unposted \ {ref}),
           keys' \subseteq keys,
           starting' = starting \/ (t = "call" /\ starting' = [starting EXCEPT ![ref] = 0])
    PROVE  StepOK
  <1>1. t \in {"body", "call", "barrier", "tomb"} /\ t \notin {"barrier", "tomb"} /\ Base
    BY Parts
  <1>2. /\ Preserved(OpRecord) /\ log \subseteq log'
        /\ \A e \in log' : e \in log \/ (e.seq = end' /\ e.t = t /\ e.ref = ref)
    BY <1>1, AppendPreserves
  <1>3. Selective /\ \A e \in log' : e.t = "barrier" => e \in log
    BY <1>1, <1>2, Grows
  <1> QED BY <1>2, <1>3, Others

LEMMA LoseLeaseStep ==
    ASSUME IInv, NEW p \in Workers, LoseLease(p)
    PROVE  StepOK
  <1>1. Unwritten /\ UNCHANGED <<w, marker, ops>> /\ Aside /\ lease' = None
    BY Parts DEF LoseLease, Fault, Unwritten, Aside, SideOK, stream, media, calls, side
  <1> QED BY <1>1, OthersUnwritten

LEMMA WriteAsideStep ==
    ASSUME IInv, WriteScoped \/ MoveIntoGroup
    PROVE  StepOK
  <1>1. Unwritten /\ UNCHANGED <<w, marker, ops, lease>> /\ Aside
    BY Parts DEF WriteScoped, MoveIntoGroup, Late, Unwritten, Aside, SideOK, stream, media, calls
  <1> QED BY <1>1, OthersUnwritten

LEMMA ConnectDeviceStep ==
    ASSUME IInv, NEW k \in CallKeys, ConnectDevice(k)
    PROVE  StepOK
  <1>1. Unwritten /\ UNCHANGED <<w, marker, ops, lease>> /\ Aside
    BY Parts DEF ConnectDevice, Late, Unwritten, Aside, SideOK, stream, media, side
  <1> QED BY <1>1, OthersUnwritten

LEMMA UploadBytesStep ==
    ASSUME IInv, NEW a \in Assets, UploadBytes(a)
    PROVE  StepOK
  <1>1. /\ UNCHANGED <<w, marker, ops, lease, log, end, history, created, keys, issued, starting, live>>
        /\ Aside /\ bytes' = bytes \cup {a} /\ unposted' = unposted \cup {a} /\ history[a] = {}
    BY Parts DEF UploadBytes, Late, Aside, SideOK, stream, calls, side
  <1>2. Preserved(OpRecord) /\ Selective /\ \A e \in log' : e.t = "barrier" => e \in log
    BY <1>1, Parts, UploadPreserves, Grows
  <1> QED BY <1>1, <1>2, Others

\* The record of an upload is stored, or not, and the bytes kept or taken back.
LEMMA AssetRecorded ==
    ASSUME IInv, NEW a \in Assets, history[a] = {},
           \/ UNCHANGED <<history, created>> /\ a \notin bytes'
           \/ /\ history' = [history EXCEPT ![a] = {"created"}]
              /\ created' = created \cup {a},
           \/ UNCHANGED <<bytes, unposted>>
           \/ bytes' = bytes \ {a} /\ unposted' = unposted \ {a},
           UNCHANGED <<w, marker, ops, lease, log, end, keys, issued, starting, live>>, Aside
    PROVE  StepOK
  <1>1. a \notin created /\ Base /\ history \in [Assets -> SUBSET {"created", "deleted"}]
    BY Parts DEF Base, SharedTypes, Recorded
  <1>2. PICK H \in SUBSET {"created", "deleted"} :
            /\ history' = [history EXCEPT ![a] = H] /\ (a \in created' => H # {})
            /\ a \in bytes' /\ H # {} => a \in created'
    <2>1. CASE UNCHANGED <<history, created>> /\ a \notin bytes'
      <3>1. history' = [history EXCEPT ![a] = {}]
        BY <1>1, <2>1
      <3> QED BY <1>1, <2>1, <3>1
    <2>2. CASE history' = [history EXCEPT ![a] = {"created"}] /\ created' = created \cup {a}
      BY <2>2
    <2> QED BY <2>1, <2>2
  <1>3. /\ created' \in {created, created \cup {a}, created \ {a}}
        /\ bytes' \in {bytes, bytes \ {a}} /\ unposted' \in {unposted, unposted \ {a}}
        /\ a \in bytes' => unposted' = unposted
    OBVIOUS
  <1>4. Preserved(OpRecord)
    BY <1>1, <1>2, <1>3, AssetPreserves
  <1>5. Selective /\ \A e \in log' : e.t = "barrier" => e \in log
    BY <1>1, Grows
  <1> QED BY <1>4, <1>5, Others

LEMMA UploadEndsStep ==
    ASSUME IInv, NEW a \in Assets, RecordAssetCreated(a) \/ RefuseAsset(a)
    PROVE  StepOK
  <1>1. /\ UNCHANGED <<w, marker, ops, lease, log, end, keys, issued, starting, live>>
        /\ Aside /\ history[a] = {}
    BY Parts DEF RecordAssetCreated, RefuseAsset, Fault, Aside, SideOK, stream, calls, side, bounds
  <1>2. /\ \/ UNCHANGED <<history, created>> /\ a \notin bytes'
           \/ /\ history' = [history EXCEPT ![a] = {"created"}]
              /\ created' = created \cup {a}
        /\ \/ UNCHANGED <<bytes, unposted>>
           \/ bytes' = bytes \ {a} /\ unposted' = unposted \ {a}
    BY DEF RecordAssetCreated, RefuseAsset
  <1> QED BY <1>1, <1>2, AssetRecorded

LEMMA MessageStep ==
    ASSUME IInv, NEW a \in Assets, PostMessage(a) \/ EchoMessage(a)
    PROVE  StepOK
  <1>1. /\ UNCHANGED <<w, marker, ops, lease, history, created, bytes, keys, issued, starting, live>>
        /\ Aside /\ Append("body", a) /\ history[a] # {} /\ a \notin unposted'
        /\ unposted' = unposted \/ unposted' = unposted \ {a}
    BY Parts DEF PostMessage, EchoMessage, Late, Aside, SideOK, calls, side, media
  <1>2. PICK t : t = "body"
    OBVIOUS
  <1> QED BY <1>1, <1>2, OthersAppend

LEMMA CreateCallKeyStep ==
    ASSUME IInv, NEW k \in CallKeys, CreateCallKey(k)
    PROVE  StepOK
  <1>1. PICK n : n = Tail
    OBVIOUS
  <1>2. /\ UNCHANGED <<w, marker, ops, lease, log, end, history, created, bytes, unposted, live>>
        /\ Aside /\ keys' = keys \cup {k} /\ issued' = issued \cup {k} /\ k \notin issued
        /\ starting' = [starting EXCEPT ![k] = n]
    BY <1>1, Parts DEF CreateCallKey, Late, Aside, SideOK, stream, side, media
  <1>3. n \in Nat \ {0}
    <2>1. PICK e \in log : e.seq = end
      BY Parts DEF Base, Sequenced
    <2>2. e.seq \in Nat /\ e.seq >= 1
      BY Parts, EventFields DEF Base
    <2> QED BY <1>1, <2>1, <2>2, Parts, TailIsEnd
  <1>4. Preserved(OpRecord) /\ Selective /\ \A e \in log' : e.t = "barrier" => e \in log
    BY <1>2, <1>3, Parts, KeyPreserves, Grows
  <1> QED BY <1>2, <1>4, Others

LEMMA JoinEndsStep ==
    ASSUME IInv, NEW k \in CallKeys, CallStarted(k) \/ CallFails(k)
    PROVE  StepOK
  <1>1. /\ UNCHANGED <<w, marker, ops, lease, history, created, bytes, unposted, issued, live>>
        /\ Aside /\ starting' = [starting EXCEPT ![k] = 0] /\ starting[k] # 0
        /\ keys' \in {keys, keys \ {k}}
    BY Parts DEF CallStarted, CallFails, Fault, Aside, SideOK, side, media, bounds
  <1>2. k \in issued /\ starting \in [CallKeys -> Nat] /\ Base
    BY <1>1, Parts DEF Base, SharedTypes, Recorded
  <1>3. CASE Append("call", k)
    <2>1. PICK t : t = "call"
      OBVIOUS
    <2> QED BY <1>1, <1>2, <1>3, <2>1, OthersAppend
  <1>4. CASE UNCHANGED <<log, end>> /\ keys' = keys \ {k}
    <2>1. /\ starting' \in [CallKeys -> Nat]
          /\ \A j \in CallKeys : starting'[j] = starting[j] \/ (starting'[j] = 0 /\ j \notin keys')
      BY <1>1, <1>2, <1>4
    <2>2. Preserved(OpRecord)
      BY <1>1, <1>2, <1>4, <2>1, DestroyPreserves
    <2>3. Selective /\ \A e \in log' : e.t = "barrier" => e \in log
      BY <1>1, <1>4, Grows
    <2> QED BY <1>1, <2>2, <2>3, Others
  <1> QED BY <1>3, <1>4 DEF CallStarted, CallFails, stream

-----------------------------------------------------------------------------
(* The invariant and the theorems.                                         *)

LEMMA InitIInv ==
    ASSUME Init
    PROVE  IInv
  <1>1. PICK a : a = CHOOSE b \in Assets : TRUE
    OBVIOUS
  <1>2. PICK k : k = CHOOSE j \in CallKeys : TRUE
    OBVIOUS
  <1>3. /\ a \in Assets /\ k \in CallKeys /\ None \notin Assets /\ None \notin CallKeys
        /\ a \notin CallKeys /\ k \notin Assets
    BY <1>1, <1>2, RoomPurgeAssumption
  <1> DEFINE e1 == [seq |-> 1, t |-> "meta", ref |-> None]
             e2 == [seq |-> 2, t |-> "body", ref |-> a]
             e3 == [seq |-> 3, t |-> "call", ref |-> k]
  <1>4. /\ log = {e1, e2, e3} /\ bytes = {a} /\ created = {a} /\ keys = {k} /\ issued = {k}
        /\ live = {k} /\ starting = [j \in CallKeys |-> 0]
        /\ history = [b \in Assets |-> IF b = a THEN {"created"} ELSE {}]
        /\ end = 3 /\ unposted = {} /\ grouped = TRUE /\ scoped = TRUE
        /\ marker = NoMarker /\ ops = [o \in Ops |-> NoRecord(o)] /\ lease = None
        /\ w = [p \in Workers |-> Idle]
    BY <1>1, <1>2 DEF Init
  <1>5. /\ e1.seq = 1 /\ e1.t = "meta" /\ e1.ref = None
        /\ e2.seq = 2 /\ e2.t = "body" /\ e2.ref = a
        /\ e3.seq = 3 /\ e3.t = "call" /\ e3.ref = k
    OBVIOUS
  <1>6. e1 \in Event /\ e2 \in Event /\ e3 \in Event
    BY <1>3, <1>4 DEF Event, EventTypes
  <1> HIDE DEF e1, e2, e3
  <1>7. SharedTypes /\ Sequenced
    BY <1>3, <1>4, <1>5, <1>6 DEF SharedTypes, Sequenced
  <1>8. Recorded
    BY <1>3, <1>4, <1>5 DEF Recorded
  <1>9. NothingOrphaned
    <2>1. k \in CallRefs(log) /\ a \in BodyRefs(log)
      BY <1>3, <1>4, <1>5 DEF CallRefs, BodyRefs
    <2> QED BY <1>4, <2>1 DEF NothingOrphaned
  <1>10. MarkerOK
    BY <1>4 DEF MarkerOK, NoMarker, Noted
  <1>11. OpsOK
    <2>1. \A i \in Ops : ops[i] = NoRecord(i)
      BY <1>4
    <2>2. ops \in [Ops -> OpRecord]
      BY <1>4, IdleTyped
    <2> QED BY <2>1, <2>2, IdleTyped DEF OpsOK, RecordOK, NamesBarrier
  <1>12. Idle \in WorkerState /\ Worker(Idle) /\ Idle.pc \notin Beginning
    BY StoppedWorker DEF Stopped
  <1>13. \A p \in Workers : w[p] = Idle /\ Worker(w[p]) /\ Starting(p)
    BY <1>4, <1>12 DEF Starting
  <1>14. Fresh
    BY <1>4, <1>5, <1>12, <1>13 DEF Fresh
  <1>15. w \in [Workers -> WorkerState]
    BY <1>4, <1>12
  <1>16. TypeOK
    BY <1>4, <1>7, <1>10, <1>11, <1>15 DEF TypeOK, SharedTypes, MarkerOK, OpsOK
  <1> QED BY <1>7, <1>8, <1>9, <1>10, <1>11, <1>13, <1>14, <1>16 DEF IInv, MarkerOK, OpsOK, RecordOK

LEMMA StutterStep ==
    ASSUME IInv, UNCHANGED vars
    PROVE  StepOK
  <1>1. Unwritten /\ UNCHANGED <<w, marker, ops, lease>> /\ Aside
    BY Parts DEF vars, Unwritten, Aside, SideOK, stream, media, calls, side, bounds
  <1> QED BY <1>1, OthersUnwritten

LEMMA NextStep ==
    ASSUME IInv, [Next]_vars
    PROVE  StepOK
  <1>1. CASE UNCHANGED vars
    BY <1>1, StutterStep
  <1>2. ASSUME NEW p \in Workers,
               \/ PurgeArchivedRoom(p)
               \/ \E o \in Ops : StartRoomHistoryPurge(p, o) \/ ScanHistoryPurges(p, o)
        PROVE  StepOK
    BY <1>2, PurgeArchivedRoomStep, StartRoomHistoryPurgeStep, ScanHistoryPurgesStep
  <1>3. ASSUME NEW p \in Workers, PurgeStep(p) PROVE StepOK
    BY <1>3, PrepareStep, CreateMarkerStep, RestartMarkerStep, CollectStep, RecheckStep,
       PurgeLiveCallStep, EnsureTombstoneStep, GroupCascadeStep, ShredKeyStep, DeleteBytesStep,
       AssetTombstoneStep, AssetEraseStep, PurgeScopedStep, JournalStep, ReplaceStep,
       EraseOneStep, EraseDoneStep, CheckStep, CompleteStep DEF PurgeStep
  <1>4. ASSUME NEW p \in Workers, HistoryStep(p) PROVE StepOK
    BY <1>4, CreateOperationStep, PublishBarrierStep, PutBarrierStep, RecoverBarrierStep,
       FailHistoryPurgeStep, ProcessHistoryPurgeStep, HistorySnapshotStep,
       FinishHistoryPurgeStep, ReadForRetryStep, PutRetryStep DEF HistoryStep
  <1>5. ASSUME NEW p \in Workers, StepFails(p) \/ BarrierFails(p) \/ Crash(p) \/ LoseLease(p)
        PROVE  StepOK
    BY <1>5, StepFailsStep, BarrierFailsStep, LoseLeaseStep
  <1>6. ASSUME NEW a \in Assets, \/ UploadBytes(a) \/ RecordAssetCreated(a) \/ RefuseAsset(a)
                                 \/ PostMessage(a) \/ EchoMessage(a)
        PROVE  StepOK
    BY <1>6, UploadBytesStep, UploadEndsStep, MessageStep
  <1>7. ASSUME NEW k \in CallKeys, \/ CreateCallKey(k) \/ CallStarted(k) \/ CallFails(k)
                                   \/ ConnectDevice(k)
        PROVE  StepOK
    BY <1>7, CreateCallKeyStep, JoinEndsStep, ConnectDeviceStep
  <1>8. CASE WriteScoped \/ MoveIntoGroup
    BY <1>8, WriteAsideStep
  <1> QED
    BY <1>1, <1>2, <1>3, <1>4, <1>5, <1>6, <1>7, <1>8 DEF Next, Workers

\* The invariant of the two purges, whatever is lost, late or done twice: what a
\* room purge has noted and destroyed in a pass, what a history purge still has to
\* delete before its own barrier, and which barrier a record may name, for any
\* number of operations of the room, one after the other or, when a lease is lost, at
\* the same time, and any number of messages that name one attachment
\* (PurgeArchivedRoom, cleanupRoomHistoryThrough, processRoomHistoryPurge).
THEOREM Invariant == Spec => []IInv
  <1>1. Init => IInv
    BY InitIInv
  <1>2. IInv /\ [Next]_vars => IInv'
    BY NextStep DEF StepOK
  <1> QED BY <1>1, <1>2, PTL DEF Spec

\* Types, and a stored lease has a worker at work under it (withRoomPurgeLease).
THEOREM TypeCorrect == Spec => []TypeOK
  <1>1. IInv => TypeOK
    BY DEF IInv
  <1> QED BY <1>1, Invariant, PTL

\* No event that names a key or an attachment is erased while the key or the bytes
\* exist (the order of a pass, the expected sequence of replaceRoomHistoryWithTombstone).
THEOREM NothingLostTrackOf == Spec => []NothingOrphaned
  <1>1. IInv => NothingOrphaned
    BY DEF IInv
  <1> QED BY <1>1, Invariant, PTL

\* A history purge reported as completed has erased the messages up to its barrier,
\* whichever worker stored the record last (processRoomHistoryPurge).
THEOREM CompletedIsErased == Spec => []CompletedMeansErased
  <1>1. ASSUME IInv PROVE CompletedMeansErased
    <2> SUFFICES ASSUME NEW o \in Ops, ops[o].st = "completed", NEW b \in log, NEW e \in log,
                        b.t = "barrier", b.ref = o, e.t = "body"
                 PROVE  e.seq > b.seq
      BY DEF CompletedMeansErased
    <2>1. ErasedThrough(ops[o]) /\ NamesBarrier(ops[o]) /\ ops[o].id = o
      BY <1>1 DEF IInv
    <2>2. b.seq = ops[o].barrier
      BY <2>1 DEF ErasedThrough, NamesBarrier
    <2> QED BY <2>1, <2>2 DEF ErasedThrough
  <1> QED BY <1>1, Invariant, PTL

\* Once the room's RoomDeleted event is stored, one is there after every step
\* (SecureDeleteAggregateThroughExcept keeps the newest).
THEOREM TombstoneNeverLost == Spec => TombstoneStays
  <1>1. IInv /\ [Next]_vars => [Gone => Gone']_vars
    BY NextStep DEF StepOK
  <1> QED BY <1>1, Invariant, PTL DEF Spec, TombstoneStays

\* While the room exists, only messages before a stored barrier are erased, and only
\* attachments that such a message names lose their bytes, whoever else names them
\* (cleanupRoomHistoryThrough).
THEOREM HistoryPurgeSelects == Spec => HistoryPurgeIsSelective
  <1>1. IInv /\ [Next]_vars => Selective
    BY NextStep DEF StepOK
  <1>2. Selective <=>
          (~Gone =>
             LET old == {e \in log : e.t = "body" /\ \E b \in log : b.t = "barrier" /\ e.seq < b.seq}
             IN  log \ log' \subseteq old /\ (bytes \cap created) \ bytes' \subseteq BodyRefs(old))
    BY DEF Selective, Old
  <1> QED BY <1>1, <1>2, Invariant, PTL DEF Spec, HistoryPurgeIsSelective
=============================================================================
