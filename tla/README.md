# Towk: TLA+ specifications

Towk is a self-hosted chat server: one Go binary (`src/cli`) with an embedded
NATS JetStream, a SvelteKit client and a ConnectRPC API. Its state is event
sourced (ADR-033, ADR-034): every change is a message of one stream, `EVT`, on
a subject `evt.<aggregate>.<id>.<type>`, and every process answers reads from
projections it builds in memory by following that stream. Several processes may
share one stream. There is no transaction across messages: what keeps the state
correct is the optimistic check JetStream makes when it stores a message ("the
last message on this subject filter has sequence n"), the order in which a
process reads, decides and publishes, and waits for its own projections.

These modules specify that machinery and the state built on it where most goes
wrong at once: room names, sidebar groups, voice calls and the purge of rooms.
TLC checks them on small instances and TLAPS proves the theorems below for every value of
the constants.

## 1. Inventory

| Part | State | Operations | Interacts with |
|---|---|---|---|
| Leader lease, `internal/lease` | one KV record (owner, revision, TTL); per process the position of `Run`, the work goroutine, a ticker | `TryAcquire`, `Renew`, `Release`, `Run`, `runAsLeader` | JetStream KV; callers run sweeps and LiveKit reconciliation as the work function |
| Projector, `internal/events/projector.go` | `lastSeq`, `failedErr`, waiters, startup target; one ordered consumer | `Run`, `RunProjectors`, `handleMessage`, `WaitFor`, `WaitForCurrent`, `advance`, `fail` | every projection's `Apply`; every mutation waits on it |
| Publisher, `internal/events/publisher.go` | none of its own: the stream | `Append`, `AppendEventually`, `AppendAtFilter`, `AppendBatch`, `SubjectEventsWithSubjectsAfter` | called by every mutation and by effect consumers |
| Effect consumer, `internal/events/incremental_effect_consumer.go` | cursor, queue of failed effects | `Consume` | publisher reads; call-key destruction, call notifications, asset cleanup |
| Secure delete, `internal/events/secure_delete.go` | the stream | purge of the messages of an aggregate | projectors and consumers see messages disappear |
| Room catalog and names, `core/rooms.go`, `core/room_catalog_projection.go` | rooms, names, revision | create, update, archive, delete, name claim | publisher, projector, groups |
| Room groups and sidebar, `core/room_groups.go`, `core/room_group_projection.go` | groups, their rooms and links, sections | create, update, delete, move, reorder, links | publisher, projector, room deletion |
| Calls, `core/call_model.go`, `core/call_state_projection.go`, `core/voice.go`, `http_server/webhooks.go` | call, participants, devices, connection states, call key | join, leave, transfer, webhook, reconcile with LiveKit | lease, publisher, KMS, membership, LiveKit |
| Room purge, `core/room_purge*.go`, `core/room_history_purge.go` | the purge marker, the history purge record, references to assets and keys | purge, resume, start a history purge, background passes | secure delete, assets, call keys, groups, lease |
| Messages and timeline, `core/messages.go`, `core/room_timeline_projection.go` | messages, bodies, idempotency keys | post, edit, delete, body cleanup | publisher, encryption |
| Threads, reactions, read state | cursors, counts | follow, react, mark read | messages |
| Membership, bans, direct messages | members per room | join, leave, ban, open a DM | rooms, RBAC |
| Users, identities, e-mail; sessions, tokens, codes | accounts, logins, tokens in KV | sign up, sign in, revoke, consume a code | API |
| Roles and permissions | roles, grants per scope | assign, grant, resolve | every authorized operation |
| Presence and typing | sessions in KV with a TTL | refresh, expire, publish | realtime transport |
| Assets and uploads | upload sessions, references | begin, append, complete, clean up | messages, purge |
| Keys | wrapped data keys | create, shred | messages, calls |
| Notifications and push, media, HTTP and API transport, configuration, embedded NATS, command line, web client | queues, files, settings | delivery, transcoding, requests | the parts above |

What is hard here, and why tests hardly reach it:

- a process reads its projection, decides, and publishes later; the projection
  lags the stream, and the stream moves on in between (names, groups, calls);
- a mutation is checked against a filter that may be narrower than the state
  the decision was read from;
- a request that timed out at its caller may be stored afterwards (lease);
- waiters register, are woken, fail or time out while another goroutine
  advances or fails the projector;
- messages disappear from the middle of the stream;
- a batch of messages is stored at once but applied one at a time;
- one of several effects or projectors fails and the others go on;
- a process dies between two of its steps, and nobody else may do its work, or
  somebody must.

`PROJECT.json` lists these as hazards, each with the line where it bites and
the properties that cover it.

For each part the properties that make it correct are: *lease*, one worker at a
time while the timing assumption holds, no release or late write of an earlier
term takes the record from a worker, and leadership comes back; *projector*,
read-your-writes, no lost wake-up, startup replay reported once and not early,
nothing applied after a failure; *effect consumer*, no effect skipped, no
success repeated, every effect eventually; *names*, one room per name and no
return of deleted rooms; *groups*, every room and link in one group, sections
in step with groups, moves from the authorized group only; *calls*, an admitted
device has a key and an ended call has none, an account keeps to its number of
devices, LiveKit and the projection agree again; *purge*, what is to go goes
across any crash, what is to stay is never removed, and nothing that still
exists becomes unreachable; *messages*, one message per idempotency
key; *tokens and codes*, used at most once; *permissions*, the resolver agrees
with its declared order of precedence.

## 2. Modules and their correspondence with the code

The exact lines of each definition are in `PROJECT.json` under `map`.

### Lease

`Lease.tla` models `lease.go`. Each server call (create, get, conditional
publish, conditional delete) is an action of its own for each process:
`TryCreate`, `TryGet`, `TryReacquire` are `TryAcquire`; `TickerFires`,
`RenewGet`, `RenewPublish` are the renewal in `runAsLeader`; `LeadWorkDone`,
`LeadStopped`, `CancelledWorkDone` are its select branches; `ReleaseGet`,
`ReleaseDelete` are `Release`. `work` is the goroutine that runs the work
function, and it goes on after it was cancelled until it returns. `CallFails`
is every error return; if the call was a write, the request may stay in `net`
and be stored later by `Deliver`. `Crash` leaves the record behind, `Shutdown`
cancels the context. `Tick` ages the record and the worker; `Expire` is the
server's TTL.

Revisions are only compared for equality in the code, so a write takes any
revision nobody refers to; `Revs` only has to be large enough that there is
one. `Slack` is a timing assumption, not something the code enforces: a worker
is stopped within `RenewEvery + Slack` ticks of its last stored renewal. With
`Slack >= TTL` nothing is assumed.

### Projector

`Projector.tla` models `projector.go`. `HandlerStep` is the consumer's callback
(`TakeMessage`, `ApplySucceeds` or `ApplyFails`, `AdvanceStep`, `CompleteStep`,
and the metadata and decode errors), `StartStep` the goroutine of
`runProjectorsOnSubjects` or `Run`, and the clients run `WaitFor`,
`WaitForCurrent`, `WaitForSeq`, `Woken`, `ContextDone`. Each critical section
of `Projector.mu` is one step. `Shared` chooses between the fan-out to several
projectors and the single one, which differ in what they do after a failure.
`SecureDelete` removes a message that may not have been delivered yet. Subject
filters are the set `Consumes[p]`; parsing of filters and ack tokens is left
out. `applied` and `replayDone` record what was called; nothing reads them.

### EffectConsumer

`EffectConsumer.tla` models `Consume` with the read it makes. `CreateConsumer`
reads `NumPending`; `Fetch`, `Message`, `BatchDone` are the fetch loop, which
may end early; `ReadReturns` and `ReadFails` are its exits; `Handle` and
`HandleFails` the loop over the queue; `ConsumeReturns` keeps what failed.
`Restart` forgets the cursor and the queue. `succeeded` counts successful
handler calls of the running process and `effects` what took place outside.

### RoomNames

`RoomNames.tla` models the mutations of channel rooms that touch names. A call
starts at a process (`CreateRoom`, `UpdateCommand`, `ArchiveRoom`,
`DeleteRoom`), and either claims a name (`NameClaimSnapshot`, `AppendAtFilter`,
and on a conflict `ReadCurrent`, `Retry`) or appends to its own subject
(`LastSubjectSeq`, `PublishAt`). `past[i]` is the catalog after `i` messages;
a process at `applied[s]` reads `past[applied[s]]`. Normalised names are model
values. `GiveUp` is every error return, the lost answer of a stored publish
included.

### RoomGroups

`RoomGroups.tla` models the group, placement and link mutations in the same
way: `Begin` by the caller, a snapshot (`GroupSnapshot`, `RoomMoveSnapshot`,
`LinkMoveSnapshot`), a publish at the snapshot's sequence (`AppendAtFilter`,
with a move stored as a batch of two), or `LastSubjectSeq` and `PublishAt` for
the four operations that check their own subject. `Await` and `Resume` are the
waits between attempts. `index` is what a group holds, `entries` what its
section lists. The order of items and the order of groups are left out.
`gone` is the set of deleted rooms.

### Calls and CallLifecycle

`Calls.tla` models the voice call of one room. The stored room events and the
projection that applies them are `pend`, `stored` and `view`; `Apply` is
`CallStateProjection.Apply`. A join is `JoinCall` (the membership check) and
then `JoinCommit` (the client expects no call or any call so far), or one of the answers that append nothing, or a lost
acknowledgement (`JoinLostAck`), or a crash after the key was created
(`JoinCrash`). `LeaveCall`, `LeaveRoom` (which stands for `LeaveRoom`,
`RemoveMember`, `BanMember` and account deletion: all run
`appendRoomLeaveBatch`) and `DeleteRoom` end participations; `PostCommit` is
what their handlers do after the commit, which may fail or never happen. The
webhook is `Webhook` with its steps `Hook*`, each request with its own entry of
`hook`, so that several are served at a time; `LoseObservation` is a report that
never arrives. One cycle of the elected reconciliation is `ListCallParticipants` ... `ReconcileUnobserved`. LiveKit is
`tokens`, `media` (connections) and `obs` (observations that a webhook will
report, in any order).

Every write of a call carries the room tail its snapshot was read at, so an
accepted attempt reads and writes at one point of the room's history: it is one
action with the guard `AtTail`. An attempt that loses leaves nothing behind.
What a handler reads in one call and uses in the next is kept (`joining`,
`hook`, `cyc`). One projection is enough for the same reason: a process whose
projection is further behind only has attempts that fail; the appends without a
sequence (`EndUnmatchedCall`, `DeleteRoom`) are guarded by `view` alone. `Init`
is no call or a settled one, so that the bounded steps need not be spent on
starting it. Device indexes, names and times that are only shown are left out.

`CallLifecycle.tla` is the abstract specification: one call at a time, which
lives as long as somebody is in it, takes in one device per step and does not
come back. `Calls` implements it with `call`, `in`, `over` mapped to the stored
call, its participants and the recorded ends (`ImplementsLifecycle`).

### RoomPurge

`RoomPurge.tla` models `PurgeArchivedRoom`, `StartRoomHistoryPurge` and the
background worker over one room. A worker is a request or a background pass
with the locals of `Idle`; its steps are its durable reads and writes, in the
code's order. A purge takes the lease, reads the marker and the room
(`Prepare`), creates or rewrites the marker (`CreateMarker`, `RestartMarker`:
a room renamed or moved since then is the choice `renamed`), collects, removes
the devices LiveKit lists (`PurgeLiveCall`), and goes on with
`EnsureTombstone`, `GroupCascade`, then per pass `Collect`, `PurgeLiveCall`,
`ShredKey`, `DeleteBytes`, `AssetTombstone`, `AssetErase`, `GroupCascade`,
`PurgeScoped`, `Journal`, `Replace`, `EraseOne`, `EraseDone`, `Check` and
`Complete`. A completed one that is asked for again looks once more
(`Recheck`). A history purge is `CreateOperation`, `PublishBarrier`,
`PutBarrier`, and in the background `RecoverBarrier`, `FailHistoryPurge`,
`ProcessHistoryPurge`, `HistorySnapshot`, `FinishHistoryPurge`, `ReadForRetry`,
`PutRetry`. Both use the same asset and erase steps, as in the code. A room may
have several operations, one after the other or, after a lost lease, beside
each other; each has its own barrier.

`marker` is written by compare-and-swap: `cur` says that the revision a worker
holds is the current one, and a lost race counts as success when the stored
marker is complete. `ops` is written with plain puts. `LoseLease` frees the
lease while its worker goes on; a crash frees it at once, which only brings
forward what expiry does.

Others write to the room at any time. An upload stores bytes, then records the
asset at the room's tail or takes the bytes back (`UploadBytes`,
`RecordAssetCreated`, `RefuseAsset`). A message may name an asset that another
one names (`PostMessage`), and the echo of a reply repeats the reply's
attachments without a look at the room (`EchoMessage`). A join creates the call
key before it stores `CallStarted` (`CreateCallKey`, `CallStarted`,
`CallFails`). A device may connect to a call that is over (`ConnectDevice`),
and `WriteScoped`, `MoveIntoGroup` stand for role grants, preferences, read
cursors and moves. Whether an existing room refuses content (archived, locked)
is left open: these steps may or may not happen. An asset stands for an
attachment with its derivatives, and the calls of this module do not end by
themselves (`Calls` has that).

Workers wait for their projections before they read them, and a write they
have not projected is a write that comes later, so projections are not kept
apart. `Budgets` bounds a behaviour by what is asked for, who works, which late
writes come and how many faults.

## 3. Runs

Every run finishes with two workers in less than three minutes.

| Run | Instance | Shows |
|---|---|---|
| `lease` | 2 owners, TTL 2, renewal 1, slack 0, one failed call | `AtMostOneWorker`, `FreshWorkerOwnsRecord`, `RecordOutlivesWork`, `LeadershipRecurs` |
| `projector_shared` | 2 projectors that share a subject, 2 messages, 1 client | `ReadYourWrites`, `NoStrandedWaiter`, `ReplayCompletesOnce` |
| `projector_single` | 1 projector, 3 messages, 1 client | `StopsApplyingAfterFailure`, `WaitReturns` |
| `effects` | 4 messages, batches of 2, 2 faults | `NoEffectSkipped`, `SuccessNotRepeated`, `EffectsHappen` |
| `names` | 2 processes, 2 calls, 2 rooms, 2 names, 3 events, 2 attempts | `ClaimedNameIsFree`, `DeletedRoomStaysDeleted` |
| `names_update` | as `names`, 4 events | violation, see below |
| `groups_moves` | 2 processes, 2 calls, 2 groups, 1 room, 4 events | `ItemInAtMostOneGroup`, `GroupedRoomStaysGrouped`, `MoveLeavesAuthorizedGroup` |
| `groups_items` | 1 process, 2 calls, 2 groups, 1 room, 1 link, 2 events | `SectionMatchesGroup` |
| `groups_links` | 2 processes, 2 calls, 2 groups, 1 link, 7 events | violation, see below |
| `calls` | 1 account with 3 devices, 2 calls, 2 client steps, 2 handlers at a time | `CallsDoNotOverlap`, `AdmittedDeviceLimit`, `KeyWhileActive`, `NoSilentEnd`, `ImplementsLifecycle` |
| `calls_live` | 2 accounts with a device each, 2 calls, 1 client step, 1 fault | `KeyWhileActive`, `ImplementsLifecycle` under faults; `EndedKeyShredded`, `Converges` |
| `purge` | 2 requests, 2 passes, 2 assets, 2 call keys, 2 operations, 2 passes of a purge; seven budgets | `NothingOrphaned`, `CompletedMeansErased`, `TombstoneStays`, `HistoryPurgeIsSelective`, `PurgeCompletes`, `HistoryPurgeEnds` |

### Why the bounds are enough

- *Lease.* Two owners give every race between a holder and one contender; a
  third contender only takes the second one's place. TTL 2 with period 1 is
  the smallest instance in which the timing assumption holds. Processes slower
  than the TTL are left to the theorem `FreshWorkers`, which assumes nothing of
  them. One failed
  call gives a late write; eight revisions are more than all the places that
  can name one. The theorems hold for any values.
- *Projector.* Two projectors are needed for one to fail while the other goes
  on, overlapping subjects for a message that both consume and one that only
  one does. Two messages give a startup target before the log's end; the
  single-projector run has three, on a consumed and an unconsumed subject.
- *Effects.* Four messages with batches of two give a full batch, a short one,
  a message published during the read, and one deleted ahead of it.
- *Names.* A duplicate name needs two rooms and two calls; three events let a
  room be created, renamed and deleted, or two claims race with a third event;
  the lost rename needs four. Two attempts are one conflict and one success.
- *Groups.* Every hazard recorded needs two groups, one item and two calls.
  Four events are two moves. `groups_items` leaves room moves and group
  deletion to `groups_moves` and takes all the other operations. Initial layouts are all the layouts in which no
  item is in two groups, so that the events need not be spent on building one.

- *Calls.* The device limit is two, so three devices of one account are the
  least that can exceed it; a transfer, a companion and a first join need no
  other account. Two accounts with a device each are what a leave of one beside
  the other needs, and loss of membership beside a participant who stays. Two
  calls are one that ends and its successor. Handlers in progress are bounded
  by two (`MaxBusy`): every race recorded is between two. The last value of the
  clock stands for all later times, so that grace periods end.
- *Purge.* Seven budgets: the purge alone with each kind of late write, again
  with a call, an echo and a fault, with two requests and a fault, a history
  purge with two background passes, an upload, a message and a fault, two
  history purges with a message, an echo and a fault, and both operations
  together with a fault. Late writes with two requests or with both operations
  are left to the theorems, which cover any of them. Two assets and two keys
  are what was there and what comes late; a second pass (`MaxPasses`) is the
  retry after a conflict, and giving up after it is covered by the owner's
  asking again.

Symmetry (processes, calls, rooms, names, groups, devices) is used only in runs
without liveness properties: no action names a particular element.

`CHECK_DEADLOCK FALSE` is set where the bounds on the log or on revisions, or a
shut-down system, leave nothing to do. `effects` checks deadlock: the consumer
can always poll.

### Fairness

- *Lease*: weak fairness of every process's own steps (`Run` is a goroutine
  that is scheduled, and every call has a timeout, so each wait ends), of the
  clock and of expiry, and of the return of a *cancelled* work function. Work
  nobody cancels may run for ever, and nothing is assumed of crashes, shutdowns
  or late deliveries.
- *Projector*: weak fairness of the handler, of the starter and of clients that
  can step. Publishers, deletes, timeouts and shutdown are free.
- *EffectConsumer*: weak fairness of `Consume` as one action, because the
  owners call it again and again from a ticker; failures and restarts are
  finitely many (`MaxFaults`), since a handler that fails for ever has no
  effect in the code either. Within it a batch ends only if it is complete or
  nothing is left to deliver; ends before that are faults.

- *Calls*: weak fairness of the projector (`ApplyNext`), of the clock, of the
  handlers together (a request or a webhook in progress runs; LiveKit repeats
  webhooks that failed) and of the reconciliation, which `Run` starts again and
  again under its lease. Clients and LiveKit's connections are free; faults are
  finitely many.
- *RoomPurge*: weak fairness of each worker's steps; for each operation strong
  fairness of a background pass that reads its record, because the ticker goes
  through every running record on every pass; strong fairness of the owner's
  request while the marker is in progress, because the lease is free only now
  and then. That the owner asks again until success is reported is an
  assumption about the owner: the code resumes a room purge in no other way
  (FDR-019). After that nothing is assumed, and `PurgeCompletes` promises
  nothing of writes that come after the last look. History purges are resumed
  by the ticker, and nothing is assumed of whoever asked for them.

### Findings

Properties quoted from comments, docs or tests that the code does not have. The
runs expect a violation.

1. `names_update`. `UpdateRoom` decides from its own catalog that the name is
   kept and publishes a `RoomUpdated` that carries it with the check of its own
   subject, read just before publishing. Renamed elsewhere meanwhile, with the
   old name taken by another room, it brings the old name back. A claim that
   goes through the wildcard check never does (`ClaimedNameIsFree`), and
   without such updates names are unique (theorem `NamesAreUnique`).
2. `groups_links`. `MoveSidebarLinkBetweenGroups` reads its snapshot again
   after waiting for the source and does not check the target in it; with the
   target deleted meanwhile the batch drops the link. `moveRoomToGroup` checks.

Met while modelling, in the models but without a run of their own:

- *Projector.* `handleSharedProjectorMessage` does not look at `failedErr`, so
  until the starter stops the consumer a failed projector goes on applying
  later messages; `handleMessage`, for one projector, does look
  (`StopsApplyingAfterFailure` in `projector_single`). `ReadYourWrites` holds
  all the same, because `waitForSeq` fails every wait at or after the failed
  sequence.
- *Groups.* Between the two messages of a move's batch a projection shows the
  room in no group, though `room_groups.go:307` says the invariant "holds at
  every intermediate sequence".
- *Calls.* A lost acknowledgement of a first join destroys the key of a call
  that was stored (`call_model.go:528`); `KeyWhileActive` excepts these calls.
  The webhook appends a join after it checked the admission, without looking
  again (`voice.go:231`): a device that left in between is back, past "no
  account may exceed two projected connections" (FDR-016:142);
  `AdmittedDeviceLimit` does not count such devices. A member removed between
  the membership check and the join is admitted and gets no token; a late
  terminal departure removes a device that has joined the same call again; both
  are repaired by the client or the next cycle. A crash between
  `CreateCallKey` and the batch leaves a key nothing names. `DeleteRoom`
  during a call stores no `CallEnded` event.
- *Purge.* A crash between an asset's `AssetDeleted` event and the erasure of
  its history (`room_purge_assets.go:175`) leaves the `AssetCreated` event: on
  resumption the projection no longer lists the asset, and the marker had not
  been journaled; FDR-019:17 says that the purge "retains only the minimum room
  and asset tombstones". A write of somebody authorized earlier that lands after
  the last look of a purge stays until the owner asks again, which `Recheck`
  then finds; an upload recorded after it is refused, but an echo is not. A
  history purge deletes the attachments of the messages up to its barrier also
  when a later message, an echo or an edit, names them
  (`room_history_purge.go:391-440` spares only link previews of later messages);
  `HistoryPurgeIsSelective` promises no more than that, and FDR-032 only "all
  events written after" the barrier. A background pass that found no barrier may store its copy of the record as
  failed after the request stored its barrier (`room_history_purge.go:290`):
  the barrier is published and its history is never erased. A lost answer of
  the barrier's append purges the record and leaves a barrier without an
  operation. A history purge whose room is purged under it is retried for ever.

`ReorderRoomsInGroup`, which no code outside the tests calls, stores its list
with the check of its own subject and would put a room that was moved meanwhile
in two groups. It is an action of `RoomGroups` (run `groups_items`) and left
out of the run that checks `ItemInAtMostOneGroup`.

## 4. Proofs

Each proof module extends its component's module. The argument is the usual
one: `Init => IInv`, `IInv /\ [Next]_vars => IInv'`, `IInv => Inv`, with one
step per action.

- `LeaseProofs`. `IInv` adds to `TypeOK` that work runs inside `runAsLeader`
  only; that a fresh worker's record is at least as young as its last renewal;
  that a revision a process has read and that is still current names a record
  of its own, and the same for writes under way; that a late delete at the
  current revision belongs to a process without work; and that a worker is
  never older than `RenewEvery + Slack`. Without the clauses on `net` a late
  write could take the record from a worker. `TypeCorrect`, `FreshWorkers`,
  `Exclusion` (under `RenewEvery + Slack < TTL`), `RecordsOutliveWork`.
- `ProjectorProofs`. The message in hand is consumed by the projectors that
  still have work with it; every live consumed message at or before the cursor
  is applied or at or after a failure; `lastSeq` and failures do not pass the
  cursor; a woken waiter was reached or its projector failed; targets are
  captured before consuming starts. `TypeCorrect`,
  `WaitForIsReadYourWrites`, `NoLostWakeUp`, `StartupReplayCompletes`, and for a
  consumer of its own (`~Shared`, as in `projector_single`) `FailureIsFinal`,
  which the shared consumer does not have.
- `EffectConsumerProofs`. What has been read is every live message between the
  cursor and the read's position; what is queued or handled is not ahead of the
  cursor; during the loop every queued effect is to do, failed or done once.
  `TypeCorrect`, `CursorIsSafe`, `EffectsSucceedOnce`.
- `RoomNamesProofs`. A claim about to be published at sequence `n` read its
  name as free, or as the room's own, in `past[n]`; a catalog of a prefix does
  not change; a room not created yet is in no catalog. `TypeCorrect`,
  `ClaimsAreExclusive`, `DeletionIsFinal`, and `NamesAreUnique` if
  `PlainUpdates` is `FALSE`.

- `RoomGroupsProofs`. `IInv` adds to `TypeOK` where a call may stand
  (`Control`); that the sequence a call publishes at names the layout it read,
  in which it found what its event relies on (`SnapshotRead`); and that a link
  being created is in no layout and in no other call (`FreshLink`, for which the
  code draws a new ID). The past does not change, so `SnapshotRead` stays true
  while others publish, and an event stored at that sequence meets the layout it
  was computed from: this is what a stale projection cannot break.
  `TypeCorrect` and `SectionsInStep` hold for all operations;
  `OneGroupPerItem`, `RoomsStayGrouped` and `MovesAuthorized` without
  `ReorderRoomsInGroup` (`"reorder" \notin Ops`, as in `groups_moves`), which no
  code outside the tests calls and which breaks them; `LinksStayGrouped`
  without `MoveSidebarLinkBetweenGroups`, the finding of `groups_links`.
- `RoomPurgeProofs`. `IInv` says of the stream that a sequence names one event,
  that the last one is never erased and that an operation has one barrier
  (`Sequenced`); that assets and keys are recorded before events name them, and
  that bytes without a record belong to an upload in progress (`Recorded`); of
  every record that it names its own operation's barrier, and is completed only
  with the messages up to it erased; and of every worker, at whatever step it was overtaken: what
  its tail refers to is noted, then destroyed, before anything is erased
  (`Passing`, `RoomErasing`), a history purge keeps what is no message up to
  its barrier (`HistoryErasing`), and every copy of the record that it may
  still store names its operation's barrier (`Copied`, `NamesBarrier`). An
  operation ID not yet used, or used by a request that has not stored its
  barrier, has none (`Fresh`, `Starting`). Two workers may
  be at any two steps, since leases are lost, so each clause is about one
  worker and the stored state and must survive every other worker's step.
  `TypeCorrect`, `NothingLostTrackOf`, `CompletedIsErased`,
  `TombstoneNeverLost`, `HistoryPurgeSelects`.
- `CallsProofs`. `IInv` is about the stored room: it is what the pending events
  make of the projection (`Caught`), so that an attempt at the tail decides on
  the stored room; nobody is in another call than the active one, which has
  somebody in it and no `CallEnded` (`Settled`); every call the room, LiveKit or
  the cycle knows of has been handed out, so that a new one is new to all of
  them; and a key that `PostCommit` or the cycle is about to destroy is not the
  active one's (`OutOfUse`), which needs that the cycle looked at the tail
  before it took a call for a left-over. `After` is what a batch does event by
  event; its lemmas (prefix, shift, concatenation) are proved by induction over
  a set of naturals (`SetInduction`, from the well-foundedness of `<`), because
  the library's induction theorems take an operator. `JoinBatchEffect`,
  `LeftBatchEffect` and `RoomLeaveBatchEffect` then say what each batch makes of
  a room, for any number of devices. `TypeCorrect`, `CallsAreSeparate`,
  `DevicesWithinLimit`, `ActiveCallHasKey`, `EndsAreRecorded`, and the
  refinement `CallsImplementLifecycle`: every action maps to a step of
  `CallLifecycle` other than `RoomDeleted` (`Lives`) or leaves it alone, and
  `DeleteRoom` to `RoomDeleted`.

Assumptions are those of the modules: the sorts of the constants,
`0 < RenewEvery < TTL` (checked by `lease.New`), a single projector when the
consumer is not shared, at least one message per batch, at least one attempt, a
device limit of at least one (it is two) and one call ID at least, finitely
many devices, assets that are no call keys, and `None` different from what it
is compared with.

Only model-checked: the liveness properties (`LeadershipRecurs`, `WaitReturns`,
`EffectsHappen`, `EndedKeyShredded`, `Converges`, `PurgeCompletes`,
`HistoryPurgeEnds`). They need fairness, and fairness is `ENABLED`, which is out
of the prover's reach. Every safety property of a passing run has a theorem.

## 5. What is not modelled

Ordering of items and groups in the sidebar; formatting and normalisation of
names; parsing of subjects and acks; a gap in what a fetch without
acknowledgements delivers (`EffectConsumer` assumes there is none);
deduplication by message ID in the publisher; of calls, their notifications,
device indexes, the counter of failed LiveKit listings and calls without a call
ID of older clients; of the purge, link previews, derivatives of assets as
records of their own, edits and retractions with their cleanup of bodies, the
expiry of uploads that no message names, the projections of other replicas and a short read of the
history without acknowledgements, which would shrink what is kept; and the
parts of the inventory without a module: messages beyond what the purge sees,
threads and read state,
direct messages, users, sessions, permissions, presence, uploads, notifications
and configuration, each a component of its own with little shared state with
the modules here. Generated code (`internal/pb`, `emoji_gen.go`) has no
behaviour of its own. Media processing, mail,
push delivery, the embedded NATS server, HTTP decoding and the web client are
I/O around the state and are not planned.

## 6. Plan

Order, most important first. Runs are few, so a new component shares one.

1. Proofs: an abstract sidebar layout and an abstract room purge for `RoomGroups`
   and `RoomPurge` to implement, as `Calls` does `CallLifecycle`.
2. *Publisher*: batches and single appends with message-ID deduplication and
   ambiguous answers, as an abstract event log that the publisher implements.
3. *Messages*: idempotency keys, edits, tombstones, body cleanup; read state.
4. *Direct messages*, *assets*, *sessions and codes*.
5. *Permission resolver* as a pure operator against a reference definition;
   *limiter* and *lazy cache* as small concurrent algorithms.
