-------------------------------- MODULE Calls --------------------------------
(***************************************************************************)
(* The voice call of one room: CallModel (core/call_model.go), the         *)
(* projection it reads (core/call_state_projection.go), the call handlers  *)
(* of core/voice.go, the LiveKit webhook (http_server/webhooks.go), the    *)
(* API (connectapi/voice_calls.go) and the loss of membership              *)
(* (core/room_membership.go, core/room_bans.go).                           *)
(*                                                                         *)
(* Every write is a batch that the stream accepts only when the room's     *)
(* tail is the sequence of the projection snapshot it was computed from,   *)
(* so an accepted attempt reads and writes at one point of the room's      *)
(* history: it is one action, guarded by AtTail.  What an attempt that     *)
(* loses the race leaves behind (nothing: its new key is destroyed) needs  *)
(* no action; what a handler reads in one call and uses in the next does,  *)
(* and is kept in joining, hook and cyc.                                   *)
(*                                                                         *)
(* A device is a participant ID: an account and a browser session.  Device *)
(* indexes, names, avatars and timestamps that are only shown are left     *)
(* out.  LiveKit is external: a set of connections and the observations    *)
(* its webhooks report, late and in any order.                             *)
(***************************************************************************)
EXTENDS Naturals, Sequences, FiniteSets, SequencesExt

CONSTANTS Users, Devices, Owner,   \* Owner[d]: the account of device d
          MaxDevices,              \* maxCallDevicesPerUser
          Grace,                   \* CallParticipantRecoveryGrace
          MaxCalls, MaxTime,       \* bounds: call IDs, clock
          MaxOps, MaxFaults,       \* bounds: client and media steps, faults
          MaxBusy                  \* bound: handlers in progress at a time

ASSUME CallsAssumption ==
    /\ Owner \in [Devices -> Users]
    /\ IsFiniteSet(Devices)
    /\ {MaxDevices, MaxCalls} \subseteq Nat \ {0}
    /\ {Grace, MaxTime, MaxOps, MaxFaults, MaxBusy} \subseteq Nat

VARIABLES view,      \* the projection: the room's state at its applied sequence
          stored,    \* the room as all stored events leave it
          pend,      \* room events stored and not yet applied
          ended,     \* calls with a stored CallEnded event
          keys,      \* call keys in ENCRYPTION_KEYS
          calls,     \* call IDs handed out so far
          joining,   \* JoinCall requests past the membership check
          post,      \* what handlers still have to do after their commit
          tokens, media, obs,  \* LiveKit: tokens, connections, observations
          hook,      \* the webhook handlers in progress
          cyc,       \* the reconciliation cycle in progress
          now, ops, faults,
          revived,   \* devices whose participation a webhook recorded (history)
          unacked    \* calls whose first join was stored and reported as failed (history)

room == <<view, stored, pend, ended, tokens>>
lk   == <<media, obs>>
hist == <<revived, unacked>>
vars == <<room, keys, calls, joining, post, lk, hook, cyc, now, ops, faults, hist>>

NoCall  == 0
CallIDs == 1..MaxCalls
Modes   == {"ask", "companion", "transfer"}

-----------------------------------------------------------------------------
(* Room events and the projection. *)
Ev(t, d, c) == [t |-> t, d |-> d, c |-> c]
Changed(d, c, up, at, id) ==
    [t |-> "changed", d |-> d, c |-> c, up |-> up, at |-> at, id |-> id]

RemoveDevices(s, D) ==
    [s EXCEPT !.part = [d \in Devices |-> IF d \in D THEN NoCall ELSE @[d]],
              !.up = [d \in Devices |-> d \in D \/ @[d]],
              !.at = [d \in Devices |-> IF d \in D THEN 0 ELSE @[d]],
              !.seen = {x \in @ : x[1] \notin D}]

NoParticipants(s) == RemoveDevices(s, Devices)
Present(s) == {d \in Devices : s.part[d] # NoCall}
Own(s, u)  == {d \in Present(s) : Owner[d] = u}

\* The observation is recorded before its age is looked at, as in the code.
ApplyChanged(s, e) ==
    IF s.part[e.d] # e.c \/ <<e.d, e.id>> \in s.seen THEN s
    ELSE LET r == IF e.id = <<>> THEN s ELSE [s EXCEPT !.seen = @ \cup {<<e.d, e.id>>}]
         IN  IF e.at < s.at[e.d] THEN r
             ELSE [r EXCEPT !.up[e.d] = e.up, !.at[e.d] = e.at]

ApplyUserLeft(s, u) ==
    LET r == RemoveDevices([s EXCEPT !.members = @ \ {u}], Own(s, u))
    IN  IF Present(s) # {} /\ Present(r) = {} THEN [r EXCEPT !.call = NoCall] ELSE r

Apply(s, e) ==
    CASE e.t = "started" -> [NoParticipants(s) EXCEPT !.call = e.c]
      [] e.t = "joined"  -> [s EXCEPT !.part[e.d] = e.c]
      [] e.t = "changed" -> ApplyChanged(s, e)
      [] e.t = "left"    -> IF s.part[e.d] = e.c THEN RemoveDevices(s, {e.d}) ELSE s
      [] e.t = "leftall" -> RemoveDevices(s, {d \in Own(s, e.d) : s.part[d] = e.c})
      [] e.t = "ended"   -> IF s.call \in {NoCall, e.c}
                            THEN [NoParticipants(s) EXCEPT !.call = NoCall] ELSE s
      [] e.t = "userleft" -> ApplyUserLeft(s, e.d)
      [] e.t = "deleted" -> [NoParticipants(s) EXCEPT !.call = NoCall, !.members = {}]

\* The state after the first n of the events es.
After(s, es, n) ==
    LET f[i \in 0..n] == IF i = 0 THEN s ELSE Apply(f[i - 1], es[i])
    IN  f[n]

AtTail == pend = <<>>

\* Variant for the checks: any member gets a token, admitted or not.
GetCallTokenOfMember(s, K) == {<<d, s.call>> : d \in {e \in Devices : Owner[e] \in s.members}}

\* GetCallToken: the caller is a member and this device is admitted to the
\* active call, whose key is read.  A client asks as soon as it can, of any
\* process, whose projection may be ahead of the one modelled here.
GetCallToken(s, K) ==
    {<<d, s.call>> : d \in {e \in Present(s) : /\ Owner[e] \in s.members
                                             /\ s.part[e] = s.call /\ s.call \in K}}

StoreWithKeys(es, K) ==
    /\ pend' = pend \o es
    /\ stored' = After(stored, es, Len(es))
    /\ ended' = ended \cup {es[i].c : i \in {j \in DOMAIN es : es[j].t = "ended"}}
    /\ tokens' = tokens \cup GetCallToken(stored', K)
    /\ UNCHANGED view

Store(es) == StoreWithKeys(es, keys)

ApplyNext ==
    /\ pend # <<>>
    /\ view' = Apply(view, Head(pend))
    /\ pend' = Tail(pend)
    /\ UNCHANGED <<stored, ended, tokens, keys, calls, joining, post, lk, hook, cyc, now, ops, faults, hist>>

-----------------------------------------------------------------------------
(* LiveKit (external). *)
Observation(k, d, c) == [k |-> k, d |-> d, c |-> c, at |-> now]

\* RemoveCallParticipant.  LiveKit reports it as a terminal departure, as it
\* does when the client disconnects just before (Disconnect).
Evict(S) ==
    /\ media' = media \ S
    /\ UNCHANGED obs

\* Handlers between two of their steps.
Busy == Cardinality(joining) + Cardinality(post) + Cardinality(hook)
            + (IF cyc.pc = "idle" THEN 0 ELSE 1)
Free == Busy < MaxBusy

Op    == ops < MaxOps /\ ops' = ops + 1
Fault == faults < MaxFaults /\ faults' = faults + 1

Connect(d, c) ==
    /\ Op
    /\ <<d, c>> \in tokens \ media
    /\ media' = media \cup {<<d, c>>}
    /\ obs' = obs \cup {Observation("joined", d, c)}
    /\ UNCHANGED <<room, keys, calls, joining, post, hook, cyc, now, faults, hist>>

\* A client disconnects, or its network does; the last one closes the room.
Disconnect(d, c, k) ==
    /\ Op
    /\ <<d, c>> \in media
    /\ media' = media \ {<<d, c>>}
    /\ obs' = obs \cup {Observation(k, d, c)}
                  \cup {Observation("finished", d, c) :
                            x \in {y \in {0} : \A z \in media : z[2] = c => z[1] = d}}
    /\ UNCHANGED <<room, keys, calls, joining, post, hook, cyc, now, faults, hist>>

Tick ==
    /\ now < MaxTime
    /\ now' = now + 1
    /\ UNCHANGED <<room, keys, calls, joining, post, lk, hook, cyc, ops, faults, hist>>

\* What is left to do after a commit: a key to destroy, devices to disconnect.
Then(key, out, strict) ==
    IF key = NoCall /\ out \cap tokens = {} THEN {}
    ELSE {[key |-> key, out |-> out \cap tokens, strict |-> strict]}

-----------------------------------------------------------------------------
(* JoinCall: the membership check, then JoinUserParticipant.  The client    *)
(* names the call it expects, if any: one it has heard of, ended or not.    *)
JoinCall(d, mode, exp) ==
    /\ Op /\ Free
    /\ Owner[d] \in view.members
    /\ exp <= calls
    /\ joining' = joining \cup {[d |-> d, mode |-> mode, exp |-> exp]}
    /\ UNCHANGED <<room, keys, calls, post, lk, hook, cyc, now, faults, hist>>

Removed(s, j) == IF j.mode = "transfer" THEN Own(s, Owner[j.d]) \ {j.d} ELSE {}

RollsOver(s, j) ==
    /\ j.mode = "transfer" /\ j.d \notin Present(s)
    /\ Removed(s, j) # {} /\ Removed(s, j) = Present(s)
    /\ s.call # NoCall

NewCall(s, j) == s.call = NoCall \/ RollsOver(s, j)

JoinBatch(s, j, c) ==
    SetToSeq({Ev("left", d, s.call) : d \in Removed(s, j)})
        \o (IF RollsOver(s, j) THEN <<Ev("ended", j.d, s.call)>> ELSE <<>>)
        \o (IF NewCall(s, j) THEN <<Ev("started", j.d, c)>> ELSE <<>>)
        \o (IF j.d \in Present(s) THEN <<>> ELSE <<Ev("joined", j.d, c)>>)

\* Variant for the checks: the device limit is not looked at.
JoinReturnsNoLimit(s, j) ==
    LET own == Own(s, Owner[j.d]) IN
    \/ j.exp # NoCall /\ s.call # j.exp
    \/ j.d \in own /\ (j.mode # "transfer" \/ own = {j.d})
    \/ j.d \notin own /\ j.mode = "ask" /\ own # {}

\* The answers that append nothing.
JoinReturns(s, j) ==
    LET own == Own(s, Owner[j.d]) IN
    \/ j.exp # NoCall /\ s.call # j.exp
    \/ j.d \in own /\ (j.mode # "transfer" \/ own = {j.d})
    \/ j.d \notin own /\ j.mode = "ask" /\ own # {}
    \/ j.d \notin own /\ j.mode = "companion" /\ Cardinality(own) >= MaxDevices

\* ... and the error after five conflicts, whose key was destroyed each time.
JoinWithoutEvent(j) ==
    /\ JoinReturns(view, j) \/ ~AtTail
    /\ joining' = joining \ {j}
    /\ UNCHANGED <<room, keys, calls, post, lk, hook, cyc, now, ops, faults, hist>>

PostJoin(s, j) ==
    Then(IF RollsOver(s, j) THEN s.call ELSE NoCall, {<<d, s.call>> : d \in Removed(s, j)}, TRUE)

\* Variant for the checks: the batch carries no expected sequence.
JoinCommitAnywhere(j) ==
    LET c == IF NewCall(view, j) THEN calls + 1 ELSE view.call IN
    /\ ~JoinReturns(view, j)
    /\ c <= MaxCalls
    /\ calls' = IF NewCall(view, j) THEN c ELSE calls
    /\ keys' = IF NewCall(view, j) THEN keys \cup {c} ELSE keys
    /\ StoreWithKeys(JoinBatch(view, j, c), keys')
    /\ post' = post \cup PostJoin(view, j)
    /\ joining' = joining \ {j}
    /\ revived' = revived \ {j.d}
    /\ UNCHANGED <<lk, hook, cyc, now, ops, faults, unacked>>

JoinCommit(j) ==
    LET c == IF NewCall(view, j) THEN calls + 1 ELSE view.call IN
    /\ ~JoinReturns(view, j) /\ AtTail
    /\ c <= MaxCalls
    /\ calls' = IF NewCall(view, j) THEN c ELSE calls
    /\ keys' = IF NewCall(view, j) THEN keys \cup {c} ELSE keys
    /\ StoreWithKeys(JoinBatch(view, j, c), keys')
    /\ post' = post \cup PostJoin(view, j)
    /\ joining' = joining \ {j}
    /\ revived' = revived \ {j.d}
    /\ UNCHANGED <<lk, hook, cyc, now, ops, faults, unacked>>

\* The batch is stored and its acknowledgement is lost: the new key is
\* destroyed as after a conflict, and nothing more is done.
JoinLostAck(j) ==
    LET c == IF NewCall(view, j) THEN calls + 1 ELSE view.call IN
    /\ Fault
    /\ ~JoinReturns(view, j) /\ AtTail
    /\ c <= MaxCalls
    /\ Store(JoinBatch(view, j, c))
    /\ calls' = IF NewCall(view, j) THEN c ELSE calls
    /\ unacked' = IF NewCall(view, j) THEN unacked \cup {c} ELSE unacked
    /\ joining' = joining \ {j}
    /\ revived' = revived \ {j.d}
    /\ UNCHANGED <<keys, post, lk, hook, cyc, now, ops>>

\* The process dies between creating the key and appending the batch.
JoinCrash(j) ==
    /\ Fault
    /\ ~JoinReturns(view, j) /\ NewCall(view, j)
    /\ calls < MaxCalls
    /\ calls' = calls + 1
    /\ keys' = keys \cup {calls'}
    /\ joining' = joining \ {j}
    /\ UNCHANGED <<room, post, lk, hook, cyc, now, ops, hist>>

-----------------------------------------------------------------------------
(* appendParticipantTransition for a leave, and its callers. *)
LeftNoop(s, d, exp) == (exp # NoCall /\ s.call # exp) \/ s.part[d] = NoCall

IsLast(s, d) == Present(s) = {d} /\ s.call = s.part[d]

\* Variant for the checks: the last participant to leave does not end the call.
LeftBatchOnly(s, d) == <<Ev("left", d, s.part[d])>>

LeftBatch(s, d) ==
    <<Ev("left", d, s.part[d])>>
        \o (IF IsLast(s, d) THEN <<Ev("ended", d, s.part[d])>> ELSE <<>>)

\* Variant for the checks: every leave takes the call's key with it.
EndedKeyAlways(s, d) == s.part[d]

EndedKey(s, d) == IF IsLast(s, d) THEN s.part[d] ELSE NoCall

\* A stored leave, acknowledged or not; only an acknowledged one goes on.
AppendLeft(d, out) ==
    /\ AtTail
    /\ Store(LeftBatch(view, d))
    /\ revived' = revived \ {d}
    /\ post' \in {post, post \cup Then(EndedKey(view, d), out, TRUE)}
    /\ UNCHANGED unacked

LeaveCall(d, exp) ==
    /\ Op /\ Free
    /\ Owner[d] \in view.members
    /\ exp \in 0..calls
    /\ LET c   == IF exp = NoCall THEN view.call ELSE exp
           out == IF c = NoCall THEN {} ELSE {<<d, c>>}
       IN  IF LeftNoop(view, d, exp)
           THEN /\ post' = post \cup Then(NoCall, out, TRUE)
                /\ UNCHANGED <<room, hist>>
           ELSE AppendLeft(d, out)
    /\ UNCHANGED <<keys, calls, joining, lk, hook, cyc, now, faults>>

\* After the commit: destroy the ended call's key, then disconnect devices
\* from LiveKit.  Either may fail, and the process may die before both.
PostCommit(p, shredOk, evictOk) ==
    /\ p \in post
    /\ post' = post \ {p}
    /\ keys' = IF shredOk THEN keys \ {p.key} ELSE keys
    /\ IF evictOk /\ (shredOk \/ ~p.strict) THEN Evict(p.out) ELSE UNCHANGED lk
    /\ UNCHANGED <<room, calls, joining, hook, cyc, now, ops, faults, hist>>

-----------------------------------------------------------------------------
(* Membership: LeaveRoom, RemoveMember, BanMember and account deletion all  *)
(* run appendRoomLeaveBatch at the tail that both projections have reached. *)
RoomLeaveBatch(s, u) ==
    LET own == Own(s, u) IN
    <<Ev("userleft", u, NoCall)>>
        \o (IF own = {} THEN <<>> ELSE <<Ev("leftall", u, s.call)>>)
        \o (IF own # {} /\ own = Present(s) THEN <<Ev("ended", u, s.call)>> ELSE <<>>)

\* Variant for the checks: only the directory is waited for, so the call
\* facts come from a projection that may be behind.
LeaveRoomStaleCall(u) ==
    /\ Op /\ Free
    /\ u \in stored.members
    /\ Store(RoomLeaveBatch(view, u))
    /\ revived' = {d \in revived : Owner[d] # u}
    /\ LET own == Own(view, u)
           key == IF own # {} /\ own = Present(view) THEN view.call ELSE NoCall
       IN  post' \in {post, post \cup Then(key, {<<d, view.call>> : d \in own}, FALSE)}
    /\ UNCHANGED <<keys, calls, joining, lk, hook, cyc, now, faults, unacked>>

LeaveRoom(u) ==
    /\ Op /\ Free
    /\ AtTail
    /\ u \in view.members
    /\ Store(RoomLeaveBatch(view, u))
    /\ revived' = {d \in revived : Owner[d] # u}
    /\ LET own == Own(view, u)
           key == IF own # {} /\ own = Present(view) THEN view.call ELSE NoCall
       IN  post' \in {post, post \cup Then(key, {<<d, view.call>> : d \in own}, FALSE)}
    /\ UNCHANGED <<keys, calls, joining, lk, hook, cyc, now, faults, unacked>>

\* DeleteRoom appends without an expected sequence and knows nothing of calls.
DeleteRoom ==
    /\ Op
    /\ view.members # {}
    /\ Store(<<Ev("deleted", NoCall, NoCall)>>)
    /\ revived' = {}
    /\ UNCHANGED <<keys, calls, joining, post, lk, hook, cyc, now, faults, unacked>>

-----------------------------------------------------------------------------
(* AppendParticipantConnectionStateForCall *)
StateNoop(s, d, c, at, id) ==
    s.call # c \/ s.part[d] # c \/ <<d, id>> \in s.seen \/ at < s.at[d]

AppendState(d, c, up, at, id) ==
    \/ StateNoop(view, d, c, at, id) /\ UNCHANGED room
    \/ /\ ~StateNoop(view, d, c, at, id) /\ AtTail
       /\ Store(<<Changed(d, c, up, at, id)>>)

-----------------------------------------------------------------------------
(* The webhook: its requests are served concurrently.  An observation is    *)
(* reported again when its handler fails, and lost when LiveKit gives up.   *)

\* participant_joined: only an admitted connection is kept.
HookJoined(o) ==
    /\ o.k = "joined"
    /\ IF view.part[o.d] = o.c
       THEN hook' = hook \cup {[stage |-> "join", o |-> o]} /\ UNCHANGED lk
       ELSE /\ UNCHANGED hook
            /\ media' = media \ {<<o.d, o.c>>}
            /\ obs' = obs \ {o}
    /\ UNCHANGED <<room, keys, calls, joining, post, cyc, now, ops, faults, hist>>

HookFinished(o) ==
    /\ o.k = "finished"
    /\ hook' = hook \cup {[stage |-> "room", o |-> o,
                           rest |-> IF view.call = o.c THEN Present(view) ELSE {}]}
    /\ UNCHANGED <<room, keys, calls, joining, post, lk, cyc, now, ops, faults, hist>>

\* participant_left that cannot recover.
HookGone(o) ==
    /\ o.k = "gone"
    /\ IF LeftNoop(view, o.d, o.c) THEN UNCHANGED <<room, post, hist>> ELSE AppendLeft(o.d, {})
    /\ obs' = obs \ {o}
    /\ UNCHANGED <<keys, calls, joining, media, hook, cyc, now, ops, faults>>

\* participant_left that may recover.
HookDropped(o) ==
    /\ o.k = "dropped"
    /\ AppendState(o.d, o.c, FALSE, o.at, o)
    /\ obs' = obs \ {o}
    /\ UNCHANGED <<keys, calls, joining, post, media, hook, cyc, now, ops, faults, hist>>

Webhook(o) ==
    /\ Free /\ \A h \in hook : h.o # o
    /\ HookJoined(o) \/ HookFinished(o) \/ HookGone(o) \/ HookDropped(o)

\* The report never arrives.
LoseObservation(o) ==
    /\ Fault
    /\ \A h \in hook : h.o # o
    /\ obs' = obs \ {o}
    /\ UNCHANGED <<room, keys, calls, joining, post, media, hook, cyc, now, ops, hist>>

\* AppendParticipantJoinedForCall: looks at the call, not at the admission
\* that the handler has just checked.
HookJoinStep(h) ==
    /\ h.stage = "join"
    /\ LET o == h.o IN
       \/ /\ view.call # o.c \/ view.part[o.d] # NoCall
          /\ UNCHANGED <<room, revived>>
       \/ /\ view.call = o.c /\ view.part[o.d] = NoCall /\ AtTail
          /\ Store(<<Ev("joined", o.d, o.c)>>)
          /\ revived' = revived \cup {o.d}
    /\ hook' = (hook \ {h}) \cup {[h EXCEPT !.stage = "state"]}
    /\ UNCHANGED <<keys, calls, joining, post, lk, cyc, now, ops, faults, unacked>>

HookStateStep(h) ==
    /\ h.stage = "state"
    /\ AppendState(h.o.d, h.o.c, TRUE, h.o.at, h.o)
    /\ hook' = hook \ {h}
    /\ obs' = obs \ {h.o}
    /\ UNCHANGED <<keys, calls, joining, post, media, cyc, now, ops, faults, hist>>

HookRoomStep(h, d) ==
    /\ h.stage = "room" /\ d \in h.rest
    /\ AppendState(d, h.o.c, FALSE, h.o.at, h.o)
    /\ hook' = (hook \ {h}) \cup {[h EXCEPT !.rest = @ \ {d}]}
    /\ UNCHANGED <<keys, calls, joining, post, lk, cyc, now, ops, faults, hist>>

HookRoomDone(h) ==
    /\ h.stage = "room" /\ h.rest = {}
    /\ hook' = hook \ {h}
    /\ obs' = obs \ {h.o}
    /\ UNCHANGED <<room, keys, calls, joining, post, media, cyc, now, ops, faults, hist>>

HookFails(h) ==
    /\ Fault
    /\ hook' = hook \ {h}
    /\ UNCHANGED <<room, keys, calls, joining, post, lk, cyc, now, ops, hist>>

-----------------------------------------------------------------------------
(* reconcileWithLiveKit: one cycle of the elected leader. *)
NoCycle == [pc |-> "idle", list |-> {}, matched |-> FALSE, unmatched |-> NoCall, work |-> {}]

\* Variant for the checks: the keys of ended calls are left to the handlers.
ListCallParticipantsOnly ==
    /\ cyc = NoCycle /\ Free
    /\ cyc' = [NoCycle EXCEPT !.pc = "rooms", !.list = media]
    /\ UNCHANGED <<room, keys, calls, joining, post, lk, hook, now, ops, faults, hist>>

\* The listing, and the destruction of the keys of the stored CallEnded
\* events, which may fail.  A listing that fails only changes a counter.
ListCallParticipants ==
    /\ cyc = NoCycle /\ Free
    /\ cyc' = [NoCycle EXCEPT !.pc = "rooms", !.list = media]
    /\ \/ keys' = keys \ ended /\ UNCHANGED faults
       \/ UNCHANGED keys /\ Fault
    /\ UNCHANGED <<room, calls, joining, post, lk, hook, now, ops, hist>>

BetweenRooms == cyc.pc = "rooms" /\ cyc.work = {}
Listed(c) == {x \in cyc.list : x[2] = c}
Others(c) == cyc.list \ Listed(c)
Unadmitted(c) == {x \in Listed(c) : view.part[x[1]] # c}

EvictUnadmitted(c) ==
    /\ BetweenRooms /\ Listed(c) # {}
    /\ view.call = c /\ Unadmitted(c) # {}
    /\ Evict(Unadmitted(c))
    /\ cyc' = [cyc EXCEPT !.list = Others(c), !.matched = TRUE]
    /\ UNCHANGED <<room, keys, calls, joining, post, hook, now, ops, faults, hist>>

\* The last value of the clock stands for every later time.
Expired(d) == now >= view.at[d] + Grace \/ now = MaxTime

\* ReconcileRoomConnections decides from one read of the participants ...
WorkFor(observed) ==
    LET W(d, what) == [d |-> d, what |-> what, c |-> view.part[d], at |-> now] IN
    {W(d, "down") : d \in {e \in Present(view) \ observed : view.up[e]}}
        \cup {W(d, "left") : d \in {e \in Present(view) \ observed : ~view.up[e] /\ Expired(e)}}
        \cup {W(d, "up") : d \in {e \in Present(view) \cap observed : ~view.up[e]}}

ReconcileRoom(c) ==
    /\ BetweenRooms /\ Listed(c) # {}
    /\ view.call = c /\ Unadmitted(c) = {}
    /\ cyc' = [cyc EXCEPT !.list = Others(c), !.matched = TRUE,
                          !.work = WorkFor({x[1] : x \in Listed(c)})]
    /\ UNCHANGED <<room, keys, calls, joining, post, lk, hook, now, ops, faults, hist>>

\* ... and appends each decision on its own.
Worked(w) ==
    IF cyc.pc = "last" /\ cyc.work = {w} THEN NoCycle ELSE [cyc EXCEPT !.work = @ \ {w}]

ReconcileState(w) ==
    /\ w \in cyc.work /\ w.what # "left"
    /\ AppendState(w.d, w.c, w.what = "up", w.at, <<>>)
    /\ cyc' = Worked(w)
    /\ UNCHANGED <<keys, calls, joining, post, lk, hook, now, ops, faults, hist>>

ReconcileLeft(w) ==
    /\ w \in cyc.work /\ w.what = "left"
    /\ IF LeftNoop(view, w.d, w.c) THEN UNCHANGED <<room, post, hist>> ELSE AppendLeft(w.d, {})
    /\ cyc' = Worked(w)
    /\ UNCHANGED <<keys, calls, joining, lk, hook, now, ops, faults>>

\* Variant for the checks: the projection is not brought to the room's tail
\* before a LiveKit room is taken for a left-over.
FindUnmatchedCallAtOnce(c) ==
    /\ BetweenRooms /\ Listed(c) # {}
    /\ view.call # c
    /\ cyc' = [cyc EXCEPT !.pc = "unmatched", !.unmatched = c]
    /\ UNCHANGED <<room, keys, calls, joining, post, lk, hook, now, ops, faults, hist>>

\* A LiveKit room whose call is not the active one, once the projection has
\* reached the room's tail.
FindUnmatchedCall(c) ==
    /\ BetweenRooms /\ Listed(c) # {}
    /\ AtTail
    /\ view.call # c
    /\ cyc' = [cyc EXCEPT !.pc = "unmatched", !.unmatched = c]
    /\ UNCHANGED <<room, keys, calls, joining, post, lk, hook, now, ops, faults, hist>>

\* ensureUnmatchedCallEndedFact: appended without an expected sequence.
EndUnmatchedCall ==
    /\ cyc.pc = "unmatched"
    /\ IF cyc.unmatched \in ended THEN UNCHANGED room
       ELSE Store(<<Ev("ended", NoCall, cyc.unmatched)>>)
    /\ cyc' = [cyc EXCEPT !.pc = "clean"]
    /\ UNCHANGED <<keys, calls, joining, post, lk, hook, now, ops, faults, hist>>

CleanUnmatchedCall ==
    LET c == cyc.unmatched IN
    /\ cyc.pc = "clean"
    /\ Evict(Listed(c))
    /\ keys' = keys \ {c}
    /\ cyc' = [cyc EXCEPT !.pc = "rooms", !.unmatched = NoCall, !.list = Others(c)]
    /\ UNCHANGED <<room, calls, joining, post, hook, now, ops, faults, hist>>

\* Variant for the checks: only the rooms that LiveKit lists are reconciled.
ReconcileUnobservedNever ==
    /\ BetweenRooms /\ cyc.list = {}
    /\ cyc' = NoCycle
    /\ UNCHANGED <<room, keys, calls, joining, post, lk, hook, now, ops, faults, hist>>

\* The room was not listed: everybody in it is absent.
ReconcileUnobserved ==
    /\ BetweenRooms /\ cyc.list = {}
    /\ cyc' = IF cyc.matched \/ WorkFor({}) = {} THEN NoCycle
              ELSE [cyc EXCEPT !.pc = "last", !.work = WorkFor({})]
    /\ UNCHANGED <<room, keys, calls, joining, post, lk, hook, now, ops, faults, hist>>

\* An error, a timeout or a lost lease; the next cycle starts over.
CycleFails ==
    /\ Fault
    /\ cyc # NoCycle
    /\ cyc' = NoCycle
    /\ UNCHANGED <<room, keys, calls, joining, post, lk, hook, now, ops, hist>>

-----------------------------------------------------------------------------
\* No call, or a settled one: its participants are connected and up, some of
\* their webhooks are still on the way.
Init ==
    /\ \E P \in SUBSET Devices :
          /\ \A u \in Users : Cardinality({d \in P : Owner[d] = u}) <= MaxDevices
          /\ calls = IF P = {} THEN 0 ELSE 1
          /\ view = [call |-> calls, part |-> [d \in Devices |-> IF d \in P THEN calls ELSE NoCall],
                     up |-> [d \in Devices |-> TRUE], at |-> [d \in Devices |-> 0],
                     seen |-> {}, members |-> Users]
          /\ keys = 1..calls
          /\ tokens = P \X keys /\ media = tokens
          /\ now = 0
          /\ \E Q \in {X \in SUBSET P : Cardinality(X) <= 1} : obs = {Observation("joined", d, 1) : d \in Q}
    /\ stored = view /\ pend = <<>> /\ ended = {}
    /\ joining = {} /\ post = {}
    /\ hook = {} /\ cyc = NoCycle
    /\ ops = 0 /\ faults = 0
    /\ revived = {} /\ unacked = {}

Client ==
    \/ \E d \in Devices, mode \in Modes, exp \in 0..MaxCalls : JoinCall(d, mode, exp)
    \/ \E d \in Devices, exp \in 0..MaxCalls : LeaveCall(d, exp)
    \/ \E d \in Devices, c \in CallIDs : Connect(d, c)
    \/ \E d \in Devices, c \in CallIDs, k \in {"gone", "dropped"} : Disconnect(d, c, k)
    \/ \E u \in Users : LeaveRoom(u)
    \/ DeleteRoom

Server ==
    \/ ApplyNext
    \/ \E j \in joining : JoinWithoutEvent(j) \/ JoinCommit(j) \/ JoinLostAck(j) \/ JoinCrash(j)
    \/ \E p \in post, shredOk, evictOk \in BOOLEAN : PostCommit(p, shredOk, evictOk)
    \/ \E o \in obs : Webhook(o)
    \/ \E h \in hook : HookJoinStep(h) \/ HookStateStep(h) \/ HookRoomDone(h) \/ HookFails(h)
    \/ \E h \in hook, d \in Devices : HookRoomStep(h, d)

Reconciler ==
    \/ ListCallParticipants
    \/ \E c \in CallIDs : EvictUnadmitted(c) \/ ReconcileRoom(c) \/ FindUnmatchedCall(c)
    \/ \E w \in cyc.work : ReconcileState(w) \/ ReconcileLeft(w)
    \/ EndUnmatchedCall \/ CleanUnmatchedCall \/ ReconcileUnobserved

Next ==
    \/ Client \/ Server \/ Reconciler \/ CycleFails \/ Tick
    \/ \E o \in obs : LoseObservation(o)

Spec == Init /\ [][Next]_vars

FairSpec ==
    /\ Spec
    /\ WF_vars(ApplyNext) /\ WF_vars(Tick) /\ WF_vars(Server) /\ WF_vars(Reconciler)

-----------------------------------------------------------------------------
(* Properties *)
Lifecycle == INSTANCE CallLifecycle
                 WITH call <- stored.call, in <- Present(stored), over <- ended

\* Seen through the stored events, the handlers, the webhook and the
\* reconciliation together do what CallLifecycle promises.
ImplementsLifecycle == Lifecycle!Spec

Observations ==
    [k : {"joined", "gone", "dropped", "finished"}, d : Devices, c : CallIDs, at : 0..MaxTime]

Snapshots ==
    [call : 0..MaxCalls, part : [Devices -> 0..MaxCalls], up : [Devices -> BOOLEAN],
     at : [Devices -> 0..MaxTime], seen : SUBSET (Devices \X Observations), members : SUBSET Users]

\* An event is about a device, an account, or neither.
Events ==
    [t : {"started", "joined", "left"}, d : Devices, c : 0..MaxCalls]
        \cup [t : {"leftall", "userleft"}, d : Users, c : 0..MaxCalls]
        \cup [t : {"ended", "deleted"}, d : {NoCall} \cup Devices \cup Users, c : 0..MaxCalls]
        \cup [t : {"changed"}, d : Devices, c : 0..MaxCalls, up : BOOLEAN, at : 0..MaxTime,
              id : {<<>>} \cup Observations]

Cleanups == [key : 0..MaxCalls, out : SUBSET (Devices \X CallIDs), strict : BOOLEAN]

Hooks ==
    [stage : {"join", "state"}, o : Observations]
        \cup [stage : {"room"}, o : Observations, rest : SUBSET Devices]

Cycles ==
    [pc : {"idle", "rooms", "unmatched", "clean", "last"}, list : SUBSET (Devices \X CallIDs),
     matched : BOOLEAN, unmatched : 0..MaxCalls,
     work : SUBSET [d : Devices, what : {"down", "left", "up"}, c : 0..MaxCalls, at : 0..MaxTime]]

TypeOK ==
    /\ view \in Snapshots /\ stored \in Snapshots /\ pend \in Seq(Events)
    /\ ended \subseteq CallIDs /\ keys \subseteq CallIDs /\ unacked \subseteq CallIDs
    /\ calls \in 0..MaxCalls /\ revived \subseteq Devices
    /\ joining \subseteq [d : Devices, mode : Modes, exp : 0..MaxCalls]
    /\ post \subseteq Cleanups
    /\ media \subseteq tokens /\ tokens \subseteq Devices \X CallIDs
    /\ obs \subseteq Observations
    /\ hook \subseteq Hooks /\ cyc \in Cycles
    /\ now \in 0..MaxTime /\ ops \in 0..MaxOps /\ faults \in 0..MaxFaults

\* A call starts when the room has none, and the event that ends it finds
\* nobody in it: batches computed from a stale snapshot, and the end that
\* reconciliation records without an expected sequence, would break this.
CallsDoNotOverlap ==
    \A i \in DOMAIN pend :
        LET s == After(view, pend, i - 1) IN
        /\ pend[i].t = "started" => s.call = NoCall /\ Present(s) = {}
        /\ pend[i].t = "ended" /\ s.call = pend[i].c => Present(s) = {}

\* "No account may exceed two projected connections" (FDR-016): concurrent
\* joins never admit more.  Devices that a webhook put back are not counted.
AdmittedDeviceLimit ==
    \A u \in Users : Cardinality(Own(stored, u) \ revived) <= MaxDevices

\* The active call's key exists, so that a participant can get a token; only
\* a first join whose acknowledgement was lost leaves a call without one.
KeyWhileActive == stored.call \in keys \cup unacked \cup {NoCall}

\* A call that is over has its CallEnded event, which the destruction of its
\* key is driven by; only the deletion of the room ends one without.
NoSilentEnd ==
    [][stored.call # NoCall /\ stored'.call # stored.call
           => stored.call \in ended' \/ DeleteRoom]_vars

\* The key of an ended call is destroyed, whatever handler failed or died.
EndedKeyShredded == \A c \in CallIDs : c \in ended ~> c \notin keys

\* Once clients rest, LiveKit's connections are the projected participants:
\* lost evictions, lost webhooks and devices that vanished are repaired.
Converges == <>[](media = {<<d, stored.part[d]>> : d \in Present(stored)})
=============================================================================
