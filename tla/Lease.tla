------------------------------- MODULE Lease -------------------------------
(***************************************************************************)
(* The JetStream-KV backed leader lease of cli/internal/lease.             *)
(*                                                                         *)
(* Several processes ("owners", one random OwnerID each) run Lease.Run:    *)
(* they try to create the KV record, run a work function while they hold   *)
(* it, renew it from a ticker, and delete it when the work is over.  The   *)
(* record carries a TTL, so the server removes it when nobody renews it.   *)
(*                                                                         *)
(* Every call to the server is one step of its own, so that other owners,  *)
(* the clock and expiry interleave between a Get and the conditional write *)
(* that follows it.  A call may fail; a failed write may still be on its   *)
(* way and be stored later (variable net).                                 *)
(*                                                                         *)
(* The code only ever compares stream revisions for equality, so a write   *)
(* takes the least revision that no client and no delayed request refers   *)
(* to (FreshRevs) instead of the next value of an unbounded counter.       *)
(***************************************************************************)
EXTENDS Naturals, FiniteSets

CONSTANTS
    Owners,      \* the processes that contend for the lease
    Revs,        \* revisions of the KV key
    TTL,         \* clock ticks after which an unrenewed record expires
    RenewEvery,  \* period of the renewal ticker, in clock ticks
    Slack,       \* a worker is never older than RenewEvery + Slack ticks
    MaxFaults,   \* bound on the calls that fail while the process is healthy
    None         \* no owner, no revision

ASSUME LeaseAssumption ==
    /\ TTL \in Nat /\ RenewEvery \in Nat /\ Slack \in Nat /\ MaxFaults \in Nat
    /\ 0 < RenewEvery /\ RenewEvery < TTL        \* checked by lease.New
    /\ None \notin Owners
    /\ Revs \subseteq Nat /\ None \notin Revs

VARIABLES
    kvOwner,   \* owner named in the live record, None when there is no record
    kvRev,     \* revision of the live record
    kvAge,     \* ticks since the live record was written, at most TTL
    net,       \* writes whose caller gave up but that may still be stored
    pc,        \* where each owner's Run is
    rev,       \* the revision an owner read and is about to write at
    after,     \* where Run goes when the release is over
    work,      \* state of the goroutine that runs the work function
    stop,      \* the parent context of the owner is cancelled
    since,     \* ticks since a worker's last acknowledged write was stored
    timer,     \* ticks since the renewal ticker last fired
    faults     \* calls that have failed so far

kvVars  == <<kvOwner, kvRev, kvAge>>
runVars == <<pc, rev, after, work, stop>>
clocks  == <<since, timer>>
vars    == <<kvVars, net, runVars, clocks, faults>>

PCs == {"try", "get", "reacquire", "sleep", "lead", "renewGet", "renewPub",
        "cancelLost", "cancelStop", "relGet", "relDel", "done", "dead"}

Request == [op : {"create", "renew", "delete"}, owner : Owners, rev : Revs \cup {None}]

\* The work function of o may be executing.
Active(o) == work[o] \in {"running", "cancelled"}

\* o is inside runAsLeader's loop.
Leading(o) == pc[o] \in {"lead", "renewGet", "renewPub", "cancelLost", "cancelStop"}

Over(o) == pc[o] \in {"done", "dead"}

UsedRevs  == {kvRev} \cup {rev[o] : o \in Owners} \cup {m.rev : m \in net}
FreshRevs == Revs \ UsedRevs

TypeOK ==
    /\ kvOwner \in Owners \cup {None}
    /\ kvRev \in Revs \cup {None}
    /\ kvAge \in 0..TTL
    /\ net \subseteq Request
    /\ pc \in [Owners -> PCs]
    /\ rev \in [Owners -> Revs \cup {None}]
    /\ after \in [Owners -> {"sleep", "done"}]
    /\ work \in [Owners -> {"idle", "running", "cancelled", "returned"}]
    /\ stop \in [Owners -> BOOLEAN]
    /\ since \in [Owners -> 0..TTL]
    /\ timer \in [Owners -> 0..RenewEvery]
    /\ faults \in 0..MaxFaults

Init ==
    /\ kvOwner = None /\ kvRev = None /\ kvAge = 0
    /\ net = {}
    /\ pc = [o \in Owners |-> "try"]
    /\ rev = [o \in Owners |-> None]
    /\ after = [o \in Owners |-> "sleep"]
    /\ work = [o \in Owners |-> "idle"]
    /\ stop = [o \in Owners |-> FALSE]
    /\ since = [o \in Owners |-> 0]
    /\ timer = [o \in Owners |-> 0]
    /\ faults = 0

-----------------------------------------------------------------------------
(* The KV bucket, as the lease uses it.                                    *)

\* A write of o's record is stored under a fresh revision and a new TTL.
Store(o) ==
    /\ kvOwner' = o
    /\ kvRev' \in FreshRevs /\ \A r \in FreshRevs : kvRev' <= r
    /\ kvAge' = 0

\* The compare-and-set both renewals and deletes rely on: the record the
\* caller read is still the last one stored under the key.
AtRevision(r) == kvOwner # None /\ kvRev = r

\* The record is removed; a caller that still holds its revision fails.
Remove == kvOwner' = None /\ kvRev' = None /\ kvAge' = 0

ExpireNever == FALSE /\ UNCHANGED vars

\* The server drops a record whose TTL has passed.
Expire ==
    /\ kvOwner # None /\ kvAge = TTL
    /\ Remove
    /\ UNCHANGED <<net, runVars, clocks, faults>>

\* The server stores a create when the key holds no record, and a renewal or
\* a delete when the key still holds the record it was issued for.
Accepts(m) == IF m.op = "create" THEN kvOwner = None ELSE AtRevision(m.rev)

\* A write its caller has given up on reaches the server after all.
Deliver(m) ==
    /\ net' = net \ {m}
    /\ IF Accepts(m)
       THEN IF m.op = "delete" THEN Remove ELSE Store(m.owner)
       ELSE UNCHANGED kvVars
    /\ UNCHANGED <<runVars, clocks, faults>>

Older(n, limit) == IF n < limit THEN n + 1 ELSE n

\* One tick of real time.  No worker outlives RenewEvery + Slack ticks
\* without a renewal: Slack >= TTL puts no bound on scheduling and network.
Tick ==
    /\ \A o \in Owners : Active(o) /\ Slack < TTL => since[o] < RenewEvery + Slack
    /\ kvAge' = IF kvOwner = None THEN 0 ELSE Older(kvAge, TTL)
    /\ since' = [o \in Owners |-> IF Leading(o) THEN Older(since[o], TTL) ELSE since[o]]
    /\ timer' = [o \in Owners |-> IF Leading(o) THEN Older(timer[o], RenewEvery) ELSE timer[o]]
    /\ UNCHANGED <<kvOwner, kvRev, net, runVars, faults>>

-----------------------------------------------------------------------------
(* Steps of one owner's Run.                                               *)

Goto(o, l) == pc' = [pc EXCEPT ![o] = l]

\* Each read of the record is followed by one write at the revision it saw.
ReadRevision(o)   == rev' = [rev EXCEPT ![o] = kvRev]
ForgetRevision(o) == rev' = [rev EXCEPT ![o] = None]

\* runAsLeader starts: the work goroutine and the renewal ticker.
Lead(o) ==
    /\ Goto(o, "lead")
    /\ work' = [work EXCEPT ![o] = "running"]
    /\ since' = [since EXCEPT ![o] = 0]
    /\ timer' = [timer EXCEPT ![o] = 0]

\* runAsLeader cancels the context of the work function and waits for it.
Cancel(o, l) ==
    /\ Goto(o, l)
    /\ work' = [work EXCEPT ![o] = IF @ = "running" THEN "cancelled" ELSE @]

\* runAsLeader's frame is gone: no work, no ticker.
LeaveLeader(o) ==
    /\ work' = [work EXCEPT ![o] = "idle"]
    /\ since' = [since EXCEPT ![o] = 0]
    /\ timer' = [timer EXCEPT ![o] = 0]

\* The head of Run's loop: the context check, then TryAcquire's kv.Create.
TryCreate(o) ==
    /\ pc[o] = "try" /\ ~stop[o]
    /\ IF kvOwner = None
       THEN Store(o) /\ Lead(o)
       ELSE Goto(o, "get") /\ UNCHANGED <<kvVars, work, clocks>>
    /\ UNCHANGED <<net, rev, after, stop, faults>>

\* Run returns when its context is done: at the loop head or in sleepContext.
RunReturnsStopped(o) ==
    /\ pc[o] \in {"try", "sleep"} /\ stop[o]
    /\ Goto(o, "done")
    /\ UNCHANGED <<kvVars, net, rev, after, work, stop, clocks, faults>>

\* TryAcquire's kv.Get after ErrKeyExists.
TryGet(o) ==
    /\ pc[o] = "get"
    /\ IF kvOwner = o
       THEN Goto(o, "reacquire") /\ ReadRevision(o)
       ELSE Goto(o, "sleep") /\ UNCHANGED rev
    /\ UNCHANGED <<kvVars, net, after, work, stop, clocks, faults>>

\* TryAcquire's renewAtRevision of a record this owner already has.
TryReacquire(o) ==
    /\ pc[o] = "reacquire"
    /\ IF AtRevision(rev[o])
       THEN Store(o) /\ Lead(o)
       ELSE Goto(o, "sleep") /\ UNCHANGED <<kvVars, work, clocks>>
    /\ ForgetRevision(o)
    /\ UNCHANGED <<net, after, stop, faults>>

\* sleepContext(retryEvery) is over.
Wake(o) ==
    /\ pc[o] = "sleep" /\ ~stop[o]
    /\ Goto(o, "try")
    /\ UNCHANGED <<kvVars, net, rev, after, work, stop, clocks, faults>>

\* The ticker of runAsLeader fires.
TickerFires(o) ==
    /\ pc[o] = "lead" /\ timer[o] = RenewEvery
    /\ Goto(o, "renewGet")
    /\ timer' = [timer EXCEPT ![o] = 0]
    /\ UNCHANGED <<kvVars, net, rev, after, work, stop, since, faults>>

\* Variant for the checks: a lost lease does not cancel the work.
\* Renew's currentOwnedEntry.
RenewGet(o) ==
    /\ pc[o] = "renewGet"
    /\ IF kvOwner = o
       THEN Goto(o, "renewPub") /\ ReadRevision(o) /\ UNCHANGED work
       ELSE Cancel(o, "cancelLost") /\ UNCHANGED rev
    /\ UNCHANGED <<kvVars, net, after, stop, clocks, faults>>

\* Variant for the checks: the renewal is stored whatever the key holds.
RenewPublishAny(o) ==
    /\ pc[o] = "renewPub"
    /\ Store(o) /\ Goto(o, "lead")
    /\ since' = [since EXCEPT ![o] = 0]
    /\ ForgetRevision(o)
    /\ UNCHANGED <<net, after, work, stop, timer, faults>>

\* Renew's renewAtRevision.
RenewPublish(o) ==
    /\ pc[o] = "renewPub"
    /\ IF AtRevision(rev[o])
       THEN /\ Store(o) /\ Goto(o, "lead")
            /\ since' = [since EXCEPT ![o] = 0]
            /\ UNCHANGED work
       ELSE Cancel(o, "cancelLost") /\ UNCHANGED <<kvVars, since>>
    /\ ForgetRevision(o)
    /\ UNCHANGED <<net, after, stop, timer, faults>>

\* The work function returns, by itself or because it was cancelled.
WorkReturns(o) ==
    /\ Active(o)
    /\ work' = [work EXCEPT ![o] = "returned"]
    /\ UNCHANGED <<kvVars, net, pc, rev, after, stop, clocks, faults>>

\* runAsLeader receives the result: ErrYield keeps Run going after the
\* release, anything else ends it.
LeadWorkDone(o) ==
    /\ pc[o] = "lead" /\ work[o] = "returned"
    /\ Goto(o, "relGet") /\ LeaveLeader(o)
    /\ \E l \in {"sleep", "done"} : after' = [after EXCEPT ![o] = l]
    /\ UNCHANGED <<kvVars, net, rev, stop, faults>>

\* Variant for the checks: the release does not wait for the work to return.
LeadStoppedAtOnce(o) ==
    /\ pc[o] = "lead" /\ stop[o]
    /\ Cancel(o, "relGet")
    /\ after' = [after EXCEPT ![o] = "done"]
    /\ UNCHANGED <<kvVars, net, rev, stop, clocks, faults>>

\* runAsLeader sees that the parent context ended.
LeadStopped(o) ==
    /\ pc[o] = "lead" /\ stop[o]
    /\ Cancel(o, "cancelStop")
    /\ UNCHANGED <<kvVars, net, rev, after, stop, clocks, faults>>

\* Variant for the checks: Run loops on after its context has ended.
CancelledWorkDoneLoops(o) ==
    /\ pc[o] \in {"cancelLost", "cancelStop"} /\ work[o] = "returned"
    /\ LeaveLeader(o)
    /\ IF pc[o] = "cancelLost"
       THEN Goto(o, "try") /\ UNCHANGED after
       ELSE Goto(o, "relGet") /\ after' = [after EXCEPT ![o] = "try"]
    /\ UNCHANGED <<kvVars, net, rev, stop, faults>>

\* The cancelled work has returned.  A lost lease is not released: Run goes
\* straight back to TryAcquire.
CancelledWorkDone(o) ==
    /\ pc[o] \in {"cancelLost", "cancelStop"} /\ work[o] = "returned"
    /\ LeaveLeader(o)
    /\ IF pc[o] = "cancelLost"
       THEN Goto(o, "try") /\ UNCHANGED after
       ELSE Goto(o, "relGet") /\ after' = [after EXCEPT ![o] = "done"]
    /\ UNCHANGED <<kvVars, net, rev, stop, faults>>

\* releaseBestEffort returns: Run sleeps after ErrYield and ends otherwise.
ReleaseOver(o) ==
    /\ Goto(o, after[o])
    /\ after' = [after EXCEPT ![o] = "sleep"]

\* Release's currentOwnedEntry.
ReleaseGet(o) ==
    /\ pc[o] = "relGet"
    /\ IF kvOwner = o
       THEN Goto(o, "relDel") /\ ReadRevision(o) /\ UNCHANGED after
       ELSE ReleaseOver(o) /\ UNCHANGED rev
    /\ UNCHANGED <<kvVars, net, work, stop, clocks, faults>>

\* Variant for the checks: the delete is not conditional on the revision.
ReleaseDeleteAny(o) ==
    /\ pc[o] = "relDel"
    /\ IF kvOwner # None THEN Remove ELSE UNCHANGED kvVars
    /\ ReleaseOver(o) /\ ForgetRevision(o)
    /\ UNCHANGED <<net, work, stop, clocks, faults>>

\* Release's kv.Delete at the revision just read; a mismatch is a no-op.
ReleaseDelete(o) ==
    /\ pc[o] = "relDel"
    /\ IF AtRevision(rev[o]) THEN Remove ELSE UNCHANGED kvVars
    /\ ReleaseOver(o) /\ ForgetRevision(o)
    /\ UNCHANGED <<net, work, stop, clocks, faults>>

-----------------------------------------------------------------------------
(* Failures.                                                               *)

\* The write a step is about to send, if it is a write.
Writes(o) ==
    CASE pc[o] = "try"                       -> {[op |-> "create", owner |-> o, rev |-> None]}
      [] pc[o] \in {"reacquire", "renewPub"} -> {[op |-> "renew", owner |-> o, rev |-> rev[o]]}
      [] pc[o] = "relDel"                    -> {[op |-> "delete", owner |-> o, rev |-> rev[o]]}
      [] OTHER                               -> {}

\* A call returns an error (timeout, lost connection, cancelled context).  A
\* write may have been lost or may still be stored later.  TryAcquire's error
\* makes Run sleep, Renew's makes it give the lease up, Release's is logged.
CallFails(o) ==
    /\ pc[o] \in {"try", "get", "reacquire", "renewGet", "renewPub", "relGet", "relDel"}
    /\ pc[o] = "try" => ~stop[o]
    /\ \/ faults < MaxFaults /\ faults' = faults + 1
       \/ stop[o] /\ pc[o] \notin {"relGet", "relDel"} /\ UNCHANGED faults
    /\ \E sent \in SUBSET Writes(o) : net' = net \cup sent
    /\ \/ /\ pc[o] \in {"try", "get", "reacquire"}
          /\ Goto(o, "sleep") /\ UNCHANGED <<work, after>>
       \/ /\ pc[o] \in {"renewGet", "renewPub"}
          /\ Cancel(o, "cancelLost") /\ UNCHANGED after
       \/ /\ pc[o] \in {"relGet", "relDel"}
          /\ ReleaseOver(o) /\ UNCHANGED work
    /\ ForgetRevision(o)
    /\ UNCHANGED <<kvVars, stop, clocks>>

\* The parent context of o is cancelled: the server is shutting down.
Shutdown(o) ==
    /\ ~stop[o] /\ ~Over(o)
    /\ stop' = [stop EXCEPT ![o] = TRUE]
    /\ UNCHANGED <<kvVars, net, pc, rev, after, work, clocks, faults>>

\* The process dies; its record stays behind.
Crash(o) ==
    /\ ~Over(o)
    /\ Goto(o, "dead")
    /\ LeaveLeader(o) /\ ForgetRevision(o)
    /\ after' = [after EXCEPT ![o] = "sleep"]
    /\ UNCHANGED <<kvVars, net, stop, faults>>

-----------------------------------------------------------------------------

\* Steps the scheduler and the server answer for.
RunStep(o) ==
    \/ TryCreate(o) \/ RunReturnsStopped(o) \/ TryGet(o) \/ TryReacquire(o)
    \/ Wake(o) \/ TickerFires(o) \/ RenewGet(o) \/ RenewPublish(o)
    \/ LeadWorkDone(o) \/ LeadStopped(o) \/ CancelledWorkDone(o)
    \/ ReleaseGet(o) \/ ReleaseDelete(o)

Next ==
    \/ Expire \/ Tick
    \/ \E m \in net : Deliver(m)
    \/ \E o \in Owners :
          \/ RunStep(o) \/ WorkReturns(o) \/ CallFails(o)
          \/ Shutdown(o) \/ Crash(o)

Spec == Init /\ [][Next]_vars

\* The scheduler runs every live process, the clock advances, the server
\* expires records, and a cancelled work function returns.  Work that nobody
\* cancels may run for ever.
Fairness ==
    /\ WF_vars(Expire) /\ WF_vars(Tick)
    /\ \A o \in Owners :
          WF_vars(RunStep(o)) /\ WF_vars(work[o] = "cancelled" /\ WorkReturns(o))

FairSpec == Spec /\ Fairness

-----------------------------------------------------------------------------
(* Properties.                                                             *)

\* runAsLeader, Renew and Release together: a process that executes the work
\* function and whose last renewal was stored less than TTL ticks ago is the
\* owner named in the KV record, whatever late writes and releases of other
\* owners, or of an earlier term of its own, are still under way.
FreshWorkerOwnsRecord ==
    \A o \in Owners : Active(o) /\ since[o] < TTL => kvOwner = o

\* renewEvery < ttl (lease.New) is what exclusion rests on: when renewals,
\* cancellation and the work's return all fit in the slack that is left, two
\* processes never execute the work function at the same time.
AtMostOneWorker ==
    \A o, p \in Owners : Active(o) /\ Active(p) => o = p

\* Release "only when this owner still owns the current KV revision": a record
\* disappears before its TTL only while the owner it names executes no work.
RecordOutlivesWork ==
    [][kvOwner # None /\ kvOwner' # kvOwner /\ kvAge < TTL
          => ~Active(kvOwner)]_vars

\* Run's retry loop: while some process stays up, keeps its context and runs
\* Run, somebody leads again and again: crashes, lost calls, late writes and
\* lost leases only delay the next leader.
LeadershipRecurs ==
    \A o \in Owners :
        <>[](~Over(o) /\ ~stop[o]) => []<>(\E p \in Owners : pc[p] = "lead")

=============================================================================
