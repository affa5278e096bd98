---------------------------- MODULE LeaseProofs ----------------------------
(***************************************************************************)
(* What the lease guarantees for every set of owners, every TTL, renewal   *)
(* period and number of failures.                                          *)
(*                                                                         *)
(* The inductive invariant says who may still touch the live record: a     *)
(* revision an owner holds, or a late write carries, names the live record *)
(* only if that record is that owner's, and a late delete names it only    *)
(* when its owner executes no work.                                        *)
(***************************************************************************)
EXTENDS Lease, TLAPS

\* work runs only inside runAsLeader.
WorkInsideLeader == \A o \in Owners : Active(o) => Leading(o)

\* A fresh worker owns a record at least as young as its last renewal.
FreshRecord ==
    \A o \in Owners : Active(o) /\ since[o] < TTL => kvOwner = o /\ kvAge <= since[o]

RevisionNamesOwnRecord ==
    \A o \in Owners : rev[o] # None /\ rev[o] = kvRev => kvOwner = o

LateWriteNamesOwnRecord ==
    \A m \in net : m.rev # None /\ m.rev = kvRev => kvOwner = m.owner

LateDeleteHasNoWorker ==
    \A m \in net : m.op = "delete" /\ m.rev # None /\ m.rev = kvRev => ~Active(m.owner)

NoRecordNoRevision == kvOwner = None <=> kvRev = None

WorkerInTime ==
    Slack < TTL => \A o \in Owners : Active(o) => since[o] <= RenewEvery + Slack

IInv ==
    /\ TypeOK
    /\ WorkInsideLeader
    /\ FreshRecord
    /\ RevisionNamesOwnRecord
    /\ LateWriteNamesOwnRecord
    /\ LateDeleteHasNoWorker
    /\ NoRecordNoRevision
    /\ WorkerInTime

USE LeaseAssumption

\* Every step keeps every variable in its type.
LEMMA TypeStep == TypeOK /\ [Next]_vars => TypeOK'
<1> SUFFICES ASSUME TypeOK, [Next]_vars PROVE TypeOK'
    OBVIOUS
<1> USE DEF TypeOK
<1>1. CASE Expire
      BY <1>1 DEF Expire, Remove, runVars, clocks
<1>2. CASE Tick
      BY <1>2 DEF Tick, Older, runVars
<1>3. ASSUME NEW m \in net, Deliver(m) PROVE TypeOK'
  <2>1. m.owner \in Owners
        BY DEF Request
  <2> QED
      BY <1>3, <2>1 DEF Deliver, Store, Remove, FreshRevs, kvVars, runVars, clocks
<1>4. ASSUME NEW o \in Owners, RunStep(o) PROVE TypeOK'
  <2> USE DEF Goto, PCs
  <2>1. CASE TryCreate(o)
        BY <2>1 DEF TryCreate, Store, FreshRevs, Lead, kvVars, clocks
  <2>2. CASE RunReturnsStopped(o)
        BY <2>2 DEF RunReturnsStopped, kvVars, clocks
  <2>3. CASE TryGet(o)
        BY <2>3 DEF TryGet, ReadRevision, kvVars, clocks
  <2>4. CASE TryReacquire(o)
        BY <2>4 DEF TryReacquire, ForgetRevision, Store, FreshRevs, Lead, kvVars, clocks
  <2>5. CASE Wake(o)
        BY <2>5 DEF Wake, kvVars, clocks
  <2>6. CASE TickerFires(o)
        BY <2>6 DEF TickerFires, kvVars
  <2>7. CASE RenewGet(o)
        BY <2>7 DEF RenewGet, ReadRevision, Cancel, kvVars, clocks
  <2>8. CASE RenewPublish(o)
        BY <2>8 DEF RenewPublish, ForgetRevision, Store, FreshRevs, Cancel, kvVars
  <2>9. CASE LeadWorkDone(o)
        BY <2>9 DEF LeadWorkDone, LeaveLeader, kvVars
  <2>10. CASE LeadStopped(o)
        BY <2>10 DEF LeadStopped, Cancel, kvVars, clocks
  <2>11. CASE CancelledWorkDone(o)
        BY <2>11 DEF CancelledWorkDone, LeaveLeader, kvVars
  <2>12. CASE ReleaseGet(o)
        BY <2>12 DEF ReleaseGet, ReadRevision, ReleaseOver, kvVars, clocks
  <2>13. CASE ReleaseDelete(o)
        BY <2>13 DEF ReleaseDelete, ReleaseOver, ForgetRevision, Remove, kvVars, clocks
  <2> QED
      BY <1>4, <2>1, <2>2, <2>3, <2>4, <2>5, <2>6, <2>7, <2>8, <2>9, <2>10, <2>11, <2>12, <2>13
      DEF RunStep
<1>5. ASSUME NEW o \in Owners, WorkReturns(o) PROVE TypeOK'
      BY <1>5 DEF WorkReturns, kvVars, clocks
<1>6. ASSUME NEW o \in Owners, CallFails(o) PROVE TypeOK'
  <2>1. net' \subseteq Request
        BY <1>6 DEF CallFails, Writes, Request
  <2> QED
      BY <1>6, <2>1 DEF CallFails, Goto, Cancel, ReleaseOver, ForgetRevision, PCs, kvVars, clocks
<1>7. ASSUME NEW o \in Owners, Shutdown(o) PROVE TypeOK'
      BY <1>7 DEF Shutdown, kvVars, clocks
<1>8. ASSUME NEW o \in Owners, Crash(o) PROVE TypeOK'
      BY <1>8 DEF Crash, Goto, LeaveLeader, ForgetRevision, PCs, kvVars
<1>9. CASE UNCHANGED vars
      BY <1>9 DEF vars, kvVars, runVars, clocks
<1> QED
    BY <1>1, <1>2, <1>3, <1>4, <1>5, <1>6, <1>7, <1>8, <1>9 DEF Next

\* Type correctness of the lease protocol: kv record, late writes and the
\* local state of every Run keep their shape whatever fails.
THEOREM TypeCorrect == Spec => []TypeOK
<1>1. Init => TypeOK
      BY DEF Init, TypeOK, PCs
<1> QED
    BY <1>1, TypeStep, PTL DEF Spec

-----------------------------------------------------------------------------

\* A stored write takes a revision that nobody refers to.
LEMMA StoreIsFresh ==
    ASSUME NEW o \in Owners, Store(o)
    PROVE  /\ \A p \in Owners : rev[p] # kvRev'
           /\ \A m \in net : m.rev # kvRev'
           /\ kvRev' \in Revs
BY DEF Store, FreshRevs, UsedRevs

LEMMA InitIInv == Init => IInv
BY DEF Init, IInv, TypeOK, PCs, WorkInsideLeader, FreshRecord, RevisionNamesOwnRecord,
       LateWriteNamesOwnRecord, LateDeleteHasNoWorker, NoRecordNoRevision, WorkerInTime, Active

\* The invariant is preserved; each conjunct that a step can disturb is argued
\* from the revision the step presents to the server.
LEMMA IInvStep == IInv /\ [Next]_vars => IInv'
<1> SUFFICES ASSUME IInv, [Next]_vars PROVE IInv'
    OBVIOUS
<1> USE DEF IInv
<1>t. TypeOK'
      BY TypeStep
<1> DEFINE Rest == /\ WorkInsideLeader /\ FreshRecord /\ RevisionNamesOwnRecord
                   /\ LateWriteNamesOwnRecord /\ LateDeleteHasNoWorker
                   /\ NoRecordNoRevision /\ WorkerInTime
<1> SUFFICES Rest'
    BY <1>t
<1> USE <1>t DEF TypeOK, WorkInsideLeader, FreshRecord, RevisionNamesOwnRecord,
        LateWriteNamesOwnRecord, LateDeleteHasNoWorker, NoRecordNoRevision, WorkerInTime,
        Active, Leading
<1>1. CASE Expire
      BY <1>1 DEF Expire, Remove, runVars, clocks
<1>2. CASE Tick
      BY <1>2 DEF Tick, Older, runVars
<1>3. ASSUME NEW m \in net, Deliver(m) PROVE Rest'
  <2>1. m.owner \in Owners /\ UNCHANGED <<pc, rev, work, since>> /\ net' = net \ {m}
        BY <1>3 DEF Deliver, Request, runVars, clocks
  <2>2. CASE ~Accepts(m)
        BY <1>3, <2>1, <2>2 DEF Deliver, kvVars
  <2>3. CASE Accepts(m) /\ m.op = "delete"
        BY <1>3, <2>1, <2>3 DEF Deliver, Accepts, AtRevision, Remove
  <2>4. CASE Accepts(m) /\ m.op # "delete"
    <3>1. Store(m.owner)
          BY <1>3, <2>4 DEF Deliver
    <3> QED
        BY <2>1, <2>4, <3>1, StoreIsFresh DEF Accepts, AtRevision, Store
  <2> QED
      BY <2>2, <2>3, <2>4
<1>4. ASSUME NEW o \in Owners, RunStep(o) PROVE Rest'
  <2> USE DEF Goto
  <2>1. CASE TryCreate(o)
        BY <2>1, StoreIsFresh DEF TryCreate, Store, Lead, kvVars, clocks
  <2>2. CASE RunReturnsStopped(o)
        BY <2>2 DEF RunReturnsStopped, kvVars, clocks
  <2>3. CASE TryGet(o)
        BY <2>3 DEF TryGet, ReadRevision, kvVars, clocks
  <2>4. CASE TryReacquire(o)
        BY <2>4, StoreIsFresh DEF TryReacquire, AtRevision, ForgetRevision, Store, Lead, kvVars, clocks
  <2>5. CASE Wake(o)
        BY <2>5 DEF Wake, kvVars, clocks
  <2>6. CASE TickerFires(o)
        BY <2>6 DEF TickerFires, kvVars
  <2>7. CASE RenewGet(o)
        BY <2>7 DEF RenewGet, ReadRevision, Cancel, kvVars, clocks
  <2>8. CASE RenewPublish(o)
        BY <2>8, StoreIsFresh DEF RenewPublish, AtRevision, ForgetRevision, Store, Cancel, kvVars
  <2>9. CASE LeadWorkDone(o)
        BY <2>9 DEF LeadWorkDone, LeaveLeader, kvVars
  <2>10. CASE LeadStopped(o)
        BY <2>10 DEF LeadStopped, Cancel, kvVars, clocks
  <2>11. CASE CancelledWorkDone(o)
        BY <2>11 DEF CancelledWorkDone, LeaveLeader, kvVars
  <2>12. CASE ReleaseGet(o)
        BY <2>12 DEF ReleaseGet, ReadRevision, ReleaseOver, kvVars, clocks
  <2>13. CASE ReleaseDelete(o)
        BY <2>13 DEF ReleaseDelete, AtRevision, ReleaseOver, ForgetRevision, Remove, kvVars, clocks
  <2> QED
      BY <1>4, <2>1, <2>2, <2>3, <2>4, <2>5, <2>6, <2>7, <2>8, <2>9, <2>10, <2>11, <2>12, <2>13
      DEF RunStep
<1>5. ASSUME NEW o \in Owners, WorkReturns(o) PROVE Rest'
      BY <1>5 DEF WorkReturns, kvVars, clocks
<1>6. ASSUME NEW o \in Owners, CallFails(o) PROVE Rest'
  <2>1. PICK sent \in SUBSET Writes(o) : net' = net \cup sent
        BY <1>6 DEF CallFails
  <2>2. \A m \in Writes(o) : /\ m.owner = o
                             /\ m.rev # None => m.rev = rev[o]
                             /\ m.op = "delete" => pc[o] = "relDel"
        BY DEF Writes
  <2> QED
      BY <1>6, <2>1, <2>2 DEF CallFails, Goto, Cancel, ReleaseOver, ForgetRevision, kvVars, clocks
<1>7. ASSUME NEW o \in Owners, Shutdown(o) PROVE Rest'
      BY <1>7 DEF Shutdown, kvVars, clocks
<1>8. ASSUME NEW o \in Owners, Crash(o) PROVE Rest'
      BY <1>8 DEF Crash, Goto, LeaveLeader, ForgetRevision, kvVars
<1>9. CASE UNCHANGED vars
      BY <1>9 DEF vars, kvVars, runVars, clocks
<1> QED
    BY <1>1, <1>2, <1>3, <1>4, <1>5, <1>6, <1>7, <1>8, <1>9 DEF Next

LEMMA IInvAlways == Spec => []IInv
BY InitIInv, IInvStep, PTL DEF Spec

-----------------------------------------------------------------------------

\* runAsLeader, Renew and Release: a process executing the work within TTL of
\* its last stored renewal is the owner the record names.
THEOREM FreshWorkers == Spec => []FreshWorkerOwnsRecord
<1>1. IInv => FreshWorkerOwnsRecord
      BY DEF IInv, FreshRecord, FreshWorkerOwnsRecord
<1> QED
    BY <1>1, IInvAlways, PTL

\* Exclusion: if renewal, cancellation and the work's return fit between the
\* renewal period and the TTL, no two processes execute the work at once.
THEOREM Exclusion ==
    ASSUME RenewEvery + Slack < TTL
    PROVE  Spec => []AtMostOneWorker
<1>1. IInv => AtMostOneWorker
      BY DEF IInv, TypeOK, WorkerInTime, FreshRecord, AtMostOneWorker
<1> QED
    BY <1>1, IInvAlways, PTL

\* Release and the late writes of CallFails never take a live record from a
\* process that is executing the work.
THEOREM RecordsOutliveWork == Spec => RecordOutlivesWork
<1> DEFINE Keeps == kvOwner # None /\ kvOwner' # kvOwner /\ kvAge < TTL => ~Active(kvOwner)
<1>1. IInv /\ [Next]_vars => [Keeps]_vars
  <2> SUFFICES ASSUME IInv, Next, kvOwner # None, kvOwner' # kvOwner, kvAge < TTL
               PROVE  ~Active(kvOwner)
      BY DEF vars
  <2> USE DEF IInv
  <2>1. \A o \in Owners : pc[o] = "relDel" => ~Active(o)
        BY DEF WorkInsideLeader, Leading
  <2>2. ASSUME NEW m \in net, Deliver(m) PROVE ~Active(kvOwner)
    <3>1. Accepts(m) /\ m.op = "delete"
          BY <2>2 DEF Deliver, kvVars, Accepts, AtRevision, Store, LateWriteNamesOwnRecord, NoRecordNoRevision
    <3> QED
        BY <2>2, <3>1 DEF Accepts, AtRevision, LateWriteNamesOwnRecord, LateDeleteHasNoWorker, NoRecordNoRevision
  <2>3. ASSUME NEW o \in Owners, RunStep(o) PROVE ~Active(kvOwner)
    <3>1. pc[o] = "relDel" /\ AtRevision(rev[o])
          BY <2>3 DEF RunStep, TryCreate, RunReturnsStopped, TryGet, TryReacquire, Wake,
             TickerFires, RenewGet, RenewPublish, LeadWorkDone, LeadStopped, CancelledWorkDone,
             ReleaseGet, ReleaseDelete, Store, AtRevision, kvVars, RevisionNamesOwnRecord, NoRecordNoRevision
    <3> QED
        BY <2>1, <3>1 DEF AtRevision, RevisionNamesOwnRecord, NoRecordNoRevision
  <2> QED
      BY <2>2, <2>3, LeaseAssumption DEF Next, Expire, Tick, WorkReturns, CallFails, Shutdown, Crash, kvVars
<1> QED
    BY <1>1, IInvAlways, PTL DEF Spec, RecordOutlivesWork

=============================================================================
