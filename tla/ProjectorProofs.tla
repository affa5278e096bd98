-------------------------- MODULE ProjectorProofs --------------------------
(***************************************************************************)
(* Read-your-writes, no lost wake-up and a single, complete startup replay *)
(* for any number of subjects, projectors, clients and messages.           *)
(*                                                                         *)
(* The heart of the invariant is Handled: a consumed message the handler   *)
(* is through with was applied, or the projector failed no later than it.  *)
(***************************************************************************)
EXTENDS Projector, TLAPS

\* The handler works for p on the message at cursor.
InHand ==
    \A p \in Projectors : phase[p] # "idle" =>
        cursor \in Seqs /\ Consumed(p, cursor) /\ run \in {"consume", "select", "stopped"}

Handled ==
    \A p \in Projectors : \A n \in Live :
        n <= cursor /\ Consumed(p, n) /\ ~(n = cursor /\ phase[p] = "apply") =>
            n \in applied[p] \/ FailedAt(p, n)

\* lastSeq stays behind the message in hand, failures at or behind it.
Behind ==
    \A p \in Projectors :
        /\ lastSeq[p] <= cursor
        /\ Failed(p) => failedSeq[p] <= cursor
        /\ phase[p] = "apply" => lastSeq[p] < cursor /\ (Failed(p) => failedSeq[p] < cursor)

\* A client in a call names a projector; a woken one was reached or saw a failure.
CallNames == \A c \in Clients : call[c] # "idle" => callProj[c] \in Projectors

WokenForAReason ==
    \A c \in Clients : call[c] = "woken" => CallReached(c) \/ Failed(callProj[c])

\* Consuming starts after the targets are captured; failures end the startup.
StartOrder ==
    \A p \in Projectors :
        /\ run # "new" => started[p]
        /\ run \in {"consume", "select", "stopped"} => target[p] # None
        /\ Failed(p) => ended[p]
        /\ completed[p] => ended[p] /\ target[p] # None

USE ProjectorAssumption

LEMMA TypeStep == TypeOK /\ InHand /\ CallNames /\ [Next]_vars => TypeOK'
<1> SUFFICES ASSUME TypeOK, InHand, CallNames, [Next]_vars PROVE TypeOK'
    OBVIOUS
<1> USE DEF TypeOK, Seqs
<1>1. ASSUME NEW s \in Subjects, Publish(s) PROVE TypeOK'
      BY <1>1 DEF Publish, handler, starter, fields, waits
<1>2. ASSUME NEW n \in Live, SecureDelete(n) PROVE TypeOK'
      BY <1>2 DEF SecureDelete, Live, handler, starter, fields, waits
<1>3. CASE HandlerStep
  <2>1. CASE TakeMessage
        BY <2>1 DEF TakeMessage, stream, starter, fields, waits
  <2>2. ASSUME NEW p \in Projectors, ApplySucceeds(p) PROVE TypeOK'
        BY <2>2 DEF ApplySucceeds, InHand, stream, starter, fields, waits
  <2>3. ASSUME NEW p \in Projectors, ApplyFails(p) PROVE TypeOK'
        BY <2>3 DEF Wake, CallStates, ApplyFails, Fail, stream, starter
  <2>4. ASSUME NEW p \in Projectors, AdvanceStep(p) PROVE TypeOK'
        BY <2>4 DEF Wake, CallStates, AdvanceStep, Advance, Later, stream, starter
  <2>5. ASSUME NEW p \in Projectors, CompleteStep(p) PROVE TypeOK'
        BY <2>5 DEF CompleteStep, MaybeCompleteStartup, stream, starter, waits
  <2>6. CASE DecodeFails
        BY <2>6 DEF Wake, CallStates, DecodeFails, Fail, stream, starter
  <2>7. CASE MetadataFails
        BY <2>7 DEF Wake, CallStates, MetadataFails, Fail, stream, starter
  <2> QED
      BY <1>3, <2>1, <2>2, <2>3, <2>4, <2>5, <2>6, <2>7 DEF HandlerStep
<1>4. CASE StartStep
  <2>1. CASE MarkStarted
        BY <2>1 DEF MarkStarted, stream, handler, waits
  <2>2. ASSUME NEW p \in Projectors, ReadTarget(p) PROVE TypeOK'
        BY <2>2 DEF ReadTarget, stream, handler, starter, waits
  <2>3. CASE StartConsume
        BY <2>3 DEF StartConsume, stream, handler, fields, waits
  <2>4. ASSUME NEW p \in Projectors, CompleteOnStart(p) PROVE TypeOK'
        BY <2>4 DEF CompleteOnStart, MaybeCompleteStartup, stream, handler, waits
  <2>5. CASE EnterSelect
        BY <2>5 DEF EnterSelect, stream, handler, fields, waits
  <2> QED
      BY <1>4, <2>1, <2>2, <2>3, <2>4, <2>5 DEF StartStep
<1>5. CASE StopConsume
      BY <1>5 DEF StopConsume, stream, handler, fields, waits
<1>6. ASSUME NEW c \in Clients, ClientStep(c) \/ ContextDone(c) PROVE TypeOK'
      BY <1>6 DEF ClientStep, WaitForSeq, Woken, ContextDone, Return, CallStates,
                  stream, handler, starter, fields, waits
<1>7. ASSUME NEW c \in Clients, NEW p \in Projectors, NEW t \in 0..Len(log), WaitForCurrent(c, p, t)
      PROVE  TypeOK'
      BY <1>7 DEF WaitForCurrent, CallStates, stream, handler, starter, fields, waits
<1>8. ASSUME NEW c \in Clients, NEW p \in Projectors, NEW n \in Seqs, WaitFor(c, p, n) PROVE TypeOK'
      BY <1>8 DEF WaitFor, CallStates, stream, handler, starter, fields, waits
<1>9. CASE UNCHANGED vars
      BY <1>9 DEF vars, stream, handler, starter, fields, waits
<1> QED
    BY <1>1, <1>2, <1>3, <1>4, <1>5, <1>6, <1>7, <1>8, <1>9 DEF Next

-----------------------------------------------------------------------------
(* The message handler and the starter: no client takes part in these.     *)

Core == TypeOK /\ InHand /\ Handled /\ Behind /\ StartOrder

\* The steps of the clients leave the projectors alone.
ClientSteps ==
    \E c \in Clients :
        \/ ClientStep(c) \/ ContextDone(c)
        \/ \E p \in Projectors :
              \/ \E t \in 0..Len(log) : WaitForCurrent(c, p, t)
              \/ \E n \in Seqs : WaitFor(c, p, n)

LEMMA ClientsOnlyWait == ClientSteps => UNCHANGED <<stream, handler, starter, applied, fields>>
BY DEF ClientSteps, ClientStep, ContextDone, WaitForCurrent, WaitFor, WaitForSeq, Woken, Return

LEMMA CoreStep == Core /\ CallNames /\ [Next]_vars => Core'
<1> SUFFICES ASSUME Core, CallNames, [Next]_vars PROVE Core'
    OBVIOUS
<1>t. TypeOK /\ TypeOK'
      BY TypeStep DEF Core
<1> DEFINE Rest == InHand /\ Handled /\ Behind /\ StartOrder
<1> SUFFICES Rest'
    BY <1>t DEF Core
<1> USE <1>t DEF Core, InHand, Handled, Behind, StartOrder, Seqs, Live, Consumed, Failed, FailedAt
<1>1. ASSUME NEW s \in Subjects, Publish(s) PROVE Rest'
  <2>1. /\ Len(log') = Len(log) + 1 /\ Len(log) \in Nat
        /\ \A n \in 1..Len(log) : log'[n] = log[n]
        BY <1>1 DEF Publish, TypeOK
  <2>2. UNCHANGED <<gone, handler, starter, applied, fields>> /\ cursor \in 0..Len(log)
        BY <1>1 DEF Publish, TypeOK
  <2> QED
      BY <2>1, <2>2 DEF handler, starter, fields
<1>2. ASSUME NEW n \in Live, SecureDelete(n) PROVE Rest'
      BY <1>2 DEF SecureDelete, handler, starter, fields
<1>3. CASE TakeMessage
      BY <1>3 DEF TypeOK, TakeMessage, Consuming, Idle, stream, starter, fields
<1>4. ASSUME NEW p \in Projectors, ApplySucceeds(p) PROVE Rest'
      BY <1>4 DEF TypeOK, ApplySucceeds, stream, starter, fields
<1>5. ASSUME NEW p \in Projectors, ApplyFails(p) PROVE Rest'
      BY <1>5 DEF TypeOK, ApplyFails, Fail, stream, starter
<1>6. ASSUME NEW p \in Projectors, AdvanceStep(p) PROVE Rest'
      BY <1>6 DEF TypeOK, AdvanceStep, Advance, Later, stream, starter
<1>7. ASSUME NEW p \in Projectors, CompleteStep(p) PROVE Rest'
      BY <1>7 DEF TypeOK, CompleteStep, MaybeCompleteStartup, stream, starter
<1>8. CASE DecodeFails
      BY <1>8 DEF TypeOK, DecodeFails, Fail, stream, starter
<1>9. CASE MetadataFails
      BY <1>9 DEF TypeOK, MetadataFails, Consuming, Idle, Fail, stream, starter
<1>10. CASE MarkStarted
      BY <1>10 DEF TypeOK, MarkStarted, stream, handler
<1>11. ASSUME NEW p \in Projectors, ReadTarget(p) PROVE Rest'
  <2>1. PICK t \in 0..Len(log) : target' = [target EXCEPT ![p] = t]
        BY <1>11 DEF ReadTarget
  <2>2. t # None /\ target \in [Projectors -> 0..Len(log) \cup {None}]
        BY <2>1 DEF TypeOK
  <2> QED
      BY <1>11, <2>1, <2>2 DEF ReadTarget, stream, handler, starter
<1>12. CASE StartConsume
      BY <1>12 DEF TypeOK, StartConsume, stream, handler, fields
<1>13. ASSUME NEW p \in Projectors, CompleteOnStart(p) PROVE Rest'
  <2>1. /\ UNCHANGED <<log, gone, cursor, phase, run, applied, lastSeq, failedSeq, started, target>>
        /\ run = "consume"
        BY <1>13 DEF CompleteOnStart, stream, handler
  <2>2. ASSUME NEW q \in Projectors
        PROVE  /\ ended[q] => ended'[q]
               /\ completed'[q] => completed[q] \/ (q = p /\ ended'[q])
        BY <1>13 DEF CompleteOnStart, MaybeCompleteStartup, TypeOK
  <2> QED
      BY <2>1, <2>2
<1>14. CASE EnterSelect
      BY <1>14 DEF EnterSelect, stream, handler, fields
<1>15. CASE StopConsume
      BY <1>15 DEF StopConsume, stream, handler, fields
<1>16. CASE ClientSteps
      BY <1>16, ClientsOnlyWait DEF stream, handler, starter, fields
<1>17. CASE UNCHANGED vars
      BY <1>17 DEF vars, stream, handler, starter, fields
<1> QED
    BY <1>1, <1>2, <1>3, <1>4, <1>5, <1>6, <1>7, <1>8, <1>9, <1>10, <1>11, <1>12, <1>13, <1>14,
       <1>15, <1>16, <1>17 DEF Next, HandlerStep, StartStep, ClientSteps

-----------------------------------------------------------------------------
(* Clients.                                                                *)

Waits == CallNames /\ WokenForAReason /\ NoStrandedWaiter /\ ReadYourWrites

\* The order of waitForSeq's tests: a projector that reached n, or failed only
\* later, has applied every consumed event up to n.
LEMMA ReachedMeansApplied ==
    ASSUME Core, NEW p \in Projectors, NEW n \in Nat, ~FailedAt(p, n),
           lastSeq[p] >= n \/ Failed(p),
           NEW m \in Live, m <= n, Consumed(p, m)
    PROVE  m \in applied[p]
<1>1. m <= cursor /\ ~(m = cursor /\ phase[p] = "apply")
      BY DEF Core, TypeOK, Seqs, Live, Behind, FailedAt, Failed
<1>2. ~FailedAt(p, m)
      BY DEF Core, TypeOK, Seqs, Live, FailedAt, Failed
<1> QED
    BY <1>1, <1>2 DEF Core, Handled

\* Steps that neither touch a projector's progress nor a call.
LEMMA WaitsQuiet ==
    ASSUME TypeOK, Waits, UNCHANGED <<lastSeq, failedSeq, call, callProj, callSeq>>,
           Live' \subseteq Live, \A n \in Live' : log'[n] = log[n],
           \A p \in Projectors : applied[p] \subseteq applied'[p]
    PROVE  Waits'
BY DEF Waits, CallNames, WokenForAReason, NoStrandedWaiter, ReadYourWrites, CallReached, CallFailed,
       FailedAt, Failed, Consumed, TypeOK

LEMMA WaitsStep == Core /\ Waits /\ [Next]_vars => Waits'
<1> SUFFICES ASSUME Core, Waits, [Next]_vars PROVE Waits'
    OBVIOUS
<1>t. TypeOK
      BY DEF Core
<1> USE <1>t
<1>1. ASSUME NEW s \in Subjects, Publish(s) PROVE Waits'
  <2>1. /\ UNCHANGED <<lastSeq, failedSeq, call, callProj, callSeq, applied>>
        /\ \A n \in Live' : n \notin Live => n = Len(log) + 1
        /\ \A n \in Live : log'[n] = log[n]
        BY <1>1 DEF Publish, TypeOK, Live, Seqs, fields, waits
  <2>2. CallNames' /\ WokenForAReason' /\ NoStrandedWaiter'
        BY <2>1 DEF Waits, CallNames, WokenForAReason, NoStrandedWaiter, CallReached, CallFailed,
           FailedAt, Failed
  <2>3. ASSUME NEW c \in Clients, call'[c] = "ok", NEW n \in Live', n <= callSeq'[c],
               Consumed(callProj[c], n)'
        PROVE  n \in applied'[callProj'[c]]
    <3>1. n \in Live
          BY <2>1, <2>3 DEF TypeOK
    <3> QED
        BY <2>1, <2>3, <3>1 DEF Waits, ReadYourWrites, Consumed
  <2> QED
      BY <2>1, <2>2, <2>3 DEF Waits, ReadYourWrites, Consumed
<1>2. ASSUME NEW n \in Live, SecureDelete(n) PROVE Waits'
  <2>1. /\ UNCHANGED <<log, lastSeq, failedSeq, call, callProj, callSeq, applied>>
        /\ Live' \subseteq Live
        BY <1>2 DEF SecureDelete, Live, Seqs, fields, waits
  <2> QED
      BY <2>1, WaitsQuiet
<1>3. CASE TakeMessage \/ StartStep \/ StopConsume
            \/ \E p \in Projectors : ApplySucceeds(p) \/ CompleteStep(p)
  <2>1. UNCHANGED <<log, gone, lastSeq, failedSeq, call, callProj, callSeq>>
        BY <1>3 DEF TakeMessage, StartStep, StopConsume, MarkStarted, ReadTarget, StartConsume,
           CompleteOnStart, EnterSelect, ApplySucceeds, CompleteStep, stream, fields, waits
  <2>2. \A p \in Projectors : applied[p] \subseteq applied'[p]
    <3>1. ASSUME NEW p \in Projectors, ApplySucceeds(p)
          PROVE  \A q \in Projectors : applied[q] \subseteq applied'[q]
          BY <3>1 DEF ApplySucceeds, TypeOK
    <3> QED
        BY <1>3, <3>1 DEF TakeMessage, StartStep, StopConsume, MarkStarted, ReadTarget, StartConsume,
           CompleteOnStart, EnterSelect, CompleteStep
  <2>3. Live' = Live
        BY <2>1 DEF Live, Seqs
  <2> QED
      BY <2>1, <2>2, <2>3, WaitsQuiet
<1>4. ASSUME NEW p \in Projectors, AdvanceStep(p) PROVE Waits'
  <2>1. /\ UNCHANGED <<log, gone, applied, failedSeq, callProj, callSeq>>
        /\ Advance(p, cursor)
        BY <1>4 DEF AdvanceStep, Advance, Wake, stream
  <2> QED
      BY <2>1 DEF TypeOK, Advance, Later, Wake, Waits, CallNames, WokenForAReason, NoStrandedWaiter,
         ReadYourWrites, CallReached, CallFailed, FailedAt, Failed, Consumed, Live, Seqs, CallStates
<1>5. ASSUME NEW P \in SUBSET Projectors, NEW n \in Nat, Fail(P, n),
             UNCHANGED <<log, gone, applied, lastSeq>>
      PROVE  Waits'
      BY <1>5 DEF TypeOK, Fail, Wake, Waits, CallNames, WokenForAReason, NoStrandedWaiter,
         ReadYourWrites, CallReached, CallFailed, FailedAt, Failed, Consumed, Live, Seqs, CallStates
<1>6. CASE DecodeFails \/ MetadataFails \/ \E p \in Projectors : ApplyFails(p)
  <2>1. cursor \in Nat
        BY DEF TypeOK
  <2>2. CASE DecodeFails
    <3> DEFINE P == {p \in Projectors : phase[p] = "apply"}
    <3>1. Fail(P, cursor) /\ UNCHANGED <<log, gone, applied, lastSeq>>
          BY <2>2 DEF DecodeFails, stream
    <3> HIDE DEF P
    <3>2. P \in SUBSET Projectors
          BY DEF P
    <3> QED
        BY <1>5, <2>1, <3>1, <3>2
  <2>3. CASE MetadataFails
        BY <1>5, <2>3 DEF MetadataFails, stream
  <2>4. ASSUME NEW p \in Projectors, ApplyFails(p) PROVE Waits'
        BY <1>5, <2>1, <2>4 DEF ApplyFails, stream
  <2> QED
      BY <1>6, <2>2, <2>3, <2>4
<1>7. ASSUME NEW c \in Clients, WaitForSeq(c) \/ Woken(c) \/ ContextDone(c) PROVE Waits'
  <2>1. UNCHANGED <<log, gone, applied, lastSeq, failedSeq, callProj, callSeq>>
        BY <1>7 DEF WaitForSeq, Woken, ContextDone, Return, stream, fields
  <2>2. callProj[c] \in Projectors /\ callSeq[c] \in Nat
        BY <1>7 DEF WaitForSeq, Woken, ContextDone, Waits, CallNames, TypeOK
  <2>3. CallNames' /\ WokenForAReason' /\ NoStrandedWaiter'
        BY <1>7, <2>1, <2>2 DEF WaitForSeq, Woken, ContextDone, Return, Waits, CallNames,
           WokenForAReason, NoStrandedWaiter, CallReached, CallFailed, FailedAt, Failed, TypeOK
  <2>4. call'[c] = "ok" => ~CallFailed(c) /\ (CallReached(c) \/ Failed(callProj[c]))
        BY <1>7 DEF WaitForSeq, Woken, ContextDone, Return, Waits, WokenForAReason, TypeOK
  <2>5. call'[c] = "ok" => \A m \in Live : m <= callSeq[c] /\ Consumed(callProj[c], m)
                                               => m \in applied[callProj[c]]
        BY <2>2, <2>4, ReachedMeansApplied DEF CallFailed, CallReached
  <2>6. \A d \in Clients \ {c} : call'[d] = call[d]
        BY <1>7 DEF WaitForSeq, Woken, ContextDone, Return, TypeOK
  <2>7. ReadYourWrites'
        BY <2>1, <2>5, <2>6 DEF ReadYourWrites, Waits, Consumed, Live, Seqs
  <2> QED
      BY <2>3, <2>7 DEF Waits
<1>8. ASSUME NEW c \in Clients, NEW p \in Projectors, NEW t \in 0..Len(log), WaitForCurrent(c, p, t)
      PROVE  Waits'
      BY <1>8 DEF WaitForCurrent, IsCurrentTarget, stream, fields, TypeOK, Waits, CallNames,
         WokenForAReason, NoStrandedWaiter, ReadYourWrites, CallReached, CallFailed, FailedAt, Failed,
         Consumed, Live, Seqs
<1>9. ASSUME NEW c \in Clients, NEW p \in Projectors, NEW n \in Seqs, WaitFor(c, p, n) PROVE Waits'
      BY <1>9 DEF WaitFor, stream, fields, TypeOK, Waits, CallNames, WokenForAReason,
         NoStrandedWaiter, ReadYourWrites, CallReached, CallFailed, FailedAt, Failed, Consumed, Live, Seqs
<1>10. CASE UNCHANGED vars
      BY <1>10, WaitsQuiet DEF vars, stream, handler, starter, fields, waits, Live, Seqs
<1> QED
    BY <1>1, <1>2, <1>3, <1>4, <1>6, <1>7, <1>8, <1>9, <1>10
    DEF Next, HandlerStep, ClientStep

-----------------------------------------------------------------------------
(* The startup replay, and the theorems.                                   *)

\* What the handler is through with stays applied up to the target.
LEMMA ReplayStep == Core /\ ReplayCompletesOnce /\ [Next]_vars => ReplayCompletesOnce'
<1> SUFFICES ASSUME Core, ReplayCompletesOnce, [Next]_vars PROVE ReplayCompletesOnce'
    OBVIOUS
<1> USE DEF ReplayCompletesOnce
<1>t. TypeOK
      BY DEF Core
<1>1. ASSUME NEW s \in Subjects, Publish(s) PROVE ReplayCompletesOnce'
  <2>1. /\ UNCHANGED <<target, completed, replayDone, applied>>
        /\ \A n \in Live' : n \notin Live => n = Len(log) + 1
        /\ \A n \in Live : log'[n] = log[n]
        BY <1>1, <1>t DEF Publish, TypeOK, Live, Seqs, fields
  <2>2. ASSUME NEW p \in Projectors, completed[p], NEW n \in Live', n <= target[p]
        PROVE  n \in Live
    <3>1. target[p] \in 0..Len(log)
          BY <2>2, <1>t DEF Core, StartOrder, TypeOK
    <3> QED
        BY <2>1, <2>2, <3>1, <1>t DEF TypeOK
  <2> QED
      BY <2>1, <2>2 DEF Consumed
<1>2. ASSUME UNCHANGED <<log, target, completed, replayDone>>, Live' \subseteq Live,
             \A p \in Projectors : applied[p] \subseteq applied'[p]
      PROVE  ReplayCompletesOnce'
      BY <1>2 DEF Consumed
<1>3. ASSUME NEW p \in Projectors, MaybeCompleteStartup(p), target[p] # None,
             UNCHANGED <<log, gone, target, applied>>
      PROVE  ReplayCompletesOnce'
  <2>1. CASE started[p] /\ ~ended[p] /\ lastSeq[p] >= TargetSeq(p)
    <3>1. ~Failed(p) /\ ~completed[p] /\ TargetSeq(p) = target[p] /\ target[p] \in Nat
          BY <1>3, <2>1, <1>t DEF Core, StartOrder, TargetSeq, TypeOK
    <3>2. \A n \in Live : n <= target[p] /\ Consumed(p, n) => n \in applied[p]
          BY <2>1, <3>1, ReachedMeansApplied DEF FailedAt
    <3> QED
        BY <1>3, <1>t, <2>1, <3>1, <3>2 DEF MaybeCompleteStartup, Live, Seqs, Consumed, TypeOK
  <2>2. CASE ~(started[p] /\ ~ended[p] /\ lastSeq[p] >= TargetSeq(p))
        BY <1>3, <1>t, <2>2 DEF MaybeCompleteStartup, Live, Seqs, Consumed, TypeOK
  <2> QED
      BY <2>1, <2>2
<1>4. ASSUME NEW p \in Projectors, ReadTarget(p) PROVE ReplayCompletesOnce'
  <2>1. ~completed[p]
        BY <1>4 DEF ReadTarget, Core, StartOrder
  <2>2. \A q \in Projectors \ {p} : target'[q] = target[q]
        BY <1>4, <1>t DEF ReadTarget, TypeOK
  <2> QED
      BY <1>4, <2>1, <2>2 DEF ReadTarget, stream, Live, Seqs, Consumed
<1>5. ASSUME NEW p \in Projectors, CompleteOnStart(p) \/ CompleteStep(p) PROVE ReplayCompletesOnce'
      BY <1>3, <1>5 DEF CompleteOnStart, CompleteStep, Core, StartOrder, InHand, stream
<1>6. ASSUME NEW n \in Live, SecureDelete(n) PROVE ReplayCompletesOnce'
      BY <1>2, <1>6 DEF SecureDelete, Live, Seqs, fields
<1>7. ASSUME NEW p \in Projectors, ApplySucceeds(p) PROVE ReplayCompletesOnce'
  <2>1. \A q \in Projectors : applied[q] \subseteq applied'[q]
        BY <1>7, <1>t DEF ApplySucceeds, TypeOK
  <2> QED
      BY <1>2, <1>7, <2>1 DEF ApplySucceeds, Live, Seqs, stream, fields
<1>8. ASSUME UNCHANGED <<log, gone, target, completed, replayDone, applied>>
      PROVE  ReplayCompletesOnce'
      BY <1>2, <1>8 DEF Live, Seqs
<1>9. CASE ClientSteps
      BY <1>8, <1>9, ClientsOnlyWait DEF stream, fields
<1>10. CASE \/ TakeMessage \/ DecodeFails \/ MetadataFails \/ MarkStarted \/ StartConsume
            \/ EnterSelect \/ StopConsume \/ UNCHANGED vars
            \/ \E p \in Projectors : ApplyFails(p) \/ AdvanceStep(p)
      BY <1>8, <1>10 DEF TakeMessage, DecodeFails, MetadataFails, MarkStarted, StartConsume, EnterSelect,
         StopConsume, ApplyFails, AdvanceStep, vars, stream, fields
<1> QED
    BY <1>1, <1>4, <1>5, <1>6, <1>7, <1>9, <1>10 DEF Next, HandlerStep, StartStep, ClientSteps

LEMMA InitIInv == Init => Core /\ Waits /\ ReplayCompletesOnce
<1> SUFFICES ASSUME Init PROVE Core /\ Waits /\ ReplayCompletesOnce
    OBVIOUS
<1>1. log \in Seq(Subjects)
      BY DEF Init
<1>2. Len(log) \in Nat
      BY <1>1
<1>3. TypeOK
  <2>1. /\ lastSeq \in [Projectors -> 0..Len(log)] /\ callSeq \in [Clients -> 0..Len(log)]
        /\ cursor \in 0..Len(log)
        BY <1>2 DEF Init
  <2>2. /\ applied \in [Projectors -> SUBSET Seqs] /\ gone \subseteq Seqs
        /\ target \in [Projectors -> 0..Len(log) \cup {None}]
        BY DEF Init
  <2> QED
      BY <1>1, <2>1, <2>2 DEF Init, TypeOK, CallStates
<1> QED
    BY <1>2, <1>3 DEF Init, Core, Waits, InHand, Handled, Behind, StartOrder, CallNames, WokenForAReason,
       NoStrandedWaiter, ReadYourWrites, ReplayCompletesOnce, Live, Seqs, Failed

LEMMA IInvAlways == Spec => [](Core /\ Waits /\ ReplayCompletesOnce)
<1>1. Core /\ Waits /\ ReplayCompletesOnce /\ [Next]_vars => (Core /\ Waits /\ ReplayCompletesOnce)'
      BY CoreStep, WaitsStep, ReplayStep DEF Waits
<1> QED
    BY <1>1, InitIInv, PTL DEF Spec

\* Type correctness of projectors, handler, starter and waiting calls.
THEOREM TypeCorrect == Spec => []TypeOK
<1>1. Core => TypeOK
      BY DEF Core
<1> QED
    BY <1>1, IInvAlways, PTL

\* WaitFor and WaitForCurrent give read-your-writes for every interleaving of
\* publishers, deletes, failures and wake-ups.
THEOREM WaitForIsReadYourWrites == Spec => []ReadYourWrites
<1>1. Waits => ReadYourWrites
      BY DEF Waits
<1> QED
    BY <1>1, IInvAlways, PTL

\* advance and fail never leave a waiter behind that they should have released.
THEOREM NoLostWakeUp == Spec => []NoStrandedWaiter
<1>1. Waits => NoStrandedWaiter
      BY DEF Waits
<1> QED
    BY <1>1, IInvAlways, PTL

\* CompleteStartupReplay runs at most once and only on a complete replay,
\* although the handler and the starter both look for its condition.
THEOREM StartupReplayCompletes == Spec => []ReplayCompletesOnce
BY IInvAlways, PTL

-----------------------------------------------------------------------------
(* A projector run on its own.                                             *)

\* What the handler is about to apply is for a projector that has not failed:
\* it looks at failedErr when it takes the message, and nothing but the
\* message in hand can fail a projector that has no neighbour.
AppliesUnfailed == \A p \in Projectors : phase[p] = "apply" => ~Failed(p)

LEMMA AppliesUnfailedStep ==
    ASSUME ~Shared, TypeOK, AppliesUnfailed, [Next]_vars
    PROVE  AppliesUnfailed'
<1> USE DEF AppliesUnfailed, Failed
<1>1. PICK p0 \in Projectors : Projectors = {p0}
      OBVIOUS
<1>2. CASE TakeMessage
      BY <1>2 DEF TakeMessage, fields
<1>3. ASSUME NEW p \in Projectors, ApplySucceeds(p) \/ AdvanceStep(p) \/ CompleteStep(p)
      PROVE  AppliesUnfailed'
      BY <1>3 DEF ApplySucceeds, AdvanceStep, CompleteStep, fields, TypeOK
<1>4. ASSUME NEW p \in Projectors, ApplyFails(p) PROVE AppliesUnfailed'
  <2>1. p = p0 /\ phase'[p0] = "idle"
        BY <1>1, <1>4 DEF ApplyFails, TypeOK
  <2> QED
      BY <1>1, <2>1
<1>5. CASE DecodeFails
      BY <1>5 DEF DecodeFails
<1>6. CASE MetadataFails
      BY <1>6 DEF MetadataFails, Idle
<1>7. CASE StartStep \/ StopConsume \/ UNCHANGED vars \/ ClientSteps
  <2>1. UNCHANGED <<phase, failedSeq>>
        BY <1>7, ClientsOnlyWait DEF StartStep, StopConsume, MarkStarted, ReadTarget, StartConsume,
           CompleteOnStart, EnterSelect, vars, handler, fields
  <2> QED
      BY <2>1
<1>8. CASE (\E s \in Subjects : Publish(s)) \/ (\E n \in Live : SecureDelete(n))
      BY <1>8 DEF Publish, SecureDelete, handler, fields
<1> QED
    BY <1>2, <1>3, <1>4, <1>5, <1>6, <1>7, <1>8 DEF Next, HandlerStep, ClientSteps

\* A projector that runs on its own applies nothing after its failure, as
\* ErrProjectionFailed says.
THEOREM FailureIsFinal == ASSUME ~Shared PROVE Spec => StopsApplyingAfterFailure
<1>1. Init => AppliesUnfailed
      BY DEF Init, AppliesUnfailed, Failed
<1>2. TypeOK /\ AppliesUnfailed /\ [Next]_vars => AppliesUnfailed'
      BY AppliesUnfailedStep
<1>3. TypeOK /\ AppliesUnfailed /\ [Next]_vars
          => [\A p \in Projectors : Failed(p) => applied'[p] = applied[p]]_vars
  <2> SUFFICES ASSUME TypeOK, AppliesUnfailed, [Next]_vars, NEW p \in Projectors, Failed(p)
               PROVE  applied'[p] = applied[p]
      OBVIOUS
  <2>1. ASSUME NEW q \in Projectors, ApplySucceeds(q) PROVE applied'[p] = applied[p]
        BY <2>1 DEF ApplySucceeds, AppliesUnfailed, TypeOK
  <2>2. CASE ClientSteps
        BY <2>2, ClientsOnlyWait
  <2> QED
      BY <2>1, <2>2 DEF Next, HandlerStep, StartStep, StopConsume, ClientSteps, Publish, SecureDelete,
         TakeMessage, ApplyFails, AdvanceStep, CompleteStep, DecodeFails, MetadataFails, MarkStarted,
         ReadTarget, StartConsume, CompleteOnStart, EnterSelect, vars
<1> QED
    BY <1>1, <1>2, <1>3, TypeCorrect, PTL DEF Spec, StopsApplyingAfterFailure

=============================================================================
