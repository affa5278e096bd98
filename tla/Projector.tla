----------------------------- MODULE Projector -----------------------------
(***************************************************************************)
(* The read side of the event store: cli/internal/events/projector.go.     *)
(*                                                                         *)
(* One process follows the EVT stream with one ordered consumer and fans   *)
(* each message out to the projectors whose subjects match                 *)
(* (runProjectorsOnSubjects, Shared = TRUE), or runs a single projector    *)
(* (Projector.Run, Shared = FALSE).  Requests wait for their own writes    *)
(* with WaitFor / WaitForCurrent while messages are applied, an Apply may  *)
(* fail, and messages may be securely deleted from the stream.             *)
(*                                                                         *)
(* Every critical section of Projector.mu is a step of its own, and so is  *)
(* each Projection.Apply: a reader may run between Apply and advance,      *)
(* between the subject check of WaitFor and the registration of the        *)
(* waiter, and between the wake-up of a waiter and its look at failedErr.  *)
(***************************************************************************)
EXTENDS Naturals, Sequences, FiniteSets

CONSTANTS
    Subjects,     \* subjects of the stream
    Projectors,   \* the projectors of this process
    Consumes,     \* Consumes[p]: the subjects projector p declares
    Clients,      \* goroutines that wait for a projector
    Shared,       \* fan-out to several projectors, or one projector's Run
    MaxLog,       \* bound on the messages published
    None          \* no failure, no projector

ASSUME ProjectorAssumption ==
    /\ Consumes \in [Projectors -> SUBSET Subjects]
    /\ Shared \in BOOLEAN
    /\ Shared \/ \E p \in Projectors : Projectors = {p}
    /\ MaxLog \in Nat
    /\ None \notin Nat /\ None \notin Projectors

VARIABLES
    log,         \* the stream: the subject of each message, by sequence
    gone,        \* sequences removed by a secure delete
    cursor,      \* the last sequence handed to the message handler
    phase,       \* what the handler has still to do for the message at cursor
    run,         \* progress of the goroutine that runs the projectors
    checked,     \* projectors it has checked for an empty replay
    notified,    \* failedCh has been signalled
    applied,     \* sequences whose Apply returned nil, per projector
    lastSeq, failedSeq, started, target, ended, completed,   \* fields of Projector
    replayDone,  \* number of calls of CompleteStartupReplay
    call,        \* state of each client's WaitFor or WaitForCurrent
    callProj, callSeq   \* the projector and the sequence a call is about

stream  == <<log, gone>>
handler == <<cursor, phase, notified>>
starter == <<run, checked>>
fields  == <<lastSeq, failedSeq, started, target, ended, completed, replayDone>>
waits   == <<call, callProj, callSeq>>
vars    == <<stream, handler, starter, applied, fields, waits>>

Seqs   == 1..Len(log)
Live   == Seqs \ gone
Failed(p) == failedSeq[p] # None

\* consumesSubject on the message at sequence n.
Consumed(p, n) == log[n] \in Consumes[p]

\* currentTarget: t is the last stored message on any of p's subjects, or 0.
IsCurrentTarget(p, t) ==
    /\ t # 0 => t \in Live /\ Consumed(p, t)
    /\ \A n \in Live : Consumed(p, n) => n <= t

CallStates == {"idle", "validated", "waiting", "woken", "ok", "failed", "refused", "timeout"}

TypeOK ==
    /\ log \in Seq(Subjects)
    /\ gone \subseteq Seqs
    /\ cursor \in 0..Len(log)
    /\ phase \in [Projectors -> {"idle", "apply", "advance", "complete"}]
    /\ run \in {"new", "targets", "consume", "select", "stopped"}
    /\ checked \subseteq Projectors
    /\ notified \in BOOLEAN
    /\ applied \in [Projectors -> SUBSET Seqs]
    /\ lastSeq \in [Projectors -> 0..Len(log)]
    /\ failedSeq \in [Projectors -> Nat \cup {None}]
    /\ started \in [Projectors -> BOOLEAN]
    /\ target \in [Projectors -> 0..Len(log) \cup {None}]
    /\ ended \in [Projectors -> BOOLEAN]
    /\ completed \in [Projectors -> BOOLEAN]
    /\ replayDone \in [Projectors -> Nat]
    /\ call \in [Clients -> CallStates]
    /\ callProj \in [Clients -> Projectors \cup {None}]
    /\ callSeq \in [Clients -> 0..Len(log)]

Init ==
    /\ log \in UNION {[1..n -> Subjects] : n \in 0..MaxLog}
    /\ gone = {}
    /\ cursor = 0
    /\ phase = [p \in Projectors |-> "idle"]
    /\ run = "new"
    /\ checked = {}
    /\ notified = FALSE
    /\ applied = [p \in Projectors |-> {}]
    /\ lastSeq = [p \in Projectors |-> 0]
    /\ failedSeq = [p \in Projectors |-> None]
    /\ started = [p \in Projectors |-> FALSE]
    /\ target = [p \in Projectors |-> None]
    /\ ended = [p \in Projectors |-> FALSE]
    /\ completed = [p \in Projectors |-> FALSE]
    /\ replayDone = [p \in Projectors |-> 0]
    /\ call = [c \in Clients |-> "idle"]
    /\ callProj = [c \in Clients |-> None]
    /\ callSeq = [c \in Clients |-> 0]

-----------------------------------------------------------------------------
(* The stream, as other parts of the server use it.                        *)

Publish(s) ==
    /\ Len(log) < MaxLog
    /\ log' = Append(log, s)
    /\ UNCHANGED <<gone, handler, starter, applied, fields, waits>>

SecureDelete(n) ==
    /\ n \in Live
    /\ gone' = gone \cup {n}
    /\ UNCHANGED <<log, handler, starter, applied, fields, waits>>

-----------------------------------------------------------------------------
(* Critical sections of Projector.mu, for a set P of projectors at once    *)
(* where the code loops over projectors with nothing to interleave.        *)

\* The channels of the waiters of P for the sequences in S are closed.
Wake(P, S) ==
    /\ call' = [c \in Clients |->
                   IF call[c] = "waiting" /\ callProj[c] \in P /\ callSeq[c] \in S
                   THEN "woken" ELSE call[c]]
    /\ UNCHANGED <<callProj, callSeq>>

Later(m, n) == IF n > m THEN n ELSE m

\* Variant for the checks: a waiter for exactly the new lastSeq is not reached.
AdvanceStrict(p, seq) ==
    /\ lastSeq' = [lastSeq EXCEPT ![p] = Later(@, seq)]
    /\ Wake({p}, {n \in 0..lastSeq'[p] : n < lastSeq'[p]})

\* Variant for the checks: lastSeq runs one ahead of the message applied.
AdvancePast(p, seq) ==
    /\ lastSeq' = [lastSeq EXCEPT ![p] = Later(@, seq + 1)]
    /\ Wake({p}, 0..lastSeq'[p])

\* advance: lastSeq never goes back; the waiters it reaches are released.
Advance(p, seq) ==
    /\ lastSeq' = [lastSeq EXCEPT ![p] = Later(@, seq)]
    /\ Wake({p}, 0..lastSeq'[p])

\* Variant for the checks: a failure leaves the waiters waiting.
FailSilently(P, seq) ==
    /\ failedSeq' = [p \in Projectors |->
                        IF p \in P /\ ~Failed(p) THEN seq ELSE failedSeq[p]]
    /\ ended' = [p \in Projectors |->
                    ended[p] \/ (p \in P /\ ~Failed(p) /\ started[p])]
    /\ UNCHANGED waits

\* fail: the first failure is the one that is kept; every waiter is released.
Fail(P, seq) ==
    /\ failedSeq' = [p \in Projectors |->
                        IF p \in P /\ ~Failed(p) THEN seq ELSE failedSeq[p]]
    /\ ended' = [p \in Projectors |->
                    ended[p] \/ (p \in P /\ ~Failed(p) /\ started[p])]
    /\ Wake(P, Nat)

\* startupTargetSeq is 0 until it is captured.
TargetSeq(p) == IF target[p] = None THEN 0 ELSE target[p]

\* Variant for the checks: nothing records that the replay was completed.
MaybeCompleteStartupAgain(p) ==
    LET now == started[p] /\ lastSeq[p] >= TargetSeq(p)
    IN /\ ended' = [ended EXCEPT ![p] = @ \/ now]
       /\ completed' = [completed EXCEPT ![p] = @ \/ now]
       /\ replayDone' = [replayDone EXCEPT ![p] = IF now THEN @ + 1 ELSE @]

\* maybeCompleteStartup, with the call of CompleteStartupReplay it decides on.
MaybeCompleteStartup(p) ==
    LET now == started[p] /\ ~ended[p] /\ lastSeq[p] >= TargetSeq(p)
    IN /\ ended' = [ended EXCEPT ![p] = @ \/ now]
       /\ completed' = [completed EXCEPT ![p] = @ \/ now]
       /\ replayDone' = [replayDone EXCEPT ![p] = IF now THEN @ + 1 ELSE @]

-----------------------------------------------------------------------------
(* The goroutine that starts the projectors (Run, runProjectorsOnSubjects) *)

MarkStarted ==
    /\ run = "new"
    /\ run' = "targets"
    /\ started' = [p \in Projectors |-> TRUE]
    /\ UNCHANGED <<checked, stream, handler, applied, lastSeq, failedSeq, target, ended, completed,
                   replayDone, waits>>

ReadTarget(p) ==
    /\ run = "targets" /\ target[p] = None
    /\ \E t \in 0..Len(log) : IsCurrentTarget(p, t) /\ target' = [target EXCEPT ![p] = t]
    /\ UNCHANGED <<stream, handler, starter, applied, lastSeq, failedSeq, started, ended, completed,
                   replayDone, waits>>

StartConsume ==
    /\ run = "targets" /\ \A p \in Projectors : target[p] # None
    /\ run' = "consume"
    /\ UNCHANGED <<checked, stream, handler, applied, fields, waits>>

\* After Consume the starter checks, once, whether a projector is current.
CompleteOnStart(p) ==
    /\ run = "consume" /\ p \notin checked
    /\ checked' = checked \cup {p}
    /\ MaybeCompleteStartup(p)
    /\ UNCHANGED <<stream, handler, run, applied, lastSeq, failedSeq, started, target, waits>>

EnterSelect ==
    /\ run = "consume" /\ checked = Projectors
    /\ run' = "select"
    /\ UNCHANGED <<checked, stream, handler, applied, fields, waits>>

\* The starter sees failedCh, or its context ends: it stops the consumer.
StopConsume ==
    /\ run = "select"
    /\ run' = "stopped"
    /\ UNCHANGED <<checked, stream, handler, applied, fields, waits>>

-----------------------------------------------------------------------------
(* The consumer's message handler.                                         *)

Consuming == run \in {"consume", "select"}
Idle      == \A p \in Projectors : phase[p] = "idle"

\* A message without a readable sequence fails every projector at 0.
MetadataFails ==
    /\ Consuming /\ Idle /\ cursor < Len(log) /\ cursor + 1 \notin gone
    /\ Shared \/ \A p \in Projectors : ~Failed(p)
    /\ cursor' = cursor + 1
    /\ Fail(Projectors, 0)
    /\ notified' = TRUE
    /\ UNCHANGED <<stream, phase, starter, applied, lastSeq, started, target, completed, replayDone>>

\* Variant for the checks: a failed projector takes further messages.
TakeMessageAlways ==
    /\ Consuming /\ Idle /\ cursor < Len(log)
    /\ cursor' = cursor + 1
    /\ phase' = [p \in Projectors |->
                    IF cursor + 1 \notin gone /\ Consumed(p, cursor + 1) THEN "apply" ELSE "idle"]
    /\ UNCHANGED <<stream, notified, starter, applied, fields, waits>>

\* Messages that no projector consumes, and removed ones, pass unnoticed.  A
\* projector run on its own skips every message once it has failed.
TakeMessage ==
    /\ Consuming /\ Idle /\ cursor < Len(log)
    /\ cursor' = cursor + 1
    /\ phase' = [p \in Projectors |->
                    IF cursor + 1 \notin gone /\ Consumed(p, cursor + 1) /\ (Shared \/ ~Failed(p))
                    THEN "apply" ELSE "idle"]
    /\ UNCHANGED <<stream, notified, starter, applied, fields, waits>>

\* proto.Unmarshal fails before any projector has applied the message.
DecodeFails ==
    LET P == {p \in Projectors : phase[p] = "apply"}
    IN /\ P # {}
       /\ P = {p \in Projectors : Consumed(p, cursor) /\ (Shared \/ ~Failed(p))}
       /\ Fail(P, cursor)
       /\ phase' = [p \in Projectors |-> "idle"]
       /\ notified' = TRUE
       /\ UNCHANGED <<stream, cursor, starter, applied, lastSeq, started, target, completed, replayDone>>

\* The loop serves one projector at a time.
InTurn(p) == \A q \in Projectors \ {p} : phase[q] \in {"idle", "apply"}

ApplySucceeds(p) ==
    /\ phase[p] = "apply" /\ InTurn(p)
    /\ applied' = [applied EXCEPT ![p] = @ \cup {cursor}]
    /\ phase' = [phase EXCEPT ![p] = "advance"]
    /\ UNCHANGED <<stream, cursor, notified, starter, fields, waits>>

ApplyFails(p) ==
    /\ phase[p] = "apply" /\ InTurn(p)
    /\ Fail({p}, cursor)
    /\ phase' = [phase EXCEPT ![p] = "idle"]
    /\ notified' = TRUE
    /\ UNCHANGED <<stream, cursor, starter, applied, lastSeq, started, target, completed, replayDone>>

AdvanceStep(p) ==
    /\ phase[p] = "advance"
    /\ Advance(p, cursor)
    /\ phase' = [phase EXCEPT ![p] = "complete"]
    /\ UNCHANGED <<stream, cursor, notified, starter, applied, failedSeq, started, target, ended,
                   completed, replayDone>>

CompleteStep(p) ==
    /\ phase[p] = "complete"
    /\ MaybeCompleteStartup(p)
    /\ phase' = [phase EXCEPT ![p] = "idle"]
    /\ UNCHANGED <<stream, cursor, notified, starter, applied, lastSeq, failedSeq, started, target, waits>>

-----------------------------------------------------------------------------
(* Clients.                                                                *)

\* WaitFor's validateSeqSubject: the message exists and p consumes it.
WaitFor(c, p, n) ==
    /\ call[c] = "idle"
    /\ call' = [call EXCEPT ![c] = IF n \in Live /\ Consumed(p, n) THEN "validated" ELSE "refused"]
    /\ callProj' = [callProj EXCEPT ![c] = p]
    /\ callSeq' = [callSeq EXCEPT ![c] = n]
    /\ UNCHANGED <<stream, handler, starter, applied, fields>>

\* WaitForCurrent reads the target t; 0 means there is nothing to wait for.
WaitForCurrent(c, p, t) ==
    /\ call[c] = "idle" /\ IsCurrentTarget(p, t)
    /\ call' = [call EXCEPT ![c] = IF t = 0 THEN "ok" ELSE "validated"]
    /\ callProj' = [callProj EXCEPT ![c] = p]
    /\ callSeq' = [callSeq EXCEPT ![c] = t]
    /\ UNCHANGED <<stream, handler, starter, applied, fields>>

\* waitForSeq looks at failedErr first, then at lastSeq.
FailedAt(p, n) == Failed(p) /\ n >= failedSeq[p]

CallFailed(c)  == FailedAt(callProj[c], callSeq[c])
CallReached(c) == lastSeq[callProj[c]] >= callSeq[c]

Return(c, result) ==
    /\ call' = [call EXCEPT ![c] = result]
    /\ UNCHANGED <<stream, handler, starter, applied, fields, callProj, callSeq>>

\* Variant for the checks: lastSeq is looked at before failedErr.
WaitForSeqLastFirst(c) ==
    /\ call[c] = "validated"
    /\ Return(c, IF CallReached(c) THEN "ok" ELSE IF CallFailed(c) THEN "failed" ELSE "waiting")

WaitForSeq(c) ==
    /\ call[c] = "validated"
    /\ Return(c, IF CallFailed(c) THEN "failed" ELSE IF CallReached(c) THEN "ok" ELSE "waiting")

\* The channel is closed: waitForSeq reads failedErr again.
Woken(c) ==
    /\ call[c] = "woken"
    /\ Return(c, IF CallFailed(c) THEN "failed" ELSE "ok")

\* The caller's context ends, perhaps after the channel was closed.
ContextDone(c) ==
    /\ call[c] \in {"waiting", "woken"}
    /\ Return(c, "timeout")

-----------------------------------------------------------------------------

HandlerStep ==
    \/ TakeMessage
    \/ \E p \in Projectors :
          ApplySucceeds(p) \/ ApplyFails(p) \/ AdvanceStep(p) \/ CompleteStep(p)
    \/ DecodeFails \/ MetadataFails

StartStep ==
    \/ MarkStarted \/ StartConsume \/ EnterSelect
    \/ \E p \in Projectors : ReadTarget(p) \/ CompleteOnStart(p)

ClientStep(c) == WaitForSeq(c) \/ Woken(c)

Next ==
    \/ \E s \in Subjects : Publish(s)
    \/ \E n \in Live : SecureDelete(n)
    \/ HandlerStep \/ StartStep \/ StopConsume
    \/ \E c \in Clients :
          \/ ClientStep(c) \/ ContextDone(c)
          \/ \E p \in Projectors :
                \/ \E t \in 0..Len(log) : WaitForCurrent(c, p, t)
                \/ \E n \in Seqs : WaitFor(c, p, n)

Spec == Init /\ [][Next]_vars

\* The consumer, the starter and the waiting goroutines are scheduled; nothing
\* is assumed of publishers, secure deletes, timeouts and the shutdown.
Fairness ==
    /\ WF_vars(HandlerStep) /\ WF_vars(StartStep)
    /\ \A c \in Clients : WF_vars(ClientStep(c))

FairSpec == Spec /\ Fairness

-----------------------------------------------------------------------------
(* Properties.                                                             *)

\* WaitFor gives read-your-writes: a successful wait for sequence n means that
\* every event up to n that the projection consumes has been applied to it,
\* even when an Apply failed or the waiter raced a failure.
ReadYourWrites ==
    \A c \in Clients : call[c] = "ok" =>
        \A n \in Live : n <= callSeq[c] /\ Consumed(callProj[c], n) => n \in applied[callProj[c]]

\* advance and fail lose no wake-up: a goroutine that is still waiting waits
\* for a sequence the projector has neither reached nor failed at.
NoStrandedWaiter ==
    \A c \in Clients : call[c] = "waiting" => ~CallReached(c) /\ ~CallFailed(c)

\* StartupReplayCompleter: CompleteStartupReplay is called exactly once, by
\* whichever of the handler and the starter gets there first, and only when
\* every consumed event up to the captured target has been applied.
ReplayCompletesOnce ==
    \A p \in Projectors :
        /\ replayDone[p] = IF completed[p] THEN 1 ELSE 0
        /\ completed[p] => \A n \in Live : n <= target[p] /\ Consumed(p, n) => n \in applied[p]

\* WaitFor returns: unless the consumer is stopped or the message it waits for
\* is securely deleted before it is delivered, a waiter is not left behind.
WaitReturns ==
    \A c \in Clients :
        call[c] = "waiting" ~>
            call[c] # "waiting" \/ run = "stopped" \/ callSeq[c] \in gone

\* ErrProjectionFailed "marks a projector that stopped applying events because
\* its Projection.Apply returned an error".
StopsApplyingAfterFailure ==
    [][\A p \in Projectors : Failed(p) => applied'[p] = applied[p]]_vars

=============================================================================
