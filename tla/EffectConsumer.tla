--------------------------- MODULE EffectConsumer ---------------------------
(***************************************************************************)
(* Effects derived from events: IncrementalEffectConsumer.Consume          *)
(* (cli/internal/events/incremental_effect_consumer.go) and the read it    *)
(* polls the stream with, SubjectEventsWithSubjectsAfter (publisher.go).   *)
(* Call-key destruction, call notifications and asset cleanup run on it.   *)
(*                                                                         *)
(* The cursor and the queue of failed effects live in the process: a       *)
(* restart replays everything.  The stream goes on while a read counts the *)
(* messages ahead of the cursor and fetches that many in batches: messages *)
(* are published, others are securely deleted, a fetch ends early.         *)
(*                                                                         *)
(* A message that matches the consumer's subject is its stream sequence.   *)
(* Effects are independent of each other (the type's comment), so the      *)
(* queue is a set.  Consume holds a mutex: one call runs at a time.        *)
(***************************************************************************)
EXTENDS Naturals, FiniteSets

CONSTANTS MaxLog,     \* bound on the matching messages published
          BatchSize,  \* messages asked for in one Fetch (500 in the code)
          MaxFaults   \* bound on failed calls, early ends and restarts

ASSUME EffectConsumerAssumption ==
    MaxLog \in Nat /\ BatchSize \in Nat \ {0} /\ MaxFaults \in Nat

VARIABLES end, gone,       \* the stream: last sequence, deleted messages
          effects,         \* effects that have taken place, outside the process
          afterSeq, pending,                 \* fields of the consumer
          pc, at, remaining, size, fetched,  \* the read: position and counts
          events, lastSeq,                   \* what the read will return
          todo, failed,    \* the loop: still to handle, to stay queued
          succeeded,       \* handler calls of this process that returned nil
          faults

stream == <<end, gone>>
cursor == <<afterSeq, pending>>
read   == <<at, remaining, size, fetched, events, lastSeq>>
loop   == <<todo, failed, succeeded>>
vars   == <<stream, effects, cursor, pc, read, loop, faults>>

Live == (1..end) \ gone
Ahead(n) == {m \in Live : m > n}

TypeOK ==
    /\ end \in 0..MaxLog
    /\ gone \subseteq 1..end /\ effects \subseteq 1..end
    /\ afterSeq \in 0..end /\ pending \subseteq 1..end
    /\ pc \in {"idle", "read", "fetch", "handle"}
    /\ at \in 0..end /\ remaining \in Nat
    /\ size \in 0..BatchSize /\ fetched \in 0..size
    /\ events \subseteq 1..end /\ lastSeq \in 0..end
    /\ todo \subseteq 1..end /\ failed \subseteq 1..end
    /\ succeeded \in [1..MaxLog -> Nat]
    /\ faults \in 0..MaxFaults

Init ==
    /\ end \in 0..MaxLog
    /\ gone = {} /\ effects = {}
    /\ afterSeq = 0 /\ pending = {}
    /\ pc = "idle"
    /\ at = 0 /\ remaining = 0 /\ size = 0 /\ fetched = 0
    /\ events = {} /\ lastSeq = 0
    /\ todo = {} /\ failed = {}
    /\ succeeded = [n \in 1..MaxLog |-> 0]
    /\ faults = 0

-----------------------------------------------------------------------------
(* The stream. *)
Publish ==
    /\ end < MaxLog
    /\ end' = end + 1
    /\ UNCHANGED <<gone, effects, cursor, pc, read, loop, faults>>

SecureDelete(n) ==
    /\ n \in Live
    /\ gone' = gone \cup {n}
    /\ UNCHANGED <<end, effects, cursor, pc, read, loop, faults>>

Fault == faults < MaxFaults /\ faults' = faults + 1

-----------------------------------------------------------------------------
(* SubjectEventsWithSubjectsAfter: a consumer positioned after the cursor, *)
(* and the number of messages it has ahead.                                *)
CreateConsumer ==
    /\ pc = "idle"
    /\ pc' = "read"
    /\ at' = afterSeq
    /\ remaining' = Cardinality(Ahead(afterSeq))
    /\ size' = 0 /\ fetched' = 0
    /\ events' = {} /\ lastSeq' = 0
    /\ UNCHANGED <<stream, effects, cursor, loop, faults>>

\* Variant for the checks: everything is asked for in one batch.
FetchAll ==
    /\ pc = "read" /\ remaining > 0
    /\ pc' = "fetch"
    /\ size' = remaining
    /\ fetched' = 0
    /\ UNCHANGED <<stream, effects, cursor, at, remaining, events, lastSeq, loop, faults>>

Fetch ==
    /\ pc = "read" /\ remaining > 0
    /\ pc' = "fetch"
    /\ size' = IF remaining > BatchSize THEN BatchSize ELSE remaining
    /\ fetched' = 0
    /\ UNCHANGED <<stream, effects, cursor, at, remaining, events, lastSeq, loop, faults>>

\* The next message of the batch arrives.  It need not be one of those that
\* were counted: they may have been deleted since.
Message(n) ==
    /\ pc = "fetch" /\ fetched < size
    /\ n \in Ahead(at) /\ \A m \in Ahead(at) : n <= m
    /\ at' = n
    /\ fetched' = fetched + 1
    /\ events' = events \cup {n}
    /\ lastSeq' = n
    /\ UNCHANGED <<stream, effects, cursor, pc, remaining, size, loop, faults>>

\* Variant for the checks: the cursor moves to the stream's last message.
ReadReturnsToEnd ==
    /\ pending' = pending \cup events
    /\ afterSeq' = end
    /\ pc' = "handle"
    /\ todo' = pending' /\ failed' = {}
    /\ UNCHANGED <<stream, effects, read, succeeded>>

\* Consume queues what was read and moves its cursor to the last of it; then
\* it attempts every queued effect.
ReadReturns ==
    /\ pending' = pending \cup events
    /\ afterSeq' = IF lastSeq > afterSeq THEN lastSeq ELSE afterSeq
    /\ pc' = "handle"
    /\ todo' = pending' /\ failed' = {}
    /\ UNCHANGED <<stream, effects, read, succeeded>>

\* The batch is complete, or it ended early (FetchMaxWait, no messages).
BatchDone ==
    /\ pc = "fetch"
    /\ IF fetched = size \/ Ahead(at) = {} THEN UNCHANGED faults ELSE Fault
    /\ IF fetched = 0
       THEN ReadReturns
       ELSE /\ pc' = "read"
            /\ remaining' = remaining - fetched
            /\ UNCHANGED <<stream, effects, cursor, at, size, fetched, events, lastSeq, loop>>

AllRead ==
    /\ pc = "read" /\ remaining = 0
    /\ ReadReturns
    /\ UNCHANGED faults

\* Any of its calls fails, or a message cannot be decoded: nothing that was
\* read so far is used, and the effects queued earlier are still attempted.
ReadFails ==
    /\ pc \in {"read", "fetch"}
    /\ Fault
    /\ pc' = "handle"
    /\ todo' = pending /\ failed' = {}
    /\ UNCHANGED <<stream, effects, cursor, read, succeeded>>

-----------------------------------------------------------------------------
(* Consume's loop over the queue. *)
Handle(n) ==
    /\ pc = "handle" /\ n \in todo
    /\ todo' = todo \ {n}
    /\ effects' = effects \cup {n}
    /\ succeeded' = [succeeded EXCEPT ![n] = @ + 1]
    /\ UNCHANGED <<stream, cursor, pc, read, failed, faults>>

\* Variant for the checks: a failed effect is not kept.
HandleFailsAndDrops(n) ==
    /\ pc = "handle" /\ n \in todo
    /\ Fault
    /\ todo' = todo \ {n}
    /\ \E e \in {{}, {n}} : effects' = effects \cup e
    /\ UNCHANGED <<stream, cursor, pc, read, failed, succeeded>>

\* The handler returns an error, before or after its effect took place.
HandleFails(n) ==
    /\ pc = "handle" /\ n \in todo
    /\ Fault
    /\ todo' = todo \ {n}
    /\ failed' = failed \cup {n}
    /\ \E e \in {{}, {n}} : effects' = effects \cup e
    /\ UNCHANGED <<stream, cursor, pc, read, succeeded>>

\* Variant for the checks: one failure keeps the whole queue.
ConsumeReturnsQueue ==
    /\ pc = "handle" /\ todo = {}
    /\ pending' = IF failed = {} THEN {} ELSE pending
    /\ pc' = "idle"
    /\ failed' = {}
    /\ UNCHANGED <<stream, effects, afterSeq, read, todo, succeeded, faults>>

ConsumeReturns ==
    /\ pc = "handle" /\ todo = {}
    /\ pending' = failed
    /\ pc' = "idle"
    /\ failed' = {}
    /\ UNCHANGED <<stream, effects, afterSeq, read, todo, succeeded, faults>>

(* The process crashes or is restarted: a new consumer, nothing read.      *)
Restart ==
    /\ Fault
    /\ afterSeq' = 0 /\ pending' = {}
    /\ pc' = "idle"
    /\ at' = 0 /\ remaining' = 0 /\ size' = 0 /\ fetched' = 0
    /\ events' = {} /\ lastSeq' = 0
    /\ todo' = {} /\ failed' = {}
    /\ succeeded' = [n \in 1..MaxLog |-> 0]
    /\ UNCHANGED <<stream, effects>>

-----------------------------------------------------------------------------
Consume ==
    \/ CreateConsumer \/ Fetch \/ AllRead
    \/ \E n \in 1..end : Message(n) \/ Handle(n)
    \/ pc = "fetch" /\ (fetched = size \/ Ahead(at) = {}) /\ BatchDone
    \/ ConsumeReturns

Next ==
    \/ Publish \/ (\E n \in 1..end : SecureDelete(n))
    \/ CreateConsumer \/ Fetch \/ BatchDone \/ AllRead \/ ReadFails
    \/ (\E n \in 1..end : Message(n) \/ Handle(n) \/ HandleFails(n))
    \/ ConsumeReturns \/ Restart

Spec == Init /\ [][Next]_vars

\* The polling loops of the consumers' owners call Consume again and again,
\* and calls fail only finitely often (MaxFaults).
FairSpec == Spec /\ WF_vars(Consume)

-----------------------------------------------------------------------------
\* Consume's cursor never passes an effect: an event at or before afterSeq has
\* been handled by this process or is queued, whatever was published, deleted
\* or cut short while the read counted and fetched.
NoEffectSkipped ==
    \A n \in Live : n <= afterSeq => n \in pending \/ succeeded[n] > 0

\* "Successful effects are not repeated within one process"
\* (incremental_effect_consumer.go:14-15), however often the others fail.
SuccessNotRepeated ==
    \A n \in 1..end : succeeded[n] <= 1

\* "failed effects remain queued without blocking later events" (15-16): every
\* event takes effect, unless it is deleted first, across failures, short
\* reads and restarts.
EffectsHappen ==
    \A n \in 1..MaxLog : n <= end ~> n \in effects \/ n \in gone
=============================================================================
