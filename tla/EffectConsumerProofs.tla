------------------------ MODULE EffectConsumerProofs ------------------------
(***************************************************************************)
(* Proofs about module EffectConsumer, for every MaxLog, BatchSize and     *)
(* MaxFaults.                                                              *)
(*                                                                         *)
(* NoEffectSkipped and SuccessNotRepeated are not inductive.  The read     *)
(* under way must account for every live message between the cursor and    *)
(* the position it has reached (ReadSoFar), the queue must stay behind the *)
(* cursor and the read ahead of it, so that nothing is queued twice        *)
(* (BehindCursor), and the loop must account for every queued effect       *)
(* (LoopSoFar).                                                            *)
(***************************************************************************)
EXTENDS EffectConsumer, FiniteSetTheorems, TLAPS

Reading == pc \in {"read", "fetch"}

\* A batch asks for no more than what remains.
BatchFits == pc = "fetch" => size <= remaining

\* What has been read: all live messages after the cursor up to position at.
ReadSoFar ==
    Reading =>
        /\ afterSeq <= at
        /\ lastSeq = 0 => at = afterSeq
        /\ lastSeq # 0 => at = lastSeq
        /\ \A n \in events : afterSeq < n /\ n <= at
        /\ \A n \in Live : afterSeq < n /\ n <= at => n \in events

\* Queued and handled events are at or before the cursor.
BehindCursor ==
    \A n \in 1..MaxLog : n \in pending \/ succeeded[n] > 0 => n <= afterSeq

\* Every queued effect is still to do, has failed, or has succeeded.
LoopSoFar ==
    /\ pc # "handle" => todo = {} /\ failed = {}
    /\ pc # "handle" => \A n \in pending : succeeded[n] = 0
    /\ pc = "handle" =>
          /\ todo \subseteq pending /\ failed \subseteq pending
          /\ todo \cap failed = {}
          /\ \A n \in todo \cup failed : succeeded[n] = 0
          /\ \A n \in pending : n \in todo \/ n \in failed \/ succeeded[n] > 0

IInv == TypeOK /\ BatchFits /\ ReadSoFar /\ BehindCursor /\ LoopSoFar
        /\ NoEffectSkipped /\ SuccessNotRepeated

-----------------------------------------------------------------------------
\* The number of messages ahead of the cursor is a natural number.
LEMMA AheadCount ==
    ASSUME end \in Nat, NEW n PROVE Cardinality(Ahead(n)) \in Nat
<1>1. IsFiniteSet(1..end) BY FS_Interval
<1>2. Ahead(n) \subseteq 1..end BY DEF Ahead, Live
<1>3. IsFiniteSet(Ahead(n)) BY <1>1, <1>2, FS_Subset
<1>q. QED BY <1>3, FS_CardinalityType

\* The invariant holds initially: nothing is read or queued.
LEMMA InvariantInit == Init => IInv
<1>1. SUFFICES ASSUME Init PROVE IInv OBVIOUS
<1> USE EffectConsumerAssumption
<1>2. TypeOK BY <1>1 DEF Init, TypeOK
<1>3. BatchFits /\ ReadSoFar /\ BehindCursor /\ LoopSoFar
      BY <1>1 DEF Init, BatchFits, ReadSoFar, Reading, BehindCursor, LoopSoFar
<1>4. NoEffectSkipped /\ SuccessNotRepeated
      BY <1>1 DEF Init, NoEffectSkipped, SuccessNotRepeated, Live
<1>q. QED BY <1>2, <1>3, <1>4 DEF IInv

\* Queueing what was read keeps the invariant and moves the cursor behind it.
LEMMA ReadReturnsStep ==
    ASSUME IInv, Reading, ReadReturns, faults' \in 0..MaxFaults
    PROVE  IInv'
<1> USE EffectConsumerAssumption
<1>1. TypeOK' BY DEF IInv, TypeOK, ReadReturns, stream, read
<1>2. BatchFits' /\ ReadSoFar'
      BY DEF ReadReturns, BatchFits, ReadSoFar, Reading
<1>3. afterSeq' = at /\ afterSeq <= at
      BY DEF IInv, TypeOK, ReadSoFar, ReadReturns
<1>4. BehindCursor'
  <2> SUFFICES ASSUME NEW n \in 1..MaxLog,
                      n \in pending \cup events \/ succeeded[n] > 0
               PROVE  n <= at
      BY <1>3 DEF ReadReturns, stream, BehindCursor
  <2>1. CASE n \in events BY <2>1 DEF IInv, ReadSoFar
  <2>2. CASE n \notin events BY <2>2, <1>3 DEF IInv, TypeOK, BehindCursor
  <2>q. QED BY <2>1, <2>2
<1>5. \A n \in events : succeeded[n] = 0
      BY DEF IInv, TypeOK, ReadSoFar, BehindCursor
<1>6. \A n \in pending : succeeded[n] = 0
      BY DEF IInv, LoopSoFar, Reading
<1>7. LoopSoFar' BY <1>5, <1>6 DEF ReadReturns, LoopSoFar
<1>8. NoEffectSkipped'
  <2> SUFFICES ASSUME NEW n \in Live, n <= at
               PROVE  n \in pending \cup events \/ succeeded[n] > 0
      BY <1>3 DEF ReadReturns, stream, NoEffectSkipped, Live
  <2>1. CASE n <= afterSeq BY <2>1 DEF IInv, NoEffectSkipped
  <2>2. CASE afterSeq < n BY <2>2 DEF IInv, ReadSoFar
  <2>q. QED BY <2>1, <2>2 DEF IInv, TypeOK, Live
<1>9. SuccessNotRepeated' BY DEF IInv, ReadReturns, stream, SuccessNotRepeated
<1>q. QED BY <1>1, <1>2, <1>4, <1>7, <1>8, <1>9 DEF IInv

\* Every step keeps the invariant.
LEMMA InvariantStep == IInv /\ [Next]_vars => IInv'
<1>0. SUFFICES ASSUME IInv, [Next]_vars PROVE IInv' OBVIOUS
<1> USE EffectConsumerAssumption DEF IInv
<1>1. CASE Publish
  <2>1. TypeOK' BY <1>0, <1>1 DEF Publish, TypeOK, cursor, read, loop
  <2>2. (BatchFits /\ LoopSoFar /\ BehindCursor)'
        BY <1>0, <1>1 DEF Publish, BatchFits, LoopSoFar, BehindCursor, cursor, read, loop
  <2>3. ReadSoFar'
        BY <1>0, <1>1 DEF Publish, TypeOK, ReadSoFar, Reading, Live, cursor, read
  <2>4. NoEffectSkipped'
        BY <1>0, <1>1 DEF Publish, TypeOK, NoEffectSkipped, Live, cursor, loop
  <2>5. SuccessNotRepeated'
    <3>1. end + 1 \in 1..MaxLog /\ ~(end + 1 <= afterSeq)
          BY <1>0, <1>1 DEF Publish, TypeOK
    <3>2. succeeded[end + 1] \in Nat /\ ~(succeeded[end + 1] > 0)
          BY <1>0, <3>1 DEF TypeOK, BehindCursor
    <3>q. QED BY <1>0, <1>1, <3>2 DEF Publish, TypeOK, SuccessNotRepeated, loop
  <2>q. QED BY <2>1, <2>2, <2>3, <2>4, <2>5
<1>2. ASSUME NEW n \in 1..end, SecureDelete(n) PROVE IInv'
  <2>1. TypeOK' BY <1>0, <1>2 DEF SecureDelete, TypeOK, Live, cursor, read, loop
  <2>2. (BatchFits /\ LoopSoFar /\ BehindCursor)'
        BY <1>0, <1>2 DEF SecureDelete, BatchFits, LoopSoFar, BehindCursor, cursor, read, loop
  <2>3. (ReadSoFar /\ NoEffectSkipped /\ SuccessNotRepeated)'
        BY <1>0, <1>2 DEF SecureDelete, ReadSoFar, Reading, NoEffectSkipped,
                          SuccessNotRepeated, Live, cursor, read, loop
  <2>q. QED BY <2>1, <2>2, <2>3
<1>3. CASE CreateConsumer
  <2>1. Cardinality(Ahead(afterSeq)) \in Nat BY <1>0, AheadCount DEF TypeOK
  <2>2. TypeOK' BY <1>0, <1>3, <2>1 DEF CreateConsumer, TypeOK, stream, cursor, loop
  <2>3. ReadSoFar'
        BY <1>0, <1>3 DEF CreateConsumer, TypeOK, ReadSoFar, Reading, Live, stream, cursor
  <2>4. (BatchFits /\ LoopSoFar /\ BehindCursor)'
        BY <1>0, <1>3 DEF CreateConsumer, BatchFits, LoopSoFar, BehindCursor, cursor, loop
  <2>5. (NoEffectSkipped /\ SuccessNotRepeated)'
        BY <1>0, <1>3 DEF CreateConsumer, NoEffectSkipped, SuccessNotRepeated, Live,
                          stream, cursor, loop
  <2>q. QED BY <2>2, <2>3, <2>4, <2>5
<1>4. CASE Fetch
  <2>1. TypeOK' BY <1>0, <1>4 DEF Fetch, TypeOK, stream, cursor, loop
  <2>2. (BatchFits /\ LoopSoFar /\ BehindCursor)'
        BY <1>0, <1>4 DEF Fetch, TypeOK, BatchFits, LoopSoFar, BehindCursor, cursor, loop
  <2>3. (ReadSoFar /\ NoEffectSkipped /\ SuccessNotRepeated)'
        BY <1>0, <1>4 DEF Fetch, ReadSoFar, Reading, NoEffectSkipped, SuccessNotRepeated,
                          Live, stream, cursor, loop
  <2>q. QED BY <2>1, <2>2, <2>3
<1>5. ASSUME NEW n \in 1..end, Message(n) PROVE IInv'
  <2>1. TypeOK' BY <1>0, <1>5 DEF Message, TypeOK, stream, cursor, loop
  <2>2. (BatchFits /\ LoopSoFar /\ BehindCursor)'
        BY <1>0, <1>5 DEF Message, BatchFits, LoopSoFar, BehindCursor, cursor, loop
  <2>3. ReadSoFar'
    <3>1. /\ afterSeq <= at /\ n > at /\ afterSeq' = afterSeq /\ at' = n /\ lastSeq' = n
          /\ events' = events \cup {n} /\ Live' = Live
          BY <1>0, <1>5 DEF Message, TypeOK, ReadSoFar, Reading, Ahead, Live, stream, cursor
    <3>2. \A m \in events' : afterSeq < m /\ m <= n
          BY <1>0, <1>5, <3>1 DEF Message, TypeOK, ReadSoFar, Reading
    <3>3. ASSUME NEW m \in Live, afterSeq < m, m <= n PROVE m \in events'
      <4>1. CASE m <= at
            BY <1>0, <1>5, <3>1, <3>3, <4>1 DEF Message, ReadSoFar, Reading
      <4>2. CASE m > at
            BY <1>0, <1>5, <3>1, <3>3, <4>2 DEF Message, TypeOK, Ahead, Live
      <4>q. QED BY <1>0, <3>3, <4>1, <4>2 DEF TypeOK, Live
    <3>q. QED BY <1>0, <3>1, <3>2, <3>3 DEF TypeOK, ReadSoFar
  <2>4. (NoEffectSkipped /\ SuccessNotRepeated)'
        BY <1>0, <1>5 DEF Message, NoEffectSkipped, SuccessNotRepeated, Live,
                          stream, cursor, loop
  <2>q. QED BY <2>1, <2>2, <2>3, <2>4
<1>6. CASE BatchDone
  <2>1. faults' \in 0..MaxFaults
        BY <1>0, <1>6 DEF BatchDone, Fault, TypeOK
  <2>2. CASE fetched = 0
        BY <1>0, <1>6, <2>1, <2>2, ReadReturnsStep DEF BatchDone, Reading
  <2>3. CASE fetched # 0
    <3>1. remaining - fetched \in Nat
          BY <1>0, <1>6 DEF BatchDone, TypeOK, BatchFits
    <3>2. TypeOK' BY <1>0, <1>6, <2>1, <2>3, <3>1
                  DEF BatchDone, TypeOK, stream, cursor, loop
    <3>3. (BatchFits /\ LoopSoFar /\ BehindCursor)'
          BY <1>0, <1>6, <2>3 DEF BatchDone, BatchFits, LoopSoFar, BehindCursor, cursor, loop
    <3>4. (ReadSoFar /\ NoEffectSkipped /\ SuccessNotRepeated)'
          BY <1>0, <1>6, <2>3 DEF BatchDone, ReadSoFar, Reading, NoEffectSkipped,
                                  SuccessNotRepeated, Live, stream, cursor, loop
    <3>q. QED BY <3>2, <3>3, <3>4
  <2>q. QED BY <2>2, <2>3
<1>7. CASE AllRead
      BY <1>0, <1>7, ReadReturnsStep DEF AllRead, Reading, TypeOK
<1>8. CASE ReadFails
  <2>1. TypeOK' BY <1>0, <1>8 DEF ReadFails, Fault, TypeOK, stream, cursor, read
  <2>2. (BatchFits /\ ReadSoFar /\ BehindCursor)'
        BY <1>0, <1>8 DEF ReadFails, BatchFits, ReadSoFar, Reading, BehindCursor, cursor
  <2>3. (LoopSoFar /\ NoEffectSkipped /\ SuccessNotRepeated)'
        BY <1>0, <1>8 DEF ReadFails, LoopSoFar, NoEffectSkipped, SuccessNotRepeated,
                          Live, stream, cursor
  <2>q. QED BY <2>1, <2>2, <2>3
<1>9. ASSUME NEW n \in 1..end, Handle(n) PROVE IInv'
  <2>0. n \in 1..MaxLog /\ n \in pending /\ succeeded[n] = 0 /\ n \notin failed
        BY <1>0, <1>9 DEF Handle, TypeOK, LoopSoFar
  <2>1. TypeOK' BY <1>0, <1>9, <2>0 DEF Handle, TypeOK, stream, cursor, read
  <2>2. (BatchFits /\ ReadSoFar)'
        BY <1>0, <1>9 DEF Handle, BatchFits, ReadSoFar, Reading
  <2>3. \A m \in 1..MaxLog : succeeded'[m] = IF m = n THEN 1 ELSE succeeded[m]
        BY <1>0, <1>9, <2>0 DEF Handle, TypeOK
  <2>4. BehindCursor' BY <1>0, <1>9, <2>0, <2>3 DEF Handle, BehindCursor, cursor
  <2>5. LoopSoFar'
        BY <1>0, <1>9, <2>0, <2>3 DEF Handle, TypeOK, LoopSoFar, cursor
  <2>6. (NoEffectSkipped /\ SuccessNotRepeated)'
        BY <1>0, <1>9, <2>0, <2>3 DEF Handle, TypeOK, NoEffectSkipped,
                                      SuccessNotRepeated, Live, stream, cursor
  <2>q. QED BY <2>1, <2>2, <2>4, <2>5, <2>6
<1>10. ASSUME NEW n \in 1..end, HandleFails(n) PROVE IInv'
  <2>1. PICK e \in {{}, {n}} : effects' = effects \cup e
        BY <1>10 DEF HandleFails
  <2>2. effects' \subseteq 1..end BY <1>0, <2>1 DEF TypeOK
  <2>3. TypeOK' BY <1>0, <1>10, <2>2 DEF HandleFails, Fault, TypeOK, stream, cursor, read
  <2>4. (BatchFits /\ ReadSoFar /\ BehindCursor)'
        BY <1>0, <1>10 DEF HandleFails, BatchFits, ReadSoFar, Reading, BehindCursor, cursor
  <2>5. (LoopSoFar /\ NoEffectSkipped /\ SuccessNotRepeated)'
        BY <1>0, <1>10 DEF HandleFails, LoopSoFar, NoEffectSkipped, SuccessNotRepeated,
                           Live, stream, cursor
  <2>q. QED BY <2>3, <2>4, <2>5
<1>11. CASE ConsumeReturns
  <2>1. TypeOK' BY <1>0, <1>11 DEF ConsumeReturns, TypeOK, stream, read
  <2>2. (BatchFits /\ ReadSoFar)'
        BY <1>0, <1>11 DEF ConsumeReturns, BatchFits, ReadSoFar, Reading
  <2>3. (BehindCursor /\ LoopSoFar)'
        BY <1>0, <1>11 DEF ConsumeReturns, BehindCursor, LoopSoFar
  <2>4. (NoEffectSkipped /\ SuccessNotRepeated)'
        BY <1>0, <1>11 DEF ConsumeReturns, LoopSoFar, NoEffectSkipped,
                           SuccessNotRepeated, Live, stream
  <2>q. QED BY <2>1, <2>2, <2>3, <2>4
<1>12. CASE Restart
  <2>1. TypeOK' BY <1>0, <1>12 DEF Restart, Fault, TypeOK, stream
  <2>2. (BatchFits /\ ReadSoFar /\ LoopSoFar)'
        BY <1>12 DEF Restart, BatchFits, ReadSoFar, Reading, LoopSoFar
  <2>3. (BehindCursor /\ NoEffectSkipped)'
        BY <1>0, <1>12 DEF Restart, TypeOK, BehindCursor, NoEffectSkipped, Live, stream
  <2>4. SuccessNotRepeated'
        BY <1>0, <1>12 DEF Restart, TypeOK, SuccessNotRepeated, stream
  <2>q. QED BY <2>1, <2>2, <2>3, <2>4
<1>13. CASE UNCHANGED vars
      BY <1>0, <1>13 DEF vars, stream, cursor, read, loop, TypeOK, BatchFits, ReadSoFar,
           Reading, BehindCursor, LoopSoFar, NoEffectSkipped, SuccessNotRepeated, Live
<1>q. QED BY <1>0, <1>1, <1>2, <1>3, <1>4, <1>5, <1>6, <1>7, <1>8, <1>9, <1>10, <1>11,
           <1>12, <1>13 DEF Next

-----------------------------------------------------------------------------
\* The inductive invariant holds in every reachable state.
LEMMA Invariant == Spec => []IInv
<1>1. QED BY InvariantInit, InvariantStep, PTL DEF Spec

\* Every variable of the consumer and of its read stays in its type; in
\* particular a batch never asks for more than BatchSize messages.
THEOREM TypeCorrect == Spec => []TypeOK
<1>1. IInv => TypeOK BY DEF IInv
<1>q. QED BY <1>1, Invariant, PTL

\* Consume's cursor never passes an event that this process has neither
\* handled nor queued, for any batch size and any number of failures.
THEOREM CursorIsSafe == Spec => []NoEffectSkipped
<1>1. IInv => NoEffectSkipped BY DEF IInv
<1>q. QED BY <1>1, Invariant, PTL

\* No effect that succeeded is attempted again by the same process.
THEOREM EffectsSucceedOnce == Spec => []SuccessNotRepeated
<1>1. IInv => SuccessNotRepeated BY DEF IInv
<1>q. QED BY <1>1, Invariant, PTL
=============================================================================
