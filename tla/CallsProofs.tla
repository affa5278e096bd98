---------------------------- MODULE CallsProofs ----------------------------
(***************************************************************************)
(* The calls of a room, for any devices, accounts and bounds: calls do not *)
(* overlap, the device limit, the key of the active call, no silent end    *)
(* and the refinement of CallLifecycle.                                    *)
(*                                                                         *)
(* The invariant is about the stored room and not about the projection:    *)
(* an attempt at the tail works on a view that is the stored room, because *)
(* the stored room is what the pending events make of the view (Caught).   *)
(***************************************************************************)
EXTENDS Calls, FiniteSetTheorems, WellFoundedInduction, TLAPS

\* The stored room is the view after the events still to be applied.
Caught == stored = After(view, pend, Len(pend))

\* Nobody is in another call than the active one, which is never empty.
Settled(s) ==
    /\ \A d \in Devices : s.part[d] \in {NoCall, s.call}
    /\ s.call # NoCall => Present(s) # {}

Joins == [d : Devices, mode : Modes, exp : 0..MaxCalls]

\* The room.  Every call that it knows of has been handed out, so that the
\* next one is new to it, and the active call has not ended.
RoomOK ==
    /\ view \in Snapshots /\ stored \in Snapshots /\ pend \in Seq(Events)
    /\ calls \in 0..MaxCalls /\ stored.call \in 0..calls
    /\ ended \subseteq 1..calls /\ tokens \subseteq Devices \X (1..calls)
    /\ Caught /\ CallsDoNotOverlap
    /\ Settled(stored) /\ stored.call \notin ended

\* A key that a handler or the cycle is about to destroy is not the active one.
OutOfUse ==
    /\ \A p \in post : p.key \in 0..calls /\ (p.key # NoCall => p.key # stored.call)
    /\ cyc.list \subseteq Devices \X (1..calls)
    /\ cyc.unmatched \in 0..calls
    /\ cyc.unmatched # NoCall => cyc.unmatched # stored.call
    /\ cyc.pc = "unmatched" => cyc.unmatched # NoCall

HandlersOK ==
    /\ keys \subseteq CallIDs /\ unacked \subseteq CallIDs /\ revived \subseteq Devices
    /\ joining \subseteq Joins /\ post \subseteq Cleanups
    /\ media \subseteq tokens /\ obs \subseteq Observations
    /\ hook \subseteq Hooks /\ cyc \in Cycles
    /\ now \in 0..MaxTime /\ ops \in 0..MaxOps /\ faults \in 0..MaxFaults

IInv ==
    /\ RoomOK /\ HandlersOK /\ OutOfUse
    /\ KeyWhileActive /\ AdmittedDeviceLimit

-----------------------------------------------------------------------------
(* Runs of events.  Induction is over sets of naturals: a set that contains *)
(* 0 and is closed under successor contains every natural.                  *)
LEMMA SetInduction ==
    ASSUME NEW S, 0 \in S, \A n \in Nat : n \in S => n + 1 \in S
    PROVE  Nat \subseteq S
<1> DEFINE T == Nat \ S
<1> DEFINE R == {ss \in Nat \X Nat : ss[1] < ss[2]}
<1> SUFFICES ASSUME T # {} PROVE FALSE
    OBVIOUS
<1>1. IsWellFoundedOn(R, Nat)
      BY NatLessThanWellFounded DEF OpToRel
<1>2. \A x, y \in Nat : x < y => <<x, y>> \in R
      OBVIOUS
<1> HIDE DEF R
<1>3. T \subseteq Nat
      OBVIOUS
<1> HIDE DEF T
<1>4. PICK x \in T : \A y \in T : ~(<<y, x>> \in R)
      BY <1>1, <1>3, WFMin
<1> USE DEF T
<1>5. x # 0 /\ x - 1 \in Nat /\ x - 1 < x
      OBVIOUS
<1>6. x - 1 \notin T
      BY <1>2, <1>4, <1>5
<1>7. x - 1 \in S /\ (x - 1) + 1 = x
      BY <1>5, <1>6
<1> QED
    BY <1>7

\* f is the sequence of states that After computes up to n.
IsRun(f, s, es, n) == f = [i \in 0..n |-> IF i = 0 THEN s ELSE Apply(f[i - 1], es[i])]

LEMMA AfterIsRun ==
    ASSUME NEW s, NEW es, NEW n
    PROVE  After(s, es, n) = (CHOOSE f : IsRun(f, s, es, n))[n]
BY Zenon DEF After, IsRun

LEMMA RunExists ==
    ASSUME NEW s, NEW es, NEW n \in Nat
    PROVE  \E f : IsRun(f, s, es, n)
<1> DEFINE S == {m \in Nat : \E f : IsRun(f, s, es, m)}
<1>1. 0 \in S
  <2> DEFINE f == [i \in 0..0 |-> s]
  <2>1. f = [i \in 0..0 |-> IF i = 0 THEN s ELSE Apply(f[i - 1], es[i])]
        OBVIOUS
  <2>2. IsRun(f, s, es, 0)
        BY ONLY <2>1 DEF IsRun
  <2> HIDE DEF f
  <2> QED
      BY <2>2
<1>2. ASSUME NEW m \in Nat, m \in S PROVE m + 1 \in S
  <2>1. PICK f : IsRun(f, s, es, m)
        BY <1>2
  <2> DEFINE g == [i \in 0..(m + 1) |-> IF i = m + 1 THEN Apply(f[m], es[i]) ELSE f[i]]
  <2>2. ASSUME NEW i \in 0..(m + 1)
        PROVE  g[i] = IF i = 0 THEN s ELSE Apply(g[i - 1], es[i])
        BY <2>1 DEF IsRun
  <2>3. g = [i \in 0..(m + 1) |-> g[i]]
        OBVIOUS
  <2> HIDE DEF g
  <2>4. g = [i \in 0..(m + 1) |-> IF i = 0 THEN s ELSE Apply(g[i - 1], es[i])]
        BY <2>2, <2>3
  <2>5. IsRun(g, s, es, m + 1)
        BY ONLY <2>4 DEF IsRun
  <2> QED
      BY <2>5
<1> HIDE DEF S
<1>3. Nat \subseteq S
      BY <1>1, <1>2, SetInduction
<1> QED
    BY <1>3 DEF S

LEMMA RunsAgree ==
    ASSUME NEW s, NEW es, NEW n \in Nat, NEW m \in Nat, NEW f, NEW g,
           IsRun(f, s, es, n), IsRun(g, s, es, m), NEW i \in Nat, i <= n, i <= m
    PROVE  f[i] = g[i]
<1> DEFINE S == {j \in Nat : j <= n /\ j <= m => f[j] = g[j]}
<1>1. 0 \in S
      BY DEF IsRun
<1>2. ASSUME NEW j \in Nat, j \in S PROVE j + 1 \in S
  <2> SUFFICES ASSUME j + 1 <= n, j + 1 <= m PROVE f[j + 1] = g[j + 1]
      OBVIOUS
  <2>1. f[j] = g[j] /\ (j + 1) - 1 = j
        BY <1>2
  <2> QED
      BY <2>1 DEF IsRun
<1> HIDE DEF S
<1>3. Nat \subseteq S
      BY <1>1, <1>2, SetInduction
<1> QED
    BY <1>3 DEF S

LEMMA AfterZero == ASSUME NEW s, NEW es PROVE After(s, es, 0) = s
<1> DEFINE Run == CHOOSE f : IsRun(f, s, es, 0)
<1>1. IsRun(Run, s, es, 0) /\ After(s, es, 0) = Run[0]
      BY RunExists, AfterIsRun
<1> QED
    BY <1>1 DEF IsRun

\* After, unfolded by its last event.
LEMMA AfterNext ==
    ASSUME NEW s, NEW es, NEW n \in Nat
    PROVE  After(s, es, n + 1) = Apply(After(s, es, n), es[n + 1])
<1> DEFINE Run(m) == CHOOSE f : IsRun(f, s, es, m)
<1>1. ASSUME NEW m \in Nat PROVE IsRun(Run(m), s, es, m) /\ After(s, es, m) = Run(m)[m]
      BY RunExists, AfterIsRun
<1> HIDE DEF Run
<1>2. Run(n + 1)[n] = Run(n)[n]
      BY <1>1, RunsAgree
<1>3. Run(n + 1)[n + 1] = Apply(Run(n)[n], es[n + 1])
      BY <1>1, <1>2 DEF IsRun
<1> QED
    BY <1>1, <1>3

\* After, unfolded by its first event.
LEMMA AfterShift ==
    ASSUME NEW s, NEW es \in Seq(Events), es # <<>>, NEW n \in Nat, n < Len(es)
    PROVE  After(s, es, n + 1) = After(Apply(s, Head(es)), Tail(es), n)
<1> DEFINE S == {m \in Nat : m < Len(es) =>
                     After(s, es, m + 1) = After(Apply(s, Head(es)), Tail(es), m)}
<1>1. 0 \in S
  <2>1. After(s, es, 0 + 1) = Apply(After(s, es, 0), es[0 + 1])
        BY AfterNext
  <2> QED
      BY <2>1, AfterZero
<1>2. ASSUME NEW m \in Nat, m \in S PROVE m + 1 \in S
  <2> SUFFICES ASSUME m + 1 < Len(es)
               PROVE  After(s, es, (m + 1) + 1) = After(Apply(s, Head(es)), Tail(es), m + 1)
      OBVIOUS
  <2>1. After(s, es, m + 1) = After(Apply(s, Head(es)), Tail(es), m)
        BY <1>2
  <2>2. Tail(es)[m + 1] = es[(m + 1) + 1]
        OBVIOUS
  <2>3. After(s, es, (m + 1) + 1) = Apply(After(s, es, m + 1), es[(m + 1) + 1])
        BY AfterNext
  <2>4. After(Apply(s, Head(es)), Tail(es), m + 1)
            = Apply(After(Apply(s, Head(es)), Tail(es), m), Tail(es)[m + 1])
        BY AfterNext
  <2> QED
      BY <2>1, <2>2, <2>3, <2>4
<1> HIDE DEF S
<1>3. n \in S
      BY <1>1, <1>2, SetInduction
<1> QED
    BY <1>3 DEF S

\* Events appended later change nothing in what came before ...
LEMMA AfterPrefix ==
    ASSUME NEW s, NEW es \in Seq(Events), NEW fs \in Seq(Events), NEW n \in Nat, n <= Len(es)
    PROVE  After(s, es \o fs, n) = After(s, es, n)
<1> DEFINE S == {m \in Nat : m <= Len(es) => After(s, es \o fs, m) = After(s, es, m)}
<1>1. 0 \in S
      BY AfterZero
<1>2. ASSUME NEW m \in Nat, m \in S PROVE m + 1 \in S
  <2> SUFFICES ASSUME m + 1 <= Len(es) PROVE After(s, es \o fs, m + 1) = After(s, es, m + 1)
      OBVIOUS
  <2>1. (es \o fs)[m + 1] = es[m + 1]
        OBVIOUS
  <2>2. After(s, es \o fs, m) = After(s, es, m)
        BY <1>2
  <2> QED
      BY <2>1, <2>2, AfterNext
<1> HIDE DEF S
<1>3. n \in S
      BY <1>1, <1>2, SetInduction
<1> QED
    BY <1>3 DEF S

\* ... and go on from there.
LEMMA AfterConcat ==
    ASSUME NEW s, NEW es \in Seq(Events), NEW fs \in Seq(Events), NEW n \in Nat, n <= Len(fs)
    PROVE  After(s, es \o fs, Len(es) + n) = After(After(s, es, Len(es)), fs, n)
<1> DEFINE r == After(s, es, Len(es))
<1> DEFINE S == {m \in Nat : m <= Len(fs) => After(s, es \o fs, Len(es) + m) = After(r, fs, m)}
<1>1. 0 \in S
  <2>1. After(s, es \o fs, Len(es)) = r
        BY AfterPrefix
  <2>2. After(r, fs, 0) = r /\ Len(es) + 0 = Len(es)
        BY AfterZero
  <2> QED
      BY <2>1, <2>2
<1>2. ASSUME NEW m \in Nat, m \in S PROVE m + 1 \in S
  <2> SUFFICES ASSUME m + 1 <= Len(fs)
               PROVE  After(s, es \o fs, Len(es) + (m + 1)) = After(r, fs, m + 1)
      OBVIOUS
  <2>1. Len(es) + m \in Nat /\ Len(es) + (m + 1) = (Len(es) + m) + 1
        OBVIOUS
  <2>2. (es \o fs)[(Len(es) + m) + 1] = fs[m + 1]
        OBVIOUS
  <2>3. After(s, es \o fs, Len(es) + m) = After(r, fs, m)
        BY <1>2
  <2>4. After(s, es \o fs, (Len(es) + m) + 1)
            = Apply(After(s, es \o fs, Len(es) + m), (es \o fs)[(Len(es) + m) + 1])
        BY <2>1, AfterNext
  <2>5. After(r, fs, m + 1) = Apply(After(r, fs, m), fs[m + 1])
        BY AfterNext
  <2> QED
      BY <2>1, <2>2, <2>3, <2>4, <2>5
<1> HIDE DEF S
<1>3. n \in S
      BY <1>1, <1>2, SetInduction
<1> QED
    BY <1>3 DEF S

-----------------------------------------------------------------------------
(* What each event does to the call, the participants and the members.      *)
Becomes(q, c, P, M) == q \in Snapshots /\ q.call = c /\ q.part = P /\ q.members = M

Cleared(P, D) == [d \in Devices |-> IF d \in D THEN NoCall ELSE P[d]]
Nobody == [d \in Devices |-> NoCall]

USE CallsAssumption

LEMMA Bounds ==
    /\ NoCall \in 0..MaxCalls /\ 0 \in 0..MaxTime /\ MaxCalls \in Nat /\ MaxTime \in Nat
    /\ CallIDs \subseteq 0..MaxCalls /\ NoCall \notin CallIDs
    /\ MaxDevices \in Nat /\ 1 <= MaxDevices /\ 1 \in CallIDs
BY DEF NoCall, CallIDs

LEMMA RemoveDevicesEffect ==
    ASSUME NEW s \in Snapshots, NEW D
    PROVE  Becomes(RemoveDevices(s, D), s.call, Cleared(s.part, D), s.members)
<1> DEFINE part == [d \in Devices |-> IF d \in D THEN NoCall ELSE s.part[d]]
           up   == [d \in Devices |-> d \in D \/ s.up[d]]
           at   == [d \in Devices |-> IF d \in D THEN 0 ELSE s.at[d]]
           seen == {x \in s.seen : x[1] \notin D}
           r    == [s EXCEPT !.part = part, !.up = up, !.at = at, !.seen = seen]
<1>1. RemoveDevices(s, D) = r
      BY DEF RemoveDevices, Snapshots
<1>2. part \in [Devices -> 0..MaxCalls]
      BY Bounds DEF Snapshots
<1>3. up \in [Devices -> BOOLEAN]
      OBVIOUS
<1>4. at \in [Devices -> 0..MaxTime]
      BY Bounds DEF Snapshots
<1>5. seen \in SUBSET (Devices \X Observations)
      BY DEF Snapshots
<1> HIDE DEF part, up, at, seen
<1>6. r \in Snapshots /\ r.call = s.call /\ r.part = part /\ r.members = s.members
      BY <1>2, <1>3, <1>4, <1>5 DEF Snapshots
<1>7. part = Cleared(s.part, D)
      BY DEF part, Cleared
<1> QED
    BY <1>1, <1>6, <1>7 DEF Becomes

LEMMA NoParticipantsEffect ==
    ASSUME NEW s \in Snapshots
    PROVE  Becomes(NoParticipants(s), s.call, Nobody, s.members)
<1>1. Cleared(s.part, Devices) = Nobody
      BY DEF Cleared, Nobody
<1> QED
    BY <1>1, RemoveDevicesEffect DEF NoParticipants

LEMMA SetCall ==
    ASSUME NEW s \in Snapshots, NEW c \in 0..MaxCalls
    PROVE  Becomes([s EXCEPT !.call = c], c, s.part, s.members)
BY DEF Becomes, Snapshots

LEMMA StartedEffect ==
    ASSUME NEW s \in Snapshots, NEW e \in Events, e.t = "started"
    PROVE  Becomes(Apply(s, e), e.c, Nobody, s.members)
<1>1. Apply(s, e) = [NoParticipants(s) EXCEPT !.call = e.c] /\ e.c \in 0..MaxCalls
      BY DEF Apply, Events
<1> QED
    BY <1>1, NoParticipantsEffect, SetCall DEF Becomes

LEMMA JoinedEffect ==
    ASSUME NEW s \in Snapshots, NEW e \in Events, e.t = "joined"
    PROVE  e.d \in Devices /\ Becomes(Apply(s, e), s.call, [s.part EXCEPT ![e.d] = e.c], s.members)
<1>1. Apply(s, e) = [s EXCEPT !.part = [s.part EXCEPT ![e.d] = e.c]] /\ e.c \in 0..MaxCalls
      BY DEF Apply, Events, Snapshots
<1>2. e.d \in Devices
      BY DEF Events
<1> QED
    BY <1>1, <1>2 DEF Becomes, Snapshots

LEMMA ChangedEffect ==
    ASSUME NEW s \in Snapshots, NEW e \in Events, e.t = "changed"
    PROVE  Becomes(Apply(s, e), s.call, s.part, s.members)
<1>1. Apply(s, e) = ApplyChanged(s, e)
      BY DEF Apply
<1>2. /\ e.d \in Devices /\ e.up \in BOOLEAN /\ e.at \in 0..MaxTime
      /\ e.id = <<>> \/ e.id \in Observations
      BY DEF Events
<1> DEFINE seen == s.seen \cup {<<e.d, e.id>>}
           r == IF e.id = <<>> THEN s ELSE [s EXCEPT !.seen = seen]
<1>3. Becomes(r, s.call, s.part, s.members)
  <2>1. e.id # <<>> => seen \in SUBSET (Devices \X Observations)
        BY <1>2 DEF Snapshots
  <2> HIDE DEF seen
  <2> QED
      BY <2>1 DEF Becomes, Snapshots
<1> HIDE DEF r
<1> DEFINE q == [r EXCEPT !.up = [r.up EXCEPT ![e.d] = e.up], !.at = [r.at EXCEPT ![e.d] = e.at]]
<1>4. Becomes(q, s.call, s.part, s.members)
  <2>1. [r.up EXCEPT ![e.d] = e.up] \in [Devices -> BOOLEAN]
        BY <1>2, <1>3 DEF Becomes, Snapshots
  <2>2. [r.at EXCEPT ![e.d] = e.at] \in [Devices -> 0..MaxTime]
        BY <1>2, <1>3 DEF Becomes, Snapshots
  <2> QED
      BY <1>3, <2>1, <2>2 DEF Becomes, Snapshots
<1>5. q = [r EXCEPT !.up[e.d] = e.up, !.at[e.d] = e.at]
      BY <1>3 DEF Becomes, Snapshots
<1>6. Becomes(s, s.call, s.part, s.members)
      BY DEF Becomes
<1>7. ApplyChanged(s, e) \in {s, r, q}
      BY <1>5 DEF ApplyChanged, r
<1> QED
    BY <1>1, <1>3, <1>4, <1>6, <1>7

LEMMA LeftEffect ==
    ASSUME NEW s \in Snapshots, NEW e \in Events, e.t = "left"
    PROVE  Becomes(Apply(s, e), s.call,
                   IF s.part[e.d] = e.c THEN Cleared(s.part, {e.d}) ELSE s.part, s.members)
BY RemoveDevicesEffect DEF Apply, Becomes

LEMMA LeftAllEffect ==
    ASSUME NEW s \in Snapshots, NEW e \in Events, e.t = "leftall"
    PROVE  Becomes(Apply(s, e), s.call,
                   Cleared(s.part, {d \in Own(s, e.d) : s.part[d] = e.c}), s.members)
BY RemoveDevicesEffect DEF Apply

LEMMA EndedEffect ==
    ASSUME NEW s \in Snapshots, NEW e \in Events, e.t = "ended"
    PROVE  IF s.call \in {NoCall, e.c} THEN Becomes(Apply(s, e), NoCall, Nobody, s.members)
           ELSE Becomes(Apply(s, e), s.call, s.part, s.members)
<1>1. Apply(s, e) = IF s.call \in {NoCall, e.c} THEN [NoParticipants(s) EXCEPT !.call = NoCall] ELSE s
      BY DEF Apply
<1> QED
    BY <1>1, Bounds, NoParticipantsEffect, SetCall DEF Becomes

LEMMA UserLeftEffect ==
    ASSUME NEW s \in Snapshots, NEW e \in Events, e.t = "userleft"
    PROVE  Becomes(Apply(s, e),
                   IF Own(s, e.d) # {} /\ Own(s, e.d) = Present(s) THEN NoCall ELSE s.call,
                   Cleared(s.part, Own(s, e.d)), s.members \ {e.d})
<1> DEFINE q == [s EXCEPT !.members = @ \ {e.d}]
           r == RemoveDevices(q, Own(s, e.d))
<1>1. q \in Snapshots /\ q.call = s.call /\ q.part = s.part /\ q.members = s.members \ {e.d}
      BY DEF Snapshots
<1>2. Becomes(r, s.call, Cleared(s.part, Own(s, e.d)), s.members \ {e.d})
      BY <1>1, RemoveDevicesEffect
<1>3. Apply(s, e) = IF Present(s) # {} /\ Present(r) = {} THEN [r EXCEPT !.call = NoCall] ELSE r
      BY DEF Apply, ApplyUserLeft
<1>4. Present(r) = Present(s) \ Own(s, e.d)
      BY <1>2 DEF Becomes, Present, Cleared
<1>5. Own(s, e.d) \subseteq Present(s)
      BY DEF Own
<1> HIDE DEF q, r
<1>6. Becomes([r EXCEPT !.call = NoCall], NoCall, Cleared(s.part, Own(s, e.d)), s.members \ {e.d})
      BY <1>2, Bounds, SetCall DEF Becomes
<1> QED
    BY <1>2, <1>3, <1>4, <1>5, <1>6

LEMMA DeletedEffect ==
    ASSUME NEW s \in Snapshots, NEW e \in Events, e.t = "deleted"
    PROVE  Becomes(Apply(s, e), NoCall, Nobody, {})
<1>1. Apply(s, e) = [NoParticipants(s) EXCEPT !.call = NoCall, !.members = {}]
      BY DEF Apply
<1> QED
    BY <1>1, Bounds, NoParticipantsEffect DEF Becomes, Snapshots

LEMMA ApplyType ==
    ASSUME NEW s \in Snapshots, NEW e \in Events
    PROVE  Apply(s, e) \in Snapshots
<1>1. e.t \in {"started", "joined", "changed", "left", "leftall", "ended", "userleft", "deleted"}
      BY DEF Events
<1> QED
    BY <1>1, StartedEffect, JoinedEffect, ChangedEffect, LeftEffect, LeftAllEffect, EndedEffect,
       UserLeftEffect, DeletedEffect DEF Becomes

-----------------------------------------------------------------------------
(* Batches.                                                                *)

\* What CallsDoNotOverlap asks of event e in state q, and of a run.
InPlace(q, e) ==
    /\ e.t = "started" => q.call = NoCall /\ Present(q) = {}
    /\ e.t = "ended" /\ q.call = e.c => Present(q) = {}

Safe(s, es) == \A i \in 1..Len(es) : InPlace(After(s, es, i - 1), es[i])

EndedIn(es) == {es[i].c : i \in {j \in DOMAIN es : es[j].t = "ended"}}

\* The events es lead from s to r, one after the other in place, and end the
\* calls E.
Batch(s, es, r, E) ==
    /\ es \in Seq(Events) /\ r \in Snapshots
    /\ After(s, es, Len(es)) = r
    /\ Safe(s, es)
    /\ EndedIn(es) = E

LEMMA BatchOfNone == ASSUME NEW s \in Snapshots PROVE Batch(s, <<>>, s, {})
<1>1. After(s, <<>>, 0) = s
      BY AfterZero
<1> QED
    BY <1>1 DEF Batch, Safe, EndedIn

LEMMA BatchOfOne ==
    ASSUME NEW s \in Snapshots, NEW e \in Events, InPlace(s, e)
    PROVE  Batch(s, <<e>>, Apply(s, e), IF e.t = "ended" THEN {e.c} ELSE {})
<1> DEFINE es == <<e>>
<1>1. es \in Seq(Events) /\ Len(es) = 1 /\ es[1] = e /\ DOMAIN es = {1}
      OBVIOUS
<1> HIDE DEF es
<1>2. After(s, es, 0) = s
      BY AfterZero
<1>3. After(s, es, 0 + 1) = Apply(After(s, es, 0), es[0 + 1])
      BY AfterNext
<1>4. After(s, es, 1) = Apply(s, e)
      BY <1>1, <1>2, <1>3
<1>5. Safe(s, es)
      BY <1>1, <1>2 DEF Safe
<1>6. EndedIn(es) = IF e.t = "ended" THEN {e.c} ELSE {}
      BY <1>1 DEF EndedIn
<1>7. Batch(s, es, Apply(s, e), IF e.t = "ended" THEN {e.c} ELSE {})
      BY <1>1, <1>4, <1>5, <1>6, ApplyType DEF Batch
<1> QED
    BY <1>7 DEF es

LEMMA BatchConcat ==
    ASSUME NEW s, NEW es, NEW q, NEW E, NEW fs, NEW r, NEW F,
           Batch(s, es, q, E), Batch(q, fs, r, F)
    PROVE  Batch(s, es \o fs, r, E \cup F)
<1> DEFINE gs == es \o fs
<1>1. /\ es \in Seq(Events) /\ fs \in Seq(Events) /\ gs \in Seq(Events)
      /\ Len(es) \in Nat /\ Len(fs) \in Nat /\ Len(gs) = Len(es) + Len(fs)
      BY DEF Batch
<1>2. \A i \in 1..Len(es) : gs[i] = es[i]
      BY <1>1
<1>3. \A i \in 1..Len(fs) : gs[Len(es) + i] = fs[i]
      BY <1>1
<1>4. \A i \in 0..Len(es) : After(s, gs, i) = After(s, es, i)
      BY <1>1, AfterPrefix
<1>5. \A i \in 0..Len(fs) : After(s, gs, Len(es) + i) = After(q, fs, i)
      BY <1>1, AfterConcat DEF Batch
<1> HIDE DEF gs
<1>6. After(s, gs, Len(gs)) = r
      BY <1>1, <1>5 DEF Batch
<1>7. \A i \in 1..Len(gs) : i \in 1..Len(es) \/ \E k \in 1..Len(fs) : i = Len(es) + k
  <2> SUFFICES ASSUME NEW i \in 1..Len(gs), ~(i \in 1..Len(es))
               PROVE  \E k \in 1..Len(fs) : i = Len(es) + k
      OBVIOUS
  <2>1. i - Len(es) \in 1..Len(fs) /\ i = Len(es) + (i - Len(es))
        BY <1>1
  <2> QED
      BY <2>1
<1>8. Safe(s, gs)
  <2> SUFFICES ASSUME NEW i \in 1..Len(gs) PROVE InPlace(After(s, gs, i - 1), gs[i])
      BY DEF Safe
  <2>1. CASE i \in 1..Len(es)
    <3>1. After(s, gs, i - 1) = After(s, es, i - 1)
          BY <1>1, <1>4, <2>1
    <3> QED
        BY <1>2, <2>1, <3>1 DEF Batch, Safe
  <2>2. ASSUME NEW k \in 1..Len(fs), i = Len(es) + k PROVE InPlace(After(s, gs, i - 1), gs[i])
    <3>1. k - 1 \in 0..Len(fs) /\ i - 1 = Len(es) + (k - 1)
          BY <1>1, <2>2
    <3>2. After(s, gs, i - 1) = After(q, fs, k - 1)
          BY <1>5, <3>1
    <3> QED
        BY <1>3, <2>2, <3>2 DEF Batch, Safe
  <2> QED
      BY <1>7, <2>1, <2>2
<1>9. EndedIn(gs) = EndedIn(es) \cup EndedIn(fs)
  <2>1. DOMAIN es = 1..Len(es) /\ DOMAIN fs = 1..Len(fs) /\ DOMAIN gs = 1..Len(gs)
        BY <1>1
  <2>2. 1..Len(es) \subseteq 1..Len(gs) /\ \A k \in 1..Len(fs) : Len(es) + k \in 1..Len(gs)
        BY <1>1
  <2>3. ASSUME NEW c \in EndedIn(gs) PROVE c \in EndedIn(es) \cup EndedIn(fs)
    <3>1. PICK i \in 1..Len(gs) : gs[i].t = "ended" /\ gs[i].c = c
          BY <2>1, <2>3 DEF EndedIn
    <3>2. CASE i \in 1..Len(es)
          BY <1>2, <2>1, <3>1, <3>2 DEF EndedIn
    <3>3. ASSUME NEW k \in 1..Len(fs), i = Len(es) + k PROVE c \in EndedIn(fs)
          BY <1>3, <2>1, <3>1, <3>3 DEF EndedIn
    <3> QED
        BY <1>7, <3>2, <3>3
  <2>4. ASSUME NEW c \in EndedIn(es) PROVE c \in EndedIn(gs)
        BY <1>2, <2>1, <2>2, <2>4 DEF EndedIn
  <2>5. ASSUME NEW c \in EndedIn(fs) PROVE c \in EndedIn(gs)
        BY <1>3, <2>1, <2>2, <2>5 DEF EndedIn
  <2> QED
      BY <2>3, <2>4, <2>5
<1>10. Batch(s, gs, r, E \cup F)
      BY <1>1, <1>6, <1>8, <1>9 DEF Batch
<1> QED
    BY <1>10 DEF gs

\* SetToSeq lists each element of a finite set.
LEMMA SetToSeqLists ==
    ASSUME NEW X, IsFiniteSet(X)
    PROVE  /\ SetToSeq(X) \in Seq(X) /\ Len(SetToSeq(X)) = Cardinality(X)
           /\ \A x \in X : \E i \in 1..Cardinality(X) : SetToSeq(X)[i] = x
<1> DEFINE n == Cardinality(X)
<1>1. n \in Nat /\ ExistsBijection(1..n, X)
      BY FS_CardinalityType
<1>2. PICK g : g \in Bijection(1..n, X)
      BY <1>1 DEF ExistsBijection
<1>3. g \in [1..n -> X] /\ IsInjective(g)
      BY <1>2 DEF Bijection, Injection
<1>4. SetToSeq(X) \in [1..n -> X] /\ IsInjective(SetToSeq(X))
      BY <1>3 DEF SetToSeq
<1> DEFINE f == SetToSeq(X)
<1> HIDE DEF f, n
<1>5. f \in Injection(1..n, X)
      BY <1>4 DEF Injection, f
<1>6. IsFiniteSet(1..n) /\ Cardinality(1..n) = n
      BY <1>1, FS_Interval
<1>7. f \in Surjection(1..n, X)
      BY <1>5, <1>6, FS_Injection DEF n
<1>8. f \in Seq(X) /\ Len(f) = n
      BY <1>1, <1>4 DEF f
<1> QED
    BY <1>7, <1>8 DEF Surjection, f, n

\* The leaves of the devices R, in any order.
LEMMA LeavesBatch ==
    ASSUME NEW s \in Snapshots, NEW R \in SUBSET Devices, \A d \in R : s.part[d] = s.call
    PROVE  \E q : /\ Batch(s, SetToSeq({Ev("left", d, s.call) : d \in R}), q, {})
                  /\ Becomes(q, s.call, Cleared(s.part, R), s.members)
<1> DEFINE X == {Ev("left", d, s.call) : d \in R}
           L == SetToSeq(X)
           n == Cardinality(X)
           Out(m) == {L[k].d : k \in 1..m}
<1>0. s.call \in 0..MaxCalls
      BY DEF Snapshots
<1>1. \A x \in X : x \in Events /\ x.t = "left" /\ x.c = s.call /\ x.d \in R
      BY <1>0 DEF Ev, Events
<1>2. \A d \in R : \E x \in X : x.d = d
  <2> SUFFICES ASSUME NEW d \in R PROVE \E x \in X : x.d = d
      OBVIOUS
  <2>1. Ev("left", d, s.call) \in X
        OBVIOUS
  <2>2. Ev("left", d, s.call).d = d
        BY DEF Ev
  <2> QED
      BY <2>1, <2>2
<1>3. IsFiniteSet(X)
  <2> DEFINE f == [d \in R |-> Ev("left", d, s.call)]
  <2>1. f \in Surjection(R, X)
        BY DEF Surjection
  <2>2. IsFiniteSet(R)
        BY FS_Subset
  <2> HIDE DEF f, X
  <2> QED
      BY <2>1, <2>2, FS_Surjection
<1> HIDE DEF X
<1>4. /\ L \in Seq(X) /\ Len(L) = n /\ n \in Nat
      /\ \A x \in X : \E i \in 1..n : L[i] = x
      BY <1>3, SetToSeqLists, FS_CardinalityType
<1> HIDE DEF L, n
<1>5. \A i \in 1..n : L[i] \in X
      BY <1>4
<1>6. L \in Seq(Events) /\ DOMAIN L = 1..n
      BY <1>1, <1>4
<1> DEFINE S == {m \in Nat : m <= n =>
                     Becomes(After(s, L, m), s.call, Cleared(s.part, Out(m)), s.members)}
<1>7. 0 \in S
  <2>1. Out(0) = {}
        OBVIOUS
  <2>2. Cleared(s.part, {}) = s.part
        BY DEF Cleared, Snapshots
  <2> QED
      BY <2>1, <2>2, AfterZero DEF Becomes
<1>8. ASSUME NEW m \in Nat, m \in S PROVE m + 1 \in S
  <2> SUFFICES ASSUME m + 1 <= n
               PROVE  Becomes(After(s, L, m + 1), s.call, Cleared(s.part, Out(m + 1)), s.members)
      OBVIOUS
  <2> DEFINE q == After(s, L, m)
             e == L[m + 1]
  <2>1. Becomes(q, s.call, Cleared(s.part, Out(m)), s.members)
        BY <1>8, <1>4
  <2>2. After(s, L, m + 1) = Apply(q, e)
        BY AfterNext
  <2>3. e \in Events /\ e.t = "left" /\ e.c = s.call /\ e.d \in R
        BY <1>1, <1>4, <1>5
  <2>4. Out(m + 1) = Out(m) \cup {e.d}
        OBVIOUS
  <2> HIDE DEF q, e, Out
  <2>5. Becomes(Apply(q, e), q.call, IF q.part[e.d] = e.c THEN Cleared(q.part, {e.d}) ELSE q.part,
                q.members)
        BY <2>1, <2>3, LeftEffect DEF Becomes
  <2>6. (IF q.part[e.d] = e.c THEN Cleared(q.part, {e.d}) ELSE q.part)
            = Cleared(s.part, Out(m) \cup {e.d})
    <3>1. e.d \in Devices /\ s.part[e.d] = e.c
          BY <2>3
    <3>2. q.part = Cleared(s.part, Out(m))
          BY <2>1 DEF Becomes
    <3> QED
        BY <3>1, <3>2 DEF Cleared
  <2> QED
      BY <2>1, <2>2, <2>4, <2>5, <2>6 DEF Becomes
<1>9. n \in S
  <2> HIDE DEF S
  <2> QED
      BY <1>4, <1>7, <1>8, SetInduction
<1>10. Out(n) = R
      BY <1>1, <1>2, <1>4, <1>5
<1>11. Safe(s, L)
      BY <1>1, <1>4, <1>5 DEF Safe, InPlace
<1>12. EndedIn(L) = {}
      BY <1>1, <1>5, <1>6 DEF EndedIn
<1> HIDE DEF Out
<1>13. Becomes(After(s, L, n), s.call, Cleared(s.part, R), s.members)
      BY <1>4, <1>9, <1>10
<1>14. Batch(s, L, After(s, L, n), {})
      BY <1>4, <1>6, <1>11, <1>12, <1>13 DEF Batch, Becomes
<1> QED
    BY <1>13, <1>14 DEF L, X

LEMMA PresentAfter ==
    ASSUME NEW q, NEW c, NEW P, NEW M, Becomes(q, c, P, M)
    PROVE  Present(q) = {d \in Devices : P[d] # NoCall}
BY DEF Becomes, Present

\* A join removes the account's other devices when it is a transfer, and
\* opens a call when there is none to join.
LEMMA JoinBatchEffect ==
    ASSUME NEW s \in Snapshots, Settled(s), NEW j \in Joins, NEW c \in CallIDs,
           NewCall(s, j) \/ c = s.call
    PROVE  \E r : /\ Batch(s, JoinBatch(s, j, c), r, IF RollsOver(s, j) THEN {s.call} ELSE {})
                  /\ Becomes(r, c,
                             [(IF NewCall(s, j) THEN Nobody ELSE Cleared(s.part, Removed(s, j)))
                                  EXCEPT ![j.d] = c], s.members)
<1> DEFINE R  == Removed(s, j)
           L  == SetToSeq({Ev("left", d, s.call) : d \in R})
           E2 == IF RollsOver(s, j) THEN <<Ev("ended", j.d, s.call)>> ELSE <<>>
           E3 == IF NewCall(s, j) THEN <<Ev("started", j.d, c)>> ELSE <<>>
           E4 == IF j.d \in Present(s) THEN <<>> ELSE <<Ev("joined", j.d, c)>>
<1>1. /\ j.d \in Devices /\ c \in 0..MaxCalls /\ s.call \in 0..MaxCalls
      /\ s.part \in [Devices -> 0..MaxCalls]
      BY Bounds DEF Joins, Snapshots
<1>2. /\ R \subseteq Present(s) /\ R \in SUBSET Devices /\ j.d \notin R
      /\ \A d \in R : s.part[d] = s.call
      BY DEF Removed, Own, Present, Settled
<1>3. NewCall(s, j) => j.d \notin Present(s) /\ Cleared(s.part, R) = Nobody
      BY DEF NewCall, RollsOver, Present, Settled, Cleared, Nobody
<1>4. RollsOver(s, j) => NewCall(s, j)
      BY DEF NewCall
<1>5. NewCall(s, j) /\ ~RollsOver(s, j) => s.call = NoCall
      BY DEF NewCall
<1>6. JoinBatch(s, j, c) = ((L \o E2) \o E3) \o E4
      BY DEF JoinBatch
<1> HIDE DEF R
<1>7. PICK q1 : Batch(s, L, q1, {}) /\ Becomes(q1, s.call, Cleared(s.part, R), s.members)
      BY <1>2, LeavesBatch
<1> HIDE DEF L
<1>8. PICK q2 : /\ Batch(q1, E2, q2, IF RollsOver(s, j) THEN {s.call} ELSE {})
                /\ Becomes(q2, IF RollsOver(s, j) THEN NoCall ELSE s.call, Cleared(s.part, R), s.members)
  <2>1. CASE RollsOver(s, j)
    <3> DEFINE e == Ev("ended", j.d, s.call)
    <3>1. e \in Events /\ e.t = "ended" /\ e.c = s.call
          BY <1>1 DEF Ev, Events
    <3>2. Present(q1) = {}
          BY <1>3, <1>4, <1>7, <2>1, PresentAfter DEF Nobody
    <3>3. Batch(q1, <<e>>, Apply(q1, e), {s.call})
          BY <1>7, <3>1, <3>2, BatchOfOne DEF InPlace, Becomes
    <3>4. Becomes(Apply(q1, e), NoCall, Nobody, s.members)
          BY <1>7, <3>1, EndedEffect DEF Becomes
    <3> QED
        BY <1>3, <1>4, <2>1, <3>3, <3>4
  <2>2. CASE ~RollsOver(s, j)
        BY <1>7, <2>2, BatchOfNone DEF Becomes
  <2> QED
      BY <2>1, <2>2
<1> HIDE DEF E2
<1>9. PICK q3 : /\ Batch(q2, E3, q3, {})
                /\ Becomes(q3, c, Cleared(s.part, R), s.members)
  <2>1. CASE NewCall(s, j)
    <3> DEFINE e == Ev("started", j.d, c)
    <3>1. e \in Events /\ e.t = "started" /\ e.c = c
          BY <1>1 DEF Ev, Events
    <3>2. Present(q2) = {} /\ q2.call = NoCall
          BY <1>3, <1>5, <1>8, <2>1, PresentAfter DEF Nobody, Becomes
    <3>3. Batch(q2, <<e>>, Apply(q2, e), {})
          BY <1>8, <3>1, <3>2, BatchOfOne DEF InPlace, Becomes
    <3>4. Becomes(Apply(q2, e), c, Nobody, s.members)
          BY <1>8, <3>1, StartedEffect DEF Becomes
    <3> QED
        BY <1>3, <2>1, <3>3, <3>4
  <2>2. CASE ~NewCall(s, j)
    <3>1. c = s.call /\ ~RollsOver(s, j)
          BY <2>2, <1>4
    <3>2. E3 = <<>>
          BY <2>2
    <3> QED
        BY <1>8, <3>1, <3>2, BatchOfNone DEF Becomes
  <2> QED
      BY <2>1, <2>2
<1> HIDE DEF E3
<1>10. PICK r : /\ Batch(q3, E4, r, {})
                /\ Becomes(r, c, [Cleared(s.part, R) EXCEPT ![j.d] = c], s.members)
  <2>1. CASE j.d \notin Present(s)
    <3> DEFINE e == Ev("joined", j.d, c)
    <3>1. e \in Events /\ e.t = "joined" /\ e.c = c /\ e.d = j.d
          BY <1>1 DEF Ev, Events
    <3>2. Batch(q3, <<e>>, Apply(q3, e), {})
          BY <1>9, <3>1, BatchOfOne DEF InPlace, Becomes
    <3>3. Becomes(Apply(q3, e), c, [Cleared(s.part, R) EXCEPT ![j.d] = c], s.members)
          BY <1>9, <3>1, JoinedEffect DEF Becomes
    <3> QED
        BY <2>1, <3>2, <3>3
  <2>2. CASE j.d \in Present(s)
    <3>1. c = s.call /\ s.part[j.d] = c
          BY <1>3, <2>2 DEF Settled, Present
    <3>2. [Cleared(s.part, R) EXCEPT ![j.d] = c] = Cleared(s.part, R)
          BY <1>2, <3>1 DEF Cleared
    <3>3. E4 = <<>>
          BY <2>2
    <3> QED
        BY <1>9, <3>2, <3>3, BatchOfNone DEF Becomes
  <2> QED
      BY <2>1, <2>2
<1> HIDE DEF E4
<1> DEFINE X == IF RollsOver(s, j) THEN {s.call} ELSE {}
<1>11. Batch(s, L \o E2, q2, {} \cup X)
      BY <1>7, <1>8, BatchConcat
<1>12. Batch(s, (L \o E2) \o E3, q3, ({} \cup X) \cup {})
      BY <1>9, <1>11, BatchConcat
<1>13. Batch(s, ((L \o E2) \o E3) \o E4, r, (({} \cup X) \cup {}) \cup {})
      BY <1>10, <1>12, BatchConcat
<1>14. (({} \cup X) \cup {}) \cup {} = X
      OBVIOUS
<1>15. (IF NewCall(s, j) THEN Nobody ELSE Cleared(s.part, R)) = Cleared(s.part, R)
      BY <1>3
<1> QED
    BY <1>6, <1>10, <1>13, <1>14, <1>15 DEF R

\* The last participant to leave ends the call.
LEMMA LeftBatchEffect ==
    ASSUME NEW s \in Snapshots, Settled(s), NEW d \in Devices, s.part[d] # NoCall
    PROVE  \E r : /\ Batch(s, LeftBatch(s, d), r, IF IsLast(s, d) THEN {s.call} ELSE {})
                  /\ Becomes(r, IF IsLast(s, d) THEN NoCall ELSE s.call,
                             Cleared(s.part, {d}), s.members)
<1> DEFINE e1 == Ev("left", d, s.part[d])
           e2 == Ev("ended", d, s.part[d])
           q  == Apply(s, e1)
<1>1. /\ s.part[d] = s.call /\ s.call \in 0..MaxCalls
      /\ e1 \in Events /\ e1.t = "left" /\ e1.d = d /\ e1.c = s.call
      /\ e2 \in Events /\ e2.t = "ended" /\ e2.c = s.call
      BY DEF Settled, Snapshots, Ev, Events
<1>2. LeftBatch(s, d) = <<e1>> \o (IF IsLast(s, d) THEN <<e2>> ELSE <<>>)
      BY DEF LeftBatch
<1> HIDE DEF e1, e2
<1>3. Batch(s, <<e1>>, q, {})
      BY <1>1, BatchOfOne DEF InPlace
<1>4. Becomes(q, s.call, Cleared(s.part, {d}), s.members)
      BY <1>1, LeftEffect
<1> HIDE DEF q
<1>5. CASE IsLast(s, d)
  <2>1. Cleared(s.part, {d}) = Nobody
        BY <1>5 DEF IsLast, Present, Cleared, Nobody
  <2>2. Present(q) = {}
        BY <1>4, <2>1, PresentAfter DEF Nobody
  <2>3. Batch(q, <<e2>>, Apply(q, e2), {s.call})
        BY <1>1, <1>4, <2>2, BatchOfOne DEF InPlace, Becomes
  <2>4. Becomes(Apply(q, e2), NoCall, Nobody, s.members)
        BY <1>1, <1>4, EndedEffect DEF Becomes
  <2>5. Batch(s, <<e1>> \o <<e2>>, Apply(q, e2), {} \cup {s.call})
        BY <1>3, <2>3, BatchConcat
  <2> QED
      BY <1>2, <1>5, <2>1, <2>4, <2>5
<1>6. CASE ~IsLast(s, d)
  <2>1. Batch(q, <<>>, q, {})
        BY <1>4, BatchOfNone DEF Becomes
  <2>2. Batch(s, <<e1>> \o <<>>, q, {} \cup {})
        BY <1>3, <2>1, BatchConcat
  <2> QED
      BY <1>2, <1>4, <1>6, <2>2
<1> QED
    BY <1>5, <1>6

\* An account that leaves the room takes its devices out of the call, and
\* ends it when nobody else is in it.
Empties(s, u) == Own(s, u) # {} /\ Own(s, u) = Present(s)

LEMMA RoomLeaveBatchEffect ==
    ASSUME NEW s \in Snapshots, Settled(s), NEW u \in Users
    PROVE  \E r : /\ Batch(s, RoomLeaveBatch(s, u), r, IF Empties(s, u) THEN {s.call} ELSE {})
                  /\ Becomes(r, IF Empties(s, u) THEN NoCall ELSE s.call,
                             Cleared(s.part, Own(s, u)), s.members \ {u})
<1> DEFINE own == Own(s, u)
           e1 == Ev("userleft", u, NoCall)
           e2 == Ev("leftall", u, s.call)
           e3 == Ev("ended", u, s.call)
           E2 == IF own = {} THEN <<>> ELSE <<e2>>
           E3 == IF Empties(s, u) THEN <<e3>> ELSE <<>>
           q1 == Apply(s, e1)
           c  == IF Empties(s, u) THEN NoCall ELSE s.call
<1>1. /\ e1 \in Events /\ e1.t = "userleft" /\ e1.d = u
      /\ e2 \in Events /\ e2.t = "leftall" /\ e2.d = u
      /\ e3 \in Events /\ e3.t = "ended" /\ e3.c = s.call
      BY Bounds DEF Snapshots, Ev, Events
<1>2. RoomLeaveBatch(s, u) = (<<e1>> \o E2) \o E3
      BY DEF RoomLeaveBatch, Empties
<1> HIDE DEF e1, e2, e3
<1>3. Batch(s, <<e1>>, q1, {})
      BY <1>1, BatchOfOne DEF InPlace
<1>4. Becomes(q1, c, Cleared(s.part, own), s.members \ {u})
      BY <1>1, UserLeftEffect DEF Empties
<1> HIDE DEF q1
<1>5. PICK q2 : Batch(q1, E2, q2, {}) /\ Becomes(q2, c, Cleared(s.part, own), s.members \ {u})
  <2>1. CASE own = {}
        BY <1>4, <2>1, BatchOfNone DEF Becomes
  <2>2. CASE own # {}
    <3>1. Batch(q1, <<e2>>, Apply(q1, e2), {})
          BY <1>1, <1>4, BatchOfOne DEF InPlace, Becomes
    <3>2. Own(q1, u) = {}
          BY <1>4 DEF Becomes, Own, Present, Cleared
    <3>3. Cleared(q1.part, {d \in Own(q1, u) : q1.part[d] = e2.c}) = q1.part
          BY <1>4, <3>2 DEF Becomes, Cleared, Snapshots
    <3>4. Becomes(Apply(q1, e2), c, Cleared(s.part, own), s.members \ {u})
      <4>1. q1 \in Snapshots /\ q1.call = c /\ q1.members = s.members \ {u}
            BY <1>4 DEF Becomes
      <4>2. Becomes(Apply(q1, e2), q1.call,
                    Cleared(q1.part, {d \in Own(q1, u) : q1.part[d] = e2.c}), q1.members)
            BY <1>1, <4>1, LeftAllEffect
      <4> QED
          BY <1>4, <3>3, <4>1, <4>2 DEF Becomes
    <3> QED
        BY <2>2, <3>1, <3>4
  <2> QED
      BY <2>1, <2>2
<1> HIDE DEF E2
<1>6. PICK r : /\ Batch(q2, E3, r, IF Empties(s, u) THEN {s.call} ELSE {})
               /\ Becomes(r, c, Cleared(s.part, own), s.members \ {u})
  <2>1. CASE Empties(s, u)
    <3>1. Cleared(s.part, own) = Nobody
          BY <2>1 DEF Empties, Present, Cleared, Nobody
    <3>2. Present(q2) = {}
          BY <1>5, <3>1, PresentAfter DEF Nobody
    <3>3. Batch(q2, <<e3>>, Apply(q2, e3), {s.call})
          BY <1>1, <1>5, <3>2, BatchOfOne DEF InPlace, Becomes
    <3>4. Becomes(Apply(q2, e3), NoCall, Nobody, s.members \ {u})
          BY <1>1, <1>5, <2>1, EndedEffect DEF Becomes
    <3> QED
        BY <2>1, <3>1, <3>3, <3>4
  <2>2. CASE ~Empties(s, u)
        BY <1>5, <2>2, BatchOfNone DEF Becomes
  <2> QED
      BY <2>1, <2>2
<1> HIDE DEF E3
<1> DEFINE X == IF Empties(s, u) THEN {s.call} ELSE {}
<1>7. Batch(s, <<e1>> \o E2, q2, {} \cup {})
      BY <1>3, <1>5, BatchConcat
<1>8. Batch(s, (<<e1>> \o E2) \o E3, r, ({} \cup {}) \cup X)
      BY <1>6, <1>7, BatchConcat
<1>9. ({} \cup {}) \cup X = X
      OBVIOUS
<1> QED
    BY <1>2, <1>6, <1>8, <1>9

-----------------------------------------------------------------------------
(* Storing a batch.                                                        *)
LEMMA TypesFollow == RoomOK /\ HandlersOK => TypeOK
<1> SUFFICES ASSUME RoomOK, HandlersOK PROVE TypeOK
    OBVIOUS
<1>1. calls \in Nat /\ calls <= MaxCalls /\ 1..calls \subseteq CallIDs
      BY Bounds DEF RoomOK, CallIDs
<1>2. ended \subseteq CallIDs /\ tokens \subseteq Devices \X CallIDs
      BY <1>1 DEF RoomOK
<1> QED
    BY <1>2 DEF RoomOK, HandlersOK, TypeOK, Joins

LEMMA TailIsStored == ASSUME RoomOK, AtTail PROVE view = stored
<1>1. Len(<<>>) = 0
      OBVIOUS
<1> QED
    BY <1>1, AfterZero DEF RoomOK, AtTail, Caught

LEMMA PendIsBatch == ASSUME RoomOK PROVE Batch(view, pend, stored, EndedIn(pend))
<1>1. DOMAIN pend = 1..Len(pend)
      BY DEF RoomOK
<1>2. Safe(view, pend)
      BY <1>1 DEF RoomOK, CallsDoNotOverlap, Safe, InPlace
<1> QED
    BY <1>2 DEF RoomOK, Caught, Batch

LEMMA StoreKeepsRoom ==
    ASSUME RoomOK, NEW es, NEW K, K \subseteq CallIDs, NEW r, NEW E, Batch(stored, es, r, E),
           StoreWithKeys(es, K),
           calls' \in calls..MaxCalls, r.call \in 0..calls', E \subseteq 1..calls,
           Settled(r), r.call \notin ended \cup E
    PROVE  RoomOK' /\ stored' = r /\ ended' = ended \cup E /\ tokens \subseteq tokens'
<1>1. stored' = r /\ view' = view /\ pend' = pend \o es /\ r \in Snapshots
      BY DEF StoreWithKeys, Batch
<1>2. ended' = ended \cup E
      BY DEF StoreWithKeys, Batch, EndedIn
<1>3. Batch(view, pend', stored', EndedIn(pend) \cup E)
      BY <1>1, PendIsBatch, BatchConcat
<1>4. pend' \in Seq(Events) /\ After(view, pend', Len(pend')) = stored' /\ Safe(view, pend')
      BY <1>3 DEF Batch
<1>5. Caught'
      BY <1>1, <1>4 DEF Caught
<1>6. CallsDoNotOverlap'
  <2>1. DOMAIN pend' = 1..Len(pend')
        BY <1>4
  <2> QED
      BY <1>1, <1>4, <2>1 DEF CallsDoNotOverlap, Safe, InPlace, Present
<1>7. calls \in Nat /\ calls' \in 0..MaxCalls /\ 1..calls \subseteq 1..calls'
      BY Bounds DEF RoomOK
<1>8. GetCallToken(r, K) \subseteq Devices \X (1..calls')
  <2> SUFFICES ASSUME NEW x \in GetCallToken(r, K) PROVE x \in Devices \X (1..calls')
      OBVIOUS
  <2>1. PICK d \in Devices : x = <<d, r.call>> /\ r.call \in K
        BY DEF GetCallToken, Present
  <2>2. r.call \in 1..calls'
        BY <1>7, <2>1, Bounds DEF NoCall
  <2> QED
      BY <2>1, <2>2
<1>9. tokens' = tokens \cup GetCallToken(r, K)
      BY <1>1 DEF StoreWithKeys
<1>10. ended' \subseteq 1..calls' /\ tokens' \subseteq Devices \X (1..calls')
      BY <1>2, <1>7, <1>8, <1>9 DEF RoomOK
<1>11. Settled(stored') /\ stored'.call \notin ended' /\ stored'.call \in 0..calls'
      BY <1>1, <1>2
<1>12. RoomOK'
      BY <1>1, <1>4, <1>5, <1>6, <1>7, <1>10, <1>11 DEF RoomOK, Settled, Present
<1> QED
    BY <1>1, <1>2, <1>9, <1>12

\* Steps that leave the room alone, or only hand out a call ID.
LEMMA RoomKept ==
    ASSUME RoomOK, UNCHANGED room, calls' \in calls..MaxCalls
    PROVE  RoomOK'
<1>1. calls \in Nat /\ calls' \in 0..MaxCalls /\ 1..calls \subseteq 1..calls' /\ 0..calls \subseteq 0..calls'
      BY Bounds DEF RoomOK
<1>2. UNCHANGED <<view, stored, pend, ended, tokens>>
      BY DEF room
<1>3. Caught' /\ CallsDoNotOverlap' /\ Settled(stored)'
      BY <1>2 DEF RoomOK, Caught, CallsDoNotOverlap, Settled, Present
<1> QED
    BY <1>1, <1>2, <1>3 DEF RoomOK

\* The projection applies the next event.
LEMMA ApplyNextKeepsRoom == ASSUME RoomOK, ApplyNext PROVE RoomOK'
<1>1. /\ pend # <<>> /\ view' = Apply(view, Head(pend)) /\ pend' = Tail(pend)
      /\ UNCHANGED <<stored, ended, tokens, calls>>
      BY DEF ApplyNext
<1>2. /\ pend \in Seq(Events) /\ Len(pend) \in Nat \ {0} /\ Head(pend) \in Events
      /\ pend' \in Seq(Events) /\ Len(pend') = Len(pend) - 1
      /\ \A i \in 1..Len(pend') : pend'[i] = pend[i + 1]
      BY <1>1 DEF RoomOK
<1>3. view' \in Snapshots
      BY <1>1, <1>2, ApplyType DEF RoomOK
<1>4. \A n \in Nat : n < Len(pend) => After(view, pend, n + 1) = After(view', pend', n)
      BY <1>1, <1>2, AfterShift
<1>5. Caught'
  <2>1. Len(pend') \in Nat /\ Len(pend') < Len(pend) /\ Len(pend') + 1 = Len(pend)
        BY <1>2
  <2> QED
      BY <1>1, <1>4, <2>1 DEF RoomOK, Caught
<1>6. Safe(view', pend')
  <2> SUFFICES ASSUME NEW i \in 1..Len(pend') PROVE InPlace(After(view', pend', i - 1), pend'[i])
      BY DEF Safe
  <2>1. i - 1 \in Nat /\ i - 1 < Len(pend) /\ (i - 1) + 1 = i /\ i + 1 \in 1..Len(pend) /\ (i + 1) - 1 = i
        BY <1>2
  <2>2. After(view', pend', i - 1) = After(view, pend, (i + 1) - 1)
        BY <1>4, <2>1
  <2>3. InPlace(After(view, pend, (i + 1) - 1), pend[i + 1])
        BY <2>1, PendIsBatch DEF Batch, Safe
  <2> QED
      BY <1>2, <2>2, <2>3
<1>7. CallsDoNotOverlap'
  <2>1. DOMAIN pend' = 1..Len(pend')
        BY <1>2
  <2> QED
      BY <1>6, <2>1 DEF CallsDoNotOverlap, Safe, InPlace, Present
<1> QED
    BY <1>1, <1>2, <1>3, <1>5, <1>7 DEF RoomOK, Settled, Present

-----------------------------------------------------------------------------
(* The room events of each handler: the room stays in order, the limit      *)
(* holds, and CallLifecycle takes a step.                                   *)

\* A step of CallLifecycle other than the deletion of the room.
Lives ==
    \/ Lifecycle!Change \/ Lifecycle!Start \/ Lifecycle!End \/ Lifecycle!HandOver
    \/ Lifecycle!EndRecorded
    \/ UNCHANGED <<stored.call, Present(stored), ended>>

WithinLimit(s, R) == \A u \in Users : Cardinality(Own(s, u) \ R) <= MaxDevices

LEMMA SmallSets ==
    /\ \A T \in SUBSET Devices : IsFiniteSet(T) /\ Cardinality(T) \in Nat
    /\ \A d, T : T \subseteq {d} => Cardinality(T) <= 1
    /\ \A T \in SUBSET Devices : \A U \in SUBSET T : Cardinality(U) <= Cardinality(T)
    /\ \A T \in SUBSET Devices, d \in Devices : Cardinality(T \cup {d}) <= Cardinality(T) + 1
<1>1. \A T \in SUBSET Devices : IsFiniteSet(T) /\ Cardinality(T) \in Nat
      BY FS_Subset, FS_CardinalityType
<1>2. ASSUME NEW d, NEW T, T \subseteq {d} PROVE Cardinality(T) <= 1
  <2>1. IsFiniteSet({d}) /\ Cardinality({d}) = 1
        BY FS_Singleton
  <2> QED
      BY <1>2, <2>1, FS_Subset
<1>3. ASSUME NEW T \in SUBSET Devices, NEW U \in SUBSET T PROVE Cardinality(U) <= Cardinality(T)
      BY <1>1, FS_Subset
<1>4. ASSUME NEW T \in SUBSET Devices, NEW d \in Devices
      PROVE  Cardinality(T \cup {d}) <= Cardinality(T) + 1
      BY <1>1, FS_AddElement
<1> QED
    BY <1>1, <1>2, <1>3, <1>4

\* Devices that leave, and are forgotten as revived, take nothing from the limit.
LEMMA FewerKeepLimit ==
    ASSUME NEW s, NEW r, NEW R, NEW Q, WithinLimit(s, R),
           \A u \in Users : Own(r, u) \ Q \subseteq Own(s, u) \ R
    PROVE  WithinLimit(r, Q)
<1> SUFFICES ASSUME NEW u \in Users PROVE Cardinality(Own(r, u) \ Q) <= MaxDevices
    BY DEF WithinLimit
<1> DEFINE T == Own(s, u) \ R
           U == Own(r, u) \ Q
<1>1. T \in SUBSET Devices /\ U \in SUBSET T /\ Cardinality(T) <= MaxDevices
      BY DEF WithinLimit, Own, Present
<1> HIDE DEF T, U
<1>2. Cardinality(U) <= Cardinality(T) /\ Cardinality(U) \in Nat /\ Cardinality(T) \in Nat
      BY <1>1, SmallSets
<1>3. Cardinality(U) <= MaxDevices
      BY <1>1, <1>2, Bounds
<1> QED
    BY <1>3 DEF U

\* The answers of JoinReturns keep an account within the limit.
LEMMA JoinKeepsLimit ==
    ASSUME NEW s \in Snapshots, Settled(s), NEW j \in Joins, ~JoinReturns(s, j),
           NEW c \in CallIDs, NEW R, WithinLimit(s, R), NEW r,
           Becomes(r, c, [(IF NewCall(s, j) THEN Nobody ELSE Cleared(s.part, Removed(s, j)))
                              EXCEPT ![j.d] = c], s.members)
    PROVE  WithinLimit(r, R \ {j.d})
<1> SUFFICES ASSUME NEW u \in Users PROVE Cardinality(Own(r, u) \ (R \ {j.d})) <= MaxDevices
    BY DEF WithinLimit
<1> DEFINE own == Own(s, u)
           T == Own(r, u) \ (R \ {j.d})
<1>1. j.d \in Devices /\ j.mode \in Modes
      BY DEF Joins
<1>2. \A d \in Own(r, u) : d = j.d \/ (d \in own /\ ~NewCall(s, j) /\ d \notin Removed(s, j))
      BY <1>1 DEF Becomes, Own, Present, Nobody, Cleared
<1>3. own \in SUBSET Devices /\ T \in SUBSET Devices /\ Own(r, u) \in SUBSET Devices
      BY DEF Own, Present
<1>4. Cardinality(own \ R) <= MaxDevices
      BY DEF WithinLimit
<1>5. CASE Owner[j.d] # u
  <2>1. T \subseteq own \ R
        BY <1>2, <1>5 DEF Own
  <2> HIDE DEF own, T
  <2>2. own \ R \in SUBSET Devices /\ T \in SUBSET (own \ R)
        BY <1>3, <2>1
  <2>3. Cardinality(T) <= Cardinality(own \ R) /\ Cardinality(T) \in Nat /\ Cardinality(own \ R) \in Nat
        BY <1>3, <2>2, SmallSets
  <2>4. Cardinality(T) <= MaxDevices
        BY <1>4, <2>3, Bounds
  <2> QED
      BY <2>4 DEF T
<1>6. CASE Owner[j.d] = u /\ (NewCall(s, j) \/ j.mode = "transfer" \/ own = {})
  <2>1. T \subseteq {j.d}
        BY <1>2, <1>6 DEF Removed
  <2> HIDE DEF own, T
  <2>2. Cardinality(T) <= 1 /\ Cardinality(T) \in Nat
        BY <1>3, <2>1, SmallSets
  <2>3. Cardinality(T) <= MaxDevices
        BY <2>2, Bounds
  <2> QED
      BY <2>3 DEF T
<1>7. CASE Owner[j.d] = u /\ j.mode # "transfer" /\ own # {}
  <2>1. j.mode = "companion" /\ ~(Cardinality(own) >= MaxDevices)
        BY <1>1, <1>7 DEF JoinReturns, Modes
  <2>2. T \in SUBSET (own \cup {j.d}) /\ own \cup {j.d} \in SUBSET Devices
        BY <1>1, <1>2, <1>3
  <2> HIDE DEF own, T
  <2>3. /\ Cardinality(T) <= Cardinality(own \cup {j.d}) /\ Cardinality(own \cup {j.d}) <= Cardinality(own) + 1
        /\ Cardinality(T) \in Nat /\ Cardinality(own \cup {j.d}) \in Nat /\ Cardinality(own) \in Nat
        BY <1>1, <1>3, <2>2, SmallSets
  <2>4. Cardinality(T) <= MaxDevices
        BY <2>1, <2>3, Bounds
  <2> QED
      BY <2>4 DEF T
<1> QED
    BY <1>5, <1>6, <1>7

\* A stored join, acknowledged or not.
LEMMA JoinStored ==
    ASSUME RoomOK, AdmittedDeviceLimit, NEW j \in Joins, ~JoinReturns(view, j), AtTail,
           NEW c, c = IF NewCall(view, j) THEN calls + 1 ELSE view.call,
           c <= MaxCalls, calls' = IF NewCall(view, j) THEN c ELSE calls,
           NEW K, K \subseteq CallIDs, StoreWithKeys(JoinBatch(view, j, c), K),
           revived' = revived \ {j.d}
    PROVE  /\ RoomOK' /\ tokens \subseteq tokens' /\ stored'.call = c
           /\ calls' \in calls..MaxCalls /\ c \in CallIDs
           /\ view.call \in 0..calls /\ stored = view
           /\ AdmittedDeviceLimit'
           /\ Lives
<1>1. view = stored /\ view \in Snapshots /\ Settled(view) /\ calls \in 0..MaxCalls /\ view.call \in 0..calls
      BY TailIsStored DEF RoomOK
<1>2. c \in CallIDs /\ calls' \in calls..MaxCalls /\ c \in 0..calls'
      BY <1>1, Bounds DEF CallIDs, NewCall, NoCall
<1> DEFINE E == IF RollsOver(view, j) THEN {view.call} ELSE {}
           P == [(IF NewCall(view, j) THEN Nobody ELSE Cleared(view.part, Removed(view, j)))
                     EXCEPT ![j.d] = c]
<1>3. NewCall(view, j) \/ c = view.call
      OBVIOUS
<1>4. PICK r : Batch(view, JoinBatch(view, j, c), r, E) /\ Becomes(r, c, P, view.members)
      BY <1>1, <1>2, <1>3, JoinBatchEffect
<1>5. j.d \in Devices /\ P[j.d] = c /\ \A d \in Devices : P[d] \in {NoCall, c}
  <2>1. j.d \in Devices
        BY DEF Joins
  <2>2. ASSUME NEW d \in Devices PROVE P[d] \in {NoCall, c}
        BY <1>1, <1>3, <2>1 DEF Settled, Nobody, Cleared
  <2> QED
      BY <2>1, <2>2 DEF Nobody, Cleared
<1>6. RollsOver(view, j) => view.call # NoCall /\ NewCall(view, j) /\ view.call # c
      BY <1>1, <1>2 DEF RollsOver, NewCall
<1>7. E \subseteq 1..calls
      BY <1>1, <1>6 DEF NoCall
<1>8. c \notin ended \cup E
      BY <1>1, <1>6 DEF RoomOK
<1>9. Present(r) = {d \in Devices : P[d] # NoCall} /\ j.d \in Present(r)
  <2> HIDE DEF P
  <2>1. Present(r) = {d \in Devices : P[d] # NoCall}
        BY <1>4, PresentAfter
  <2> QED
      BY <1>2, <1>5, <2>1, Bounds
<1>10. Settled(r) /\ r.call = c
  <2> HIDE DEF P
  <2> QED
      BY <1>4, <1>5, <1>9 DEF Settled, Becomes
<1>11. RoomOK' /\ stored' = r /\ ended' = ended \cup E /\ tokens \subseteq tokens'
      BY <1>1, <1>2, <1>4, <1>7, <1>8, <1>10, StoreKeepsRoom
<1>12. AdmittedDeviceLimit'
  <2>1. WithinLimit(r, revived \ {j.d})
        BY <1>1, <1>2, <1>4, JoinKeepsLimit DEF AdmittedDeviceLimit, WithinLimit
  <2> QED
      BY <1>11, <2>1 DEF AdmittedDeviceLimit, WithinLimit, Own, Present
<1>13. Present(stored)' = Present(r) /\ stored'.call = c
      BY <1>10, <1>11 DEF Present
<1>14. Lives
  <2>1. CASE ~NewCall(view, j)
    <3>1. Present(r) \ Present(stored) \subseteq {j.d}
          BY <1>1, <1>9, <2>1 DEF Cleared, Present
    <3>2. Present(r) \subseteq Present(stored) \cup {j.d} /\ j.d \in Devices
          BY <1>5, <3>1
    <3>3. ended' = ended /\ stored.call = c /\ stored.call # NoCall
          BY <1>1, <1>6, <1>11, <2>1 DEF NewCall
    <3>4. Lifecycle!Change
          BY <1>9, <1>13, <3>2, <3>3 DEF Lifecycle!Change
    <3> QED
        BY <3>4 DEF Lives
  <2>2. CASE NewCall(view, j)
    <3>1. Present(r) = {j.d}
          BY <1>2, <1>5, <1>9, <2>2, Bounds DEF Nobody
    <3>2. Lifecycle!Begins(c)
          BY <1>2, <1>5, <1>8, <1>11, <1>13, <3>1 DEF Lifecycle!Begins
    <3>3. CASE RollsOver(view, j)
      <4>1. Lifecycle!HandOver
            BY <1>1, <1>2, <1>6, <1>11, <3>2, <3>3 DEF Lifecycle!HandOver
      <4> QED
          BY <4>1 DEF Lives
    <3>4. CASE ~RollsOver(view, j)
      <4>1. stored.call = NoCall /\ ended' = ended
            BY <1>1, <1>11, <2>2, <3>4 DEF NewCall
      <4>2. Lifecycle!Start
            BY <1>2, <3>2, <4>1 DEF Lifecycle!Start
      <4> QED
          BY <4>2 DEF Lives
    <3> QED
        BY <3>3, <3>4
  <2> QED
      BY <2>1, <2>2
<1> QED
    BY <1>1, <1>2, <1>11, <1>12, <1>13, <1>14

\* A stored leave.
LEMMA LeftStored ==
    ASSUME RoomOK, AdmittedDeviceLimit, keys \subseteq CallIDs, NEW d \in Devices,
           view.part[d] # NoCall, AtTail, Store(LeftBatch(view, d)),
           revived' = revived \ {d}, calls' = calls
    PROVE  /\ RoomOK' /\ tokens \subseteq tokens' /\ stored = view /\ view.part[d] = view.call
           /\ stored'.call = IF IsLast(view, d) THEN NoCall ELSE view.call
           /\ AdmittedDeviceLimit'
           /\ Lives
<1>1. view = stored /\ view \in Snapshots /\ Settled(view) /\ calls \in 0..MaxCalls /\ view.call \in 0..calls
      BY TailIsStored DEF RoomOK
<1>2. view.part[d] = view.call /\ view.call # NoCall /\ d \in Present(view)
      BY <1>1 DEF Settled, Present
<1> DEFINE E == IF IsLast(view, d) THEN {view.call} ELSE {}
           c == IF IsLast(view, d) THEN NoCall ELSE view.call
<1>3. PICK r : Batch(view, LeftBatch(view, d), r, E) /\ Becomes(r, c, Cleared(view.part, {d}), view.members)
      BY <1>1, LeftBatchEffect
<1>4. Present(r) = Present(view) \ {d}
      BY <1>3 DEF Becomes, Present, Cleared
<1>5. IsLast(view, d) <=> Present(r) = {}
      BY <1>2, <1>4 DEF IsLast
<1>6. Settled(r) /\ r.call = c
      BY <1>1, <1>3, <1>4, <1>5 DEF Settled, Becomes, Present, Cleared
<1>7. E \subseteq 1..calls /\ c \notin ended \cup E /\ c \in 0..calls' /\ calls' \in calls..MaxCalls
  <2>1. E \subseteq 1..calls /\ c \in 0..calls' /\ calls' \in calls..MaxCalls
        BY <1>1, <1>2 DEF NoCall
  <2>2. NoCall \notin ended
        BY <1>1 DEF RoomOK, NoCall
  <2> QED
      BY <1>1, <1>2, <2>1, <2>2 DEF RoomOK
<1>8. RoomOK' /\ stored' = r /\ ended' = ended \cup E /\ tokens \subseteq tokens'
      BY <1>1, <1>3, <1>6, <1>7, StoreKeepsRoom DEF Store
<1>9. AdmittedDeviceLimit'
  <2>1. \A u \in Users : Own(r, u) \ (revived \ {d}) \subseteq Own(stored, u) \ revived
        BY <1>1, <1>4 DEF Own
  <2>2. WithinLimit(stored, revived)
        BY DEF AdmittedDeviceLimit, WithinLimit
  <2>3. WithinLimit(r, revived \ {d})
        BY <2>1, <2>2, FewerKeepLimit
  <2> QED
      BY <1>8, <2>3 DEF AdmittedDeviceLimit, WithinLimit, Own, Present
<1>10. Present(stored)' = Present(stored) \ {d} /\ stored'.call = c
      BY <1>1, <1>4, <1>6, <1>8 DEF Present
<1>11. Lives
  <2>1. CASE IsLast(view, d)
    <3>1. Lifecycle!End
          BY <1>1, <1>2, <1>4, <1>5, <1>8, <1>10, <2>1 DEF Lifecycle!End
    <3> QED
        BY <3>1 DEF Lives
  <2>2. CASE ~IsLast(view, d)
    <3>1. Lifecycle!Change
          BY <1>1, <1>2, <1>4, <1>5, <1>8, <1>10, <2>2 DEF Lifecycle!Change
    <3> QED
        BY <3>1 DEF Lives
  <2> QED
      BY <2>1, <2>2
<1> QED
    BY <1>1, <1>2, <1>8, <1>9, <1>10, <1>11

\* A stored loss of membership.
LEMMA RoomLeaveStored ==
    ASSUME RoomOK, AdmittedDeviceLimit, keys \subseteq CallIDs, NEW u \in Users, AtTail,
           Store(RoomLeaveBatch(view, u)),
           revived' = {d \in revived : Owner[d] # u}, calls' = calls
    PROVE  /\ RoomOK' /\ tokens \subseteq tokens' /\ stored = view
           /\ stored'.call = IF Empties(view, u) THEN NoCall ELSE view.call
           /\ AdmittedDeviceLimit'
           /\ Lives
<1>1. view = stored /\ view \in Snapshots /\ Settled(view) /\ calls \in 0..MaxCalls /\ view.call \in 0..calls
      BY TailIsStored DEF RoomOK
<1> DEFINE E == IF Empties(view, u) THEN {view.call} ELSE {}
           c == IF Empties(view, u) THEN NoCall ELSE view.call
<1>2. Empties(view, u) => view.call # NoCall
      BY <1>1 DEF Empties, Settled, Present
<1>3. PICK r : /\ Batch(view, RoomLeaveBatch(view, u), r, E)
               /\ Becomes(r, c, Cleared(view.part, Own(view, u)), view.members \ {u})
      BY <1>1, RoomLeaveBatchEffect
<1>4. Present(r) = Present(view) \ Own(view, u)
      BY <1>3 DEF Becomes, Present, Cleared
<1>5. /\ Own(view, u) \subseteq Present(view)
      /\ view.call # NoCall /\ ~Empties(view, u) => Present(r) # {}
      BY <1>1, <1>4 DEF Settled, Empties, Own
<1>6. Empties(view, u) => Present(r) = {}
      BY <1>4 DEF Empties
<1>7. Settled(r) /\ r.call = c
      BY <1>1, <1>3, <1>5, <1>6 DEF Settled, Becomes, Present, Cleared
<1>8. E \subseteq 1..calls /\ c \notin ended \cup E /\ c \in 0..calls' /\ calls' \in calls..MaxCalls
  <2>1. E \subseteq 1..calls /\ c \in 0..calls' /\ calls' \in calls..MaxCalls
        BY <1>1, <1>2 DEF NoCall
  <2>2. NoCall \notin ended
        BY <1>1 DEF RoomOK, NoCall
  <2> QED
      BY <1>1, <1>2, <2>1, <2>2 DEF RoomOK
<1>9. RoomOK' /\ stored' = r /\ ended' = ended \cup E /\ tokens \subseteq tokens'
      BY <1>1, <1>3, <1>7, <1>8, StoreKeepsRoom DEF Store
<1>10. AdmittedDeviceLimit'
  <2>1. \A v \in Users : Own(r, v) \ {d \in revived : Owner[d] # u} \subseteq Own(stored, v) \ revived
        BY <1>1, <1>4 DEF Own
  <2>2. WithinLimit(stored, revived)
        BY DEF AdmittedDeviceLimit, WithinLimit
  <2>3. WithinLimit(r, {d \in revived : Owner[d] # u})
        BY <2>1, <2>2, FewerKeepLimit
  <2> QED
      BY <1>9, <2>3 DEF AdmittedDeviceLimit, WithinLimit, Own, Present
<1>11. Present(stored)' = Present(stored) \ Own(stored, u) /\ stored'.call = c
      BY <1>1, <1>4, <1>7, <1>9 DEF Present
<1>12. Lives
  <2>1. CASE Empties(view, u)
    <3>1. Lifecycle!End
          BY <1>1, <1>2, <1>4, <1>6, <1>9, <1>11, <2>1 DEF Lifecycle!End
    <3> QED
        BY <3>1 DEF Lives
  <2>2. CASE ~Empties(view, u) /\ Own(view, u) # {}
    <3>1. view.call # NoCall /\ \E d \in Devices : d \in Own(view, u)
          BY <1>1, <2>2 DEF Own, Present, Settled
    <3>2. Lifecycle!Change
          BY <1>1, <1>4, <1>5, <1>9, <1>11, <2>2, <3>1 DEF Lifecycle!Change
    <3> QED
        BY <3>2 DEF Lives
  <2>3. CASE Own(view, u) = {}
        BY <1>1, <1>9, <1>11, <2>3 DEF Lives, Empties
  <2> QED
      BY <2>1, <2>2, <2>3 DEF Empties
<1> QED
    BY <1>1, <1>9, <1>10, <1>11, <1>12

\* The deletion of the room.
LEMMA DeleteStored ==
    ASSUME RoomOK, keys \subseteq CallIDs, DeleteRoom
    PROVE  /\ RoomOK' /\ tokens \subseteq tokens' /\ stored'.call = NoCall
           /\ AdmittedDeviceLimit'
           /\ Lifecycle!RoomDeleted \/ UNCHANGED <<stored.call, Present(stored), ended>>
<1> DEFINE e == Ev("deleted", NoCall, NoCall)
           r == Apply(stored, e)
<1>1. /\ stored \in Snapshots /\ Settled(stored) /\ calls \in 0..MaxCalls /\ NoCall \notin ended
      /\ Store(<<e>>) /\ calls' = calls /\ revived' = {}
      BY DEF RoomOK, DeleteRoom, NoCall
<1>2. e \in Events /\ e.t = "deleted"
      BY Bounds DEF Ev, Events
<1> HIDE DEF e
<1>3. Batch(stored, <<e>>, r, {}) /\ Becomes(r, NoCall, Nobody, {})
      BY <1>1, <1>2, BatchOfOne, DeletedEffect DEF InPlace
<1> HIDE DEF r
<1>4. Present(r) = {} /\ Settled(r) /\ r.call = NoCall
      BY <1>3 DEF Settled, Becomes, Present, Nobody
<1>5. NoCall \in 0..calls' /\ calls' \in calls..MaxCalls /\ NoCall \notin ended \cup {}
      BY <1>1 DEF NoCall
<1>6. RoomOK' /\ stored' = r /\ ended' = ended \cup {} /\ tokens \subseteq tokens'
      BY <1>1, <1>3, <1>4, <1>5, StoreKeepsRoom DEF Store
<1>7. Present(stored)' = {} /\ stored'.call = NoCall /\ ended' = ended
      BY <1>4, <1>6 DEF Present
<1>8. AdmittedDeviceLimit'
  <2>1. \A u \in Users : Own(stored', u) \ revived' = {}
        BY <1>4, <1>6 DEF Own
  <2>2. Cardinality({}) = 0 /\ 0 <= MaxDevices
        BY FS_EmptySet, Bounds
  <2>3. \A u \in Users : Cardinality(Own(stored', u) \ revived') <= MaxDevices
        BY <2>1, <2>2
  <2> QED
      BY <2>3 DEF AdmittedDeviceLimit, Own, Present
<1>9. stored.call = NoCall => Present(stored) = {}
      BY <1>1 DEF Settled, Present
<1> QED
    BY <1>6, <1>7, <1>8, <1>9 DEF Lifecycle!RoomDeleted

\* A connection state, stored or of no effect.
LEMMA StateStored ==
    ASSUME RoomOK, AdmittedDeviceLimit, keys \subseteq CallIDs, NEW d \in Devices,
           NEW c \in 0..MaxCalls, NEW up \in BOOLEAN, NEW at \in 0..MaxTime,
           NEW id \in {<<>>} \cup Observations, AppendState(d, c, up, at, id),
           revived' = revived, calls' = calls
    PROVE  /\ RoomOK' /\ tokens \subseteq tokens' /\ stored'.call = stored.call
           /\ AdmittedDeviceLimit'
           /\ Lives
<1>1. CASE UNCHANGED room
  <2>1. RoomOK'
    <3>1. calls' \in calls..MaxCalls
          BY DEF RoomOK
    <3> QED
        BY <1>1, <3>1, RoomKept
  <2>2. UNCHANGED <<stored, ended, tokens, revived>>
        BY <1>1 DEF room
  <2> QED
      BY <2>1, <2>2 DEF AdmittedDeviceLimit, Own, Present, Lives
<1>2. CASE Store(<<Changed(d, c, up, at, id)>>)
  <2> DEFINE e == Changed(d, c, up, at, id)
             r == Apply(stored, e)
  <2>1. /\ stored \in Snapshots /\ Settled(stored) /\ calls' \in calls..MaxCalls
        /\ stored.call \in 0..calls' /\ stored.call \notin ended \cup {}
        BY DEF RoomOK
  <2>2. e \in Events /\ e.t = "changed"
        BY DEF Changed, Events
  <2> HIDE DEF e
  <2>3. Batch(stored, <<e>>, r, {}) /\ Becomes(r, stored.call, stored.part, stored.members)
        BY <2>1, <2>2, BatchOfOne, ChangedEffect DEF InPlace
  <2> HIDE DEF r
  <2>4. Present(r) = Present(stored) /\ Settled(r) /\ r.call = stored.call
        BY <2>1, <2>3 DEF Settled, Becomes, Present
  <2>5. RoomOK' /\ stored' = r /\ ended' = ended \cup {} /\ tokens \subseteq tokens'
        BY <1>2, <2>1, <2>3, <2>4, StoreKeepsRoom DEF Store, e
  <2>6. Present(stored)' = Present(stored) /\ stored'.call = stored.call
        BY <2>4, <2>5 DEF Present
  <2>7. AdmittedDeviceLimit'
        BY <2>6 DEF AdmittedDeviceLimit, Own
  <2> QED
      BY <2>5, <2>6, <2>7 DEF Lives
<1> QED
    BY <1>1, <1>2 DEF AppendState

\* A webhook's join: the participant is counted as revived.
LEMMA HookJoinStored ==
    ASSUME RoomOK, AdmittedDeviceLimit, keys \subseteq CallIDs, NEW d \in Devices,
           NEW c \in CallIDs, view.call = c, view.part[d] = NoCall, AtTail,
           Store(<<Ev("joined", d, c)>>), revived' = revived \cup {d}, calls' = calls
    PROVE  /\ RoomOK' /\ tokens \subseteq tokens' /\ stored'.call = stored.call
           /\ AdmittedDeviceLimit'
           /\ Lives
<1> DEFINE e == Ev("joined", d, c)
           r == Apply(stored, e)
<1>1. /\ stored = view /\ stored \in Snapshots /\ Settled(stored) /\ calls' \in calls..MaxCalls
      /\ c \in 0..calls' /\ c \notin ended \cup {} /\ c # NoCall
      BY TailIsStored, Bounds DEF RoomOK
<1>2. e \in Events /\ e.t = "joined" /\ e.d = d /\ e.c = c
      BY Bounds DEF Ev, Events
<1> HIDE DEF e
<1>3. Batch(stored, <<e>>, r, {}) /\ Becomes(r, stored.call, [stored.part EXCEPT ![d] = c], stored.members)
      BY <1>1, <1>2, BatchOfOne, JoinedEffect DEF InPlace
<1> HIDE DEF r
<1>4. Present(r) = Present(stored) \cup {d}
      BY <1>1, <1>3 DEF Becomes, Present, Snapshots
<1>5. Settled(r) /\ r.call = c
      BY <1>1, <1>3, <1>4 DEF Settled, Becomes, Snapshots
<1>6. RoomOK' /\ stored' = r /\ ended' = ended \cup {} /\ tokens \subseteq tokens'
      BY <1>1, <1>3, <1>5, StoreKeepsRoom DEF Store, e
<1>7. Present(stored)' = Present(stored) \cup {d} /\ stored'.call = stored.call /\ ended' = ended
      BY <1>1, <1>4, <1>5, <1>6 DEF Present
<1>8. AdmittedDeviceLimit'
  <2>1. \A u \in Users : Own(r, u) \ (revived \cup {d}) \subseteq Own(stored, u) \ revived
        BY <1>4 DEF Own
  <2>2. WithinLimit(stored, revived)
        BY DEF AdmittedDeviceLimit, WithinLimit
  <2>3. WithinLimit(r, revived \cup {d})
        BY <2>1, <2>2, FewerKeepLimit
  <2> QED
      BY <1>6, <2>3 DEF AdmittedDeviceLimit, WithinLimit, Own, Present
<1>9. Lifecycle!Change
      BY <1>1, <1>7 DEF Lifecycle!Change
<1> QED
    BY <1>6, <1>7, <1>8, <1>9 DEF Lives

\* The end of a call that is not the active one.
LEMMA EndStored ==
    ASSUME RoomOK, AdmittedDeviceLimit, keys \subseteq CallIDs, NEW c \in 1..calls,
           c # stored.call, Store(<<Ev("ended", NoCall, c)>>), revived' = revived, calls' = calls
    PROVE  /\ RoomOK' /\ tokens \subseteq tokens' /\ stored'.call = stored.call
           /\ AdmittedDeviceLimit'
           /\ Lives
<1> DEFINE e == Ev("ended", NoCall, c)
           r == Apply(stored, e)
<1>1. /\ stored \in Snapshots /\ Settled(stored) /\ calls' \in calls..MaxCalls
      /\ stored.call \in 0..calls' /\ stored.call \notin ended \cup {c} /\ c \in CallIDs
      BY Bounds DEF RoomOK, CallIDs
<1>2. e \in Events /\ e.t = "ended" /\ e.c = c
      BY <1>1, Bounds DEF Ev, Events
<1> HIDE DEF e
<1>3. Batch(stored, <<e>>, r, {c})
      BY <1>1, <1>2, BatchOfOne DEF InPlace
<1>4. r.call = stored.call /\ Present(r) = Present(stored) /\ Settled(r)
  <2>1. CASE stored.call = NoCall
    <3>1. Becomes(r, NoCall, Nobody, stored.members) /\ Present(stored) = {}
          BY <1>1, <1>2, <2>1, EndedEffect DEF Settled, Present
    <3> QED
        BY <2>1, <3>1 DEF Becomes, Settled, Present, Nobody
  <2>2. CASE stored.call # NoCall
    <3>1. Becomes(r, stored.call, stored.part, stored.members)
          BY <1>1, <1>2, <2>2, EndedEffect
    <3> QED
        BY <1>1, <3>1 DEF Becomes, Settled, Present
  <2> QED
      BY <2>1, <2>2
<1> HIDE DEF r
<1>5. RoomOK' /\ stored' = r /\ ended' = ended \cup {c} /\ tokens \subseteq tokens'
      BY <1>1, <1>3, <1>4, StoreKeepsRoom DEF Store, e
<1>6. Present(stored)' = Present(stored) /\ stored'.call = stored.call
      BY <1>4, <1>5 DEF Present
<1>7. AdmittedDeviceLimit'
      BY <1>6 DEF AdmittedDeviceLimit, Own
<1>8. Lifecycle!EndRecorded
      BY <1>1, <1>5, <1>6 DEF Lifecycle!EndRecorded
<1> QED
    BY <1>5, <1>6, <1>7, <1>8 DEF Lives

-----------------------------------------------------------------------------
(* Steps.                                                                  *)
LEMMA Parts ==
    ASSUME IInv
    PROVE  /\ RoomOK /\ HandlersOK /\ OutOfUse /\ AdmittedDeviceLimit
           /\ keys \subseteq CallIDs /\ joining \subseteq Joins
           /\ calls \in Nat /\ calls \in calls..MaxCalls
<1>1. RoomOK /\ HandlersOK /\ OutOfUse /\ AdmittedDeviceLimit
      BY DEF IInv
<1>2. keys \subseteq CallIDs /\ joining \subseteq Joins
      BY <1>1 DEF HandlersOK
<1>3. calls \in Nat /\ calls \in calls..MaxCalls
      BY <1>1, Bounds DEF RoomOK
<1> QED
    BY <1>1, <1>2, <1>3

LEMMA HookParts ==
    ASSUME HandlersOK, NEW h \in hook
    PROVE  /\ h.o \in Observations
           /\ h.stage = "join" => [h EXCEPT !.stage = "state"] \in Hooks
           /\ h.stage = "room" =>
                  h.rest \subseteq Devices /\ \A d : [h EXCEPT !.rest = @ \ {d}] \in Hooks
<1>1. CASE h \in [stage : {"join", "state"}, o : Observations]
      BY <1>1 DEF Hooks
<1>2. CASE h \in [stage : {"room"}, o : Observations, rest : SUBSET Devices]
      BY <1>2 DEF Hooks
<1> QED
    BY <1>1, <1>2 DEF HandlersOK, Hooks

LEMMA Rests == NoCycle \in Cycles /\ NoCycle.list = {} /\ NoCycle.unmatched = NoCall
                   /\ NoCycle.pc = "idle" /\ NoCycle.work = {}
BY Bounds DEF NoCycle, Cycles

LEMMA ThenParts ==
    ASSUME RoomOK, NEW key \in 0..MaxCalls, NEW out, NEW strict \in BOOLEAN
    PROVE  Then(key, out, strict) \subseteq Cleanups /\ \A p \in Then(key, out, strict) : p.key = key
<1>1. out \cap tokens \in SUBSET (Devices \X CallIDs)
  <2>1. 1..calls \subseteq CallIDs
        BY Bounds DEF RoomOK, CallIDs
  <2> QED
      BY <2>1 DEF RoomOK
<1> DEFINE o == out \cap tokens
<1> HIDE DEF o
<1>2. [key |-> key, out |-> o, strict |-> strict] \in Cleanups
      BY <1>1 DEF Cleanups, o
<1> QED
    BY <1>2 DEF Then, o

\* What is scheduled for destruction stays out of use when the active call
\* stays, ends or makes way for a new one.
LEMMA OutOfUseKept ==
    ASSUME RoomOK, HandlersOK, OutOfUse, calls' \in calls..MaxCalls, UNCHANGED cyc,
           stored'.call \in {stored.call, NoCall} \/ stored'.call = calls + 1,
           \A p \in post' : p \in post \/ (p.key \in 0..calls /\ (p.key # NoCall => p.key # stored'.call))
    PROVE  OutOfUse'
<1>1. calls \in Nat /\ 0..calls \subseteq 0..calls' /\ 1..calls \subseteq 1..calls' /\ calls + 1 \notin 0..calls
      BY Bounds DEF RoomOK
<1>2. \A p \in post' : p.key \in 0..calls' /\ (p.key # NoCall => p.key # stored'.call)
      BY <1>1 DEF OutOfUse
<1>3. /\ cyc.list \subseteq Devices \X (1..calls') /\ cyc.unmatched \in 0..calls'
      /\ cyc.unmatched # NoCall => cyc.unmatched # stored'.call
      /\ cyc.pc = "unmatched" => cyc.unmatched # NoCall
      BY <1>1 DEF OutOfUse
<1> QED
    BY <1>2, <1>3 DEF OutOfUse

\* Steps of the handlers that leave the room alone.
LEMMA HandlersStep ==
    ASSUME IInv, UNCHANGED room, calls' \in calls..MaxCalls, revived' = revived,
           unacked' = unacked, stored.call \in keys => stored.call \in keys', HandlersOK', OutOfUse'
    PROVE  IInv' /\ Lives
<1>1. RoomOK'
      BY RoomKept DEF IInv
<1>2. UNCHANGED <<stored, ended, tokens>>
      BY DEF room
<1>3. KeyWhileActive' /\ AdmittedDeviceLimit' /\ Lives
      BY <1>2 DEF IInv, KeyWhileActive, AdmittedDeviceLimit, Own, Present, Lives
<1> QED
    BY <1>1, <1>3 DEF IInv

\* Handlers that leave room, calls, keys, cycle and history alone.
LEMMA PassingStep ==
    ASSUME IInv, UNCHANGED <<room, calls, keys, cyc, hist>>, post' \subseteq post, HandlersOK'
    PROVE  IInv' /\ Lives
<1>1. calls' \in calls..MaxCalls /\ stored'.call = stored.call /\ revived' = revived /\ unacked' = unacked
      BY DEF IInv, RoomOK, room, hist
<1>2. OutOfUse'
      BY <1>1, OutOfUseKept DEF IInv
<1> QED
    BY <1>1, <1>2, HandlersStep

LEMMA ApplyNextStep == ASSUME IInv, ApplyNext PROVE IInv' /\ Lives
<1>1. RoomOK'
      BY ApplyNextKeepsRoom DEF IInv
<1>2. UNCHANGED <<stored, ended, tokens, keys, calls, joining, post, media, obs, hook, cyc, now, ops,
                  faults, revived, unacked>>
      BY DEF ApplyNext, lk, hist
<1>3. HandlersOK' /\ OutOfUse'
      BY <1>2 DEF IInv, HandlersOK, OutOfUse
<1>4. KeyWhileActive' /\ AdmittedDeviceLimit' /\ Lives
      BY <1>2 DEF IInv, KeyWhileActive, AdmittedDeviceLimit, Own, Present, Lives
<1> QED
    BY <1>1, <1>3, <1>4 DEF IInv

LEMMA MediaStep ==
    ASSUME IInv, \/ \E d \in Devices, c \in CallIDs : Connect(d, c)
                 \/ \E d \in Devices, c \in CallIDs, k \in {"gone", "dropped"} : Disconnect(d, c, k)
                 \/ Tick
    PROVE  IInv' /\ Lives
<1> USE DEF IInv, HandlersOK
<1>1. \A k \in {"joined", "gone", "dropped", "finished"}, d \in Devices, c \in CallIDs :
          Observation(k, d, c) \in Observations
      BY DEF Observation, Observations
<1>2. ASSUME NEW d \in Devices, NEW c \in CallIDs, Connect(d, c) PROVE IInv' /\ Lives
  <2>1. /\ UNCHANGED <<room, keys, calls, joining, post, hook, cyc, now, faults, hist>>
        /\ UNCHANGED <<tokens, revived, unacked>>
        /\ media' \subseteq tokens /\ obs' \subseteq Observations /\ ops' \in 0..MaxOps
        BY <1>1, <1>2 DEF Connect, Op, room, hist
  <2>2. HandlersOK'
        BY <2>1
  <2> QED
      BY <2>1, <2>2, PassingStep
<1>3. ASSUME NEW d \in Devices, NEW c \in CallIDs, NEW k \in {"gone", "dropped"}, Disconnect(d, c, k)
      PROVE  IInv' /\ Lives
  <2>1. /\ UNCHANGED <<room, keys, calls, joining, post, hook, cyc, now, faults, hist>>
        /\ UNCHANGED <<tokens, revived, unacked>>
        /\ media' \subseteq tokens /\ obs' \subseteq Observations /\ ops' \in 0..MaxOps
        BY <1>1, <1>3 DEF Disconnect, Op, room, hist
  <2>2. HandlersOK'
        BY <2>1
  <2> QED
      BY <2>1, <2>2, PassingStep
<1>4. CASE Tick
  <2>1. /\ UNCHANGED <<room, keys, calls, joining, post, lk, hook, cyc, ops, faults, hist>>
        /\ UNCHANGED <<tokens, revived, unacked, media, obs>>
        /\ now' \in 0..MaxTime
        BY <1>4 DEF Tick, room, hist, lk
  <2>2. HandlersOK'
        BY <2>1
  <2> QED
      BY <2>1, <2>2, PassingStep
<1> QED
    BY <1>2, <1>3, <1>4

\* The membership check, and the answers that store nothing.
LEMMA JoinCheckStep ==
    ASSUME IInv, \/ \E d \in Devices, mode \in Modes, exp \in 0..MaxCalls : JoinCall(d, mode, exp)
                 \/ \E j \in joining : JoinWithoutEvent(j)
    PROVE  IInv' /\ Lives
<1>1. /\ UNCHANGED <<room, keys, calls, post, lk, hook, cyc, now, faults, hist>>
      /\ UNCHANGED <<tokens, revived, unacked, media, obs>>
      BY DEF JoinCall, JoinWithoutEvent, room, hist, lk
<1>2. joining' \subseteq Joins /\ ops' \in 0..MaxOps
  <2>1. ASSUME NEW d \in Devices, NEW mode \in Modes, NEW exp \in 0..MaxCalls, JoinCall(d, mode, exp)
        PROVE  joining' \subseteq Joins /\ ops' \in 0..MaxOps
        BY <2>1 DEF IInv, HandlersOK, JoinCall, Op, Joins
  <2>2. ASSUME NEW j \in joining, JoinWithoutEvent(j) PROVE joining' \subseteq Joins /\ ops' \in 0..MaxOps
        BY <2>2 DEF IInv, HandlersOK, JoinWithoutEvent
  <2> QED
      BY <2>1, <2>2
<1>3. HandlersOK'
      BY <1>1, <1>2 DEF IInv, HandlersOK
<1> QED
    BY <1>1, <1>3, PassingStep

\* What a stored join schedules is the call that it replaces.
LEMMA PostJoinParts ==
    ASSUME RoomOK, NEW s, s.call \in 0..MaxCalls, NEW j
    PROVE  /\ PostJoin(s, j) \subseteq Cleanups
           /\ \A p \in PostJoin(s, j) : p.key = IF RollsOver(s, j) THEN s.call ELSE NoCall
<1> DEFINE key == IF RollsOver(s, j) THEN s.call ELSE NoCall
<1>1. key \in 0..MaxCalls
      BY Bounds
<1> HIDE DEF key
<1> DEFINE out == {<<d, s.call>> : d \in Removed(s, j)}
<1>2. PostJoin(s, j) = Then(key, out, TRUE)
      BY DEF PostJoin, key
<1> HIDE DEF out
<1>3. Then(key, out, TRUE) \subseteq Cleanups /\ \A p \in Then(key, out, TRUE) : p.key = key
      BY <1>1, ThenParts
<1>4. /\ PostJoin(s, j) \subseteq Cleanups
      /\ \A p \in PostJoin(s, j) : p.key = key
      BY <1>2, <1>3
<1> QED
    BY <1>4 DEF key

LEMMA JoinCommitStep == ASSUME IInv, NEW j \in joining, JoinCommit(j) PROVE IInv' /\ Lives
<1> DEFINE new == NewCall(view, j)
           c == IF new THEN calls + 1 ELSE view.call
<1>1. /\ ~JoinReturns(view, j) /\ AtTail /\ c <= MaxCalls
      /\ calls' = IF new THEN c ELSE calls
      /\ keys' = IF new THEN keys \cup {c} ELSE keys
      /\ StoreWithKeys(JoinBatch(view, j, c), keys')
      /\ post' = post \cup PostJoin(view, j)
      /\ joining' = joining \ {j} /\ revived' = revived \ {j.d}
      /\ UNCHANGED <<media, obs, hook, cyc, now, ops, faults, unacked>>
      BY DEF JoinCommit, lk
<1>2. j \in Joins /\ RoomOK /\ AdmittedDeviceLimit /\ HandlersOK /\ OutOfUse /\ calls \in Nat
      BY Parts
<1>3. keys' \subseteq CallIDs
  <2>1. new => c \in CallIDs
        BY <1>1, <1>2, Bounds DEF CallIDs
  <2> QED
      BY <1>1, <1>2, <2>1 DEF HandlersOK
<1> HIDE DEF c, new
<1>4. /\ RoomOK' /\ tokens \subseteq tokens' /\ stored'.call = c
      /\ calls' \in calls..MaxCalls /\ c \in CallIDs
      /\ view.call \in 0..calls /\ stored = view
      /\ AdmittedDeviceLimit'
      /\ Lives
      BY <1>1, <1>2, <1>3, JoinStored DEF c, new
<1>5. view.call \in 0..MaxCalls
      BY <1>2, <1>4 DEF RoomOK, Snapshots
<1>6. /\ PostJoin(view, j) \subseteq Cleanups
      /\ \A p \in PostJoin(view, j) : p.key = IF RollsOver(view, j) THEN view.call ELSE NoCall
      BY <1>2, <1>5, PostJoinParts
<1>7. HandlersOK'
      BY <1>1, <1>2, <1>3, <1>4, <1>6 DEF HandlersOK
<1>8. RollsOver(view, j) => c = calls + 1
      BY DEF c, new, NewCall
<1>9. OutOfUse'
  <2>1. \A p \in PostJoin(view, j) : p.key \in 0..calls /\ (p.key # NoCall => p.key # stored'.call)
        BY <1>2, <1>4, <1>6, <1>8 DEF NoCall
  <2>2. stored'.call = stored.call \/ stored'.call = calls + 1
        BY <1>4 DEF c
  <2> QED
      BY <1>1, <1>2, <1>4, <2>1, <2>2, OutOfUseKept
<1>10. KeyWhileActive'
      BY <1>1, <1>4 DEF IInv, KeyWhileActive, c
<1> QED
    BY <1>4, <1>7, <1>9, <1>10 DEF IInv

LEMMA JoinLostAckStep == ASSUME IInv, NEW j \in joining, JoinLostAck(j) PROVE IInv' /\ Lives
<1> DEFINE new == NewCall(view, j)
           c == IF new THEN calls + 1 ELSE view.call
<1>1. /\ ~JoinReturns(view, j) /\ AtTail /\ c <= MaxCalls
      /\ calls' = IF new THEN c ELSE calls
      /\ unacked' = IF new THEN unacked \cup {c} ELSE unacked
      /\ StoreWithKeys(JoinBatch(view, j, c), keys)
      /\ joining' = joining \ {j} /\ revived' = revived \ {j.d} /\ faults' \in 0..MaxFaults
      /\ UNCHANGED <<keys, post, media, obs, hook, cyc, now, ops>>
      BY DEF IInv, HandlersOK, JoinLostAck, Store, Fault, lk
<1>2. /\ j \in Joins /\ RoomOK /\ AdmittedDeviceLimit /\ HandlersOK /\ OutOfUse /\ calls \in Nat
      /\ keys \subseteq CallIDs
      BY Parts
<1> HIDE DEF c, new
<1>4. /\ RoomOK' /\ tokens \subseteq tokens' /\ stored'.call = c
      /\ calls' \in calls..MaxCalls /\ c \in CallIDs
      /\ view.call \in 0..calls /\ stored = view
      /\ AdmittedDeviceLimit'
      /\ Lives
      BY <1>1, <1>2, JoinStored DEF c, new
<1>5. HandlersOK'
      BY <1>1, <1>2, <1>4 DEF HandlersOK
<1>6. OutOfUse'
  <2>1. stored'.call = stored.call \/ stored'.call = calls + 1
        BY <1>4 DEF c
  <2> QED
      BY <1>1, <1>2, <1>4, <2>1, OutOfUseKept
<1>7. KeyWhileActive'
      BY <1>1, <1>4 DEF IInv, KeyWhileActive, c
<1> QED
    BY <1>4, <1>5, <1>6, <1>7 DEF IInv

LEMMA JoinCrashStep == ASSUME IInv, NEW j \in joining, JoinCrash(j) PROVE IInv' /\ Lives
<1>1. /\ calls < MaxCalls /\ calls' = calls + 1 /\ keys' = keys \cup {calls'}
      /\ joining' \subseteq joining /\ faults' \in 0..MaxFaults
      /\ UNCHANGED <<room, post, media, obs, hook, cyc, now, ops, revived, unacked>>
      BY DEF IInv, HandlersOK, JoinCrash, Fault, lk, hist
<1>2. calls' \in calls..MaxCalls /\ calls' \in CallIDs
      BY <1>1, Bounds DEF IInv, RoomOK, CallIDs
<1>3. tokens' = tokens /\ stored' = stored
      BY <1>1 DEF room
<1>4. HandlersOK'
      BY <1>1, <1>2, <1>3 DEF IInv, HandlersOK
<1>5. OutOfUse'
      BY <1>1, <1>2, <1>3, OutOfUseKept DEF IInv
<1> QED
    BY <1>1, <1>2, <1>4, <1>5, HandlersStep

\* A leave that is stored, whoever asked for it.
LEMMA AppendLeftKeeps ==
    ASSUME IInv, NEW d \in Devices, NEW out, view.part[d] # NoCall, AppendLeft(d, out), calls' = calls
    PROVE  /\ RoomOK' /\ tokens \subseteq tokens' /\ AdmittedDeviceLimit' /\ Lives
           /\ stored'.call \in {stored.call, NoCall}
           /\ post' \subseteq Cleanups
           /\ \A p \in post' : p \in post \/ (p.key \in 0..calls /\ (p.key # NoCall => p.key # stored'.call))
           /\ revived' \subseteq Devices /\ unacked' = unacked
<1>1. /\ AtTail /\ Store(LeftBatch(view, d)) /\ revived' = revived \ {d} /\ unacked' = unacked
      /\ post' \in {post, post \cup Then(EndedKey(view, d), out, TRUE)}
      BY DEF AppendLeft
<1>2. RoomOK /\ AdmittedDeviceLimit /\ keys \subseteq CallIDs /\ HandlersOK
      BY Parts
<1>3. /\ RoomOK' /\ tokens \subseteq tokens' /\ stored = view /\ view.part[d] = view.call
      /\ stored'.call = IF IsLast(view, d) THEN NoCall ELSE view.call
      /\ AdmittedDeviceLimit'
      /\ Lives
      BY <1>1, <1>2, LeftStored
<1>4. EndedKey(view, d) \in 0..calls /\ (EndedKey(view, d) # NoCall => EndedKey(view, d) # stored'.call)
  <2>1. view.call \in 0..calls /\ NoCall \in 0..calls
        BY <1>2, <1>3 DEF RoomOK, NoCall
  <2> QED
      BY <1>3, <2>1 DEF EndedKey
<1>5. EndedKey(view, d) \in 0..MaxCalls
      BY <1>2, <1>4, Bounds DEF RoomOK
<1> DEFINE key == EndedKey(view, d)
<1> HIDE DEF key
<1>6. Then(key, out, TRUE) \subseteq Cleanups /\ \A p \in Then(key, out, TRUE) : p.key = key
      BY <1>2, <1>5, ThenParts DEF key
<1> QED
    BY <1>1, <1>2, <1>3, <1>4, <1>6 DEF HandlersOK, key

LEMMA LeaveCallStep ==
    ASSUME IInv, NEW d \in Devices, NEW exp \in 0..MaxCalls, LeaveCall(d, exp)
    PROVE  IInv' /\ Lives
<1> DEFINE c   == IF exp = NoCall THEN view.call ELSE exp
           out == IF c = NoCall THEN {} ELSE {<<d, c>>}
<1>1. /\ ops' \in 0..MaxOps
      /\ UNCHANGED <<keys, calls, joining, media, obs, hook, cyc, now, faults>>
      BY DEF IInv, HandlersOK, LeaveCall, Op, lk
<1>2. \/ /\ post' = post \cup Then(NoCall, out, TRUE)
         /\ UNCHANGED <<room, hist>>
      \/ view.part[d] # NoCall /\ AppendLeft(d, out)
      BY DEF LeaveCall, LeftNoop
<1> HIDE DEF out
<1>3. calls' \in calls..MaxCalls
      BY <1>1 DEF IInv, RoomOK
<1>4. CASE /\ post' = post \cup Then(NoCall, out, TRUE)
           /\ UNCHANGED <<room, hist>>
  <2>1. Then(NoCall, out, TRUE) \subseteq Cleanups /\ \A p \in Then(NoCall, out, TRUE) : p.key = NoCall
        BY Bounds, ThenParts DEF IInv
  <2>2. UNCHANGED <<tokens, stored, revived, unacked>>
        BY <1>4 DEF room, hist
  <2>3. HandlersOK'
        BY <1>1, <1>4, <2>1, <2>2 DEF IInv, HandlersOK
  <2>4. NoCall \in 0..calls
        BY DEF IInv, RoomOK, NoCall
  <2>5. OutOfUse'
        BY <1>1, <1>3, <1>4, <2>1, <2>2, <2>4, OutOfUseKept DEF IInv
  <2> QED
      BY <1>1, <1>3, <1>4, <2>2, <2>3, <2>5, HandlersStep
<1>5. CASE view.part[d] # NoCall /\ AppendLeft(d, out)
  <2>1. /\ RoomOK' /\ tokens \subseteq tokens' /\ AdmittedDeviceLimit' /\ Lives
        /\ stored'.call \in {stored.call, NoCall}
        /\ post' \subseteq Cleanups
        /\ \A p \in post' : p \in post \/ (p.key \in 0..calls /\ (p.key # NoCall => p.key # stored'.call))
        /\ revived' \subseteq Devices /\ unacked' = unacked
        BY <1>1, <1>5, AppendLeftKeeps
  <2>2. HandlersOK'
        BY <1>1, <2>1 DEF IInv, HandlersOK
  <2>3. OutOfUse'
        BY <1>1, <1>3, <2>1, OutOfUseKept DEF IInv
  <2>4. KeyWhileActive'
        BY <1>1, <2>1 DEF IInv, KeyWhileActive
  <2> QED
      BY <2>1, <2>2, <2>3, <2>4 DEF IInv
<1> QED
    BY <1>2, <1>4, <1>5

\* The steps after a commit destroy a key that is out of use.
LEMMA PostCommitStep ==
    ASSUME IInv, NEW p \in post, NEW shredOk \in BOOLEAN, NEW evictOk \in BOOLEAN,
           PostCommit(p, shredOk, evictOk)
    PROVE  IInv' /\ Lives
<1>1. /\ post' = post \ {p} /\ keys' \in {keys, keys \ {p.key}} /\ media' \subseteq media /\ obs' = obs
      /\ UNCHANGED <<room, calls, joining, hook, cyc, now, ops, faults, revived, unacked>>
      BY DEF PostCommit, Evict, lk, hist
<1>2. UNCHANGED <<tokens, stored>> /\ calls' \in calls..MaxCalls
      BY <1>1 DEF room, IInv, RoomOK
<1>3. HandlersOK'
      BY <1>1, <1>2 DEF IInv, HandlersOK
<1>4. OutOfUse'
      BY <1>1, <1>2, OutOfUseKept DEF IInv
<1>5. stored.call \in keys => stored.call \in keys'
      BY <1>1, Bounds DEF IInv, OutOfUse, HandlersOK
<1> QED
    BY <1>1, <1>2, <1>3, <1>4, <1>5, HandlersStep

LEMMA LeaveRoomStep == ASSUME IInv, NEW u \in Users, LeaveRoom(u) PROVE IInv' /\ Lives
<1> DEFINE key == IF Empties(view, u) THEN view.call ELSE NoCall
           out == {<<d, view.call>> : d \in Own(view, u)}
<1>1. /\ AtTail /\ Store(RoomLeaveBatch(view, u)) /\ revived' = {d \in revived : Owner[d] # u}
      /\ ops' \in 0..MaxOps
      /\ UNCHANGED <<keys, calls, joining, media, obs, hook, cyc, now, faults, unacked>>
      BY DEF IInv, HandlersOK, LeaveRoom, Op, lk
<1>2. post' \in {post, post \cup Then(key, out, FALSE)}
      BY DEF LeaveRoom, Empties
<1> HIDE DEF out
<1>3. RoomOK /\ AdmittedDeviceLimit /\ keys \subseteq CallIDs /\ HandlersOK /\ calls' \in calls..MaxCalls
      BY <1>1, Parts
<1>4. /\ RoomOK' /\ tokens \subseteq tokens' /\ stored = view
      /\ stored'.call = IF Empties(view, u) THEN NoCall ELSE view.call
      /\ AdmittedDeviceLimit'
      /\ Lives
      BY <1>1, <1>3, RoomLeaveStored
<1>5. key \in 0..calls /\ key \in 0..MaxCalls /\ (key # NoCall => key # stored'.call)
  <2>1. view.call \in 0..calls /\ NoCall \in 0..calls /\ 0..calls \subseteq 0..MaxCalls
        BY <1>3, <1>4, Bounds DEF RoomOK, NoCall
  <2> QED
      BY <1>4, <2>1
<1> HIDE DEF key
<1>6. Then(key, out, FALSE) \subseteq Cleanups /\ \A p \in Then(key, out, FALSE) : p.key = key
      BY <1>3, <1>5, ThenParts
<1>7. HandlersOK'
      BY <1>1, <1>2, <1>3, <1>4, <1>6 DEF HandlersOK
<1>8. OutOfUse'
      BY <1>1, <1>2, <1>3, <1>4, <1>5, <1>6, OutOfUseKept DEF IInv
<1>9. KeyWhileActive'
      BY <1>1, <1>4 DEF IInv, KeyWhileActive
<1> QED
    BY <1>4, <1>7, <1>8, <1>9 DEF IInv

LEMMA DeleteRoomStep ==
    ASSUME IInv, DeleteRoom
    PROVE  IInv' /\ (Lifecycle!RoomDeleted \/ UNCHANGED <<stored.call, Present(stored), ended>>)
<1>1. /\ revived' = {} /\ ops' \in 0..MaxOps
      /\ UNCHANGED <<keys, calls, joining, post, media, obs, hook, cyc, now, faults, unacked>>
      BY DEF IInv, HandlersOK, DeleteRoom, Op, lk
<1>2. RoomOK /\ HandlersOK /\ OutOfUse /\ keys \subseteq CallIDs /\ calls' \in calls..MaxCalls
      BY <1>1, Parts
<1>3. /\ RoomOK' /\ tokens \subseteq tokens' /\ stored'.call = NoCall
      /\ AdmittedDeviceLimit'
      /\ Lifecycle!RoomDeleted \/ UNCHANGED <<stored.call, Present(stored), ended>>
      BY <1>2, DeleteStored
<1>4. HandlersOK'
      BY <1>1, <1>2, <1>3 DEF HandlersOK
<1>5. OutOfUse'
      BY <1>1, <1>2, <1>3, OutOfUseKept
<1>6. KeyWhileActive'
      BY <1>3 DEF KeyWhileActive
<1> QED
    BY <1>3, <1>4, <1>5, <1>6 DEF IInv

-----------------------------------------------------------------------------
(* The webhook.                                                             *)

\* Handlers that store room events of the active call and schedule nothing.
LEMMA StoredStep ==
    ASSUME IInv, RoomOK', AdmittedDeviceLimit', stored'.call = stored.call,
           UNCHANGED <<keys, unacked, calls, post, cyc>>, HandlersOK'
    PROVE  IInv'
<1>1. OutOfUse'
      BY Parts, OutOfUseKept
<1>2. KeyWhileActive'
      BY DEF IInv, KeyWhileActive
<1> QED
    BY <1>1, <1>2 DEF IInv

\* A leave that a webhook or the reconciliation asks for.
LEMMA UnaskedLeaveKeeps ==
    ASSUME IInv, NEW d \in Devices, NEW exp,
           IF LeftNoop(view, d, exp) THEN UNCHANGED <<room, post, hist>> ELSE AppendLeft(d, {}),
           UNCHANGED <<calls, keys>>
    PROVE  /\ RoomOK' /\ tokens \subseteq tokens' /\ AdmittedDeviceLimit' /\ Lives /\ KeyWhileActive'
           /\ stored'.call \in {stored.call, NoCall}
           /\ post' \subseteq Cleanups
           /\ \A p \in post' : p \in post \/ (p.key \in 0..calls /\ (p.key # NoCall => p.key # stored'.call))
           /\ revived' \subseteq Devices /\ unacked' = unacked
<1>1. CASE UNCHANGED <<room, post, hist>>
  <2>1. UNCHANGED <<tokens, stored, ended, revived, unacked, post>>
        BY <1>1 DEF room, hist
  <2>2. RoomOK'
        BY <1>1, Parts, RoomKept
  <2> QED
      BY <2>1, <2>2 DEF IInv, HandlersOK, KeyWhileActive, AdmittedDeviceLimit, Own, Present, Lives
<1>2. CASE view.part[d] # NoCall /\ AppendLeft(d, {})
  <2>1. /\ RoomOK' /\ tokens \subseteq tokens' /\ AdmittedDeviceLimit' /\ Lives
        /\ stored'.call \in {stored.call, NoCall}
        /\ post' \subseteq Cleanups
        /\ \A p \in post' : p \in post \/ (p.key \in 0..calls /\ (p.key # NoCall => p.key # stored'.call))
        /\ revived' \subseteq Devices /\ unacked' = unacked
        BY <1>2, AppendLeftKeeps
  <2> QED
      BY <2>1 DEF IInv, KeyWhileActive
<1> QED
    BY <1>1, <1>2 DEF LeftNoop

LEMMA WebhookStep == ASSUME IInv, NEW o \in obs, Webhook(o) PROVE IInv' /\ Lives
<1>1. o \in Observations /\ HandlersOK /\ RoomOK
      BY Parts DEF HandlersOK
<1>2. o.d \in Devices /\ o.c \in 0..MaxCalls /\ o.at \in 0..MaxTime
      BY <1>1, Bounds DEF Observations, CallIDs
<1>3. CASE HookJoined(o)
  <2>1. /\ UNCHANGED <<room, keys, calls, joining, post, cyc, now, ops, faults, hist>>
        /\ UNCHANGED <<tokens, revived, unacked>>
        BY <1>3 DEF HookJoined, room, hist
  <2>2. media' \subseteq media /\ obs' \subseteq obs /\ hook' \subseteq Hooks
        BY <1>1, <1>3 DEF HookJoined, HandlersOK, Hooks, lk
  <2>3. HandlersOK'
        BY <1>1, <2>1, <2>2 DEF HandlersOK
  <2> QED
      BY <2>1, <2>3, PassingStep
<1>4. CASE HookFinished(o)
  <2>1. /\ UNCHANGED <<room, keys, calls, joining, post, media, obs, cyc, now, ops, faults, hist>>
        /\ UNCHANGED <<tokens, revived, unacked>>
        BY <1>4 DEF HookFinished, room, hist, lk
  <2>2. (IF view.call = o.c THEN Present(view) ELSE {}) \in SUBSET Devices
        BY DEF Present
  <2>3. hook' \subseteq Hooks
        BY <1>1, <1>4, <2>2 DEF HookFinished, HandlersOK, Hooks
  <2>4. HandlersOK'
        BY <1>1, <2>1, <2>3 DEF HandlersOK
  <2> QED
      BY <2>1, <2>4, PassingStep
<1>5. CASE HookGone(o)
  <2>1. /\ UNCHANGED <<keys, calls, joining, media, hook, cyc, now, ops, faults>> /\ obs' \subseteq obs
        BY <1>5 DEF HookGone
  <2>2. IF LeftNoop(view, o.d, o.c) THEN UNCHANGED <<room, post, hist>> ELSE AppendLeft(o.d, {})
        BY <1>5 DEF HookGone
  <2>3. /\ RoomOK' /\ tokens \subseteq tokens' /\ AdmittedDeviceLimit' /\ Lives /\ KeyWhileActive'
        /\ stored'.call \in {stored.call, NoCall}
        /\ post' \subseteq Cleanups
        /\ \A p \in post' : p \in post \/ (p.key \in 0..calls /\ (p.key # NoCall => p.key # stored'.call))
        /\ revived' \subseteq Devices /\ unacked' = unacked
        BY <1>2, <2>1, <2>2, UnaskedLeaveKeeps
  <2>4. HandlersOK'
        BY <1>1, <2>1, <2>3 DEF HandlersOK
  <2>5. OutOfUse'
        BY <2>1, <2>3, Parts, OutOfUseKept
  <2> QED
      BY <2>3, <2>4, <2>5 DEF IInv
<1>6. CASE HookDropped(o)
  <2>1. /\ UNCHANGED <<keys, calls, joining, post, media, hook, cyc, now, ops, faults, revived, unacked>>
        /\ obs' \subseteq obs /\ AppendState(o.d, o.c, FALSE, o.at, o)
        BY <1>6 DEF HookDropped, hist
  <2>2. /\ RoomOK' /\ tokens \subseteq tokens' /\ stored'.call = stored.call
        /\ AdmittedDeviceLimit' /\ Lives
        BY <1>1, <1>2, <2>1, Parts, StateStored
  <2>3. HandlersOK'
        BY <1>1, <2>1, <2>2 DEF HandlersOK
  <2> QED
      BY <2>1, <2>2, <2>3, StoredStep
<1> QED
    BY <1>3, <1>4, <1>5, <1>6 DEF Webhook

LEMMA HookJoinStepKeeps == ASSUME IInv, NEW h \in hook, HookJoinStep(h) PROVE IInv' /\ Lives
<1> DEFINE o == h.o
<1>1. /\ UNCHANGED <<keys, calls, joining, post, media, obs, cyc, now, ops, faults, unacked>>
      /\ h.stage = "join" /\ hook' = (hook \ {h}) \cup {[h EXCEPT !.stage = "state"]}
      BY DEF HookJoinStep, lk
<1>2. HandlersOK /\ RoomOK /\ AdmittedDeviceLimit /\ keys \subseteq CallIDs /\ calls' \in calls..MaxCalls
      BY <1>1, Parts
<1>3. o \in Observations /\ hook' \subseteq Hooks
      BY <1>1, <1>2, HookParts DEF HandlersOK
<1>4. o.d \in Devices /\ o.c \in CallIDs
      BY <1>3 DEF Observations
<1>5. CASE UNCHANGED <<room, revived>>
  <2>1. UNCHANGED <<tokens, stored>>
        BY <1>5 DEF room
  <2>2. HandlersOK'
        BY <1>1, <1>2, <1>3, <1>5, <2>1 DEF HandlersOK
  <2>3. UNCHANGED hist
        BY <1>1, <1>5 DEF hist
  <2> QED
      BY <1>1, <1>5, <2>2, <2>3, PassingStep
<1>6. CASE /\ view.call = o.c /\ view.part[o.d] = NoCall /\ AtTail
           /\ Store(<<Ev("joined", o.d, o.c)>>)
           /\ revived' = revived \cup {o.d}
  <2>1. /\ RoomOK' /\ tokens \subseteq tokens' /\ stored'.call = stored.call
        /\ AdmittedDeviceLimit' /\ Lives
        BY <1>1, <1>2, <1>4, <1>6, HookJoinStored
  <2>2. HandlersOK'
        BY <1>1, <1>2, <1>3, <1>4, <1>6, <2>1 DEF HandlersOK
  <2> QED
      BY <1>1, <2>1, <2>2, StoredStep
<1> QED
    BY <1>5, <1>6 DEF HookJoinStep

LEMMA HookStateStepKeeps == ASSUME IInv, NEW h \in hook, HookStateStep(h) PROVE IInv' /\ Lives
<1> DEFINE o == h.o
<1>1. /\ UNCHANGED <<keys, calls, joining, post, media, cyc, now, ops, faults, revived, unacked>>
      /\ h.stage = "state" /\ hook' \subseteq hook /\ obs' \subseteq obs
      /\ AppendState(o.d, o.c, TRUE, o.at, o)
      BY DEF HookStateStep, hist
<1>2. HandlersOK /\ RoomOK /\ AdmittedDeviceLimit /\ keys \subseteq CallIDs
      BY Parts
<1>3. o \in Observations /\ hook' \subseteq Hooks
      BY <1>1, <1>2, HookParts DEF HandlersOK
<1>4. o.d \in Devices /\ o.c \in 0..MaxCalls /\ o.at \in 0..MaxTime
      BY <1>3, Bounds DEF Observations, CallIDs
<1> HIDE DEF o
<1>5. /\ RoomOK' /\ tokens \subseteq tokens' /\ stored'.call = stored.call
      /\ AdmittedDeviceLimit' /\ Lives
      BY <1>1, <1>2, <1>3, <1>4, StateStored
<1>6. HandlersOK'
      BY <1>1, <1>2, <1>3, <1>5 DEF HandlersOK
<1> QED
    BY <1>1, <1>5, <1>6, StoredStep

LEMMA HookRoomStepKeeps ==
    ASSUME IInv, NEW h \in hook, NEW d \in Devices, HookRoomStep(h, d) PROVE IInv' /\ Lives
<1> DEFINE o == h.o
<1>1. /\ UNCHANGED <<keys, calls, joining, post, media, obs, cyc, now, ops, faults, revived, unacked>>
      /\ h.stage = "room" /\ hook' = (hook \ {h}) \cup {[h EXCEPT !.rest = @ \ {d}]}
      /\ AppendState(d, o.c, FALSE, o.at, o)
      BY DEF HookRoomStep, hist, lk
<1>2. HandlersOK /\ RoomOK /\ AdmittedDeviceLimit /\ keys \subseteq CallIDs
      BY Parts
<1>3. o \in Observations /\ hook' \subseteq Hooks
      BY <1>1, <1>2, HookParts DEF HandlersOK
<1>4. o.c \in 0..MaxCalls /\ o.at \in 0..MaxTime
      BY <1>3, Bounds DEF Observations, CallIDs
<1> HIDE DEF o
<1>5. /\ RoomOK' /\ tokens \subseteq tokens' /\ stored'.call = stored.call
      /\ AdmittedDeviceLimit' /\ Lives
      BY <1>1, <1>2, <1>3, <1>4, StateStored
<1>6. HandlersOK'
      BY <1>1, <1>2, <1>3, <1>5 DEF HandlersOK
<1> QED
    BY <1>1, <1>5, <1>6, StoredStep

LEMMA HookEndsStep == ASSUME IInv, NEW h \in hook, HookRoomDone(h) \/ HookFails(h) PROVE IInv' /\ Lives
<1>1. /\ UNCHANGED <<room, keys, calls, joining, post, media, cyc, now, ops, hist>>
      /\ UNCHANGED <<tokens, revived, unacked>>
      /\ hook' \subseteq hook /\ obs' \subseteq obs
      BY DEF HookRoomDone, HookFails, room, hist, lk
<1>2. faults' \in 0..MaxFaults
      BY Parts DEF HandlersOK, HookRoomDone, HookFails, Fault
<1>3. HandlersOK'
      BY <1>1, <1>2, Parts DEF HandlersOK
<1> QED
    BY <1>1, <1>3, PassingStep

LEMMA LostStep == ASSUME IInv, NEW o \in obs, LoseObservation(o) PROVE IInv' /\ Lives
<1>1. /\ UNCHANGED <<room, keys, calls, joining, post, media, hook, cyc, now, ops, hist>>
      /\ UNCHANGED <<tokens, revived, unacked>> /\ obs' \subseteq obs
      BY DEF LoseObservation, room, hist
<1>2. faults' \in 0..MaxFaults
      BY Parts DEF HandlersOK, LoseObservation, Fault
<1>3. HandlersOK'
      BY <1>1, <1>2, Parts DEF HandlersOK
<1> QED
    BY <1>1, <1>3, PassingStep

-----------------------------------------------------------------------------
(* The reconciliation.                                                      *)
Works == [d : Devices, what : {"down", "left", "up"}, c : 0..MaxCalls, at : 0..MaxTime]

\* What is left of the cycle is out of use: it lists calls that were handed
\* out, and the call that it takes for a left-over is not the active one.
CycleOK ==
    /\ cyc \in Cycles
    /\ cyc.list \subseteq Devices \X (1..calls)
    /\ cyc.unmatched \in 0..calls
    /\ cyc.unmatched # NoCall => cyc.unmatched # stored.call
    /\ cyc.pc = "unmatched" => cyc.unmatched # NoCall

\* The cycle's record in its parts.
LEMMA CycleParts ==
    ASSUME CycleOK, NEW c
    PROVE  /\ cyc.work \subseteq Works /\ cyc.list \in SUBSET (Devices \X CallIDs)
           /\ Listed(c) \subseteq cyc.list /\ Others(c) \subseteq cyc.list
           /\ Listed(c) # {} => c \in 1..calls
<1>1. cyc.work \subseteq Works /\ cyc.list \in SUBSET (Devices \X CallIDs)
      BY DEF CycleOK, Cycles, Works
<1>2. Listed(c) \subseteq cyc.list /\ Others(c) \subseteq cyc.list
      BY DEF Listed, Others
<1>3. ASSUME Listed(c) # {} PROVE c \in 1..calls
  <2>1. PICK x \in cyc.list : x[2] = c
        BY <1>3 DEF Listed
  <2>2. x \in Devices \X (1..calls)
        BY DEF CycleOK
  <2> QED
      BY <2>1, <2>2
<1> QED
    BY <1>1, <1>2, <1>3

LEMMA CycleAtRest == ASSUME RoomOK, cyc' = NoCycle, calls' = calls PROVE CycleOK'
<1>1. NoCall \in 0..calls
      BY DEF RoomOK, NoCall
<1> QED
    BY <1>1, Rests DEF CycleOK

LEMMA WorkForType == ASSUME RoomOK, HandlersOK, NEW S PROVE WorkFor(S) \subseteq Works
<1>1. \A d \in Devices : view.part[d] \in 0..MaxCalls
      BY DEF RoomOK, Snapshots
<1>2. Present(view) \subseteq Devices /\ now \in 0..MaxTime
      BY DEF Present, HandlersOK
<1> QED
    BY <1>1, <1>2 DEF WorkFor, Works

\* Doing an item of the work leaves the rest.
LEMMA WorkedKeeps ==
    ASSUME RoomOK, CycleOK, NEW w, cyc' = Worked(w), calls' = calls,
           stored'.call \in {stored.call, NoCall}
    PROVE  CycleOK'
<1>1. CASE cyc' = NoCycle
      BY <1>1, CycleAtRest
<1>2. CASE cyc' = [cyc EXCEPT !.work = @ \ {w}]
  <2>1. /\ cyc' \in Cycles /\ cyc'.list = cyc.list /\ cyc'.unmatched = cyc.unmatched /\ cyc'.pc = cyc.pc
        BY <1>2 DEF CycleOK, Cycles
  <2> QED
      BY <2>1 DEF CycleOK
<1> QED
    BY <1>1, <1>2 DEF Worked

\* Steps of the cycle that leave the room alone.
LEMMA CycleStep ==
    ASSUME IInv, UNCHANGED <<room, calls, joining, post, obs, hook, now, ops, hist>>,
           media' \subseteq media, keys' \subseteq keys, stored.call \in keys => stored.call \in keys',
           faults' \in 0..MaxFaults, CycleOK'
    PROVE  IInv' /\ Lives
<1>1. /\ UNCHANGED <<tokens, stored, revived, unacked>> /\ calls' \in calls..MaxCalls
      /\ HandlersOK /\ OutOfUse
      BY Parts DEF room, hist
<1>2. HandlersOK'
      BY <1>1 DEF HandlersOK, CycleOK
<1>3. OutOfUse'
      BY <1>1 DEF OutOfUse, CycleOK
<1> QED
    BY <1>1, <1>2, <1>3, HandlersStep

LEMMA CycleIsOK == IInv => CycleOK
BY DEF IInv, HandlersOK, OutOfUse, CycleOK

LEMMA ListStep == ASSUME IInv, ListCallParticipants PROVE IInv' /\ Lives
<1>1. /\ UNCHANGED <<room, calls, joining, post, media, obs, hook, now, ops, hist>>
      /\ cyc' = [NoCycle EXCEPT !.pc = "rooms", !.list = media]
      /\ keys' \in {keys, keys \ ended} /\ stored' = stored
      BY DEF ListCallParticipants, lk, room
<1>2. faults' \in 0..MaxFaults
      BY Parts DEF HandlersOK, ListCallParticipants, Fault
<1>3. RoomOK /\ HandlersOK /\ 1..calls \subseteq CallIDs
      BY Parts, Bounds DEF CallIDs, RoomOK
<1>4. media \in SUBSET (Devices \X CallIDs) /\ media \subseteq Devices \X (1..calls)
      BY <1>3 DEF RoomOK, HandlersOK
<1>5. cyc' \in Cycles /\ cyc'.list = media /\ cyc'.unmatched = NoCall /\ cyc'.pc = "rooms"
      BY <1>1, <1>4, Bounds DEF NoCycle, Cycles
<1>6. NoCall \in 0..calls
      BY <1>3 DEF RoomOK, NoCall
<1>7. CycleOK'
      BY <1>1, <1>4, <1>5, <1>6 DEF CycleOK
<1>8. stored.call \in keys => stored.call \in keys'
      BY <1>1, <1>3 DEF RoomOK
<1> QED
    BY <1>1, <1>2, <1>7, <1>8, CycleStep

LEMMA RoomOfCycleStep ==
    ASSUME IInv, NEW c \in CallIDs, EvictUnadmitted(c) \/ ReconcileRoom(c) \/ FindUnmatchedCall(c)
    PROVE  IInv' /\ Lives
<1>1. /\ UNCHANGED <<room, calls, joining, post, obs, hook, now, ops, hist, keys>>
      /\ UNCHANGED <<faults, stored, calls>>
      /\ media' \subseteq media /\ Listed(c) # {} /\ cyc.pc = "rooms"
      BY DEF EvictUnadmitted, ReconcileRoom, FindUnmatchedCall, Evict, BetweenRooms, lk, room
<1>2. RoomOK /\ HandlersOK /\ CycleOK /\ faults' \in 0..MaxFaults
      BY <1>1, Parts, CycleIsOK DEF HandlersOK
<1>3. /\ Others(c) \subseteq cyc.list /\ cyc.list \in SUBSET (Devices \X CallIDs) /\ c \in 1..calls
      BY <1>1, <1>2, CycleParts
<1>4. Others(c) \in SUBSET (Devices \X CallIDs)
      BY <1>3
<1>5. CycleOK'
  <2>1. CASE EvictUnadmitted(c)
    <3>1. cyc' = [cyc EXCEPT !.list = Others(c), !.matched = TRUE]
          BY <2>1 DEF EvictUnadmitted
    <3>2. /\ cyc' \in Cycles /\ cyc'.list = Others(c) /\ cyc'.unmatched = cyc.unmatched /\ cyc'.pc = cyc.pc
          BY <1>2, <1>4, <3>1 DEF CycleOK, Cycles
    <3> QED
        BY <1>1, <1>2, <1>3, <3>2 DEF CycleOK
  <2>2. CASE ReconcileRoom(c)
    <3> DEFINE W == WorkFor({x[1] : x \in Listed(c)})
    <3>1. cyc' = [cyc EXCEPT !.list = Others(c), !.matched = TRUE, !.work = W]
          BY <2>2 DEF ReconcileRoom
    <3>2. W \in SUBSET Works
          BY <1>2, WorkForType
    <3> HIDE DEF W
    <3>3. /\ cyc' \in Cycles /\ cyc'.list = Others(c) /\ cyc'.unmatched = cyc.unmatched /\ cyc'.pc = cyc.pc
          BY <1>2, <1>4, <3>1, <3>2 DEF CycleOK, Cycles, Works
    <3> QED
        BY <1>1, <1>2, <1>3, <3>3 DEF CycleOK
  <2>3. CASE FindUnmatchedCall(c)
    <3>1. cyc' = [cyc EXCEPT !.pc = "unmatched", !.unmatched = c] /\ AtTail /\ view.call # c
          BY <2>3 DEF FindUnmatchedCall
    <3>2. c # stored.call /\ c # NoCall /\ c \in 0..calls /\ c \in 0..MaxCalls
          BY <1>2, <1>3, <3>1, TailIsStored, Bounds DEF NoCall, CallIDs, RoomOK
    <3>3. /\ cyc' \in Cycles /\ cyc'.list = cyc.list /\ cyc'.unmatched = c
          BY <1>2, <3>1, <3>2 DEF CycleOK, Cycles
    <3> QED
        BY <1>1, <1>2, <3>2, <3>3 DEF CycleOK
  <2> QED
      BY <2>1, <2>2, <2>3
<1> QED
    BY <1>1, <1>2, <1>5, CycleStep

LEMMA WorkStep ==
    ASSUME IInv, NEW w \in cyc.work, ReconcileState(w) \/ ReconcileLeft(w)
    PROVE  IInv' /\ Lives
<1>1. /\ UNCHANGED <<keys, calls, joining, media, obs, hook, now, ops, faults>> /\ cyc' = Worked(w)
      BY DEF ReconcileState, ReconcileLeft, lk
<1>2. /\ RoomOK /\ HandlersOK /\ OutOfUse /\ CycleOK /\ AdmittedDeviceLimit
      /\ keys \subseteq CallIDs /\ calls' \in calls..MaxCalls
      BY <1>1, Parts, CycleIsOK
<1>3. w.d \in Devices /\ w.c \in 0..MaxCalls /\ w.at \in 0..MaxTime
  <2>1. w \in Works
        BY <1>2, CycleParts
  <2> QED
      BY <2>1 DEF Works
<1>4. /\ RoomOK' /\ tokens \subseteq tokens' /\ AdmittedDeviceLimit' /\ Lives /\ KeyWhileActive'
      /\ stored'.call \in {stored.call, NoCall}
      /\ post' \subseteq Cleanups
      /\ \A p \in post' : p \in post \/ (p.key \in 0..calls /\ (p.key # NoCall => p.key # stored'.call))
      /\ revived' \subseteq Devices /\ unacked' = unacked
  <2>1. CASE ReconcileState(w)
    <3> DEFINE up == w.what = "up"
    <3>1. /\ AppendState(w.d, w.c, up, w.at, <<>>) /\ UNCHANGED <<post, revived, unacked>>
          BY <2>1 DEF ReconcileState, hist
    <3>2. up \in BOOLEAN
          OBVIOUS
    <3> HIDE DEF up
    <3>3. /\ RoomOK' /\ tokens \subseteq tokens' /\ stored'.call = stored.call
          /\ AdmittedDeviceLimit' /\ Lives
          BY <1>1, <1>2, <1>3, <3>1, <3>2, StateStored
    <3> QED
        BY <1>1, <1>2, <3>1, <3>3 DEF IInv, HandlersOK, KeyWhileActive
  <2>2. CASE ReconcileLeft(w)
    <3>1. IF LeftNoop(view, w.d, w.c) THEN UNCHANGED <<room, post, hist>> ELSE AppendLeft(w.d, {})
          BY <2>2 DEF ReconcileLeft
    <3> QED
        BY <1>1, <1>3, <3>1, UnaskedLeaveKeeps
  <2> QED
      BY <2>1, <2>2
<1>5. CycleOK'
      BY <1>1, <1>2, <1>4, WorkedKeeps
<1>6. HandlersOK'
      BY <1>1, <1>2, <1>4, <1>5 DEF HandlersOK, CycleOK
<1>7. OutOfUse'
  <2>1. \A p \in post' : p.key \in 0..calls' /\ (p.key # NoCall => p.key # stored'.call)
        BY <1>1, <1>2, <1>4 DEF OutOfUse
  <2> QED
      BY <1>5, <2>1 DEF OutOfUse, CycleOK
<1> QED
    BY <1>4, <1>6, <1>7 DEF IInv

LEMMA EndUnmatchedStep == ASSUME IInv, EndUnmatchedCall PROVE IInv' /\ Lives
<1> DEFINE c == cyc.unmatched
<1>1. /\ UNCHANGED <<keys, calls, joining, post, media, obs, hook, now, ops, faults, revived, unacked>>
      /\ cyc.pc = "unmatched" /\ cyc' = [cyc EXCEPT !.pc = "clean"]
      BY DEF EndUnmatchedCall, lk, hist
<1>2. /\ RoomOK /\ HandlersOK /\ OutOfUse /\ CycleOK /\ AdmittedDeviceLimit
      /\ keys \subseteq CallIDs /\ calls' \in calls..MaxCalls /\ calls \in Nat
      BY <1>1, Parts, CycleIsOK
<1>3. c \in 1..calls /\ c # stored.call
      BY <1>1, <1>2 DEF CycleOK, NoCall
<1>4. RoomOK' /\ tokens \subseteq tokens' /\ stored'.call = stored.call /\ AdmittedDeviceLimit' /\ Lives
  <2>1. CASE UNCHANGED room
    <3>1. UNCHANGED <<tokens, stored, ended>>
          BY <2>1 DEF room
    <3>2. RoomOK'
          BY <1>2, <2>1, RoomKept
    <3> QED
        BY <1>1, <1>2, <3>1, <3>2 DEF AdmittedDeviceLimit, Own, Present, Lives
  <2>2. CASE Store(<<Ev("ended", NoCall, c)>>)
    <3> HIDE DEF c
    <3> QED
        BY <1>1, <1>2, <1>3, <2>2, EndStored
  <2> QED
      BY <2>1, <2>2 DEF EndUnmatchedCall
<1>5. /\ cyc' \in Cycles /\ cyc'.list = cyc.list /\ cyc'.unmatched = cyc.unmatched /\ cyc'.pc = "clean"
      BY <1>1, <1>2 DEF CycleOK, Cycles
<1>6. HandlersOK'
      BY <1>1, <1>2, <1>4, <1>5 DEF HandlersOK
<1>7. OutOfUse'
      BY <1>1, <1>2, <1>4, <1>5 DEF OutOfUse
<1>8. KeyWhileActive'
      BY <1>1, <1>4 DEF IInv, KeyWhileActive
<1> QED
    BY <1>4, <1>6, <1>7, <1>8 DEF IInv

LEMMA CleanUnmatchedStep == ASSUME IInv, CleanUnmatchedCall PROVE IInv' /\ Lives
<1> DEFINE c == cyc.unmatched
<1>1. /\ UNCHANGED <<room, calls, joining, post, obs, hook, now, ops, hist>> /\ UNCHANGED <<faults, stored>>
      /\ media' \subseteq media /\ keys' = keys \ {c}
      /\ cyc' = [cyc EXCEPT !.pc = "rooms", !.unmatched = NoCall, !.list = Others(c)]
      BY DEF CleanUnmatchedCall, Evict, room
<1>2. RoomOK /\ HandlersOK /\ CycleOK /\ faults' \in 0..MaxFaults
      BY <1>1, Parts, CycleIsOK DEF HandlersOK
<1>3. Others(c) \subseteq cyc.list /\ Others(c) \in SUBSET (Devices \X CallIDs)
      BY <1>2, CycleParts
<1>4. NoCall \in 0..calls /\ NoCall \notin keys
      BY <1>2, Bounds DEF RoomOK, NoCall, HandlersOK
<1>5. stored.call \in keys => stored.call \in keys'
      BY <1>1, <1>2, <1>4 DEF CycleOK
<1> HIDE DEF c
<1>6. cyc' \in Cycles /\ cyc'.list = Others(c) /\ cyc'.unmatched = NoCall /\ cyc'.pc = "rooms"
      BY <1>1, <1>2, <1>3, Bounds DEF CycleOK, Cycles
<1>7. CycleOK'
      BY <1>1, <1>2, <1>3, <1>4, <1>6 DEF CycleOK
<1> QED
    BY <1>1, <1>2, <1>5, <1>7, CycleStep

LEMMA CycleEndsStep == ASSUME IInv, ReconcileUnobserved \/ CycleFails PROVE IInv' /\ Lives
<1>1. /\ UNCHANGED <<room, calls, joining, post, obs, hook, now, ops, hist>> /\ UNCHANGED <<keys, media, stored>>
      /\ \/ cyc' = NoCycle
         \/ cyc' = [cyc EXCEPT !.pc = "last", !.work = WorkFor({})]
      BY DEF ReconcileUnobserved, CycleFails, lk, room
<1>2. RoomOK /\ HandlersOK /\ CycleOK /\ faults' \in 0..MaxFaults
      BY Parts, CycleIsOK DEF HandlersOK, ReconcileUnobserved, CycleFails, Fault
<1>3. CASE cyc' = NoCycle
  <2>1. CycleOK'
        BY <1>1, <1>2, <1>3, CycleAtRest
  <2> QED
      BY <1>1, <1>2, <2>1, CycleStep
<1>4. CASE cyc' = [cyc EXCEPT !.pc = "last", !.work = WorkFor({})]
  <2>1. WorkFor({}) \in SUBSET Works
        BY <1>2, WorkForType
  <2>2. cyc' \in Cycles /\ cyc'.list = cyc.list /\ cyc'.unmatched = cyc.unmatched /\ cyc'.pc = "last"
        BY <1>2, <1>4, <2>1 DEF CycleOK, Cycles, Works
  <2>3. CycleOK'
        BY <1>1, <1>2, <2>2 DEF CycleOK
  <2> QED
      BY <1>1, <1>2, <2>3, CycleStep
<1> QED
    BY <1>1, <1>3, <1>4

-----------------------------------------------------------------------------
(* The initial states, and the theorems.                                    *)
LEMMA InitOK == Init => IInv
<1> SUFFICES ASSUME Init PROVE IInv
    OBVIOUS
<1>1. PICK P \in SUBSET Devices :
          /\ \A u \in Users : Cardinality({d \in P : Owner[d] = u}) <= MaxDevices
          /\ calls = IF P = {} THEN 0 ELSE 1
          /\ view = [call |-> calls, part |-> [d \in Devices |-> IF d \in P THEN calls ELSE NoCall],
                     up |-> [d \in Devices |-> TRUE], at |-> [d \in Devices |-> 0],
                     seen |-> {}, members |-> Users]
          /\ keys = 1..calls
          /\ tokens = P \X keys /\ media = tokens
          /\ now = 0
          /\ \E Q \in {X \in SUBSET P : Cardinality(X) <= 1} : obs = {Observation("joined", d, 1) : d \in Q}
      BY DEF Init
<1>2. /\ stored = view /\ pend = <<>> /\ ended = {} /\ joining = {} /\ post = {}
      /\ hook = {} /\ cyc = NoCycle /\ ops = 0 /\ faults = 0 /\ revived = {} /\ unacked = {}
      BY DEF Init
<1>3. /\ calls \in {0, 1} /\ calls \in 0..MaxCalls /\ 1..calls \subseteq CallIDs
      /\ 0 \in 0..MaxTime /\ 0 \in 0..MaxOps /\ 0 \in 0..MaxFaults /\ 1 \in CallIDs
      BY <1>1, CallsAssumption DEF CallIDs
<1>4. view \in Snapshots /\ view.call = calls
  <2>1. [d \in Devices |-> IF d \in P THEN calls ELSE NoCall] \in [Devices -> 0..MaxCalls]
        BY <1>3, Bounds
  <2>2. [d \in Devices |-> 0] \in [Devices -> 0..MaxTime]
        BY <1>3
  <2> QED
      BY <1>1, <1>3, <2>1, <2>2 DEF Snapshots
<1>5. \A d \in Devices : view.part[d] = IF d \in P THEN calls ELSE NoCall
      BY <1>1
<1>6. Present(stored) = P
      BY <1>1, <1>2, <1>5 DEF Present, NoCall
<1>7. Settled(stored)
      BY <1>1, <1>2, <1>4, <1>5, <1>6 DEF Settled, NoCall
<1>8. Caught /\ CallsDoNotOverlap /\ pend \in Seq(Events)
  <2>1. Len(pend) = 0 /\ DOMAIN pend = {} /\ pend \in Seq(Events)
        BY <1>2
  <2> QED
      BY <1>2, <2>1, AfterZero DEF Caught, CallsDoNotOverlap
<1>9. RoomOK
  <2>1. tokens \subseteq Devices \X (1..calls) /\ stored.call \in 0..calls
        BY <1>1, <1>2, <1>3, <1>4
  <2> QED
      BY <1>2, <1>3, <1>4, <1>7, <1>8, <2>1 DEF RoomOK
<1>10. HandlersOK
  <2>1. obs \subseteq Observations
    <3>1. \A d \in Devices : Observation("joined", d, 1) \in Observations
          BY <1>1, <1>3 DEF Observation, Observations
    <3> QED
        BY <1>1, <3>1
  <2> QED
      BY <1>1, <1>2, <1>3, <2>1, Rests DEF HandlersOK
<1>11. OutOfUse
      BY <1>2, <1>3, Rests DEF OutOfUse, NoCall
<1>12. KeyWhileActive
      BY <1>1, <1>2, <1>3, <1>4 DEF KeyWhileActive, NoCall
<1>13. AdmittedDeviceLimit
  <2>1. \A u \in Users : Own(stored, u) \ revived = {d \in P : Owner[d] = u}
        BY <1>2, <1>6 DEF Own
  <2> QED
      BY <1>1, <2>1 DEF AdmittedDeviceLimit
<1> QED
    BY <1>9, <1>10, <1>11, <1>12, <1>13 DEF IInv

LEMMA ClientStep ==
    ASSUME IInv, Client
    PROVE  /\ IInv'
           /\ Lives \/ (DeleteRoom /\ Lifecycle!RoomDeleted)
<1>1. CASE DeleteRoom
      BY <1>1, DeleteRoomStep DEF Lives
<1>2. CASE \E d \in Devices, mode \in Modes, exp \in 0..MaxCalls : JoinCall(d, mode, exp)
      BY <1>2, JoinCheckStep
<1>3. CASE \E d \in Devices, exp \in 0..MaxCalls : LeaveCall(d, exp)
      BY <1>3, LeaveCallStep
<1>4. CASE \/ \E d \in Devices, c \in CallIDs : Connect(d, c)
           \/ \E d \in Devices, c \in CallIDs, k \in {"gone", "dropped"} : Disconnect(d, c, k)
      BY <1>4, MediaStep
<1>5. CASE \E u \in Users : LeaveRoom(u)
      BY <1>5, LeaveRoomStep
<1> QED
    BY <1>1, <1>2, <1>3, <1>4, <1>5 DEF Client

LEMMA ServerStep == ASSUME IInv, Server PROVE IInv' /\ Lives
<1>1. ASSUME NEW j \in joining, JoinWithoutEvent(j) \/ JoinCommit(j) \/ JoinLostAck(j) \/ JoinCrash(j)
      PROVE  IInv' /\ Lives
      BY <1>1, JoinCheckStep, JoinCommitStep, JoinLostAckStep, JoinCrashStep
<1>2. ASSUME NEW p \in post, NEW shredOk \in BOOLEAN, NEW evictOk \in BOOLEAN,
             PostCommit(p, shredOk, evictOk)
      PROVE  IInv' /\ Lives
      BY <1>2, PostCommitStep
<1>3. ASSUME NEW o \in obs, Webhook(o) PROVE IInv' /\ Lives
      BY <1>3, WebhookStep
<1>4. ASSUME NEW h \in hook, HookJoinStep(h) \/ HookStateStep(h) \/ HookRoomDone(h) \/ HookFails(h)
      PROVE  IInv' /\ Lives
      BY <1>4, HookJoinStepKeeps, HookStateStepKeeps, HookEndsStep
<1>5. ASSUME NEW h \in hook, NEW d \in Devices, HookRoomStep(h, d) PROVE IInv' /\ Lives
      BY <1>5, HookRoomStepKeeps
<1>6. CASE ApplyNext
      BY <1>6, ApplyNextStep
<1> QED
    BY <1>1, <1>2, <1>3, <1>4, <1>5, <1>6 DEF Server

LEMMA ReconcilerStep == ASSUME IInv, Reconciler PROVE IInv' /\ Lives
<1>1. ASSUME NEW c \in CallIDs, EvictUnadmitted(c) \/ ReconcileRoom(c) \/ FindUnmatchedCall(c)
      PROVE  IInv' /\ Lives
      BY <1>1, RoomOfCycleStep
<1>2. ASSUME NEW w \in cyc.work, ReconcileState(w) \/ ReconcileLeft(w) PROVE IInv' /\ Lives
      BY <1>2, WorkStep
<1>3. CASE ListCallParticipants \/ EndUnmatchedCall \/ CleanUnmatchedCall \/ ReconcileUnobserved
      BY <1>3, ListStep, EndUnmatchedStep, CleanUnmatchedStep, CycleEndsStep
<1> QED
    BY <1>1, <1>2, <1>3 DEF Reconciler

\* Every step keeps the invariant, and is one of CallLifecycle or none to it;
\* only DeleteRoom deletes the room.
LEMMA NextStep ==
    ASSUME IInv, [Next]_vars
    PROVE  /\ IInv'
           /\ Lives \/ (DeleteRoom /\ Lifecycle!RoomDeleted)
<1>1. CASE Next
      BY <1>1, ClientStep, ServerStep, ReconcilerStep, CycleEndsStep, MediaStep, LostStep DEF Next
<1>2. CASE UNCHANGED vars
  <2>1. /\ UNCHANGED <<room, calls, keys, cyc, hist>> /\ post' \subseteq post
        /\ UNCHANGED <<keys, unacked, revived, joining, post, tokens, media, obs, hook, cyc, now, ops, faults>>
        BY <1>2 DEF vars, room, lk, hist
  <2>2. HandlersOK'
        BY <2>1, Parts DEF HandlersOK
  <2> QED
      BY <2>1, <2>2, PassingStep
<1> QED
    BY <1>1, <1>2

\* The inductive invariant: the stored room is what the pending events make
\* of the projection, every call it knows of has been handed out, and no
\* handler or cycle is about to destroy the key of the active call.
THEOREM Invariant == Spec => []IInv
<1>1. IInv /\ [Next]_vars => IInv'
      BY NextStep
<1> QED
    BY InitOK, <1>1, PTL DEF Spec

\* CallModel, its projection and its handlers keep every variable in its type.
THEOREM TypeCorrect == Spec => []TypeOK
<1>1. IInv => TypeOK
      BY TypesFollow DEF IInv
<1> QED
    BY Invariant, <1>1, PTL

\* Calls do not overlap: a stored CallStarted finds the room without a call,
\* a stored CallEnded of the active call finds nobody in it, whichever of the
\* handlers, the webhook and the reconciliation computed the batch.
THEOREM CallsAreSeparate == Spec => []CallsDoNotOverlap
<1>1. IInv => CallsDoNotOverlap
      BY DEF IInv, RoomOK
<1> QED
    BY Invariant, <1>1, PTL

\* JoinUserParticipant never admits more than maxCallDevicesPerUser devices of
\* an account, however many joins race.
THEOREM DevicesWithinLimit == Spec => []AdmittedDeviceLimit
<1>1. IInv => AdmittedDeviceLimit
      BY DEF IInv
<1> QED
    BY Invariant, <1>1, PTL

\* The key of the active call is never destroyed: not after the commit of a
\* handler, not by the sweep over CallEnded, not by the reconciliation.
THEOREM ActiveCallHasKey == Spec => []KeyWhileActive
<1>1. IInv => KeyWhileActive
      BY DEF IInv
<1> QED
    BY Invariant, <1>1, PTL

\* A call that is over has its CallEnded event, unless DeleteRoom ended it.
THEOREM EndsAreRecorded == Spec => NoSilentEnd
<1>1. ASSUME IInv, [Next]_vars
      PROVE  [stored.call # NoCall /\ stored'.call # stored.call
                  => stored.call \in ended' \/ DeleteRoom]_vars
  <2>1. CASE DeleteRoom
        BY <2>1
  <2>2. CASE Lives
        BY <2>2 DEF Lives, Lifecycle!Change, Lifecycle!Start, Lifecycle!End, Lifecycle!HandOver,
                    Lifecycle!EndRecorded
  <2> QED
      BY <1>1, <2>1, <2>2, NextStep
<1> QED
    BY Invariant, <1>1, PTL DEF Spec, NoSilentEnd

\* The handlers, the webhook and the reconciliation together implement
\* CallLifecycle: every step is one of its steps or none to it.
THEOREM CallsImplementLifecycle == Spec => ImplementsLifecycle
<1>1. Init => Lifecycle!Init
  <2> SUFFICES ASSUME Init PROVE Lifecycle!Init
      OBVIOUS
  <2>1. IInv /\ ended = {}
        BY InitOK DEF Init
  <2>2. /\ stored.call \in 0..MaxCalls /\ (stored.call # NoCall => Present(stored) # {})
        /\ (stored.call = NoCall => Present(stored) = {}) /\ Present(stored) \in SUBSET Devices
        BY <2>1 DEF IInv, RoomOK, Settled, Present, Snapshots
  <2>3. stored.call # NoCall => stored.call \in CallIDs
        BY <2>2, Bounds DEF NoCall, CallIDs
  <2> QED
      BY <2>1, <2>2, <2>3 DEF Lifecycle!Init
<1>2. IInv /\ [Next]_vars => [Lifecycle!Next]_(Lifecycle!vars)
  <2> SUFFICES ASSUME IInv, [Next]_vars PROVE [Lifecycle!Next]_(Lifecycle!vars)
      OBVIOUS
  <2>1. Lives \/ Lifecycle!RoomDeleted
        BY NextStep
  <2> QED
      BY <2>1 DEF Lives, Lifecycle!Next, Lifecycle!vars
<1> QED
    BY Invariant, <1>1, <1>2, PTL DEF Spec, ImplementsLifecycle, Lifecycle!Spec

=============================================================================
