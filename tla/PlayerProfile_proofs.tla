------------------------ MODULE PlayerProfile_proofs ------------------------
(* Proofs about PlayerProfile, for any requests, workers and bounds. *)
EXTENDS PlayerProfile, TLAPS

USE PlayerAssumption DEF frame

-----------------------------------------------------------------------------
(* Type correctness.  Its last part says that every way out of the locked    *)
(* block gives the lock back.                                                *)

Section == {"search", "identify", "fetch", "enrich", "store", "writeBack"}
LockedInside ==
  \A r \in Request, s \in Spelling : holder[s] = r => spell[r] = s /\ pc[r] \in Section

Labels == {"idle", "read", "waiting", "search", "identify", "fetch", "enrich", "store",
           "writeBack", "answer", "enqueue", "counterpart", "scan", "delete"}

LocalsOK ==
  /\ spell \in [Actor -> Spelling]
  /\ have \in [Actor -> Payload]
  /\ stale \in [Actor -> BOOLEAN]
  /\ doomed \in [Actor -> SUBSET Spelling]

SharedOK ==
  /\ version \in Version \ {0}
  /\ row \in Row
  /\ cache \in [Spelling -> Version]
  /\ job \in [Spelling -> {"free", "queued", "running", "blocked"}]
  /\ holder \in [Spelling -> Request \cup {Nobody}]
  /\ scene \in Scenes /\ overtaken \in BOOLEAN
  /\ faults \in 0..scene.faults
  /\ pc \in [Actor -> Labels]

\* The type invariant in the groups that actions change together.
LEMMA TypeParts == TypeOK <=> SharedOK /\ LocalsOK /\ LockedInside
BY DEF TypeOK, SharedOK, LocalsOK, LockedInside, Labels, Section

LEMMA TypeNext == SharedOK' /\ LocalsOK' /\ LockedInside' => TypeOK'
BY DEF TypeOK, SharedOK, LocalsOK, LockedInside, Labels, Section

LEMMA NothingTyped == Nothing \in Payload /\ NoRow \in Row /\ LegacyRow \in Row
<1>1. Nothing \in Payload
  BY DEF Nothing, Payload, Version
<1>2. NoRow \in Row
  BY <1>1 DEF NoRow, Row, Version
<1>3. 1 \in Version
  BY DEF Version
<1> QED BY <1>1, <1>2, <1>3 DEF LegacyRow, Row

LEMMA FaultTyped ==
  ASSUME SharedOK, Fault, scene' = scene PROVE faults' \in 0..scene'.faults
BY DEF SharedOK, Fault, Scene

LEMMA InitTyped == Init => TypeOK
<1> SUFFICES ASSUME Init PROVE TypeOK
  OBVIOUS
<1>1. SharedOK
  <2>1. scene \in Scenes /\ 0 \in 0..scene.faults
    <3>1. scene \in Scenes
      BY DEF Init
    <3>2. scene.faults \in Nat
      BY <3>1 DEF Scene
    <3> QED BY <3>1, <3>2
  <2>2. row \in Row
    BY NothingTyped DEF Init
  <2>3. version \in Version \ {0} /\ cache \in [Spelling -> Version]
    BY DEF Init, Version
  <2>4. job \in [Spelling -> {"free", "queued", "running", "blocked"}] /\ faults = 0
    BY DEF Init
  <2>5. pc \in [Actor -> Labels] /\ holder \in [Spelling -> Request \cup {Nobody}]
    BY DEF Init, Labels
  <2>6. overtaken \in BOOLEAN
    BY DEF Init
  <2> QED BY <2>1, <2>2, <2>3, <2>4, <2>5, <2>6 DEF SharedOK
<1>2. LocalsOK
  BY NothingTyped DEF Init, LocalsOK, Spelling
<1>3. LockedInside
  BY DEF Init, LockedInside
<1> QED BY <1>1, <1>2, <1>3, TypeParts

LEMMA ForgetTyped ==
  ASSUME TypeOK, NEW a \in Actor, Forget(a)
  PROVE  LocalsOK' /\ \A b \in Actor \ {a} : spell'[b] = spell[b]
BY NothingTyped DEF TypeOK, Forget, LocalsOK, Spelling

\* Releasing keeps the lock typed, and keeps it from those outside the block.
LEMMA ReleaseTyped ==
  ASSUME TypeOK, NEW a \in Actor, Release(a),
         \A b \in Actor \ {a} : pc'[b] = pc[b] /\ spell'[b] = spell[b]
  PROVE  holder' \in [Spelling -> Request \cup {Nobody}] /\ LockedInside'
<1>1. holder' \in [Spelling -> Request \cup {Nobody}]
  BY DEF Release, TypeOK
<1>2. ASSUME NEW r \in Request, NEW s \in Spelling, holder'[s] = r
      PROVE spell'[r] = s /\ pc'[r] \in Section
  <2>1. r # a /\ holder[s] = r
    BY <1>2 DEF Release
  <2>2. r \in Actor \ {a}
    BY <2>1 DEF Actor
  <2> QED BY <2>1, <2>2 DEF TypeOK, Section
<1> QED BY <1>1, <1>2 DEF LockedInside

\* An actor that is outside the block does not disturb the locks.
LEMMA OutsideLocked ==
  ASSUME TypeOK, NEW a \in Actor, pc[a] \notin Section, holder' = holder,
         \A b \in Actor \ {a} : pc'[b] = pc[b] /\ spell'[b] = spell[b]
  PROVE  LockedInside'
<1> SUFFICES ASSUME NEW r \in Request, NEW s \in Spelling, holder[s] = r
             PROVE spell'[r] = s /\ pc'[r] \in Section
  BY DEF LockedInside
<1>1. spell[r] = s /\ pc[r] \in Section /\ r \in Actor
  BY DEF TypeOK, Section, Actor
<1>2. r # a
  BY <1>1
<1> QED BY <1>1, <1>2

\* Nor does one that stays inside.
LEMMA InsideLocked ==
  ASSUME TypeOK, NEW a \in Actor, holder' = holder, spell' = spell, pc'[a] \in Section,
         \A b \in Actor \ {a} : pc'[b] = pc[b]
  PROVE  LockedInside'
<1> SUFFICES ASSUME NEW r \in Request, NEW s \in Spelling, holder[s] = r
             PROVE spell'[r] = s /\ pc'[r] \in Section
  BY DEF LockedInside
<1>1. spell[r] = s /\ pc[r] \in Section /\ r \in Actor
  BY DEF TypeOK, Section, Actor
<1> QED BY <1>1

LEMMA GotoOthers ==
  ASSUME TypeOK, NEW a \in Actor, NEW label, Goto(a, label)
  PROVE  pc'[a] = label /\ \A b \in Actor \ {a} : pc'[b] = pc[b]
BY DEF Goto, TypeOK

-----------------------------------------------------------------------------
(* The steps of the type invariant, in the groups Next is made of *)

\* What the steps of requests and of the profile calls keep of the shared state.
LEMMA RequestTyped ==
  ASSUME TypeOK, NEW r \in Request,
         RequestStep(r) \/ EnqueueFails(r) \/ \E s \in Spelling : Begin(r, s)
  PROVE  TypeOK'
<1>0. r \in Actor /\ r \notin Refresher /\ SharedOK /\ LocalsOK
  BY TypeParts DEF Actor
<1>1. ASSUME NEW s \in Spelling, Begin(r, s) PROVE TypeOK'
  <2>1. SharedOK' /\ LocalsOK'
    BY <1>0, <1>1 DEF Begin, Goto, SharedOK, LocalsOK, Labels
  <2>2. LockedInside'
    <3>1. /\ pc[r] \notin Section /\ holder' = holder
          /\ \A b \in Actor \ {r} : pc'[b] = pc[b] /\ spell'[b] = spell[b]
      BY <1>0, <1>1 DEF Begin, At, Goto, Section, SharedOK, LocalsOK
    <3> QED BY <1>0, <3>1, OutsideLocked
  <2> QED BY <2>1, <2>2, TypeNext
<1>2. ASSUME Hit(r) PROVE (LocalsOK /\ SharedOK)' \/ holder' # holder
  <2>1. StoredPayload \in Payload
    BY <1>0 DEF StoredPayload, SharedOK, Row, Payload
  <2>2. LocalsOK'
    BY <1>0, <1>2, <2>1 DEF Hit, Take, LocalsOK
  <2> QED BY <1>0, <1>2, <2>2 DEF Hit, Goto, SharedOK, Labels
<1>3. CASE ReadHit(r)
  <2>1. (LocalsOK /\ SharedOK)'
    BY <1>2, <1>3 DEF ReadHit
  <2>2. LockedInside'
    <3>1. /\ pc[r] \notin Section /\ holder' = holder /\ spell' = spell
          /\ \A b \in Actor \ {r} : pc'[b] = pc[b]
      BY <1>0, <1>3 DEF ReadHit, Hit, At, Goto, Section, SharedOK
    <3> QED BY <1>0, <3>1, OutsideLocked
  <2> QED BY <2>1, <2>2, TypeNext
<1>4. CASE ReadMiss(r)
  <2>1. SharedOK' /\ LocalsOK'
    BY <1>0, <1>4 DEF ReadMiss, Goto, locals, SharedOK, LocalsOK, Labels
  <2>2. LockedInside'
    <3>1. /\ pc[r] \notin Section /\ holder' = holder /\ spell' = spell
          /\ \A b \in Actor \ {r} : pc'[b] = pc[b]
      BY <1>0, <1>4 DEF ReadMiss, locals, At, Goto, Section, SharedOK
    <3> QED BY <1>0, <3>1, OutsideLocked
  <2> QED BY <2>1, <2>2, TypeNext
<1>5. ASSUME NEW label \in Section, pc[r] \notin Section, Goto(r, label), spell' = spell,
             holder' = [holder EXCEPT ![spell[r]] = r]
      PROVE LockedInside'
  <2> SUFFICES ASSUME NEW q \in Request, NEW s \in Spelling, holder'[s] = q
               PROVE spell'[q] = s /\ pc'[q] \in Section
    BY DEF LockedInside
  <2>1. CASE q = r
    <3>1. holder[s] # r
      BY <1>5 DEF TypeOK, Section
    <3>2. spell[r] = s
      BY <1>5, <2>1, <3>1 DEF TypeOK
    <3> QED BY <1>0, <1>5, <2>1, <3>2 DEF Goto, SharedOK
  <2>2. CASE q # r
    <3>1. holder[s] = q
      BY <1>0, <1>5, <2>2 DEF SharedOK, LocalsOK
    <3>2. spell[q] = s /\ pc[q] \in Section
      BY <3>1 DEF TypeOK, Section
    <3> QED BY <1>0, <1>5, <2>2, <3>2 DEF Goto, SharedOK, Actor
  <2> QED BY <2>1, <2>2
<1>6. CASE RecheckHit(r)
  <2>1. LocalsOK'
    <3>1. StoredPayload \in Payload
      BY <1>0 DEF StoredPayload, SharedOK, Row, Payload
    <3> QED BY <1>0, <1>6, <3>1 DEF RecheckHit, Hit, Take, LocalsOK
  <2>2. SharedOK'
    BY <1>0, <1>6 DEF RecheckHit, Hit, Goto, SharedOK, LocalsOK, Labels
  <2>3. CASE row.parsed # Nothing
    <3>1. LockedInside'
      <4>1. /\ pc[r] \notin Section /\ holder' = holder /\ spell' = spell
            /\ \A b \in Actor \ {r} : pc'[b] = pc[b]
        BY <1>0, <1>6, <2>3 DEF RecheckHit, Hit, At, Goto, Section, SharedOK
      <4> QED BY <1>0, <4>1, OutsideLocked
    <3> QED BY <2>1, <2>2, <3>1, TypeNext
  <2>4. CASE row.parsed = Nothing
    <3>1. Goto(r, "writeBack") /\ pc[r] \notin Section
      BY <1>6, <2>4 DEF RecheckHit, Hit, At, Section
    <3>2. holder' = [holder EXCEPT ![spell[r]] = r] /\ spell' = spell
      BY <1>6, <2>4 DEF RecheckHit, Hit
    <3>3. LockedInside'
      BY <1>5, <3>1, <3>2 DEF Section
    <3> QED BY <2>1, <2>2, <3>3, TypeNext
  <2> QED BY <2>3, <2>4
<1>7. CASE RecheckMiss(r)
  <2>1. SharedOK' /\ LocalsOK'
    BY <1>0, <1>7 DEF RecheckMiss, Goto, Resolve, locals, SharedOK, LocalsOK, Labels
  <2>2. Resolve(spell[r]) \in Section /\ pc[r] \notin Section /\ spell' = spell
    BY <1>7 DEF RecheckMiss, Resolve, At, Section, locals
  <2>3. LockedInside'
    BY <1>5, <1>7, <2>2 DEF RecheckMiss
  <2> QED BY <2>1, <2>3, TypeNext
<1>8. ASSUME At(r, "answer"), Answered(r), UNCHANGED holder,
             UNCHANGED <<frame, version, row, job, faults>>, cache' \in [Spelling -> Version]
      PROVE TypeOK'
  <2>1. LocalsOK' /\ \A b \in Actor \ {r} : spell'[b] = spell[b]
    BY <1>0, <1>8, ForgetTyped, NothingTyped DEF Answered, Take, LocalsOK
  <2>2. SharedOK'
    BY <1>0, <1>8 DEF Answered, Goto, SharedOK, Labels
  <2>3. LockedInside'
    <3>1. /\ pc[r] \notin Section /\ holder' = holder
          /\ \A b \in Actor \ {r} : pc'[b] = pc[b] /\ spell'[b] = spell[b]
      BY <1>0, <1>8, <2>1 DEF Answered, At, Goto, Section, SharedOK
    <3> QED BY <1>0, <3>1, OutsideLocked
  <2> QED BY <2>1, <2>2, <2>3, TypeNext
<1>9. CASE Answer(r) \/ AnswerWarm(r)
  <2>1. cache' \in [Spelling -> Version]
    BY <1>0, <1>9 DEF Answer, AnswerWarm, SharedOK, LocalsOK, Payload
  <2> QED BY <1>8, <1>9, <2>1 DEF Answer, AnswerWarm
<1>10. CASE Enqueue(r) \/ EnqueueFails(r)
  <2>1. LocalsOK' /\ \A b \in Actor \ {r} : spell'[b] = spell[b]
    BY <1>0, <1>10, ForgetTyped DEF Enqueue, EnqueueFails
  <2>2. SharedOK'
    BY <1>0, <1>10, FaultTyped DEF Enqueue, EnqueueFails, Fault, Goto, SharedOK, Labels
  <2>3. LockedInside'
    <3>1. /\ pc[r] \notin Section /\ holder' = holder
          /\ \A b \in Actor \ {r} : pc'[b] = pc[b] /\ spell'[b] = spell[b]
      BY <1>0, <1>10, <2>1 DEF Enqueue, EnqueueFails, At, Goto, Section, SharedOK
    <3> QED BY <1>0, <3>1, OutsideLocked
  <2> QED BY <2>1, <2>2, <2>3, TypeNext
<1> QED
  BY <1>1, <1>3, <1>4, <1>6, <1>7, <1>9, <1>10 DEF RequestStep

LEMMA ProfileTyped ==
  ASSUME TypeOK, NEW a \in Actor, ProfileStep(a) \/ ActorFault(a) PROVE TypeOK'
<1>0. SharedOK /\ LocalsOK /\ have[a] \in Payload
  BY TypeParts DEF LocalsOK
<1>1. have[a].page \in Version /\ have[a].stamp \in Version /\ row.page \in Version
  BY <1>0 DEF Payload, SharedOK, Row
<1>2. Found \subseteq Version
  BY <1>0 DEF Found, SharedOK, Version
<1>3. ASSUME NEW payload \in Payload, Take(a, payload), UNCHANGED <<spell, stale, doomed>>,
             NEW label \in Section, Goto(a, label),
             UNCHANGED <<version, row, cache, job, holder, faults, scene>>, overtaken' \in BOOLEAN
      PROVE TypeOK'
  <2>1. LocalsOK' /\ spell' = spell
    BY <1>0, <1>3 DEF Take, LocalsOK
  <2>2. SharedOK'
    BY <1>0, <1>3 DEF Goto, SharedOK, Labels, Section
  <2>3. LockedInside'
    BY <1>3, <2>1, GotoOthers, InsideLocked
  <2> QED BY <2>1, <2>2, <2>3, TypeNext
<1>4. CASE Search(a)
  <2>1. PICK stamp \in Found : Take(a, [page |-> 0, stamp |-> stamp])
    BY <1>4 DEF Search
  <2>2. [page |-> 0, stamp |-> stamp] \in Payload
    BY <1>2 DEF Payload, Version
  <2> QED BY <1>0, <1>3, <1>4, <2>1, <2>2 DEF Search, Section, SharedOK
<1>5. CASE IdentifyUnchanged(a)
  <2>1. [have[a] EXCEPT !.page = row.page] \in Payload
    BY <1>0, <1>1 DEF Payload
  <2> QED BY <1>0, <1>3, <1>5, <2>1 DEF IdentifyUnchanged, Section, SharedOK
<1>6. CASE Fetch(a)
  <2>1. [have[a] EXCEPT !.page = version] \in Payload
    BY <1>0 DEF Payload, SharedOK
  <2> QED BY <1>0, <1>3, <1>6, <2>1 DEF Fetch, Section, SharedOK
<1>7. CASE Enrich(a)
  <2>1. PICK stamp \in Found : /\ Take(a, [have[a] EXCEPT !.stamp = stamp])
                              /\ overtaken' = (overtaken \/ stamp > have[a].page)
    BY <1>7 DEF Enrich
  <2>2. [have[a] EXCEPT !.stamp = stamp] \in Payload
    BY <1>0, <1>2 DEF Payload
  <2>3. overtaken' \in BOOLEAN
    BY <2>1
  <2> QED BY <1>3, <1>7, <2>1, <2>2, <2>3 DEF Enrich, Section
<1>8. CASE IdentifyChanged(a) \/ EnrichFails(a)
  <2>1. /\ pc'[a] \in Section /\ \A b \in Actor \ {a} : pc'[b] = pc[b]
        /\ holder' = holder /\ spell' = spell
    BY <1>0, <1>8 DEF IdentifyChanged, EnrichFails, Goto, Section, SharedOK, locals
  <2>2. SharedOK' /\ LocalsOK'
    BY <1>0, <1>8, FaultTyped DEF IdentifyChanged, EnrichFails, Goto, SharedOK, LocalsOK, Labels, locals
  <2>3. LockedInside'
    BY <2>1, InsideLocked
  <2> QED BY <2>2, <2>3, TypeNext
<1>9. CASE Store(a)
  <2>1. row' \in Row
    BY <1>0, <1>1, <1>9, NothingTyped DEF Store, Row, SharedOK
  <2>2. /\ pc'[a] \in Section /\ \A b \in Actor \ {a} : pc'[b] = pc[b]
        /\ holder' = holder /\ spell' = spell
    BY <1>0, <1>9 DEF Store, Goto, Section, SharedOK, locals
  <2>3. LockedInside'
    BY <2>2, InsideLocked
  <2>4. SharedOK' /\ LocalsOK'
    BY <1>0, <1>9, <2>1 DEF Store, Goto, SharedOK, LocalsOK, Labels, locals
  <2> QED BY <2>3, <2>4, TypeNext
<1>10. CASE WriteBack(a) \/ WriteBackFails(a)
  <2>1. row' \in Row
    <3>1. [row EXCEPT !.parsed = have[a]] \in Row
      BY <1>0 DEF Row, SharedOK
    <3> QED BY <1>0, <1>10, <3>1 DEF WriteBack, WriteBackFails, WriteParsed, SharedOK
  <2>2. Release(a) /\ spell' = spell /\ \A b \in Actor \ {a} : pc'[b] = pc[b]
    BY <1>0, <1>10 DEF WriteBack, WriteBackFails, AfterWriteBack, Goto, SharedOK
  <2>3. holder' \in [Spelling -> Request \cup {Nobody}] /\ LockedInside'
    BY <2>2, ReleaseTyped
  <2>4. LocalsOK'
    BY <1>0, <1>10, NothingTyped DEF WriteBack, WriteBackFails, AfterWriteBack, LocalsOK
  <2>5. SharedOK'
    BY <1>0, <1>10, <2>1, <2>3, FaultTyped
    DEF WriteBack, WriteBackFails, AfterWriteBack, Goto, SharedOK, Labels
  <2> QED BY <2>3, <2>4, <2>5, TypeNext
<1>11. CASE Fail(a)
  <2>1. Forget(a) /\ Goto(a, "idle") /\ Release(a)
    BY <1>11 DEF Fail, Finish
  <2>2. LocalsOK' /\ \A b \in Actor \ {a} : spell'[b] = spell[b]
    BY <2>1, ForgetTyped
  <2>3. holder' \in [Spelling -> Request \cup {Nobody}] /\ LockedInside'
    BY <2>1, <2>2, GotoOthers, ReleaseTyped
  <2>4. SharedOK'
    BY <1>0, <1>11, <2>3, FaultTyped DEF Fail, Finish, Goto, SharedOK, Labels
  <2> QED BY <2>2, <2>3, <2>4, TypeNext
<1> QED
  BY <1>4, <1>5, <1>6, <1>7, <1>8, <1>9, <1>10, <1>11 DEF ProfileStep, ActorFault

\* The steps of the worker hold no lock.
LEMMA WorkerTyped ==
  ASSUME TypeOK, NEW w \in Refresher,
         \/ EvictStep(w) \/ CounterpartFails(w) \/ Die(w)
         \/ \E s \in Spelling : BeginRefresh(w, s) \/ Poll(w, s)
  PROVE  TypeOK'
<1>0. w \in Actor /\ w \notin Request /\ SharedOK /\ LocalsOK
  BY TypeParts DEF Actor
<1>1. ASSUME holder' = holder, \A b \in Actor \ {w} : pc'[b] = pc[b] /\ spell'[b] = spell[b]
      PROVE LockedInside'
  <2> SUFFICES ASSUME NEW r \in Request, NEW s \in Spelling, holder[s] = r
               PROVE spell'[r] = s /\ pc'[r] \in Section
    BY <1>1 DEF LockedInside
  <2>1. spell[r] = s /\ pc[r] \in Section /\ r \in Actor \ {w}
    BY <1>0 DEF TypeOK, Section, Actor
  <2> QED BY <1>1, <2>1
<1>2. ASSUME NEW s \in Spelling, BeginRefresh(w, s) \/ Poll(w, s) PROVE TypeOK'
  <2>0. Start(w, s)
    BY <1>2 DEF BeginRefresh, Poll
  <2>1a. job' \in [Spelling -> {"free", "queued", "running", "blocked"}]
    BY <1>0, <1>2 DEF BeginRefresh, Poll, SharedOK
  <2>1. SharedOK' /\ LocalsOK'
    BY <1>0, <2>0, <2>1a DEF Start, Resolve, Goto, SharedOK, LocalsOK, Labels
  <2>2. LockedInside'
    BY <1>0, <1>1, <1>2 DEF BeginRefresh, Poll, Start, Goto, SharedOK, LocalsOK
  <2> QED BY <2>1, <2>2, TypeNext
<1>3. CASE Counterpart(w) \/ CounterpartFails(w) \/ ScanKeys(w)
  <2>1. SharedOK'
    BY <1>0, <1>3, FaultTyped DEF Counterpart, CounterpartFails, ScanKeys, Goto, SharedOK, Labels
  <2>2. doomed' \in [Actor -> SUBSET Spelling]
    BY <1>0, <1>3 DEF Counterpart, CounterpartFails, ScanKeys, LocalsOK
  <2>3. LocalsOK'
    BY <1>0, <1>3, <2>2 DEF Counterpart, CounterpartFails, ScanKeys, LocalsOK
  <2>4. LockedInside'
    BY <1>0, <1>1, <1>3 DEF Counterpart, CounterpartFails, ScanKeys, Goto, SharedOK
  <2> QED BY <2>1, <2>3, <2>4, TypeNext
<1>4. CASE Delete(w) \/ Die(w)
  <2>1. Forget(w)
    BY <1>4 DEF Delete, Die, Finish
  <2>2. LocalsOK' /\ \A b \in Actor \ {w} : spell'[b] = spell[b]
    BY <1>0, <2>1, ForgetTyped
  <2>3. cache' \in [Spelling -> Version]
    BY <1>0, <1>4 DEF Delete, Die, SharedOK, Version
  <2>4. SharedOK'
    BY <1>0, <1>4, <2>3, FaultTyped DEF Delete, Die, Finish, Goto, SharedOK, Labels
  <2>5. LockedInside'
    BY <1>0, <1>1, <1>4, <2>2 DEF Delete, Die, Finish, Goto, SharedOK
  <2> QED BY <2>2, <2>4, <2>5, TypeNext
<1> QED
  BY <1>2, <1>3, <1>4 DEF EvictStep

LEMMA EnvironmentTyped ==
  ASSUME TypeOK,
         \/ \E s \in Spelling : Unblock(s) \/ ExpireEntry(s)
         \/ Age \/ Cleanup \/ Publish
  PROVE  TypeOK'
<1>0. SharedOK /\ LocalsOK
  BY TypeParts
<1>1. row' \in Row
  <2>1. CASE Age
    <3>1. [row EXCEPT !.age = Older(row.age)] \in Row
      BY <1>0 DEF Older, SharedOK, Row
    <3> QED BY <2>1, <3>1 DEF Age
  <2>2. CASE Cleanup
    BY <2>2, NothingTyped DEF Cleanup
  <2>3. CASE row' = row
    BY <1>0, <2>3 DEF SharedOK
  <2> QED BY <2>1, <2>2, <2>3 DEF Unblock, ExpireEntry, Publish
<1>2. cache' \in [Spelling -> Version] /\ version' \in Version \ {0}
  BY <1>0 DEF Unblock, ExpireEntry, Age, Cleanup, Publish, SharedOK, Version
<1>3. job' \in [Spelling -> {"free", "queued", "running", "blocked"}]
  BY <1>0 DEF Unblock, ExpireEntry, Age, Cleanup, Publish, SharedOK
<1>4. UNCHANGED <<holder, faults, pc, locals, frame>>
  BY DEF Unblock, ExpireEntry, Age, Cleanup, Publish
<1>5. LockedInside'
  BY <1>4, TypeParts DEF LockedInside, locals
<1> QED BY <1>0, <1>1, <1>2, <1>3, <1>4, <1>5, TypeNext DEF SharedOK, LocalsOK, locals

LEMMA StepTyped == TypeOK /\ [Next]_vars => TypeOK'
<1> SUFFICES ASSUME TypeOK, [Next]_vars PROVE TypeOK'
  OBVIOUS
<1>1. CASE Next
  BY <1>1, RequestTyped, ProfileTyped, WorkerTyped, EnvironmentTyped DEF Next, Refresher
<1>2. CASE UNCHANGED vars
  BY <1>2 DEF vars, locals, TypeOK
<1> QED BY <1>1, <1>2

\* Rows, entries and locals hold what they may, and a single-flight lock is held only
\* by a request inside its block: no way out of it, a failure included, keeps the lock.
THEOREM TypeCorrect == Spec => []TypeOK
<1>1. Init => TypeOK
  BY InitTyped
<1>2. TypeOK /\ [Next]_vars => TypeOK'
  BY StepTyped
<1> QED BY <1>1, <1>2, PTL DEF Spec

-----------------------------------------------------------------------------
(* What a matching lastUpdated proves.  By tag, search answers before the    *)
(* page is fetched; by id it answers after, and unless a publication comes   *)
(* between, says what the page says.  So no payload has too new a stamp, and *)
(* the row is only ever given such payloads, whoever stores them.            *)

\* Before its page is fetched, a stamp is at most what Blizzard has; with its page it
\* is at most that page.
PayloadOK(a) ==
  IF pc[a] \in {"idle", "read", "waiting", "search"} THEN have[a].stamp = 0
  ELSE IF pc[a] \in {"identify", "fetch"} THEN have[a].stamp <= version
  ELSE have[a].stamp <= have[a].page
PayloadsOK == \A a \in Actor : PayloadOK(a)
RowOK == row.stamp <= row.page /\ row.parsed.stamp <= row.parsed.page

TrustInv == ~overtaken => PayloadsOK /\ RowOK

LEMMA PayloadNumbers ==
  ASSUME TypeOK PROVE
  /\ version \in Nat /\ row.page \in Nat /\ row.stamp \in Nat
  /\ row.parsed.page \in Nat /\ row.parsed.stamp \in Nat
  /\ \A a \in Actor : have[a].page \in Nat /\ have[a].stamp \in Nat
BY DEF TypeOK, Row, Payload, Version

LEMMA NothingOK == Nothing.stamp = 0 /\ Nothing.page = 0
BY DEF Nothing

\* A publication that came between a page and its stamp is not forgotten.
LEMMA OvertakenKept == TypeOK /\ [Next]_vars /\ overtaken => overtaken'
<1> SUFFICES ASSUME TypeOK, [Next]_vars, overtaken PROVE overtaken'
  OBVIOUS
<1>1. ASSUME NEW r \in Request, NEW s \in Spelling,
             RequestStep(r) \/ EnqueueFails(r) \/ Begin(r, s)
      PROVE overtaken'
  BY <1>1 DEF Begin, RequestStep, EnqueueFails, ReadHit, ReadMiss, RecheckHit, RecheckMiss, Hit,
     Answer, AnswerWarm, Enqueue
<1>2. ASSUME NEW a \in Actor, ProfileStep(a) \/ ActorFault(a) PROVE overtaken'
  BY <1>2 DEF ProfileStep, ActorFault, Search, IdentifyUnchanged, IdentifyChanged, Fetch,
     Enrich, Store, WriteBack, Fail, EnrichFails, WriteBackFails
<1>3. ASSUME NEW w \in Refresher, NEW s \in Spelling,
             \/ EvictStep(w) \/ CounterpartFails(w) \/ Die(w)
             \/ BeginRefresh(w, s) \/ Poll(w, s)
      PROVE overtaken'
  BY <1>3 DEF EvictStep, Counterpart, ScanKeys, Delete, CounterpartFails, Die, BeginRefresh,
     Poll, Start
<1>4. ASSUME NEW s \in Spelling, Unblock(s) \/ ExpireEntry(s) PROVE overtaken'
  BY <1>4 DEF Unblock, ExpireEntry
<1>5. CASE Age \/ Cleanup \/ Publish \/ UNCHANGED vars
  BY <1>5 DEF Age, Cleanup, Publish, vars
<1>6. Tag \in Spelling
  BY DEF Spelling
<1> QED BY <1>1, <1>2, <1>3, <1>4, <1>5, <1>6 DEF Next, Refresher

LEMMA PayloadsKept ==
  ASSUME TypeOK, PayloadsOK, RowOK, [Next]_vars, ~overtaken' PROVE PayloadsOK'
<1>0. /\ have \in [Actor -> Payload] /\ pc \in [Actor -> Labels] /\ spell \in [Actor -> Spelling]
      /\ \A a \in Actor : PayloadOK(a)
  BY TypeParts DEF SharedOK, LocalsOK, PayloadsOK
<1>1. ASSUME NEW a \in Actor, version' = version, PayloadOK(a)',
             \A b \in Actor \ {a} : have'[b] = have[b] /\ pc'[b] = pc[b]
      PROVE PayloadsOK'
  BY <1>0, <1>1 DEF PayloadsOK, PayloadOK
<1>2. /\ version \in Nat /\ row.page \in Nat /\ row.stamp \in Nat
      /\ \A a \in Actor : have[a].page \in Nat /\ have[a].stamp \in Nat
  BY PayloadNumbers
<1>3. ASSUME NEW r \in Request, NEW s \in Spelling, Begin(r, s) PROVE PayloadsOK'
  <2>1. r \in Actor /\ PayloadOK(r)'
    BY <1>0, <1>3 DEF Begin, At, Goto, PayloadOK, Actor
  <2> QED BY <1>0, <1>1, <1>3, <2>1 DEF Begin, Goto
<1>4. ASSUME NEW w \in Refresher, NEW s \in Spelling, BeginRefresh(w, s) \/ Poll(w, s)
      PROVE PayloadsOK'
  <2>0. w \in Actor /\ Start(w, s)
    BY <1>4 DEF BeginRefresh, Poll, Actor
  <2>1. pc[w] = "idle" /\ pc'[w] = Resolve(s) /\ have' = have /\ version' = version
    BY <1>0, <2>0 DEF Start, At, Goto
  <2>2. PayloadOK(w)'
    BY <1>0, <1>2, <2>0, <2>1 DEF PayloadOK, Resolve
  <2> QED BY <1>0, <1>1, <2>0, <2>1, <2>2 DEF Start, Goto
<1>5. ASSUME NEW r \in Request, RequestStep(r) \/ EnqueueFails(r) PROVE PayloadsOK'
  <2>0. r \in Actor /\ version' = version
    BY <1>5 DEF Actor, RequestStep, EnqueueFails, ReadHit, ReadMiss, RecheckHit, RecheckMiss, Hit,
       Answer, AnswerWarm, Enqueue
  <2>1. CASE Hit(r) /\ (ReadHit(r) \/ RecheckHit(r))
    <3>1. StoredPayload.stamp <= StoredPayload.page
      BY <2>0 DEF RowOK, StoredPayload
    <3>2. have'[r] = StoredPayload /\ pc'[r] \in {"answer", "writeBack"}
      BY <1>0, <2>0, <2>1 DEF Hit, Take, Goto
    <3>3. PayloadOK(r)'
      BY <3>1, <3>2, <2>0 DEF PayloadOK
    <3> QED BY <1>0, <1>1, <2>0, <2>1, <3>3 DEF Hit, Take, Goto
  <2>2. CASE ReadMiss(r) \/ RecheckMiss(r)
    <3>1. /\ pc[r] \in {"read", "waiting"} /\ have' = have
          /\ pc'[r] \in {"waiting", "search", "fetch"}
      BY <1>0, <2>0, <2>2 DEF ReadMiss, RecheckMiss, At, Goto, Resolve, locals
    <3>2. PayloadOK(r)'
      BY <1>0, <1>2, <2>0, <3>1 DEF PayloadOK
    <3> QED BY <1>0, <1>1, <2>0, <2>2, <3>1, <3>2 DEF ReadMiss, RecheckMiss, Goto
  <2>3. CASE Answer(r) \/ AnswerWarm(r) \/ Enqueue(r) \/ EnqueueFails(r)
    <3>1. /\ pc'[r] \in {"enqueue", "idle"} /\ have'[r] = Nothing
          /\ \A b \in Actor \ {r} : have'[b] = have[b] /\ pc'[b] = pc[b]
      BY <1>0, <2>0, <2>3 DEF Answer, AnswerWarm, Answered, Enqueue, EnqueueFails, Forget, Take, Goto
    <3>2. PayloadOK(r)'
      BY <3>1, NothingOK DEF PayloadOK
    <3> QED BY <1>1, <2>0, <3>1, <3>2
  <2> QED BY <1>5, <2>1, <2>2, <2>3 DEF RequestStep, ReadHit, RecheckHit
<1>6. ASSUME NEW a \in Actor, ProfileStep(a) \/ ActorFault(a) PROVE PayloadsOK'
  <2>0. version' = version /\ \A b \in Actor \ {a} : have'[b] = have[b] /\ pc'[b] = pc[b]
    BY <1>0, <1>6
    DEF ProfileStep, ActorFault, Search, IdentifyUnchanged, IdentifyChanged, Fetch, Enrich,
        Store, WriteBack, AfterWriteBack, Fail, EnrichFails, WriteBackFails, Finish, Forget,
        Take, Goto, locals
  <2> SUFFICES PayloadOK(a)'
    BY <1>1, <2>0
  <2>1. CASE Search(a)
    <3>1. PICK stamp \in Found : Take(a, [page |-> 0, stamp |-> stamp])
      BY <2>1 DEF Search
    <3>2. stamp <= version
      BY <1>2 DEF Found
    <3>3. have'[a].stamp = stamp /\ pc'[a] = "identify"
      BY <1>0, <2>1, <3>1 DEF Search, Take, Goto
    <3> QED BY <2>0, <3>2, <3>3 DEF PayloadOK
  <2>2. CASE IdentifyUnchanged(a)
    <3>1. /\ have'[a].stamp = row.stamp /\ have'[a].page = row.page
          /\ pc'[a] \in {"store", "writeBack"}
      BY <1>0, <2>2 DEF IdentifyUnchanged, Unchanged, Take, Goto, Payload
    <3> QED BY <3>1 DEF PayloadOK, RowOK
  <2>3. CASE IdentifyChanged(a)
    BY <1>0, <2>3 DEF IdentifyChanged, At, Goto, PayloadOK, locals
  <2>4. CASE Fetch(a)
    <3>1. /\ have'[a].page = version /\ have'[a].stamp = have[a].stamp
          /\ pc'[a] \in {"enrich", "store"}
      BY <1>0, <2>4 DEF Fetch, Take, Goto, Payload
    <3>2. have[a].stamp <= version
      BY <1>0, <2>4 DEF Fetch, At, PayloadOK
    <3> QED BY <3>1, <3>2 DEF PayloadOK
  <2>5. CASE Enrich(a)
    <3>1. PICK stamp \in Found : /\ Take(a, [have[a] EXCEPT !.stamp = stamp])
                                /\ overtaken' = (overtaken \/ stamp > have[a].page)
      BY <2>5 DEF Enrich
    <3>2. stamp \in Nat
      BY <1>2 DEF Found
    <3>4. ~(stamp > have[a].page)
      BY <3>1, Zenon
    <3>3. have'[a].stamp = stamp /\ have'[a].page = have[a].page /\ pc'[a] = "store"
      BY <1>0, <2>5, <3>1 DEF Enrich, Take, Goto, Payload
    <3> QED BY <1>2, <3>2, <3>3, <3>4 DEF PayloadOK
  <2>6. CASE EnrichFails(a) \/ Store(a)
    <3>1. /\ have' = have /\ pc[a] \in {"enrich", "store"} /\ pc'[a] \in {"store", "writeBack"}
      BY <1>0, <2>6 DEF EnrichFails, Store, At, Goto, locals
    <3> QED BY <1>0, <3>1 DEF PayloadOK
  <2>7. CASE WriteBack(a) \/ WriteBackFails(a)
    <3>1. /\ pc[a] = "writeBack" /\ pc'[a] \in {"counterpart", "answer"}
          /\ have'[a] = have[a] \/ have'[a] = Nothing
      BY <1>0, <2>7 DEF WriteBack, WriteBackFails, AfterWriteBack, At, Goto
    <3> QED BY <1>0, <3>1, NothingOK DEF PayloadOK
  <2>8. CASE Fail(a)
    <3>1. have'[a] = Nothing /\ pc'[a] = "idle"
      BY <1>0, <2>8 DEF Fail, Finish, Forget, Goto
    <3> QED BY <3>1, NothingOK DEF PayloadOK
  <2> QED BY <1>6, <2>1, <2>2, <2>3, <2>4, <2>5, <2>6, <2>7, <2>8 DEF ProfileStep, ActorFault
<1>7. ASSUME NEW w \in Refresher, EvictStep(w) \/ CounterpartFails(w) \/ Die(w)
      PROVE PayloadsOK'
  <2>0. w \in Actor
    BY DEF Actor
  <2>1. CASE Counterpart(w) \/ ScanKeys(w) \/ CounterpartFails(w)
    <3>1. /\ have' = have /\ pc[w] \in {"counterpart", "scan"} /\ pc'[w] \in {"scan", "delete"}
      BY <1>0, <2>0, <2>1 DEF Counterpart, ScanKeys, CounterpartFails, At, Goto
    <3>2. PayloadOK(w)'
      BY <1>0, <2>0, <3>1 DEF PayloadOK
    <3> QED BY <1>0, <1>1, <2>0, <2>1, <3>1, <3>2 DEF Counterpart, ScanKeys, CounterpartFails, Goto
  <2>2. CASE Delete(w) \/ Die(w)
    <3>1. /\ have'[w] = Nothing /\ pc'[w] = "idle" /\ version' = version
          /\ \A b \in Actor \ {w} : have'[b] = have[b] /\ pc'[b] = pc[b]
      BY <1>0, <2>0, <2>2 DEF Delete, Die, Finish, Forget, Goto
    <3>2. PayloadOK(w)'
      BY <3>1, NothingOK DEF PayloadOK
    <3> QED BY <1>1, <2>0, <3>1, <3>2
  <2> QED BY <1>7, <2>1, <2>2 DEF EvictStep
<1>8. ASSUME NEW s \in Spelling, Unblock(s) \/ ExpireEntry(s) PROVE PayloadsOK'
  BY <1>0, <1>8 DEF Unblock, ExpireEntry, locals, PayloadsOK, PayloadOK
<1>9. CASE Age \/ Cleanup \/ UNCHANGED vars
  BY <1>0, <1>9 DEF Age, Cleanup, vars, locals, PayloadsOK, PayloadOK
<1>10. CASE Publish
  BY <1>0, <1>2, <1>10 DEF Publish, locals, PayloadsOK, PayloadOK
<1> QED BY <1>3, <1>4, <1>5, <1>6, <1>7, <1>8, <1>9, <1>10 DEF Next, Refresher

\* The row: only Store and WriteBack put a payload there.
LEMMA RowKept ==
  ASSUME TypeOK, PayloadsOK, RowOK, [Next]_vars PROVE RowOK'
<1>0. row \in Row /\ row.stamp <= row.page /\ row.parsed.stamp <= row.parsed.page
  BY DEF TypeOK, RowOK
<1>1. ASSUME row' = row PROVE RowOK'
  BY <1>0, <1>1 DEF RowOK
<1>2. ASSUME NEW a \in Actor, Store(a) \/ WriteBack(a) PROVE RowOK'
  <2>1. have[a].stamp <= have[a].page
    BY <1>2 DEF Store, WriteBack, At, PayloadsOK, PayloadOK
  <2>2. CASE Store(a)
    BY <2>1, <2>2, NothingOK DEF Store, RowOK
  <2>3. CASE WriteBack(a)
    BY <1>0, <2>1, <2>3 DEF WriteBack, WriteParsed, Row, RowOK
  <2> QED BY <1>2, <2>2, <2>3
<1>3. ASSUME NEW a \in Actor, ProfileStep(a) \/ ActorFault(a) PROVE RowOK'
  BY <1>1, <1>2, <1>3
  DEF ProfileStep, ActorFault, Search, IdentifyUnchanged, IdentifyChanged, Fetch, Enrich,
      Fail, EnrichFails, WriteBackFails
<1>4. ASSUME NEW r \in Request, NEW s \in Spelling,
             RequestStep(r) \/ EnqueueFails(r) \/ Begin(r, s)
      PROVE row' = row
  BY <1>4 DEF RequestStep, EnqueueFails, Begin, ReadHit, ReadMiss, RecheckHit, RecheckMiss,
     Hit, Answer, AnswerWarm, Enqueue
<1>5. ASSUME NEW w \in Refresher, NEW s \in Spelling,
             \/ EvictStep(w) \/ CounterpartFails(w) \/ Die(w)
             \/ BeginRefresh(w, s) \/ Poll(w, s)
      PROVE row' = row
  BY <1>5 DEF EvictStep, Counterpart, ScanKeys, Delete, CounterpartFails, Die,
     BeginRefresh, Poll, Start
<1>6. ASSUME NEW s \in Spelling, Unblock(s) \/ ExpireEntry(s) PROVE row' = row
  BY <1>6 DEF Unblock, ExpireEntry
<1>7. CASE Age \/ Cleanup
  BY <1>0, <1>7, NothingOK DEF Age, Cleanup, NoRow, Row, RowOK
<1>8. CASE Publish \/ UNCHANGED vars
  BY <1>1, <1>8 DEF Publish, vars
<1>9. Tag \in Spelling
  BY DEF Spelling
<1> QED BY <1>1, <1>3, <1>4, <1>5, <1>6, <1>7, <1>8, <1>9 DEF Next, Refresher

LEMMA TrustInit == Init => TrustInv
<1> SUFFICES ASSUME Init PROVE TrustInv
  OBVIOUS
<1>1. PayloadsOK
  BY NothingOK DEF Init, PayloadsOK, PayloadOK
<1>2. NoRow.stamp <= NoRow.page /\ NoRow.parsed.stamp <= NoRow.parsed.page
  BY NothingOK DEF NoRow
<1>3. LegacyRow.stamp <= LegacyRow.page /\ LegacyRow.parsed.stamp <= LegacyRow.parsed.page
  BY NothingOK DEF LegacyRow, NoRow
<1>4. RowOK
  BY <1>2, <1>3 DEF Init, RowOK
<1> QED BY <1>1, <1>4 DEF TrustInv

LEMMA TrustStep == TypeOK /\ TrustInv /\ [Next]_vars => TrustInv'
<1> SUFFICES ASSUME TypeOK, TrustInv, [Next]_vars, ~overtaken' PROVE PayloadsOK' /\ RowOK'
  BY DEF TrustInv
<1>1. ~overtaken
  BY OvertakenKept
<1>2. PayloadsOK /\ RowOK
  BY <1>1 DEF TrustInv
<1> QED BY <1>2, PayloadsKept, RowKept

LEMMA TrustSuffices == TypeOK /\ TrustInv => MatchTrusted
BY PayloadNumbers DEF TrustInv, RowOK, Unchanged, MatchTrusted, MatchIsCurrent

\* Whoever asks by whichever spelling, and whatever fails: until a publication has come
\* between a page read by id and the search that stamps it, a row whose lastUpdated
\* matches what search answered holds a page no older than that, and skipping the fetch
\* loses nothing.
THEOREM MatchIsTrusted == Spec => []MatchTrusted
<1>1. Init => TypeOK /\ TrustInv
  BY InitTyped, TrustInit
<1>2. TypeOK /\ TrustInv /\ [Next]_vars => TypeOK' /\ TrustInv'
  BY StepTyped, TrustStep
<1>3. TypeOK /\ TrustInv => MatchTrusted
  BY TrustSuffices
<1> QED BY <1>1, <1>2, <1>3, PTL DEF Spec
=============================================================================
