--------------------------- MODULE Throttle_proofs ---------------------------
(* Proofs about Throttle, for any number of tasks and processes and any delays.  *)
EXTENDS Throttle, TLAPS

-----------------------------------------------------------------------------
(* The arithmetic stays within the configured bounds. *)

LEMMA DelayBounds ==
  ASSUME NEW x \in Delays, NEW ss \in Delays, NEW k \in Nat
  PROVE  /\ PenaltyDelayFrom(x) \in Delays
         /\ PenaltySsthreshFrom(x) \in Delays
         /\ DelayAfter(k, x, ss) \in Delays
<1> USE ControllerAssumption
<1>1. x \in Nat /\ x <= MaxDelay /\ MinDelay <= x
  BY DEF Delays
<1>2. x \div 2 \in Nat /\ x \div 2 <= x
  BY <1>1
<1>3. PenaltyDelayFrom(x) \in Delays
  BY <1>1 DEF Delays, PenaltyDelayFrom, AtMost, AtLeast
<1>4. PenaltySsthreshFrom(x) \in Delays
  BY <1>1 DEF Delays, PenaltySsthreshFrom, AtMost
<1>5. DelayAfter(k, x, ss) \in Delays
  BY <1>1, <1>2 DEF Delays, DelayAfter, AtLeast
<1> QED BY <1>3, <1>4, <1>5

LEMMA StreakBounds ==
  ASSUME NEW x \in Delays, NEW ss \in Delays, NEW k \in Nat
  PROVE  StreakAfter(k, x, ss) \in 0..AtLeast(SlowStartN, AimdN)
BY ControllerAssumption DEF StreakAfter, StreakNeeded, AtLeast

LEMMA Bounds ==
  /\ StartDelay \in Delays /\ MinDelay \in Delays
  /\ MaxDelay \in Nat /\ MinDelay \in Nat
  /\ Delays \subseteq 0..MaxDelay
  /\ AtLeast(SlowStartN, AimdN) \in Nat
  /\ PenaltyDuration \in Nat
BY ControllerAssumption, ThrottleAssumption DEF Delays, AtLeast

LEMMA OlderBounds ==
  ASSUME NEW limit \in Nat, NEW age \in 0..limit
  PROVE  /\ Older(age, limit) \in 0..limit
         /\ Older(age, limit) = IF age = limit THEN limit ELSE age + 1
BY DEF Older, AtMost

-----------------------------------------------------------------------------
(* Type correctness.  The streak computed by _on_success is kept in n until it is *)
(* written, which TypeOK alone does not bound.                                    *)

StreakComputed == \A t \in Task :
  pc[t] = "okStreakSet" => n[t] \in 0..AtLeast(SlowStartN, AimdN)

Typed == TypeOK /\ StreakComputed

LEMMA InitTyped == Init => Typed
BY Bounds, ThrottleAssumption DEF Init, Typed, TypeOK, StreakComputed

Move(t) == Begin(t) \/ AcquirePace(t) \/ Valkey(t) \/ Answer(t)

\* A step keeps what it does not touch; each action shows the rest.
LEMMA StepTyped == Typed /\ [Next]_<<vars, setting>> => Typed'
<1> SUFFICES ASSUME Typed, [Next]_<<vars, setting>> PROVE Typed'
  OBVIOUS
<1> USE Bounds DEF Typed, StreakComputed
<1>1. CASE Tick
  <2>1. /\ since403' \in 0..PenaltyDuration /\ sinceRequest' \in 0..MaxDelay
        /\ penaltyAge' \in [Process -> 0..PenaltyDuration]
        /\ sinceFire' \in [Process -> 0..MaxDelay]
    BY <1>1, OlderBounds DEF Tick, TypeOK
  <2>2. sleep' \in [Task -> 0..MaxDelay]
    BY <1>1 DEF Tick, TypeOK
  <2> QED BY <1>1, <2>1, <2>2 DEF Tick, TypeOK
<1>2. ASSUME NEW t \in Task, Begin(t) \/ AcquirePace(t) \/ Answer(t) PROVE Typed'
  BY <1>2 DEF Begin, AcquirePace, Answer, Got200, Got403, GotOther, TransportError, Goto,
              Waiting, OnSuccess, OnForbidden, TypeOK, valkey
<1>3. ASSUME NEW t \in Task, AdmissionCheck(t) \/ OkCheck(t) PROVE Typed'
  BY <1>3 DEF AdmissionCheck, OkCheck, SharedCheck, Reads, Goto, Waiting, OnSuccess, TypeOK, valkey
<1>4. ASSUME NEW t \in Task, ReadDelay(t) \/ OkReadDelay(t) \/ PenReadDelay(t) PROVE Typed'
  BY <1>4 DEF ReadDelay, OkReadDelay, PenReadDelay, Reads, Goto, Waiting, OnSuccess, OnForbidden,
              TypeOK, valkey
<1>5. ASSUME NEW t \in Task, ReadLastRequest(t) PROVE Typed'
  <2>0. Reads(sinceRequest, MaxDelay) \subseteq 0..MaxDelay
    BY DEF Reads, TypeOK
  <2>1. PICK age \in 0..MaxDelay :
          sleep' = [sleep EXCEPT ![t] = IF age >= d[t] THEN 0 ELSE d[t] - age]
    BY <1>5, <2>0 DEF ReadLastRequest
  <2>2. d[t] \in 0..MaxDelay
    BY DEF TypeOK
  <2>3. (IF age >= d[t] THEN 0 ELSE d[t] - age) \in 0..MaxDelay
    BY <2>2
  <2>4. sleep' \in [Task -> 0..MaxDelay]
    BY <2>1, <2>3 DEF TypeOK
  <2> QED BY <1>5, <2>4 DEF ReadLastRequest, Goto, Waiting, TypeOK, valkey
<1>6. ASSUME NEW t \in Task, Fire(t) \/ WriteLastRequest(t) PROVE Typed'
  <2>1. sinceFire[ProcessOf[t]] \in 0..MaxDelay
    BY ThrottleAssumption DEF TypeOK
  <2>2. CASE Fire(t)
    BY <2>2 DEF Fire, Goto, ForgetLocals, Waiting, TypeOK, valkey
  <2>3. CASE WriteLastRequest(t)
    BY <2>1, <2>3 DEF WriteLastRequest, Reads, Goto, TypeOK
  <2> QED BY <1>6, <2>2, <2>3
<1>7. ASSUME NEW t \in Task, ResetStreak(t) \/ PenWriteStreak(t) \/ PenWrite403(t) PROVE Typed'
  BY <1>7 DEF ResetStreak, PenWriteStreak, PenWrite403, Reads, Goto, OnForbidden, TypeOK
<1>8. ASSUME NEW t \in Task, OkReadStreak(t) PROVE Typed'
  <2>1. n' \in [Task -> Nat]
    BY <1>8 DEF OkReadStreak, Reads, TypeOK
  <2> QED BY <1>8, <2>1 DEF OkReadStreak, Goto, OnSuccess, TypeOK, valkey
<1>9. ASSUME NEW t \in Task, OkReadSsthresh(t) PROVE Typed'
  <2>1. PICK ss \in Delays :
          /\ n' = [n EXCEPT ![t] = StreakAfter(n[t], d[t], ss)]
          /\ d' = [d EXCEPT ![t] = DelayAfter(n[t], d[t], ss)]
    BY <1>9 DEF OkReadSsthresh, Reads, TypeOK
  <2>2. d[t] \in Delays /\ n[t] \in Nat
    BY DEF TypeOK
  <2>3. /\ StreakAfter(n[t], d[t], ss) \in 0..AtLeast(SlowStartN, AimdN)
        /\ DelayAfter(n[t], d[t], ss) \in Delays
    BY <2>2, StreakBounds, DelayBounds
  <2>4. /\ n' \in [Task -> Nat] /\ d' \in [Task -> Delays]
        /\ n'[t] \in 0..AtLeast(SlowStartN, AimdN)
    BY <2>1, <2>3 DEF TypeOK
  <2>5. \A u \in Task : u # t => n'[u] = n[u]
    BY <2>1 DEF TypeOK
  <2> QED BY <1>9, <2>4, <2>5 DEF OkReadSsthresh, OnSuccess, TypeOK, valkey
<1>10. ASSUME NEW t \in Task, OkWriteStreak(t) \/ OkWriteDelay(t) PROVE Typed'
  <2>1. OkWriteStreak(t) => pc[t] = "okStreakSet"
    BY DEF OkWriteStreak, Goto
  <2>2. streak' \in 0..AtLeast(SlowStartN, AimdN) /\ delay' \in Delays
    BY <1>10, <2>1 DEF OkWriteStreak, OkWriteDelay, Reads, TypeOK
  <2> QED BY <1>10, <2>2 DEF OkWriteStreak, OkWriteDelay, Goto, ForgetLocals, OnSuccess, TypeOK
<1>11. ASSUME NEW t \in Task, PenWriteDelay(t) \/ PenWriteSsthresh(t) PROVE Typed'
  <2>1. PenaltyDelayFrom(d[t]) \in Delays /\ PenaltySsthreshFrom(d[t]) \in Delays
    BY DelayBounds DEF TypeOK
  <2>2. delay' \in Delays /\ ssthresh' \in Delays
    BY <1>11, <2>1 DEF PenWriteDelay, PenWriteSsthresh, Reads, TypeOK
  <2> QED BY <1>11, <2>2 DEF PenWriteDelay, PenWriteSsthresh, Goto, ForgetLocals, OnForbidden, TypeOK
<1>12. CASE UNCHANGED vars
  BY <1>12 DEF vars, valkey, TypeOK
<1> QED BY <1>1, <1>2, <1>3, <1>4, <1>5, <1>6, <1>7, <1>8, <1>9, <1>10, <1>11, <1>12
        DEF Next, Valkey

\* The shared values stay within their configured bounds whatever the order of the
\* reads and writes of any number of tasks, and whether or not Valkey fails.
THEOREM TypeCorrect == Spec => []TypeOK
<1>1. Typed => TypeOK
  BY DEF Typed
<1> QED BY <1>1, InitTyped, StepTyped, PTL DEF Spec
-----------------------------------------------------------------------------
(* Pacing, when Valkey answers every call.  PacedPerProcess is about the end of a  *)
(* sleep; the strengthening says, for every moment of the read-sleep-write, who    *)
(* holds the lock and what the sleep still owes.                                   *)

\* The tasks in the read-sleep-write are exactly the holders of the pace locks.
LockHeld == \A t \in Task : pc[t] \in Holding <=> paceLock[ProcessOf[t]] = t

\* The shared timestamp is at least as recent as the last turn of a process, unless one
\* of its tasks is just writing it.
TimestampRecent == \A t \in Task :
  (\A u \in Task : ProcessOf[u] = ProcessOf[t] => pc[u] # "lastRequestSet") =>
    sinceRequest <= sinceFire[ProcessOf[t]]

\* Either there is one process, or a turn that is being written is as recent as can be:
\* else the late write of one process hides a later turn of another.
OneProcess == \A t, u \in Task : ProcessOf[t] = ProcessOf[u]
WrittenAtOnce == \A t \in Task : pc[t] = "lastRequestSet" => sinceFire[ProcessOf[t]] = 0

\* What is left to sleep, and the time since the last request, make up the delay.
SleepOwed == \A t \in Task :
  pc[t] = "sleep" => d[t] <= sleep[t] + sinceFire[ProcessOf[t]]

Pace == LockHeld /\ TimestampRecent /\ SleepOwed

LEMMA InitPace == Init => Pace
BY ThrottleAssumption, Bounds DEF Init, Pace, LockHeld, TimestampRecent, SleepOwed, Holding

LEMMA StepPace ==
  ASSUME ~flaky, Typed, Pace, [Next]_<<vars, setting>>, OneProcess \/ WrittenAtOnce
  PROVE  Pace'
<1> USE ThrottleAssumption, Bounds DEF Pace, Typed
<1>0. \A v, w : Reads(v, w) = {v}
  BY DEF Reads
<1>1. CASE Tick
  <2>1. LockHeld'
    BY <1>1 DEF Tick, LockHeld
  <2>2. \A p \in Process : sinceFire'[p] = Older(sinceFire[p], MaxDelay)
    BY <1>1 DEF Tick
  <2>3. TimestampRecent'
    <3>1. sinceRequest' = Older(sinceRequest, MaxDelay) /\ sinceRequest \in 0..MaxDelay
      BY <1>1 DEF Tick, TypeOK
    <3>2. sinceRequest' = IF sinceRequest = MaxDelay THEN MaxDelay ELSE sinceRequest + 1
      BY <3>1, OlderBounds
    <3>3. ASSUME NEW t \in Task,
                 \A u \in Task : ProcessOf[u] = ProcessOf[t] => pc'[u] # "lastRequestSet"
          PROVE  sinceRequest' <= sinceFire'[ProcessOf[t]]
      <4> DEFINE p == ProcessOf[t]
      <4>0. pc' = pc
        BY <1>1 DEF Tick
      <4>1. sinceFire[p] \in 0..MaxDelay /\ sinceRequest <= sinceFire[p]
        BY <3>3, <4>0 DEF TimestampRecent, TypeOK
      <4>2. sinceFire'[p] = IF sinceFire[p] = MaxDelay THEN MaxDelay ELSE sinceFire[p] + 1
        BY <2>2, <4>1, OlderBounds
      <4> QED BY <3>1, <3>2, <4>1, <4>2
    <3> QED BY <3>3 DEF TimestampRecent
  <2>4. ASSUME NEW t \in Task, pc'[t] = "sleep"
        PROVE  d'[t] <= sleep'[t] + sinceFire'[ProcessOf[t]]
    <3> DEFINE f == sinceFire[ProcessOf[t]]
    <3>1. f \in 0..MaxDelay /\ sleep[t] \in 0..MaxDelay /\ d[t] \in 0..MaxDelay
      BY DEF TypeOK
    <3>2. d[t] <= sleep[t] + f
      BY <1>1, <2>4 DEF Tick, SleepOwed
    <3>3. sleep'[t] = IF sleep[t] = 0 THEN 0 ELSE sleep[t] - 1
      BY <1>1 DEF Tick
    <3>4. sinceFire'[ProcessOf[t]] = IF f = MaxDelay THEN MaxDelay ELSE f + 1
      BY <2>2, <3>1, OlderBounds
    <3> QED BY <1>1, <3>1, <3>2, <3>3, <3>4 DEF Tick
  <2> QED BY <2>1, <2>3, <2>4 DEF SleepOwed
<1>2. ASSUME NEW t \in Task, AcquirePace(t) PROVE Pace'
  BY <1>2 DEF AcquirePace, Goto, LockHeld, TimestampRecent, SleepOwed, Holding, TypeOK, valkey
<1>3. ASSUME NEW t \in Task, ReadDelay(t) PROVE Pace'
  BY <1>3 DEF ReadDelay, Goto, LockHeld, TimestampRecent, SleepOwed, Holding, TypeOK, valkey
<1>4. ASSUME NEW t \in Task, ReadLastRequest(t) PROVE Pace'
  <2>1. /\ pc[t] = "lastRequestGet" /\ pc' = [pc EXCEPT ![t] = "sleep"]
        /\ sleep' = [sleep EXCEPT ![t] = IF sinceRequest >= d[t] THEN 0
                                                       ELSE d[t] - sinceRequest]
        /\ UNCHANGED <<sinceRequest, sinceFire, paceLock, d>>
    BY <1>4, <1>0 DEF ReadLastRequest, Goto, valkey
  <2>2. LockHeld' /\ TimestampRecent'
    BY <2>1 DEF LockHeld, TimestampRecent, Holding, TypeOK
  <2>3. /\ sinceRequest \in 0..MaxDelay /\ d[t] \in 0..MaxDelay
        /\ sinceFire[ProcessOf[t]] \in 0..MaxDelay
        /\ sinceRequest <= sinceFire[ProcessOf[t]]
    <3>1. \A u \in Task : ProcessOf[u] = ProcessOf[t] => pc[u] # "lastRequestSet"
      BY <2>1 DEF LockHeld, Holding
    <3> QED BY <3>1 DEF TimestampRecent, TypeOK
  <2>4. sleep'[t] = IF sinceRequest >= d[t] THEN 0 ELSE d[t] - sinceRequest
    BY <2>1 DEF TypeOK
  <2>5. d[t] <= sleep'[t] + sinceFire[ProcessOf[t]]
    BY <2>3, <2>4
  <2>6. \A u \in Task : u # t => sleep'[u] = sleep[u] /\ pc'[u] = pc[u]
    BY <2>1 DEF TypeOK
  <2> QED BY <2>1, <2>2, <2>5, <2>6 DEF SleepOwed
<1>5. ASSUME NEW t \in Task, Fire(t) PROVE Pace'
  <2> DEFINE p == ProcessOf[t]
  <2>1. /\ pc[t] = "sleep" /\ pc' = [pc EXCEPT ![t] = "lastRequestSet"]
        /\ sinceFire' = [sinceFire EXCEPT ![p] = 0]
        /\ d' = [d EXCEPT ![t] = StartDelay]
        /\ UNCHANGED <<sleep, paceLock, sinceRequest>>
    BY <1>5 DEF Fire, Goto, ForgetLocals, valkey
  <2>2. paceLock[p] = t
    BY <2>1 DEF LockHeld, Holding
  <2>3. LockHeld'
    BY <2>1 DEF LockHeld, Holding, TypeOK
  <2>4. ASSUME NEW u \in Task,
               \A v \in Task : ProcessOf[v] = ProcessOf[u] => pc'[v] # "lastRequestSet"
        PROVE  sinceRequest' <= sinceFire'[ProcessOf[u]]
    <3>1. pc'[t] = "lastRequestSet" /\ \A v \in Task : v # t => pc'[v] = pc[v]
      BY <2>1 DEF TypeOK
    <3>2. ProcessOf[u] # p
      BY <2>4, <3>1
    <3>3. \A v \in Task : ProcessOf[v] = ProcessOf[u] => pc[v] # "lastRequestSet"
      BY <2>4, <3>1, <3>2
    <3> QED BY <2>1, <3>2, <3>3 DEF TimestampRecent, TypeOK
  <2>5. ASSUME NEW u \in Task, pc'[u] = "sleep"
        PROVE  u # t /\ pc[u] = "sleep" /\ ProcessOf[u] # p
    BY <2>1, <2>2, <2>5 DEF LockHeld, Holding, TypeOK
  <2>6. SleepOwed'
    BY <2>1, <2>5 DEF SleepOwed, TypeOK
  <2> QED BY <2>3, <2>4, <2>6 DEF TimestampRecent
<1>8. ASSUME NEW t \in Task, WriteLastRequest(t) PROVE Pace'
  <2> DEFINE p == ProcessOf[t]
  <2>1. /\ pc[t] = "lastRequestSet" /\ pc' = [pc EXCEPT ![t] = "inflight"]
        /\ sinceRequest' = sinceFire[p]
        /\ paceLock' = [paceLock EXCEPT ![p] = NoTask]
        /\ UNCHANGED <<sleep, sinceFire, d>>
    BY <1>8, <1>0 DEF WriteLastRequest, Goto
  <2>2. paceLock[p] = t
    BY <2>1 DEF LockHeld, Holding
  <2>3. LockHeld'
    BY <2>1, <2>2 DEF LockHeld, Holding, TypeOK
  <2>4. ASSUME NEW u \in Task PROVE sinceRequest' <= sinceFire'[ProcessOf[u]]
    <3>1. sinceFire[p] \in 0..MaxDelay /\ sinceFire[ProcessOf[u]] \in 0..MaxDelay
      BY DEF TypeOK
    <3>2. CASE OneProcess
      BY <2>1, <3>1, <3>2 DEF OneProcess
    <3>3. CASE WrittenAtOnce
      BY <2>1, <3>1, <3>3 DEF WrittenAtOnce
    <3> QED BY <3>2, <3>3
  <2>6. SleepOwed'
    BY <2>1 DEF SleepOwed, TypeOK
  <2> QED BY <2>3, <2>4, <2>6 DEF TimestampRecent
<1>6. ASSUME NEW t \in Task,
             Begin(t) \/ AdmissionCheck(t) \/ Answer(t) \/ ResetStreak(t) \/ OkCheck(t)
             \/ OkReadStreak(t) \/ OkReadSsthresh(t) \/ OkWriteStreak(t) \/ OkWriteDelay(t)
             \/ OkReadDelay(t) \/ PenReadDelay(t) \/ PenWriteDelay(t) \/ PenWriteSsthresh(t)
             \/ PenWrite403(t) \/ PenWriteStreak(t)
      PROVE  Pace'
  <2>1. /\ UNCHANGED <<sinceRequest, sinceFire, paceLock, sleep>>
        /\ pc[t] \notin Holding /\ pc'[t] \notin Holding
        /\ \A u \in Task : u # t => pc'[u] = pc[u] /\ d'[u] = d[u]
    <3>1. CASE Begin(t) \/ Answer(t)
      BY <3>1 DEF Begin, Answer, Got200, Got403, GotOther, TransportError, Goto, Holding, TypeOK,
                  valkey
    <3>2. CASE AdmissionCheck(t) \/ OkCheck(t)
      BY <3>2 DEF AdmissionCheck, OkCheck, SharedCheck, Goto, Holding, TypeOK, valkey
    <3>3. CASE OkReadStreak(t) \/ OkReadSsthresh(t) \/ OkReadDelay(t) \/ PenReadDelay(t)
      BY <3>3 DEF OkReadStreak, OkReadSsthresh, OkReadDelay, PenReadDelay, Goto, Holding, TypeOK,
                  valkey
    <3>4. CASE OkWriteStreak(t) \/ OkWriteDelay(t) \/ ResetStreak(t)
      BY <3>4 DEF OkWriteStreak, OkWriteDelay, ResetStreak, Goto, ForgetLocals, Holding, TypeOK
    <3>5. CASE PenWriteDelay(t) \/ PenWriteSsthresh(t) \/ PenWrite403(t) \/ PenWriteStreak(t)
      BY <3>5 DEF PenWriteDelay, PenWriteSsthresh, PenWrite403, PenWriteStreak, Goto, ForgetLocals,
                  Holding, TypeOK
    <3> QED BY <1>6, <3>1, <3>2, <3>3, <3>4, <3>5
  <2>2. LockHeld'
    BY <2>1 DEF LockHeld
  <2>3. TimestampRecent' /\ SleepOwed'
    BY <2>1 DEF TimestampRecent, SleepOwed, Holding
  <2> QED BY <2>2, <2>3
<1>7. CASE UNCHANGED vars
  BY <1>7 DEF vars, valkey, LockHeld, TimestampRecent, SleepOwed
<1> QED BY <1>1, <1>2, <1>3, <1>4, <1>5, <1>6, <1>7, <1>8 DEF Next, Valkey

LEMMA PaceHolds ==
  ASSUME Typed, ~flaky => Pace
  PROVE  PacedPerProcess
BY ThrottleAssumption, Bounds DEF Typed, TypeOK, Pace, SleepOwed, PacedPerProcess

\* However the tasks of one process interleave, and whatever delay a 403 or a recovery
\* stores meanwhile, a request has its turn no sooner after the one before it than the
\* delay it read under the pace lock.  It needs Valkey: a failed read of the delay or of
\* the timestamp lets a request go at once.
THEOREM Pacing == OneProcess => (Spec => []PacedPerProcess)
<1> SUFFICES ASSUME OneProcess PROVE Spec => []PacedPerProcess
  OBVIOUS
<1> DEFINE Inv == Typed /\ (~flaky => Pace)
<1>1. Init => Inv
  BY InitTyped, InitPace
<1>2. Inv /\ [Next]_<<vars, setting>> => Inv'
  <2>1. [Next]_<<vars, setting>> => flaky' = flaky
    BY DEF Next, setting
  <2> QED BY <2>1, StepTyped, StepPace
<1>3. Inv => PacedPerProcess
  BY PaceHolds
<1> QED BY <1>1, <1>2, <1>3, PTL DEF Spec

Acts(t) == AcquirePace(t) \/ Valkey(t) \/ Answer(t)

\* A task that makes a step is under way, and no other task is touched.
LEMMA OthersStay ==
  ASSUME Typed, NEW t \in Task, Acts(t) \/ Begin(t)
  PROVE  /\ Acts(t) => pc[t] # "idle"
         /\ Begin(t) => pc[t] = "idle"
         /\ \A u \in Task : u # t => pc'[u] = pc[u] /\ d'[u] = d[u] /\ n'[u] = n[u]
<1> USE DEF Typed, TypeOK, Goto
<1>1. CASE Begin(t)
  <2>1. /\ pc[t] = "idle" /\ UNCHANGED <<d, n>>
        /\ \A u \in Task : u # t => pc'[u] = pc[u]
    BY <1>1 DEF Begin
  <2>2. ASSUME Acts(t) PROVE pc[t] # "idle"
    BY <2>2 DEF Acts, AcquirePace, Valkey, Answer, AdmissionCheck, ReadDelay, ReadLastRequest, Fire, WriteLastRequest,
       ResetStreak, OkCheck, SharedCheck, OkReadStreak, OkReadDelay, OkReadSsthresh, OkWriteStreak,
       OkWriteDelay, PenReadDelay, PenWriteDelay, PenWriteSsthresh, PenWrite403, PenWriteStreak,
       Got200, Got403, GotOther, TransportError
  <2> QED BY <2>1, <2>2
<1>2. CASE AcquirePace(t) \/ Answer(t)
  BY <1>2 DEF AcquirePace, Answer, Got200, Got403, GotOther, TransportError, Begin
<1>3. CASE AdmissionCheck(t) \/ OkCheck(t)
  BY <1>3 DEF AdmissionCheck, OkCheck, SharedCheck, Begin
<1>4. CASE ReadDelay(t) \/ ReadLastRequest(t) \/ Fire(t) \/ WriteLastRequest(t) \/ ResetStreak(t)
  BY <1>4 DEF ReadDelay, ReadLastRequest, Fire, WriteLastRequest, ForgetLocals, ResetStreak, Begin
<1>5. CASE OkReadStreak(t) \/ OkReadDelay(t) \/ OkReadSsthresh(t) \/ OkWriteStreak(t) \/ OkWriteDelay(t)
  BY <1>5 DEF OkReadStreak, OkReadDelay, OkReadSsthresh, OkWriteStreak, OkWriteDelay, ForgetLocals, Begin
<1>6. CASE PenReadDelay(t) \/ PenWriteDelay(t) \/ PenWriteSsthresh(t) \/ PenWrite403(t) \/ PenWriteStreak(t)
  BY <1>6 DEF PenReadDelay, PenWriteDelay, PenWriteSsthresh, PenWrite403, PenWriteStreak,
     ForgetLocals, Begin
<1> QED BY <1>1, <1>2, <1>3, <1>4, <1>5, <1>6 DEF Acts, Valkey

\* The time does not move on while a turn is being written.
PromptWrite == Tick => \A t \in Task : pc[t] # "lastRequestSet"

LEMMA StepWrittenAtOnce ==
  ASSUME Typed, WrittenAtOnce, [Next]_<<vars, setting>>, [PromptWrite]_vars
  PROVE  WrittenAtOnce'
<1> USE ThrottleAssumption DEF WrittenAtOnce, Typed
<1>1. CASE UNCHANGED vars
  BY <1>1 DEF vars, valkey
<1>2. CASE Tick
  <2>1. UNCHANGED pc
    BY <1>2 DEF Tick
  <2>2. (\A t \in Task : pc[t] # "lastRequestSet") \/ UNCHANGED vars
    BY <1>2 DEF PromptWrite
  <2> QED BY <1>1, <2>1, <2>2
<1>3. ASSUME NEW t \in Task, Fire(t) PROVE WrittenAtOnce'
  <2>1. /\ pc' = [pc EXCEPT ![t] = "lastRequestSet"]
        /\ sinceFire' = [sinceFire EXCEPT ![ProcessOf[t]] = 0]
    BY <1>3 DEF Fire, Goto
  <2> QED BY <2>1 DEF TypeOK
<1>4. ASSUME NEW t \in Task, Acts(t) \/ Begin(t), ~Fire(t) PROVE WrittenAtOnce'
  <2>1. pc'[t] # "lastRequestSet" /\ UNCHANGED sinceFire
    BY <1>4 DEF Acts, Begin, AcquirePace, Valkey, Answer, AdmissionCheck, ReadDelay, ReadLastRequest,
       WriteLastRequest, ResetStreak, OkCheck, SharedCheck, OkReadStreak, OkReadDelay, OkReadSsthresh,
       OkWriteStreak, OkWriteDelay, PenReadDelay, PenWriteDelay, PenWriteSsthresh, PenWrite403,
       PenWriteStreak, Got200, Got403, GotOther, TransportError, Goto, TypeOK
  <2> QED BY <1>4, <2>1, OthersStay
<1> QED BY <1>1, <1>2, <1>3, <1>4 DEF Next, Acts

\* The same for every process of several that share the timestamp, as long as none takes
\* so long to write it that another has had its turn and written it meanwhile.
THEOREM PacingAcross == Spec /\ [][PromptWrite]_vars => []PacedPerProcess
<1> DEFINE Inv == Typed /\ WrittenAtOnce /\ (~flaky => Pace)
<1>1. Init => Inv
  BY InitTyped, InitPace DEF Init, WrittenAtOnce
<1>2. Inv /\ [Next]_<<vars, setting>> /\ [PromptWrite]_vars => Inv'
  <2>1. [Next]_<<vars, setting>> => flaky' = flaky
    BY DEF Next, setting
  <2> QED BY <2>1, StepTyped, StepPace, StepWrittenAtOnce
<1>3. Inv => PacedPerProcess
  BY PaceHolds
<1> QED BY <1>1, <1>2, <1>3, PTL DEF Spec

-----------------------------------------------------------------------------
(* Requests that do not overlap, when Valkey answers every call.  One task is under *)
(* way at a time, so what it has read is still so when it writes.                   *)

Alone == \A t, u \in Task : pc[t] # "idle" /\ pc[u] # "idle" => t = u

\* What a task that adjusts the delay has read and computed.
Known(t) ==
  /\ pc[t] = "okDelayGet" => n[t] = streak + 1
  /\ pc[t] = "okSsthreshGet" => n[t] = streak + 1 /\ d[t] = delay
  /\ pc[t] = "okStreakSet" => /\ n[t] = StreakAfter(streak + 1, delay, ssthresh)
                              /\ d[t] = DelayAfter(streak + 1, delay, ssthresh)
  /\ pc[t] \in {"penDelaySet", "penSsthreshSet"} => d[t] \in Delays
  /\ pc[t] = "penDelaySet" => d[t] = delay

Single == Alone /\ \A t \in Task : Known(t)

LEMMA InitSingle == Init => Single
BY DEF Init, Single, Alone, Known

\* Whoever makes a step is the only one under way afterwards, and what is known of the
\* others, who are idle, is nothing.
LEMMA StepSingle ==
  ASSUME ~flaky, ~overlap, Typed, Single, [Next]_<<vars, setting>>
  PROVE  Single'
<1>0. \A v, w : Reads(v, w) = {v}
  BY DEF Reads
<1>1. CASE Tick
  BY <1>1 DEF Tick, Single, Alone, Known
<1>2. CASE UNCHANGED vars
  BY <1>2 DEF vars, valkey, Single, Alone, Known
<1>3. ASSUME NEW t \in Task, Acts(t) \/ (Turn /\ Begin(t)) PROVE Single'
  <2>1. \A u \in Task : u # t => pc[u] = "idle" /\ pc'[u] = "idle"
    BY <1>3, OthersStay DEF Turn, Single, Alone
  <2>2. Alone'
    BY <2>1 DEF Alone
  <2>3. \A u \in Task : u # t => Known(u)'
    BY <2>1 DEF Known
  <2>4. Known(t)'
    <3> USE DEF Single, Known, Typed, TypeOK, Goto
    <3>1. CASE Begin(t) \/ AcquirePace(t) \/ Answer(t)
      BY <3>1 DEF Begin, AcquirePace, Answer, Got200, Got403, GotOther, TransportError
    <3>2. CASE AdmissionCheck(t) \/ OkCheck(t)
      BY <3>2 DEF AdmissionCheck, OkCheck, SharedCheck
    <3>3. CASE ReadDelay(t) \/ ReadLastRequest(t) \/ Fire(t) \/ WriteLastRequest(t) \/ ResetStreak(t)
      BY <3>3 DEF ReadDelay, ReadLastRequest, Fire, WriteLastRequest, ResetStreak
    <3>4. CASE OkReadStreak(t)
      BY <3>4, <1>0 DEF OkReadStreak, valkey
    <3>5. CASE OkReadDelay(t)
      BY <3>5, <1>0 DEF OkReadDelay, valkey
    <3>6. CASE OkReadSsthresh(t)
      BY <3>6, <1>0 DEF OkReadSsthresh, valkey
    <3>7. CASE OkWriteStreak(t) \/ OkWriteDelay(t)
      BY <3>7 DEF OkWriteStreak, OkWriteDelay
    <3>8. CASE PenReadDelay(t)
      BY <3>8, <1>0 DEF PenReadDelay, valkey
    <3>9. CASE PenWriteDelay(t) \/ PenWriteSsthresh(t) \/ PenWrite403(t) \/ PenWriteStreak(t)
      BY <3>9 DEF PenWriteDelay, PenWriteSsthresh, PenWrite403, PenWriteStreak
    <3> QED BY <1>3, <3>1, <3>2, <3>3, <3>4, <3>5, <3>6, <3>7, <3>8, <3>9 DEF Acts, Valkey
  <2> QED BY <2>2, <2>3, <2>4 DEF Single
<1> QED BY <1>1, <1>2, <1>3 DEF Next, Acts

-----------------------------------------------------------------------------
(* No recovery during a penalty.  A penalty is shorter than the successes it takes    *)
(* to shorten the delay, at the pace of that delay: the requests counted since it     *)
(* began lie at least PenaltyDelay apart.                                             *)

\* As configured: 10 and 20 successes 10 s apart, a penalty of 60 s.
Unhurried ==
  /\ (SlowStartN - 1) * PenaltyDelay >= PenaltyDuration
  /\ (AimdN - 1) * PenaltyDelay >= PenaltyDuration

InPenalty == since403 < PenaltyDuration

\* Places after a request is sent and before its success is in the streak.
Uncounted == {"inflight", "streakReset", "ok403Get", "okStreakGet", "okDelayGet",
              "okSsthreshGet", "okStreakSet"}

SlowNow ==
  /\ InPenalty => delay >= PenaltyDelay
  /\ \A t \in Task : pc[t] \in {"penSsthreshSet", "pen403Set", "penStreakSet"} => delay >= PenaltyDelay

Apart(t) ==
  /\ InPenalty /\ pc[t] \in {"lastRequestGet", "sleep"} => d[t] >= PenaltyDelay
  /\ pc[t] = "sleep" => d[t] <= sleep[t] + sinceRequest

\* The streak began in the penalty, and each of its requests took its time.
CountedSlowly ==
  InPenalty /\ (\A t \in Task : pc[t] # "penStreakSet") =>
    streak = 0 \/ streak * PenaltyDelay + sinceRequest <= since403 + PenaltyDelay

SentSlowly(t) ==
  /\ InPenalty /\ pc[t] \in Uncounted => streak * PenaltyDelay + sinceRequest <= since403
  /\ InPenalty /\ pc[t] = "lastRequestSet" =>
       streak * PenaltyDelay + sinceFire[ProcessOf[t]] <= since403

\* So the streak that would shorten the delay is not reached before the penalty is over.
TooEarly(t) ==
  /\ InPenalty /\ pc[t] = "okStreakSet" => n[t] # 0
  /\ pc[t] = "okDelaySet" => ~InPenalty

Spaced ==
  /\ SlowNow /\ CountedSlowly
  /\ \A t \in Task : Apart(t) /\ SentSlowly(t) /\ TooEarly(t)

LEMMA InitSpaced == Init => Spaced
BY ThrottleAssumption DEF Init, Spaced, InPenalty, SlowNow, CountedSlowly, Apart, SentSlowly, TooEarly

LEMMA PenaltySlows ==
  ASSUME NEW x \in Delays
  PROVE  PenaltyDelayFrom(x) >= PenaltyDelay /\ PenaltyDelayFrom(x) >= x
BY ControllerAssumption DEF Delays, PenaltyDelayFrom, AtMost, AtLeast

LEMMA Numbers ==
  ASSUME Typed
  PROVE  /\ streak \in Nat /\ sinceRequest \in Nat /\ since403 \in Nat /\ delay \in Nat
         /\ ssthresh \in Nat
         /\ PenaltyDelay \in Nat /\ PenaltyDuration \in Nat /\ MaxDelay \in Nat
         /\ SlowStartN \in Nat /\ AimdN \in Nat
         /\ \A t \in Task : n[t] \in Nat /\ d[t] \in Nat /\ d[t] <= MaxDelay /\ sleep[t] \in Nat
         /\ streak * PenaltyDelay \in Nat
BY ControllerAssumption, ThrottleAssumption, Bounds DEF Typed, TypeOK, Delays

LEMMA TickSpaced ==
  ASSUME Typed, Spaced, Tick
  PROVE  Spaced'
<1>1. /\ since403 \in 0..PenaltyDuration /\ sinceRequest \in 0..MaxDelay
      /\ PenaltyDuration \in Nat /\ MaxDelay \in Nat
  BY Numbers, Bounds DEF Typed, TypeOK
<1>2. /\ since403' = (IF since403 = PenaltyDuration THEN PenaltyDuration ELSE since403 + 1)
      /\ sinceRequest' = (IF sinceRequest = MaxDelay THEN MaxDelay ELSE sinceRequest + 1)
  BY <1>1, OlderBounds DEF Tick
<1>3. InPenalty' => InPenalty /\ since403' = since403 + 1
  BY <1>1, <1>2 DEF InPenalty
<1>4. /\ sinceRequest' <= sinceRequest + 1
      /\ sinceRequest \in Nat /\ sinceRequest' \in Nat /\ since403 \in Nat /\ since403' \in Nat
  BY <1>1, <1>2
<1>5. PICK r \in Nat, age \in Nat : r = sinceRequest' /\ age = since403'
  BY <1>4
<1>6. /\ UNCHANGED <<delay, streak, pc, d, n>>
      /\ \A t \in Task : sleep'[t] = IF sleep[t] = 0 THEN 0 ELSE sleep[t] - 1
  BY DEF Tick
<1>7. SlowNow'
  BY <1>3, <1>6 DEF Spaced, SlowNow
<1>8. CountedSlowly'
  <2> SUFFICES ASSUME InPenalty', \A t \in Task : pc[t] # "penStreakSet", streak # 0
               PROVE  streak * PenaltyDelay + sinceRequest' <= since403' + PenaltyDelay
    BY <1>6 DEF CountedSlowly
  <2>0. PICK k \in Nat : k = streak * PenaltyDelay
    BY Numbers
  <2>1. k + sinceRequest <= since403 + PenaltyDelay
    BY <1>3, <2>0 DEF Spaced, CountedSlowly
  <2>2. PenaltyDelay \in Nat
    BY Numbers
  <2>3. r <= sinceRequest + 1 /\ age = since403 + 1
    BY <1>3, <1>4, <1>5
  <2>5. k + r <= age + PenaltyDelay
    BY <1>4, <2>1, <2>2, <2>3
  <2> QED BY <1>5, <2>0, <2>5
<1>9. ASSUME NEW t \in Task PROVE Apart(t)' /\ SentSlowly(t)' /\ TooEarly(t)'
  <2>1. Apart(t) /\ SentSlowly(t) /\ TooEarly(t)
    BY DEF Spaced
  <2>2. Apart(t)'
    <3>1. pc[t] = "sleep" => d[t] <= sleep'[t] + sinceRequest'
      BY <1>1, <1>2, <1>6, <2>1, Numbers DEF Apart
    <3> QED BY <1>3, <1>6, <2>1, <3>1 DEF Apart
  <2>3. SentSlowly(t)'
    <3>0. PICK k \in Nat : k = streak * PenaltyDelay
      BY Numbers
    <3>1. InPenalty /\ pc[t] \in Uncounted => k + sinceRequest <= since403
      BY <2>1, <3>0 DEF SentSlowly
    <3>3. r <= sinceRequest + 1
      BY <1>4, <1>5
    <3>4. InPenalty' /\ pc[t] \in Uncounted => k + sinceRequest <= since403 /\ age = since403 + 1
      BY <1>3, <1>5, <3>1
    <3>5. InPenalty' /\ pc[t] \in Uncounted => k + r <= age
      BY <1>4, <3>3, <3>4
    <3>6. PICK f \in Nat, g \in Nat :
            f = sinceFire[ProcessOf[t]] /\ g = sinceFire'[ProcessOf[t]] /\ g <= f + 1
      <4>1. sinceFire[ProcessOf[t]] \in 0..MaxDelay
        BY ThrottleAssumption DEF Typed, TypeOK
      <4>2. sinceFire'[ProcessOf[t]] = Older(sinceFire[ProcessOf[t]], MaxDelay)
        BY ThrottleAssumption DEF Tick
      <4> QED BY <1>1, <4>1, <4>2, OlderBounds
    <3>7. InPenalty' /\ pc[t] = "lastRequestSet" => k + f <= since403 /\ age = since403 + 1
      BY <1>3, <1>5, <2>1, <3>0, <3>6 DEF SentSlowly
    <3>8. InPenalty' /\ pc[t] = "lastRequestSet" => k + g <= age
      BY <1>4, <3>6, <3>7
    <3> QED BY <1>5, <3>0, <3>5, <3>6, <3>8, <1>6 DEF SentSlowly
  <2>4. TooEarly(t)'
    BY <1>3, <1>6, <2>1 DEF TooEarly
  <2> QED BY <2>2, <2>3, <2>4
<1> QED BY <1>7, <1>8, <1>9 DEF Spaced

\* What Spaced says of the one task under way.
SpacedAt(t) ==
  /\ InPenalty \/ pc[t] \in {"penSsthreshSet", "pen403Set", "penStreakSet"} => delay >= PenaltyDelay
  /\ InPenalty /\ pc[t] # "penStreakSet" =>
       streak = 0 \/ streak * PenaltyDelay + sinceRequest <= since403 + PenaltyDelay
  /\ Apart(t) /\ SentSlowly(t) /\ TooEarly(t)

LEMMA SpacedAlone ==
  ASSUME NEW t \in Task, \A u \in Task : u # t => pc[u] = "idle"
  PROVE  Spaced => SpacedAt(t)
BY DEF Spaced, SpacedAt, SlowNow, CountedSlowly

\* The success that would shorten the delay comes too late to do it in the penalty.
LEMMA StreakTooShort ==
  ASSUME Unhurried, Typed, InPenalty, NEW ss \in Delays, NEW x \in Delays,
         streak * PenaltyDelay + sinceRequest <= since403
  PROVE  StreakAfter(streak + 1, x, ss) # 0
<1>1. /\ streak \in Nat /\ sinceRequest \in Nat /\ since403 \in Nat /\ PenaltyDelay \in Nat
      /\ SlowStartN \in Nat \ {0} /\ AimdN \in Nat \ {0} /\ 0 < PenaltyDelay /\ PenaltyDuration \in Nat
  BY Numbers, ControllerAssumption
<1>2. streak * PenaltyDelay < PenaltyDuration
  <2>1. PICK k \in Nat : k = streak * PenaltyDelay
    BY Numbers
  <2> QED BY <1>1, <2>1 DEF InPenalty
<1>3. ASSUME NEW m \in Nat \ {0}, (m - 1) * PenaltyDelay >= PenaltyDuration PROVE streak + 1 < m
  <2>1. SUFFICES ASSUME m - 1 <= streak PROVE FALSE
    BY <1>1
  <2>2. (m - 1) * PenaltyDelay <= streak * PenaltyDelay
    BY <1>1, <2>1
  <2>3. PICK k \in Nat : k = streak * PenaltyDelay
    BY Numbers
  <2>4. PICK j \in Nat : j = (m - 1) * PenaltyDelay
    BY <1>1
  <2> QED BY <1>1, <1>2, <1>3, <2>2, <2>3, <2>4
<1>4. streak + 1 < SlowStartN /\ streak + 1 < AimdN
  BY <1>1, <1>3 DEF Unhurried
<1> QED BY <1>1, <1>4 DEF StreakAfter, StreakNeeded

LEMMA TaskSpaced ==
  ASSUME ~flaky, Unhurried, Typed, NEW t \in Task, Known(t), SpacedAt(t), Acts(t) \/ Begin(t)
  PROVE  SpacedAt(t)'
<1> USE DEF SpacedAt, Apart, SentSlowly, TooEarly, InPenalty, Uncounted
<1>0. \A v, w : Reads(v, w) = {v}
  BY DEF Reads
<1>1. pc \in [Task -> {"idle", "inflight", "streakReset"} \cup Waiting \cup OnSuccess \cup OnForbidden]
  BY DEF Typed, TypeOK
<1>2. /\ n \in [Task -> Nat] /\ d \in [Task -> Delays] /\ sleep \in [Task -> 0..MaxDelay]
      /\ d[t] \in Delays /\ delay \in Delays /\ ssthresh \in Delays
  BY DEF Typed, TypeOK
<1>3. /\ streak \in Nat /\ sinceRequest \in Nat /\ since403 \in Nat /\ PenaltyDelay \in Nat
      /\ sinceRequest \in 0..MaxDelay /\ PenaltyDuration \in Nat /\ MaxDelay \in Nat
      /\ Delays \subseteq Nat /\ StartDelay \in Delays
  BY Numbers, Bounds DEF Typed, TypeOK, Delays
<1>4. CASE Begin(t) \/ AcquirePace(t) \/ Answer(t)
  BY <1>1, <1>4 DEF Begin, AcquirePace, Answer, Got200, Got403, GotOther, TransportError, Goto, valkey
<1>5. CASE AdmissionCheck(t) \/ OkCheck(t)
  BY <1>1, <1>5 DEF AdmissionCheck, OkCheck, SharedCheck, Goto, valkey
<1>6. CASE ReadDelay(t)
  BY <1>0, <1>1, <1>2, <1>6 DEF ReadDelay, Goto, valkey
<1>7. CASE ReadLastRequest(t)
  <2>1. /\ UNCHANGED <<delay, ssthresh, streak, since403, sinceRequest, d, n>>
        /\ pc[t] = "lastRequestGet" /\ pc'[t] = "sleep"
        /\ sleep'[t] = IF sinceRequest >= d[t] THEN 0 ELSE d[t] - sinceRequest
    BY <1>0, <1>1, <1>2, <1>7 DEF ReadLastRequest, Goto, valkey
  <2>2. d[t] <= sleep'[t] + sinceRequest
    <3>1. PICK x \in Nat : x = d[t]
      BY <1>2, <1>3
    <3> QED BY <1>3, <2>1, <3>1
  <2> QED BY <2>1, <2>2
<1>8. CASE Fire(t)
  <2>1. /\ UNCHANGED <<delay, ssthresh, streak, since403, sinceRequest>>
        /\ pc[t] = "sleep" /\ pc'[t] = "lastRequestSet" /\ sleep[t] = 0
        /\ sinceFire'[ProcessOf[t]] = 0
    BY <1>1, <1>8, ThrottleAssumption DEF Fire, Goto, valkey, Typed, TypeOK
  <2>2. PICK k \in Nat : k = streak * PenaltyDelay
    BY Numbers
  <2>3. ASSUME InPenalty PROVE k <= since403
    <3>1. PICK x \in Nat : x = d[t]
      BY <1>2, <1>3
    <3>2. sinceRequest >= PenaltyDelay
      <4>1. x >= PenaltyDelay /\ x <= 0 + sinceRequest
        BY <2>1, <2>3, <3>1
      <4> QED BY <1>3, <4>1
    <3>3. k = 0 \/ k + sinceRequest <= since403 + PenaltyDelay
      BY <1>3, <2>1, <2>2, <2>3
    <3> QED BY <1>3, <3>2, <3>3
  <2>4. InPenalty => streak * PenaltyDelay + 0 <= since403
    BY <1>3, <2>2, <2>3
  <2> QED BY <1>3, <2>1, <2>4
<1>18. CASE WriteLastRequest(t)
  <2>1. /\ UNCHANGED <<delay, ssthresh, streak, since403>>
        /\ sinceRequest' = sinceFire[ProcessOf[t]]
        /\ pc[t] = "lastRequestSet" /\ pc'[t] = "inflight"
    BY <1>0, <1>1, <1>18 DEF WriteLastRequest, Goto
  <2>2. PICK k \in Nat, f \in Nat : k = streak * PenaltyDelay /\ f = sinceFire[ProcessOf[t]]
    BY Numbers, ThrottleAssumption, Bounds DEF Typed, TypeOK
  <2>3. InPenalty => k + f <= since403
    BY <2>1, <2>2
  <2>4. InPenalty => k + f <= since403 + PenaltyDelay
    BY <1>3, <2>2, <2>3
  <2> QED BY <2>1, <2>2, <2>3, <2>4
<1>9. CASE ResetStreak(t) \/ PenWriteStreak(t)
  BY <1>0, <1>1, <1>3, <1>9 DEF ResetStreak, PenWriteStreak, Goto
<1>10. CASE OkReadStreak(t) \/ OkReadDelay(t)
  BY <1>1, <1>10 DEF OkReadStreak, OkReadDelay, Goto, valkey
<1>11. CASE OkReadSsthresh(t)
  <2>1. /\ UNCHANGED <<delay, ssthresh, streak, since403, sinceRequest, sleep>>
        /\ pc[t] = "okSsthreshGet" /\ pc'[t] = "okStreakSet"
        /\ n'[t] = StreakAfter(n[t], d[t], ssthresh)
    BY <1>0, <1>1, <1>2, <1>11 DEF OkReadSsthresh, valkey
  <2>2. InPenalty => StreakAfter(streak + 1, d[t], ssthresh) # 0
    BY <1>2, <2>1, StreakTooShort
  <2>3. InPenalty => n'[t] # 0
    BY <2>1, <2>2 DEF Known
  <2> QED BY <2>1, <2>3
<1>12. CASE OkWriteStreak(t)
  <2>1. /\ UNCHANGED <<delay, ssthresh, since403, sinceRequest, sleep>>
        /\ pc[t] = "okStreakSet" /\ streak' = n[t]
        /\ pc'[t] = IF n[t] = 0 THEN "okDelaySet" ELSE "idle"
    BY <1>0, <1>1, <1>2, <1>12 DEF OkWriteStreak, Goto
  <2>2. n[t] # 0 => n[t] = streak + 1
    BY <2>1 DEF Known, StreakAfter
  <2>3. n[t] # 0 /\ InPenalty => n[t] * PenaltyDelay + sinceRequest <= since403 + PenaltyDelay
    <3>1. PICK k \in Nat : k = streak * PenaltyDelay
      BY Numbers
    <3>2. (streak + 1) * PenaltyDelay = k + PenaltyDelay
      BY <1>3, <3>1
    <3>3. InPenalty => k + sinceRequest <= since403
      BY <2>1, <3>1
    <3>4. InPenalty => (k + PenaltyDelay) + sinceRequest <= since403 + PenaltyDelay
      BY <1>3, <3>3
    <3> QED BY <2>2, <3>2, <3>4
  <2>4. n[t] = 0 => ~InPenalty
    BY <2>1
  <2> QED BY <2>1, <2>3, <2>4
<1>13. CASE OkWriteDelay(t)
  BY <1>1, <1>13 DEF OkWriteDelay, Goto
<1>14. CASE PenReadDelay(t)
  BY <1>1, <1>14 DEF PenReadDelay, Goto, valkey
<1>15. CASE PenWriteDelay(t)
  <2>1. delay' >= PenaltyDelay
    BY <1>0, <1>2, <1>15, PenaltySlows DEF PenWriteDelay
  <2> QED BY <1>1, <1>15, <2>1 DEF PenWriteDelay, Goto
<1>16. CASE PenWriteSsthresh(t)
  BY <1>1, <1>16 DEF PenWriteSsthresh, Goto
<1>17. CASE PenWrite403(t)
  BY <1>0, <1>1, <1>17 DEF PenWrite403, Goto
<1> QED BY <1>4, <1>5, <1>6, <1>7, <1>8, <1>9, <1>10, <1>11, <1>12, <1>13, <1>14, <1>15, <1>16, <1>17, <1>18
        DEF Acts, Valkey

\* Spaced is an invariant of the behaviours in which requests do not overlap.
LEMMA StepSpaced ==
  ASSUME ~flaky, Unhurried, ~overlap, Typed, Single, Spaced, [Next]_<<vars, setting>>
  PROVE  Spaced'
<1>1. CASE Tick
  BY <1>1, TickSpaced
<1>2. CASE UNCHANGED vars
  BY <1>2 DEF vars, valkey, Spaced, InPenalty, SlowNow, CountedSlowly, Apart, SentSlowly, TooEarly
<1>3. ASSUME NEW t \in Task, Acts(t) \/ (Turn /\ Begin(t)) PROVE Spaced'
  <2>1. \A u \in Task : u # t => pc[u] = "idle" /\ pc'[u] = "idle"
    BY <1>3, OthersStay DEF Turn, Single, Alone
  <2>2. SpacedAt(t) /\ Known(t)
    BY <2>1, SpacedAlone DEF Single
  <2>3. SpacedAt(t)'
    BY <1>3, <2>2, TaskSpaced
  <2>4. SlowNow'
    BY <2>1, <2>3 DEF SlowNow, SpacedAt
  <2>5. CountedSlowly'
    BY <2>3 DEF CountedSlowly, SpacedAt
  <2>6. ASSUME NEW u \in Task, u # t PROVE Apart(u)' /\ SentSlowly(u)' /\ TooEarly(u)'
    BY <2>1, <2>6 DEF Apart, SentSlowly, TooEarly, Uncounted
  <2> QED BY <2>3, <2>4, <2>5, <2>6 DEF Spaced, SpacedAt
<1> QED BY <1>1, <1>2, <1>3 DEF Next, Acts

\* While requests do not overlap and Valkey answers, the delay never shrinks in a
\* penalty, for any number of tasks and any settings in which a penalty is no longer
\* than the successes that would shorten the delay.
THEOREM NoRecovery == Unhurried => (Spec => NoRecoveryAlone)
<1> SUFFICES ASSUME Unhurried PROVE Spec => NoRecoveryAlone
  OBVIOUS
<1> DEFINE Inv == Typed /\ (Atomic => Single /\ Spaced)
<1>1. Init => Inv
  BY InitTyped, InitSingle, InitSpaced
<1>2. Inv /\ [Next]_<<vars, setting>> => Inv'
  <2>1. [Next]_<<vars, setting>> => Atomic' = Atomic
    BY DEF Next, setting, Atomic
  <2> QED BY <2>1, StepTyped, StepSingle, StepSpaced DEF Atomic
<1>3. Inv /\ [Next]_<<vars, setting>> => [~overlap /\ ~flaky /\ since403 < PenaltyDuration => delay' >= delay]_vars
  <2> SUFFICES ASSUME Typed, ~overlap, ~flaky, Single, Spaced, InPenalty, [Next]_<<vars, setting>>
               PROVE  delay' >= delay
    BY DEF InPenalty, Atomic
  <2>1. delay \in Delays /\ delay \in Nat /\ d \in [Task -> Delays]
    BY Numbers DEF Typed, TypeOK
  <2>2. ASSUME NEW t \in Task, OkWriteDelay(t) PROVE FALSE
    BY <2>2 DEF OkWriteDelay, Goto, Spaced, TooEarly
  <2>3. ASSUME NEW t \in Task, PenWriteDelay(t) PROVE delay' >= delay
    <3>1. pc[t] = "penDelaySet" /\ delay' = PenaltyDelayFrom(d[t])
      BY <2>3 DEF PenWriteDelay, Goto, Reads
    <3>2. delay' = PenaltyDelayFrom(delay)
      BY <3>1 DEF Single, Known
    <3> QED BY <2>1, <3>2, PenaltySlows
  <2>4. ASSUME NEW t \in Task, Acts(t) \/ Begin(t), ~OkWriteDelay(t), ~PenWriteDelay(t)
        PROVE  delay' = delay
    BY <2>4 DEF Acts, Begin, AcquirePace, Valkey, Answer, AdmissionCheck, ReadDelay, ReadLastRequest,
       Fire, WriteLastRequest, ResetStreak, OkCheck, OkReadStreak, OkReadDelay, OkReadSsthresh, OkWriteStreak,
       PenReadDelay, PenWriteSsthresh, PenWrite403, PenWriteStreak,
       Got200, Got403, GotOther, TransportError, valkey
  <2>5. Tick \/ UNCHANGED <<vars, setting>> => delay' = delay
    BY DEF Tick, vars, valkey
  <2> QED BY <2>1, <2>2, <2>3, <2>4, <2>5 DEF Next, Acts
<1> QED BY <1>1, <1>2, <1>3, PTL DEF Spec, NoRecoveryAlone

-----------------------------------------------------------------------------
(* Where requests do not overlap, the awaits add up to the steps of the controller. *)

\* The controller of the refinement computes with the operators of the throttle.
LEMMA SameArithmetic ==
  ASSUME NEW k, NEW x, NEW ss
  PROVE  /\ OneAtATime!StreakAfter(k, x, ss) = StreakAfter(k, x, ss)
         /\ OneAtATime!DelayAfter(k, x, ss) = DelayAfter(k, x, ss)
         /\ OneAtATime!PenaltyDelayFrom(x) = PenaltyDelayFrom(x)
         /\ OneAtATime!PenaltySsthreshFrom(x) = PenaltySsthreshFrom(x)
BY DEF OneAtATime!StreakAfter, StreakAfter, OneAtATime!StreakNeeded, StreakNeeded,
   OneAtATime!DelayAfter, DelayAfter, OneAtATime!PenaltyDelayFrom, PenaltyDelayFrom,
   OneAtATime!PenaltySsthreshFrom, PenaltySsthreshFrom,
   OneAtATime!AtMost, AtMost, OneAtATime!AtLeast, AtLeast

\* With one task under way, the controller's values are read off that task.
LEMMA SeenAlone ==
  ASSUME NEW t \in Task, Atomic, \A u \in Task : u # t => pc[u] = "idle"
  PROVE  /\ SeenDelay = (IF pc[t] = "okDelaySet" THEN d[t] ELSE delay)
         /\ SeenSsthresh = (IF pc[t] = "penSsthreshSet" THEN PenaltySsthreshFrom(d[t]) ELSE ssthresh)
         /\ SeenStreak = (IF pc[t] \in {"penSsthreshSet", "pen403Set", "penStreakSet"} THEN 0
                          ELSE streak)
<1>1. /\ Writing("okDelaySet") <=> pc[t] = "okDelaySet"
      /\ Writing("penSsthreshSet") <=> pc[t] = "penSsthreshSet"
      /\ DuringPenalty <=> pc[t] \in {"penSsthreshSet", "pen403Set", "penStreakSet"}
  BY DEF Writing, DuringPenalty
<1>2. /\ pc[t] = "okDelaySet" => Writer("okDelaySet") = t
      /\ pc[t] = "penSsthreshSet" => Writer("penSsthreshSet") = t
  BY Zenon DEF Writer
<1> QED BY <1>1, <1>2 DEF SeenDelay, SeenSsthresh, SeenStreak

LEMMA SeenAloneNext ==
  ASSUME NEW t \in Task, Atomic', \A u \in Task : u # t => pc'[u] = "idle"
  PROVE  /\ SeenDelay' = (IF pc'[t] = "okDelaySet" THEN d'[t] ELSE delay')
         /\ SeenSsthresh' = (IF pc'[t] = "penSsthreshSet" THEN PenaltySsthreshFrom(d'[t]) ELSE ssthresh')
         /\ SeenStreak' = (IF pc'[t] \in {"penSsthreshSet", "pen403Set", "penStreakSet"} THEN 0
                           ELSE streak')
<1>1. /\ Writing("okDelaySet")' <=> pc'[t] = "okDelaySet"
      /\ Writing("penSsthreshSet")' <=> pc'[t] = "penSsthreshSet"
      /\ DuringPenalty' <=> pc'[t] \in {"penSsthreshSet", "pen403Set", "penStreakSet"}
  BY DEF Writing, DuringPenalty
<1>2. /\ pc'[t] = "okDelaySet" => Writer("okDelaySet")' = t
      /\ pc'[t] = "penSsthreshSet" => Writer("penSsthreshSet")' = t
  BY Zenon DEF Writer
<1> QED BY <1>1, <1>2 DEF SeenDelay, SeenSsthresh, SeenStreak, PenaltySsthreshFrom

LEMMA TaskImplements ==
  ASSUME Atomic, Atomic', Typed, Single,
         NEW t \in Task, Acts(t) \/ (Turn /\ Begin(t))
  PROVE  [OneAtATime!Next]_<<SeenDelay, SeenSsthresh, SeenStreak>>
<1>0. \A v, w : Reads(v, w) = {v}
  BY DEF Reads, Atomic
<1>1. \A u \in Task : u # t => pc[u] = "idle" /\ pc'[u] = "idle"
  BY OthersStay DEF Turn, Single, Alone, Atomic
<1>2. /\ SeenDelay = (IF pc[t] = "okDelaySet" THEN d[t] ELSE delay)
      /\ SeenSsthresh = (IF pc[t] = "penSsthreshSet" THEN PenaltySsthreshFrom(d[t]) ELSE ssthresh)
      /\ SeenStreak = (IF pc[t] \in {"penSsthreshSet", "pen403Set", "penStreakSet"} THEN 0 ELSE streak)
  BY <1>1, SeenAlone
<1>3. /\ SeenDelay' = (IF pc'[t] = "okDelaySet" THEN d'[t] ELSE delay')
      /\ SeenSsthresh' = (IF pc'[t] = "penSsthreshSet" THEN PenaltySsthreshFrom(d'[t]) ELSE ssthresh')
      /\ SeenStreak' = (IF pc'[t] \in {"penSsthreshSet", "pen403Set", "penStreakSet"} THEN 0 ELSE streak')
  BY <1>1, SeenAloneNext
<1>4. /\ pc \in [Task -> {"idle", "inflight", "streakReset"} \cup Waiting \cup OnSuccess \cup OnForbidden]
      /\ n \in [Task -> Nat] /\ d \in [Task -> Delays] /\ streak \in Nat /\ n[t] \in Nat
  BY Numbers DEF Typed, TypeOK
<1>5. Known(t)
  BY DEF Single
\* The steps the controller does not see.
<1>6. CASE Begin(t) \/ AcquirePace(t) \/ Answer(t)
  <2>1. /\ UNCHANGED valkey /\ pc[t] \notin {"okDelaySet"} \cup OnForbidden
        /\ pc'[t] \notin {"okDelaySet", "penSsthreshSet", "pen403Set", "penStreakSet"}
    BY <1>4, <1>6 DEF Begin, AcquirePace, Answer, Got200, Got403, GotOther, TransportError, Goto,
                      OnForbidden
  <2> QED BY <1>2, <1>3, <2>1 DEF valkey, OnForbidden
<1>7. CASE AdmissionCheck(t) \/ OkCheck(t) \/ ReadDelay(t) \/ ReadLastRequest(t) \/ Fire(t) \/ WriteLastRequest(t)
           \/ OkReadStreak(t) \/ OkReadDelay(t) \/ OkReadSsthresh(t) \/ PenReadDelay(t)
  <2>1. /\ UNCHANGED <<delay, ssthresh, streak>>
        /\ pc[t] \notin {"okDelaySet", "penSsthreshSet", "pen403Set", "penStreakSet"}
        /\ pc'[t] \notin {"okDelaySet", "penSsthreshSet", "pen403Set", "penStreakSet"}
    BY <1>4, <1>7 DEF AdmissionCheck, OkCheck, SharedCheck, ReadDelay, ReadLastRequest, Fire, WriteLastRequest, OkReadStreak,
                      OkReadDelay, OkReadSsthresh, PenReadDelay, Goto, valkey
  <2> QED BY <1>2, <1>3, <2>1
<1>8. CASE OkWriteDelay(t) \/ PenWriteSsthresh(t) \/ PenWrite403(t) \/ PenWriteStreak(t)
  <2>1. CASE OkWriteDelay(t)
    BY <1>0, <1>2, <1>3, <1>4, <2>1 DEF OkWriteDelay, Goto
  <2>2. CASE PenWriteSsthresh(t)
    BY <1>0, <1>2, <1>3, <1>4, <2>2 DEF PenWriteSsthresh, Goto
  <2>3. CASE PenWrite403(t)
    BY <1>0, <1>2, <1>3, <1>4, <2>3 DEF PenWrite403, Goto
  <2>4. CASE PenWriteStreak(t)
    BY <1>0, <1>2, <1>3, <1>4, <2>4 DEF PenWriteStreak, Goto
  <2> QED BY <1>8, <2>1, <2>2, <2>3, <2>4
\* A success takes effect when its streak is written.
<1>9. CASE OkWriteStreak(t)
  <2>1. /\ pc[t] = "okStreakSet" /\ streak' = n[t] /\ UNCHANGED <<delay, ssthresh>>
        /\ pc'[t] = (IF n[t] = 0 THEN "okDelaySet" ELSE "idle")
        /\ n[t] = 0 => d'[t] = d[t]
    BY <1>0, <1>4, <1>9 DEF OkWriteStreak, Goto
  <2>2. /\ n[t] = StreakAfter(streak + 1, delay, ssthresh)
        /\ d[t] = DelayAfter(streak + 1, delay, ssthresh)
    BY <1>5, <2>1 DEF Known
  <2>3. SeenDelay = delay /\ SeenSsthresh = ssthresh /\ SeenStreak = streak
    BY <1>2, <2>1
  <2>4. n[t] # 0 => d[t] = delay
    <3>1. StreakNeeded(delay, ssthresh) \in Nat
      BY ControllerAssumption DEF StreakNeeded
    <3> QED BY <1>4, <2>2, <3>1 DEF StreakAfter, DelayAfter
  <2>5. SeenDelay' = d[t] /\ SeenSsthresh' = ssthresh /\ SeenStreak' = n[t]
    BY <1>3, <2>1, <2>4
  <2>6. /\ SeenStreak' = OneAtATime!StreakAfter(SeenStreak + 1, SeenDelay, SeenSsthresh)
        /\ SeenDelay' = OneAtATime!DelayAfter(SeenStreak + 1, SeenDelay, SeenSsthresh)
        /\ SeenSsthresh' = SeenSsthresh
    BY <2>2, <2>3, <2>5, SameArithmetic
  <2> QED BY <2>6 DEF OneAtATime!Next, OneAtATime!Success
\* A 403 takes effect when its delay is written.
<1>10. CASE PenWriteDelay(t)
  <2>1. /\ pc[t] = "penDelaySet" /\ pc'[t] = "penSsthreshSet" /\ delay' = PenaltyDelayFrom(d[t])
        /\ d'[t] = d[t] /\ d[t] = delay
    BY <1>0, <1>4, <1>5, <1>10 DEF PenWriteDelay, Goto, Known
  <2>2. /\ SeenDelay = delay /\ SeenDelay' = PenaltyDelayFrom(delay)
        /\ SeenSsthresh' = PenaltySsthreshFrom(delay) /\ SeenStreak' = 0
    BY <1>2, <1>3, <2>1
  <2>3. /\ SeenDelay' = OneAtATime!PenaltyDelayFrom(SeenDelay)
        /\ SeenSsthresh' = OneAtATime!PenaltySsthreshFrom(SeenDelay)
    BY <2>2, SameArithmetic
  <2> QED BY <2>2, <2>3 DEF OneAtATime!Next, OneAtATime!Forbidden
<1>11. CASE ResetStreak(t)
  <2>1. SeenStreak' = 0 /\ SeenDelay' = SeenDelay /\ SeenSsthresh' = SeenSsthresh
    BY <1>0, <1>2, <1>3, <1>4, <1>11 DEF ResetStreak, Goto
  <2> QED BY <2>1 DEF OneAtATime!Next, OneAtATime!OtherStatus
<1> QED BY <1>6, <1>7, <1>8, <1>9, <1>10, <1>11 DEF Acts, Valkey

\* While requests do not overlap and Valkey answers, the five values, read and written in
\* awaits of their own, go through the steps of the controller adjust_delay promises and
\* no others, for any number of tasks and any settings.
THEOREM Implements == Spec => ImplementsController
<1> DEFINE Inv == Typed /\ (Atomic => Single)
<1>1. Init => Inv /\ OneAtATime!Init
  <2>1. Init => OneAtATime!Init
    BY DEF Init, OneAtATime!Init, SeenDelay, SeenSsthresh, SeenStreak, Writing
  <2> QED BY <2>1, InitTyped, InitSingle
<1>2. [Next]_<<vars, setting>> => Atomic' = Atomic /\ UNCHANGED setting
  BY DEF Next, setting, Atomic
<1>3. Inv /\ [Next]_<<vars, setting>> => Inv'
  BY <1>2, StepTyped, StepSingle DEF Atomic
<1>4. Inv /\ [Next]_<<vars, setting>> => [OneAtATime!Next]_OneAtATime!vars
  <2> SUFFICES ASSUME Inv, [Next]_<<vars, setting>>
               PROVE  [OneAtATime!Next]_<<SeenDelay, SeenSsthresh, SeenStreak>>
    BY DEF OneAtATime!vars
  <2>1. CASE ~Atomic
    BY <1>2, <2>1 DEF SeenDelay, SeenSsthresh, SeenStreak
  <2>2. CASE Tick \/ UNCHANGED <<vars, setting>>
    <3>1. UNCHANGED <<delay, ssthresh, streak, pc, d, setting>>
      BY <1>2, <2>2 DEF Tick, vars, valkey
    <3>2. /\ Writer("okDelaySet")' = Writer("okDelaySet")
          /\ Writer("penSsthreshSet")' = Writer("penSsthreshSet")
      BY <3>1, Zenon DEF Writer
    <3>3. /\ Writing("okDelaySet")' = Writing("okDelaySet")
          /\ Writing("penSsthreshSet")' = Writing("penSsthreshSet")
          /\ DuringPenalty' = DuringPenalty
      BY <3>1 DEF Writing, DuringPenalty
    <3> QED BY <3>1, <3>2, <3>3 DEF SeenDelay, SeenSsthresh, SeenStreak, Atomic, setting, PenaltySsthreshFrom
  <2>3. ASSUME Atomic, NEW t \in Task, Acts(t) \/ (Turn /\ Begin(t))
        PROVE  [OneAtATime!Next]_<<SeenDelay, SeenSsthresh, SeenStreak>>
    BY <1>2, <2>3, TaskImplements
  <2> QED BY <2>1, <2>2, <2>3 DEF Next, Acts
<1> QED BY <1>1, <1>3, <1>4, PTL DEF Spec, ImplementsController, OneAtATime!Spec
=============================================================================
