--------------------------- MODULE Refresh_proofs ---------------------------
(***************************************************************************)
(* Proofs about TaskQueue, for any jobs, cron tasks, clients, slots and    *)
(* bounds, and about StaticData, which its jobs keep fresh, for any        *)
(* requests, workers, keys and bounds.                                     *)
(***************************************************************************)
EXTENDS TaskQueue, StaticData, FiniteSetTheorems, FunctionTheorems, TLAPS

USE QueueAssumption

-----------------------------------------------------------------------------
(* Where a job's messages are, one predicate for each place. *)

Pushing(j) == \E c \in Client : pushing[c] = j
Queued(j) == \E i \in 1..Len(queue) : queue[i] = j
Popped(j) == popped = j
Running(j) == running[j] > 0

\* Until a job outlasts its claim no place holds two of its messages, and no two places
\* hold one.
Single(j) ==
  /\ \A b, c \in Client : pushing[b] = j /\ pushing[c] = j => b = c
  /\ \A h, i \in 1..Len(queue) : queue[h] = j /\ queue[i] = j => h = i
  /\ running[j] <= 1
  /\ ~(Pushing(j) /\ Queued(j)) /\ ~(Pushing(j) /\ Popped(j)) /\ ~(Pushing(j) /\ Running(j))
  /\ ~(Queued(j) /\ Popped(j)) /\ ~(Queued(j) /\ Running(j)) /\ ~(Popped(j) /\ Running(j))

\* Every message holds its job's claim.
Guarded(j) == Pushing(j) \/ Queued(j) \/ Popped(j) \/ Running(j) => claimed[j]

Dedup == \A j \in Job : overdue[j] = 0 => Single(j) /\ Guarded(j)

LEMMA LiveSomewhere ==
  ASSUME QueueTypeOK, NEW j \in Job
  PROVE  Pushing(j) \/ Queued(j) \/ Popped(j) \/ Running(j) => Live(j)
<1>1. ASSUME Pushing(j) PROVE Live(j)
  <2>1. PICK c \in Client : pushing[c] = j
    BY <1>1 DEF Pushing
  <2>2. <<"pushing", c>> \in Places(j)
    BY <2>1 DEF Places
  <2> QED BY <2>2 DEF Live
<1>2. ASSUME Queued(j) PROVE Live(j)
  <2>1. PICK i \in 1..Len(queue) : queue[i] = j
    BY <1>2 DEF Queued
  <2>2. <<"queue", i>> \in Places(j)
    BY <2>1 DEF Places
  <2> QED BY <2>2 DEF Live
<1>3. ASSUME Popped(j) PROVE Live(j)
  <2>1. <<"popped", 0>> \in Places(j)
    BY <1>3 DEF Places, Popped
  <2> QED BY <2>1 DEF Live
<1>4. ASSUME Running(j) PROVE Live(j)
  <2>1. 1 \in 1..running[j]
    BY <1>4 DEF Running, QueueTypeOK, Task
  <2>2. <<"running", 1>> \in Places(j)
    BY <2>1 DEF Places
  <2> QED BY <2>2 DEF Live
<1> QED BY <1>1, <1>2, <1>3, <1>4

\* The places of a job, one by one.
LEMMA PlacesAre ==
  ASSUME NEW j \in Job, NEW z
  PROVE  z \in Places(j) <=>
           \/ \E c \in Client : pushing[c] = j /\ z = <<"pushing", c>>
           \/ \E i \in 1..Len(queue) : queue[i] = j /\ z = <<"queue", i>>
           \/ popped = j /\ z = <<"popped", 0>>
           \/ \E k \in 1..running[j] : z = <<"running", k>>
<1>1. z \in Places(j) <=>
        \/ z \in {<<"pushing", c>> : c \in {x \in Client : pushing[x] = j}}
        \/ z \in {<<"queue", i>> : i \in {x \in 1..Len(queue) : queue[x] = j}}
        \/ z \in {<<"popped", 0>> : x \in {x \in {0} : popped = j}}
        \/ z \in {<<"running", k>> : k \in 1..running[j]}
  BY DEF Places
<1> QED BY <1>1

LEMMA PlacesAreNext ==
  ASSUME NEW j \in Job, NEW z
  PROVE  z \in Places(j)' <=>
           \/ \E c \in Client : pushing'[c] = j /\ z = <<"pushing", c>>
           \/ \E i \in 1..Len(queue') : queue'[i] = j /\ z = <<"queue", i>>
           \/ popped' = j /\ z = <<"popped", 0>>
           \/ \E k \in 1..running'[j] : z = <<"running", k>>
<1>1. z \in Places(j)' <=>
        \/ z \in {<<"pushing", c>> : c \in {x \in Client : pushing'[x] = j}}
        \/ z \in {<<"queue", i>> : i \in {x \in 1..Len(queue') : queue'[x] = j}}
        \/ z \in {<<"popped", 0>> : x \in {x \in {0} : popped' = j}}
        \/ z \in {<<"running", k>> : k \in 1..running'[j]}
  BY DEF Places
<1> QED BY <1>1

\* What one step may do to a finite set: add an element, move one, remove one.
LEMMA Added ==
  ASSUME NEW S, NEW T, NEW x, IsFiniteSet(S), T \subseteq S \cup {x}
  PROVE  IsFiniteSet(T) /\ Cardinality(T) <= Cardinality(S) + 1
<1>1. /\ IsFiniteSet(S \cup {x}) /\ Cardinality(S) \in Nat
      /\ Cardinality(S \cup {x}) \in Nat /\ Cardinality(S \cup {x}) <= Cardinality(S) + 1
  <2>1. Cardinality(S) \in Nat
    BY FS_CardinalityType
  <2>2. /\ IsFiniteSet(S \cup {x})
        /\ Cardinality(S \cup {x}) = IF x \in S THEN Cardinality(S) ELSE Cardinality(S) + 1
    BY FS_AddElement
  <2> QED BY <2>1, <2>2
<1>2. IsFiniteSet(T) /\ Cardinality(T) \in Nat /\ Cardinality(T) <= Cardinality(S \cup {x})
  BY <1>1, FS_Subset, FS_CardinalityType
<1> QED BY <1>1, <1>2

LEMMA Removed ==
  ASSUME NEW S, NEW T, NEW x \in S, IsFiniteSet(S), T \subseteq S \ {x}
  PROVE  IsFiniteSet(T) /\ Cardinality(T) <= Cardinality(S) - 1
<1>1. /\ IsFiniteSet(S \ {x}) /\ Cardinality(S) \in Nat
      /\ Cardinality(S \ {x}) = Cardinality(S) - 1
  BY FS_RemoveElement, FS_CardinalityType
<1>2. IsFiniteSet(T) /\ Cardinality(T) \in Nat /\ Cardinality(T) <= Cardinality(S \ {x})
  BY <1>1, FS_Subset, FS_CardinalityType
<1> QED BY <1>1, <1>2

LEMMA Moved ==
  ASSUME NEW S, NEW T, NEW x \in S, NEW y, IsFiniteSet(S), T \subseteq (S \ {x}) \cup {y}
  PROVE  IsFiniteSet(T) /\ Cardinality(T) <= Cardinality(S)
<1>1. /\ IsFiniteSet(S \ {x}) /\ Cardinality(S) \in Nat
      /\ Cardinality(S \ {x}) = Cardinality(S) - 1
  BY FS_RemoveElement, FS_CardinalityType
<1>2. IsFiniteSet(T) /\ Cardinality(T) \in Nat /\ Cardinality(T) <= Cardinality(S \ {x}) + 1
  BY <1>1, Added, FS_Subset, FS_CardinalityType
<1> QED BY <1>1, <1>2

-----------------------------------------------------------------------------
(* Type correctness: the receiver's slots that are taken are finitely many, one more *)
(* after a start, one less after an end.                                              *)

Typed == QueueTypeOK /\ IsFiniteSet(Occupied)

LEMMA OccupiedAre ==
  ASSUME NEW x
  PROVE  x \in Occupied <=> \E t \in Task : \E k \in 1..running[t] : x = <<t, k>>
BY DEF Occupied

LEMMA OccupiedAreNext ==
  ASSUME NEW x
  PROVE  x \in Occupied' <=> \E t \in Task : \E k \in 1..running'[t] : x = <<t, k>>
BY DEF Occupied

LEMMA InitTyped == QueueInit => Typed
<1> SUFFICES ASSUME QueueInit PROVE Typed
  OBVIOUS
<1>1. queue = <<>> /\ overdue = [j \in Job |-> 0] /\ 0 \in 0..MaxOverdue
  BY DEF QueueInit
<1>2. queue \in Seq(Task)
  BY <1>1
<1>3. \A t \in Task : running[t] = 0
  BY DEF QueueInit
<1>4. Occupied = {}
  BY <1>3, OccupiedAre
<1>5. IsFiniteSet(Occupied) /\ Cardinality(Occupied) = 0 /\ 0 <= Slots
  BY <1>4, FS_EmptySet
<1>6. /\ claimed \in [Job -> BOOLEAN] /\ overdue \in [Job -> 0..MaxOverdue]
      /\ pushing \in [Client -> Job \cup {None}] /\ popped \in Task \cup {None}
      /\ running \in [Task -> Nat] /\ listening \in BOOLEAN
  BY <1>1 DEF QueueInit
<1> QED BY <1>2, <1>5, <1>6 DEF QueueTypeOK, Typed

\* Without the slots, every step keeps the types.
LEMMA StepSlotsTyped ==
  ASSUME Typed, [QueueNext]_queueVars, running' \in [Task -> Nat]
  PROVE  IsFiniteSet(Occupied') /\ Cardinality(Occupied') <= Slots
<1> USE DEF Typed, QueueTypeOK
<1>0. Cardinality(Occupied) \in Nat /\ Slots \in Nat
  BY FS_CardinalityType
<1>1. CASE Start
  <2>1. /\ popped \in Task /\ Cardinality(Occupied) < Slots
        /\ running'[popped] = running[popped] + 1
        /\ \A t \in Task : t # popped => running'[t] = running[t]
    BY <1>1 DEF Start
  <2>2. ASSUME NEW x \in Occupied', x \notin Occupied PROVE x = <<popped, running[popped] + 1>>
    <3>1. PICK t \in Task : \E k \in 1..running'[t] : x = <<t, k>>
      BY OccupiedAreNext
    <3>2. PICK k \in 1..running'[t] : x = <<t, k>>
      BY <3>1
    <3>3. k \notin 1..running[t]
      BY <2>2, <3>2, OccupiedAre
    <3> QED BY <2>1, <3>2, <3>3
  <2>3. Occupied' \subseteq Occupied \cup {<<popped, running[popped] + 1>>}
    BY <2>2
  <2>4. IsFiniteSet(Occupied') /\ Cardinality(Occupied') <= Cardinality(Occupied) + 1
    BY <2>3, Added
  <2> QED BY <1>0, <2>1, <2>4, FS_CardinalityType
<1>2. ASSUME \A t \in Task : running'[t] <= running[t]
      PROVE  IsFiniteSet(Occupied') /\ Cardinality(Occupied') <= Slots
  <2>1. ASSUME NEW x \in Occupied' PROVE x \in Occupied
    <3>1. PICK t \in Task : \E k \in 1..running'[t] : x = <<t, k>>
      BY OccupiedAreNext
    <3>2. PICK k \in 1..running'[t] : x = <<t, k>>
      BY <3>1
    <3>3. k \in 1..running[t]
      BY <1>2, <3>2
    <3> QED BY <3>2, <3>3, OccupiedAre
  <2>2. IsFiniteSet(Occupied') /\ Cardinality(Occupied') <= Cardinality(Occupied)
    BY <2>1, FS_Subset
  <2> QED BY <1>0, <2>2, FS_CardinalityType
<1>3. ASSUME ~Start PROVE \A t \in Task : running'[t] <= running[t]
  <2>1. ASSUME NEW t \in Task, Finish(t) PROVE \A u \in Task : running'[u] <= running[u]
    BY <2>1 DEF Finish
  <2>2. ASSUME NEW j \in Job, FinishUnreleased(j) PROVE \A u \in Task : running'[u] <= running[u]
    BY <2>2 DEF FinishUnreleased, Task
  <2>3. CASE CrashWorker
    BY <2>3 DEF CrashWorker
  <2>4. CASE running' = running
    BY <2>4
  <2> QED
    BY <1>3, <2>1, <2>2, <2>3, <2>4
    DEF QueueNext, Fault, Claim, ClaimAnswerLost, Push, PushFails, Schedule, Expire, ExpireOverdue,
        Open, Pop, PopFails, PopAnswerLost, queueVars
<1> QED BY <1>1, <1>2, <1>3

LEMMA StepTyped == Typed /\ [QueueNext]_queueVars => Typed'
<1> SUFFICES ASSUME Typed, [QueueNext]_queueVars PROVE Typed'
  OBVIOUS
<1> DEFINE Rest == /\ claimed' \in [Job -> BOOLEAN]
                   /\ queue' \in Seq(Task)
                   /\ pushing' \in [Client -> Job \cup {None}]
                   /\ popped' \in Task \cup {None}
                   /\ running' \in [Task -> Nat]
                   /\ listening' \in BOOLEAN
<1>t. /\ claimed \in [Job -> BOOLEAN] /\ queue \in Seq(Task)
      /\ pushing \in [Client -> Job \cup {None}] /\ popped \in Task \cup {None}
      /\ running \in [Task -> Nat] /\ listening \in BOOLEAN
  BY DEF Typed, QueueTypeOK
<1> USE <1>t
<1>0. /\ Job \subseteq Task /\ Cron \subseteq Task
      /\ \A q \in Seq(Task) : q # <<>> => Head(q) \in Task /\ Tail(q) \in Seq(Task)
  BY DEF Task
<1>1. ASSUME NEW c \in Client, NEW j \in Job, Claim(c, j) \/ ClaimAnswerLost(c, j) PROVE Rest
  BY <1>1 DEF Claim, ClaimAnswerLost
<1>2. ASSUME NEW c \in Client, Push(c) \/ PushFails(c) PROVE Rest
  <2>1. ASSUME pushing[c] # None PROVE Append(queue, pushing[c]) \in Seq(Task)
    BY <1>0, <2>1
  <2> QED BY <1>2, <2>1 DEF Push, PushFails
<1>3. ASSUME NEW k \in Cron, Schedule(k) PROVE Rest
  BY <1>0, <1>3 DEF Schedule
<1>4. ASSUME NEW j \in Job, Expire(j) \/ ExpireOverdue(j) PROVE Rest
  BY <1>4 DEF Expire, ExpireOverdue
<1>5. ASSUME Open PROVE Rest
  BY <1>5 DEF Open
<1>6. ASSUME Pop PROVE Rest
  <2>1. queue' \in Seq(Task) /\ popped' \in Task
    BY <1>0, <1>6 DEF Pop
  <2> QED BY <1>6, <2>1 DEF Pop
<1>7. ASSUME PopFails \/ PopAnswerLost PROVE Rest
  <2>1. queue' \in Seq(Task)
    BY <1>0, <1>7 DEF PopFails, PopAnswerLost
  <2> QED BY <1>7, <2>1 DEF PopFails, PopAnswerLost, BackOff
<1>8. ASSUME Start PROVE Rest
  BY <1>8 DEF Start
<1>9. ASSUME NEW t \in Task, Finish(t) PROVE Rest
  BY <1>9 DEF Finish
<1>10. ASSUME NEW j \in Job, FinishUnreleased(j) PROVE Rest
  BY <1>0, <1>10 DEF FinishUnreleased
<1>11. ASSUME CrashWorker PROVE Rest
  BY <1>11 DEF CrashWorker
<1>12. ASSUME UNCHANGED queueVars PROVE Rest
  BY <1>12 DEF queueVars
<1>13. Rest
  BY <1>1, <1>2, <1>3, <1>4, <1>5, <1>6, <1>7, <1>8, <1>9, <1>10, <1>11, <1>12
  DEF QueueNext, Fault
<1>14. overdue' \in [Job -> 0..MaxOverdue]
  <2>1. overdue \in [Job -> 0..MaxOverdue]
    BY DEF Typed, QueueTypeOK
  <2>2. ASSUME NEW j \in Job, ExpireOverdue(j) PROVE overdue' \in [Job -> 0..MaxOverdue]
    <3>1. overdue[j] + 1 \in 0..MaxOverdue
      BY <2>1, <2>2 DEF ExpireOverdue
    <3> QED BY <2>1, <2>2, <3>1 DEF ExpireOverdue
  <2>3. (\E j \in Job : ExpireOverdue(j)) \/ overdue' = overdue
    BY DEF QueueNext, Fault, Claim, ClaimAnswerLost, Push, PushFails, Schedule, Expire, Open, Pop,
           PopFails, PopAnswerLost, Start, Finish, FinishUnreleased, CrashWorker, queueVars
  <2> QED BY <2>1, <2>2, <2>3
<1> QED BY <1>13, <1>14, StepSlotsTyped DEF Typed, QueueTypeOK

\* The queue, the claims and the listener hold what they may, and the worker never runs
\* more tasks than it has slots, whatever fails.
THEOREM TypeCorrect == QueueSpec => []QueueTypeOK
<1>1. Typed => QueueTypeOK
  BY DEF Typed
<1> QED BY <1>1, InitTyped, StepTyped, PTL DEF QueueSpec

-----------------------------------------------------------------------------
(* No message of a job but for its claim, and for the claims that expired under it. *)

Due(j) == (IF claimed[j] THEN 1 ELSE 0) + overdue[j]
Covered(j) == IsFiniteSet(Places(j)) /\ Cardinality(Places(j)) <= Due(j)
Counted == \A j \in Job : Covered(j)

LEMMA InitCounted == QueueInit => Counted
<1> SUFFICES ASSUME QueueInit, NEW j \in Job PROVE Covered(j)
  BY DEF Counted
<1>1. /\ \A c \in Client : pushing[c] # j
      /\ queue = <<>> /\ popped # j /\ running[j] = 0
      /\ claimed[j] = FALSE /\ overdue[j] = 0
  BY DEF QueueInit, Task
<1>2. Places(j) = {}
  BY <1>1, PlacesAre
<1> QED BY <1>1, <1>2, FS_EmptySet DEF Covered, Due

LEMMA StepCounted ==
  ASSUME QueueTypeOK, QueueTypeOK', Counted, [QueueNext]_queueVars
  PROVE  Counted'
<1> SUFFICES ASSUME NEW j \in Job PROVE Covered(j)'
  BY DEF Counted
<1> DEFINE S == Places(j)  T == Places(j)'
<1>0. /\ IsFiniteSet(S) /\ Cardinality(S) \in Nat /\ Cardinality(S) <= Due(j)
      /\ Due(j) \in Nat /\ Due(j)' \in Nat
      /\ overdue[j] \in Nat /\ overdue'[j] \in Nat /\ claimed[j] \in BOOLEAN
      /\ j # None /\ j \notin Cron /\ j \in Task
      /\ Len(queue) \in Nat /\ running[j] \in Nat
  <2>1. IsFiniteSet(S) /\ Cardinality(S) <= Due(j)
    BY DEF Counted, Covered
  <2>2. Cardinality(S) \in Nat
    BY <2>1, FS_CardinalityType
  <2>3. /\ overdue[j] \in Nat /\ overdue'[j] \in Nat
        /\ claimed[j] \in BOOLEAN /\ claimed'[j] \in BOOLEAN
        /\ Len(queue) \in Nat
    BY DEF QueueTypeOK
  <2>4. j # None /\ j \notin Cron /\ j \in Task
    BY DEF Task
  <2>5. running[j] \in Nat
    BY <2>4 DEF QueueTypeOK
  <2> QED BY <2>1, <2>2, <2>3, <2>4, <2>5 DEF Due
\* How the places and the claim may change together.
<1>a. ASSUME T \subseteq S, Due(j)' >= Due(j) PROVE Covered(j)'
  <2>1. IsFiniteSet(T) /\ Cardinality(T) <= Cardinality(S) /\ Cardinality(T) \in Nat
    BY <1>0, <1>a, FS_Subset, FS_CardinalityType
  <2> QED BY <1>0, <1>a, <2>1 DEF Covered
<1>b. ASSUME \E x \in S : \E y : T \subseteq (S \ {x}) \cup {y}, Due(j)' >= Due(j)
      PROVE  Covered(j)'
  <2>0. PICK x \in S : \E y : T \subseteq (S \ {x}) \cup {y}
    BY <1>b
  <2>1. IsFiniteSet(T) /\ Cardinality(T) <= Cardinality(S) /\ Cardinality(T) \in Nat
    BY <1>0, <2>0, Moved, FS_CardinalityType
  <2> QED BY <1>0, <1>b, <2>1 DEF Covered
<1>c. ASSUME NEW x \in S, T \subseteq S \ {x}, Due(j)' >= Due(j) - 1 PROVE Covered(j)'
  <2>1. IsFiniteSet(T) /\ Cardinality(T) <= Cardinality(S) - 1 /\ Cardinality(T) \in Nat
    BY <1>0, <1>c, Removed, FS_CardinalityType
  <2> QED BY <1>0, <1>c, <2>1 DEF Covered
<1>d. ASSUME NEW x, T \subseteq S \cup {x}, Due(j)' = Due(j) + 1 PROVE Covered(j)'
  <2>1. IsFiniteSet(T) /\ Cardinality(T) <= Cardinality(S) + 1 /\ Cardinality(T) \in Nat
    BY <1>0, <1>d, Added, FS_CardinalityType
  <2> QED BY <1>0, <1>d, <2>1 DEF Covered
<1>e. ASSUME UNCHANGED <<pushing, queue, popped, running>> PROVE T = S
  BY <1>e DEF Places
<1> HIDE DEF S, T
\* The claim.
<1>1. ASSUME NEW c \in Client, NEW i \in Job, Claim(c, i) PROVE Covered(j)'
  <2>1. /\ pushing[c] = None /\ pushing'[c] = i /\ ~claimed[i] /\ claimed'[i]
        /\ \A b \in Client : b # c => pushing'[b] = pushing[b]
        /\ \A h \in Job : h # i => claimed'[h] = claimed[h]
        /\ UNCHANGED <<queue, popped, running, overdue>>
    BY <1>1 DEF Claim, QueueTypeOK
  <2>2. CASE i = j
    <3>1. T \subseteq S \cup {<<"pushing", c>>}
      BY <2>1, PlacesAre, PlacesAreNext DEF S, T
    <3>2. Due(j)' = Due(j) + 1
      BY <1>0, <2>1, <2>2 DEF Due
    <3> QED BY <3>1, <3>2, <1>d
  <2>3. CASE i # j
    <3>1. T \subseteq S
      BY <2>1, <2>3, PlacesAre, PlacesAreNext DEF S, T
    <3>2. Due(j)' = Due(j)
      BY <2>1, <2>3 DEF Due
    <3> QED BY <1>0, <3>1, <3>2, <1>a
  <2> QED BY <2>2, <2>3
<1>2. ASSUME NEW c \in Client, NEW i \in Job, ClaimAnswerLost(c, i) PROVE Covered(j)'
  <2>1. T = S
    BY <1>e, <1>2 DEF ClaimAnswerLost
  <2>2. Due(j)' >= Due(j)
    BY <1>0, <1>2 DEF ClaimAnswerLost, Due, QueueTypeOK
  <2> QED BY <2>1, <2>2, <1>a
\* The push.
<1>3. ASSUME NEW c \in Client, Push(c) PROVE Covered(j)'
  <2>1. /\ Len(queue') = Len(queue) + 1
        /\ \A i \in 1..Len(queue) : queue'[i] = queue[i]
        /\ queue'[Len(queue) + 1] = pushing[c]
    BY <1>0, <1>3 DEF Push, QueueTypeOK
  <2>2. /\ UNCHANGED <<claimed, popped, running, overdue>>
        /\ pushing'[c] = None
        /\ \A b \in Client : b # c => pushing'[b] = pushing[b]
    BY <1>3 DEF Push, QueueTypeOK
  <2>3. Due(j)' = Due(j)
    BY <2>2 DEF Due
  <2>4. CASE pushing[c] = j
    <3>1. <<"pushing", c>> \in S
      BY <2>4, PlacesAre DEF S
    <3>2. ASSUME NEW z \in T, z # <<"queue", Len(queue) + 1>> PROVE z \in S /\ z # <<"pushing", c>>
      <4>1. CASE \E b \in Client : pushing'[b] = j /\ z = <<"pushing", b>>
        BY <1>0, <2>2, <4>1, PlacesAre DEF S
      <4>2. CASE \E i \in 1..Len(queue') : queue'[i] = j /\ z = <<"queue", i>>
        <5>1. PICK i \in 1..Len(queue') : queue'[i] = j /\ z = <<"queue", i>>
          BY <4>2
        <5>2. i \in 1..Len(queue) /\ queue[i] = j
          BY <1>0, <2>1, <3>2, <5>1
        <5> QED BY <5>1, <5>2, PlacesAre DEF S
      <4>3. CASE popped' = j /\ z = <<"popped", 0>>
        BY <2>2, <4>3, PlacesAre DEF S
      <4>4. CASE \E k \in 1..running'[j] : z = <<"running", k>>
        BY <2>2, <4>4, PlacesAre DEF S
      <4> QED BY <4>1, <4>2, <4>3, <4>4, PlacesAreNext DEF T
    <3>3. T \subseteq (S \ {<<"pushing", c>>}) \cup {<<"queue", Len(queue) + 1>>}
      BY <3>2
    <3>4. \E x \in S : \E y : T \subseteq (S \ {x}) \cup {y}
      BY <3>1, <3>3
    <3> QED BY <1>0, <1>b, <2>3, <3>4
  <2>5. CASE pushing[c] # j
    <3>1. \A i \in 1..Len(queue') : queue'[i] = j => i \in 1..Len(queue) /\ queue[i] = j
      BY <1>0, <2>1, <2>5
    <3>2. T \subseteq S
      BY <1>0, <2>2, <3>1, PlacesAre, PlacesAreNext DEF S, T
    <3> QED BY <1>0, <1>a, <2>3, <3>2
  <2> QED BY <2>4, <2>5
<1>4. ASSUME NEW c \in Client, PushFails(c) PROVE Covered(j)'
  <2>1. /\ UNCHANGED <<claimed, queue, popped, running, overdue>>
        /\ pushing'[c] = None
        /\ \A b \in Client : b # c => pushing'[b] = pushing[b]
    BY <1>4 DEF PushFails, QueueTypeOK
  <2>2. T \subseteq S
    BY <1>0, <2>1, PlacesAre, PlacesAreNext DEF S, T
  <2> QED BY <1>0, <1>a, <2>1, <2>2 DEF Due
<1>5. ASSUME NEW k \in Cron, Schedule(k) PROVE Covered(j)'
  <2>1. /\ Len(queue') = Len(queue) + 1
        /\ \A i \in 1..Len(queue) : queue'[i] = queue[i]
        /\ queue'[Len(queue) + 1] = k
        /\ UNCHANGED <<claimed, pushing, popped, running, overdue>>
    BY <1>0, <1>5 DEF Schedule, QueueTypeOK
  <2>2. \A i \in 1..Len(queue') : queue'[i] = j => i \in 1..Len(queue) /\ queue[i] = j
    BY <1>0, <2>1
  <2>3. T \subseteq S
    BY <2>1, <2>2, PlacesAre, PlacesAreNext DEF S, T
  <2> QED BY <1>0, <1>a, <2>1, <2>3 DEF Due
\* The end of a claim.
<1>6. ASSUME NEW i \in Job, Expire(i) PROVE Covered(j)'
  <2>1. T = S
    BY <1>e, <1>6 DEF Expire
  <2>2. CASE i = j
    <3>1. S = {}
      BY <1>6, <2>2 DEF Expire, Live, S
    <3> QED BY <1>0, <2>1, <3>1, FS_EmptySet DEF Covered, T
  <2>3. CASE i # j
    <3>1. Due(j)' = Due(j)
      BY <1>6, <2>3 DEF Expire, Due, QueueTypeOK
    <3> QED BY <1>0, <1>a, <2>1, <3>1
  <2> QED BY <2>2, <2>3
<1>7. ASSUME NEW i \in Job, ExpireOverdue(i) PROVE Covered(j)'
  <2>1. T = S
    BY <1>e, <1>7 DEF ExpireOverdue
  <2>2. Due(j)' = Due(j)
    BY <1>0, <1>7 DEF ExpireOverdue, Due, QueueTypeOK
  <2> QED BY <1>0, <1>a, <2>1, <2>2
\* The pop: every message but the first moves up by one, and the first is popped, or lost.
<1>8. ASSUME queue # <<>>, queue' = Tail(queue), popped' = Head(queue) \/ popped' = None,
             popped = None, UNCHANGED <<claimed, pushing, running, overdue>>
      PROVE  Covered(j)'
  <2> DEFINE g == [z \in T |-> IF z[1] = "queue" THEN <<"queue", z[2] + 1>>
                               ELSE IF z[1] = "popped" THEN <<"queue", 1>> ELSE z]
  <2>1. /\ Len(queue') = Len(queue) - 1 /\ Len(queue) \in Nat \ {0}
        /\ \A i \in 1..(Len(queue) - 1) : queue'[i] = queue[i + 1]
        /\ Head(queue) = queue[1]
    BY <1>8 DEF QueueTypeOK
  <2>2. ASSUME NEW z \in T
        PROVE  \/ \E c \in Client : pushing[c] = j /\ z = <<"pushing", c>> /\ g[z] = z
               \/ \E i \in 1..(Len(queue) - 1) : queue[i + 1] = j /\ z = <<"queue", i>>
                                               /\ g[z] = <<"queue", i + 1>>
               \/ queue[1] = j /\ z = <<"popped", 0>> /\ g[z] = <<"queue", 1>>
               \/ \E k \in 1..running[j] : z = <<"running", k>> /\ g[z] = z
    BY <1>0, <1>8, <2>1, PlacesAreNext DEF T
  <2> HIDE DEF g
  <2>3. ASSUME NEW z \in T PROVE g[z] \in S
    <3>1. CASE \E i \in 1..(Len(queue) - 1) : queue[i + 1] = j /\ g[z] = <<"queue", i + 1>>
      <4>1. PICK i \in 1..(Len(queue) - 1) : queue[i + 1] = j /\ g[z] = <<"queue", i + 1>>
        BY <3>1
      <4>2. i + 1 \in 1..Len(queue)
        BY <2>1
      <4> QED BY <4>1, <4>2, PlacesAre DEF S
    <3>2. CASE queue[1] = j /\ g[z] = <<"queue", 1>>
      <4>1. 1 \in 1..Len(queue)
        BY <2>1
      <4> QED BY <3>2, <4>1, PlacesAre DEF S
    <3> QED BY <2>2, <3>1, <3>2, PlacesAre DEF S
  <2>4. ASSUME NEW y \in T, NEW z \in T, g[y] = g[z] PROVE y = z
    BY <2>2, <2>4
  <2>5. g \in [T -> S]
    BY <2>3 DEF g
  <2>6. g \in Injection(T, S)
    BY <2>4, <2>5, Fun_IsInj
  <2>7. IsFiniteSet(T) /\ Cardinality(T) <= Cardinality(S) /\ Cardinality(T) \in Nat
    BY <1>0, <2>6, FS_Injection, FS_CardinalityType
  <2>8. Due(j)' = Due(j)
    BY <1>8 DEF Due
  <2> QED BY <1>0, <2>7, <2>8 DEF Covered, T
<1>9. CASE Open \/ PopFails
  <2>1. T = S /\ Due(j)' = Due(j)
    BY <1>e, <1>9 DEF Open, PopFails, Due
  <2> QED BY <1>0, <1>a, <2>1
<1>10. CASE Pop
  BY <1>8, <1>10 DEF Pop
<1>11. CASE PopAnswerLost
  BY <1>8, <1>11 DEF PopAnswerLost, BackOff
\* The task.
<1>12. CASE Start
  <2>1. /\ popped \in Task /\ popped' = None
        /\ running'[popped] = running[popped] + 1
        /\ \A t \in Task : t # popped => running'[t] = running[t]
        /\ UNCHANGED <<claimed, queue, pushing, overdue>>
    BY <1>12 DEF Start, QueueTypeOK
  <2>2. Due(j)' = Due(j)
    BY <2>1 DEF Due
  <2>3. CASE popped = j
    <3>1. <<"popped", 0>> \in S
      BY <2>3, PlacesAre DEF S
    <3>2. \A k \in 1..running'[j] : k = running[j] + 1 \/ k \in 1..running[j]
      BY <1>0, <2>1, <2>3
    <3>3. T \subseteq (S \ {<<"popped", 0>>}) \cup {<<"running", running[j] + 1>>}
      BY <1>0, <2>1, <3>2, PlacesAre, PlacesAreNext DEF S, T
    <3>4. \E x \in S : \E y : T \subseteq (S \ {x}) \cup {y}
      BY <3>1, <3>3
    <3> QED BY <1>0, <1>b, <2>2, <3>4
  <2>4. CASE popped # j
    <3>1. T \subseteq S
      BY <1>0, <2>1, <2>4, PlacesAre, PlacesAreNext DEF S, T
    <3> QED BY <1>0, <1>a, <2>2, <3>1
  <2> QED BY <2>3, <2>4
<1>13. ASSUME NEW t \in Task, running[t] > 0, running' = [running EXCEPT ![t] = @ - 1],
              UNCHANGED <<queue, pushing, popped>>, j = t => Due(j)' >= Due(j) - 1,
              j # t => Due(j)' = Due(j)
       PROVE  Covered(j)'
  <2>1. running'[t] = running[t] - 1 /\ \A u \in Task : u # t => running'[u] = running[u]
    BY <1>13 DEF QueueTypeOK
  <2>2. CASE t = j
    <3>1. running[j] \in 1..running[j]
      BY <1>0, <1>13, <2>2
    <3>2. <<"running", running[j]>> \in S
      BY <3>1, PlacesAre DEF S
    <3>3. \A k \in 1..running'[j] : k # running[j] /\ k \in 1..running[j]
      BY <1>0, <2>1, <2>2
    <3>4. T \subseteq S \ {<<"running", running[j]>>}
      BY <1>13, <3>3, PlacesAre, PlacesAreNext DEF S, T
    <3> QED BY <1>0, <1>c, <1>13, <2>2, <3>2, <3>4
  <2>3. CASE t # j
    <3>1. T \subseteq S
      BY <1>0, <1>13, <2>1, <2>3, PlacesAre, PlacesAreNext DEF S, T
    <3> QED BY <1>0, <1>a, <1>13, <2>3, <3>1
  <2> QED BY <2>2, <2>3
<1>14. ASSUME NEW t \in Task, Finish(t) PROVE Covered(j)'
  <2>1. claimed'[j] = (j # t /\ claimed[j]) /\ overdue' = overdue
    BY <1>14 DEF Finish, QueueTypeOK
  <2>2. (j = t => Due(j)' >= Due(j) - 1) /\ (j # t => Due(j)' = Due(j))
    BY <1>0, <2>1 DEF Due
  <2> QED BY <1>13, <1>14, <2>2 DEF Finish
<1>15. ASSUME NEW i \in Job, FinishUnreleased(i) PROVE Covered(j)'
  <2>1. Due(j)' = Due(j)
    BY <1>15 DEF FinishUnreleased, Due
  <2>2. i \in Task
    BY DEF Task
  <2>3. /\ running[i] > 0 /\ running' = [running EXCEPT ![i] = @ - 1]
        /\ UNCHANGED <<queue, pushing, popped>>
    BY <1>15 DEF FinishUnreleased
  <2>4. Due(j)' >= Due(j) - 1
    BY <1>0, <2>1
  <2> QED BY <1>13, <2>1, <2>2, <2>3, <2>4
<1>16. CASE CrashWorker
  <2>1. /\ popped' = None /\ running'[j] = 0
        /\ UNCHANGED <<claimed, queue, pushing, overdue>>
    BY <1>0, <1>16 DEF CrashWorker
  <2>2. T \subseteq S
    BY <1>0, <2>1, PlacesAre, PlacesAreNext DEF S, T
  <2>3. Due(j)' = Due(j)
    BY <2>1 DEF Due
  <2> QED BY <1>0, <1>a, <2>2, <2>3
<1>17. CASE UNCHANGED queueVars
  <2>1. T = S /\ Due(j)' = Due(j)
    BY <1>e, <1>17 DEF queueVars, Due
  <2> QED BY <1>0, <1>a, <2>1
<1> QED
  BY <1>1, <1>2, <1>3, <1>4, <1>5, <1>6, <1>7, <1>9, <1>10, <1>11, <1>12, <1>14, <1>15, <1>16, <1>17
  DEF QueueNext, Fault

\* There is never a message of a job, between its claim and the end of its task, but for the
\* claim that stands and for each claim that expired under it: not after failed pushes, lost
\* messages, dead workers, claims that were never released or released by a predecessor,
\* with any number of clients and slots.
THEOREM Deduplication == QueueSpec => []OneLivePerClaim
<1>1. QueueInit => Typed /\ Counted
  BY InitTyped, InitCounted
<1>2. Typed /\ Counted /\ [QueueNext]_queueVars => (Typed /\ Counted)'
  BY StepTyped, StepCounted DEF Typed
<1>3. Counted => OneLivePerClaim
  BY DEF Counted, Covered, Due, OneLivePerClaim
<1> QED BY <1>1, <1>2, <1>3, PTL DEF QueueSpec

-----------------------------------------------------------------------------
(* Until a job outlasts its claim, its one message holds it. *)

LEMMA InitDedup == QueueInit => Dedup
BY DEF QueueInit, Dedup, Single, Guarded, Pushing, Queued, Popped, Running, Task

\* What is overdue stays so.
LEMMA OverdueGrows ==
  ASSUME QueueTypeOK, [QueueNext]_queueVars, NEW j \in Job
  PROVE  /\ overdue[j] \in Nat /\ overdue'[j] \in Nat
         /\ overdue'[j] = 0 => overdue[j] = 0
         /\ overdue[j] > 0 => overdue'[j] > 0
<1>1. overdue[j] \in Nat /\ overdue \in [Job -> 0..MaxOverdue]
  BY DEF QueueTypeOK
<1>2. ASSUME NEW i \in Job, ExpireOverdue(i)
      PROVE  overdue'[j] = overdue[j] \/ overdue'[j] = overdue[j] + 1
  BY <1>1, <1>2 DEF ExpireOverdue
<1>3. CASE UNCHANGED overdue
  BY <1>1, <1>3
<1>4. (\E i \in Job : ExpireOverdue(i)) \/ UNCHANGED overdue
  BY DEF QueueNext, Fault, Claim, ClaimAnswerLost, Push, PushFails, Schedule, Expire, Open, Pop,
         PopFails, PopAnswerLost, Start, Finish, FinishUnreleased, CrashWorker, queueVars
<1> QED BY <1>1, <1>2, <1>3, <1>4

LEMMA StepDedup ==
  ASSUME QueueTypeOK, Dedup, [QueueNext]_queueVars
  PROVE  Dedup'
<1> SUFFICES ASSUME NEW j \in Job, overdue'[j] = 0 PROVE Single(j)' /\ Guarded(j)'
  BY DEF Dedup
<1>0. /\ Single(j) /\ Guarded(j)
      /\ j # None /\ j \notin Cron /\ j \in Task
  BY OverdueGrows DEF Dedup, Task
<1>t. /\ claimed \in [Job -> BOOLEAN] /\ queue \in Seq(Task)
      /\ pushing \in [Client -> Job \cup {None}] /\ popped \in Task \cup {None}
      /\ running \in [Task -> Nat] /\ overdue \in [Job -> 0..MaxOverdue]
  BY DEF QueueTypeOK
<1> USE <1>0, <1>t DEF Single, Guarded, Pushing, Queued, Popped, Running
<1>1. ASSUME NEW c \in Client, NEW i \in Job, Claim(c, i) PROVE Single(j)' /\ Guarded(j)'
  BY <1>1 DEF Claim
<1>2. ASSUME NEW c \in Client, NEW i \in Job, ClaimAnswerLost(c, i) PROVE Single(j)' /\ Guarded(j)'
  BY <1>2 DEF ClaimAnswerLost
<1>3. ASSUME NEW c \in Client, Push(c) PROVE Single(j)' /\ Guarded(j)'
  <2>1. /\ Len(queue') = Len(queue) + 1 /\ Len(queue) \in Nat
        /\ \A i \in 1..Len(queue) : queue'[i] = queue[i]
        /\ queue'[Len(queue) + 1] = pushing[c]
    BY <1>3 DEF Push, Task
  <2>2. /\ UNCHANGED <<claimed, popped, running>>
        /\ pushing'[c] = None /\ pushing[c] # None
        /\ \A b \in Client : b # c => pushing'[b] = pushing[b]
    BY <1>3 DEF Push
  <2>3. CASE pushing[c] = j
    <3>1. \A b \in Client : pushing'[b] # j
      BY <2>2, <2>3
    <3>2. \A i \in 1..Len(queue) : queue[i] # j
      BY <2>3
    <3>3. \A i \in 1..Len(queue') : queue'[i] = j => i = Len(queue) + 1
      BY <2>1, <3>2
    <3> QED BY <2>2, <2>3, <3>1, <3>3
  <2>4. CASE pushing[c] # j
    <3>1. \A b \in Client : pushing'[b] = j <=> pushing[b] = j
      BY <2>2, <2>4
    <3>2. \A i \in 1..Len(queue') : queue'[i] = j => i \in 1..Len(queue) /\ queue[i] = j
      BY <2>1, <2>4
    <3> QED BY <2>2, <3>1, <3>2
  <2> QED BY <2>3, <2>4
<1>4. ASSUME NEW c \in Client, PushFails(c) PROVE Single(j)' /\ Guarded(j)'
  BY <1>4 DEF PushFails
<1>5. ASSUME NEW k \in Cron, Schedule(k) PROVE Single(j)' /\ Guarded(j)'
  <2>0. /\ Len(queue') = Len(queue) + 1 /\ Len(queue) \in Nat
        /\ \A i \in 1..Len(queue) : queue'[i] = queue[i]
        /\ queue'[Len(queue) + 1] = k
    BY <1>5 DEF Schedule, Task
  <2>1. \A i \in 1..Len(queue') : queue'[i] = j => i \in 1..Len(queue) /\ queue[i] = j
    BY <2>0
  <2>2. UNCHANGED <<claimed, pushing, popped, running>>
    BY <1>5 DEF Schedule
  <2> QED BY <2>1, <2>2
<1>6. ASSUME NEW i \in Job, Expire(i) PROVE Single(j)' /\ Guarded(j)'
  <2>1. i = j => ~(Pushing(j) \/ Queued(j) \/ Popped(j) \/ Running(j))
    BY <1>6, LiveSomewhere DEF Expire
  <2> QED BY <1>6, <2>1 DEF Expire
<1>6a. ASSUME NEW i \in Job, ExpireOverdue(i) PROVE Single(j)' /\ Guarded(j)'
  <2>1. overdue[i] \in Nat /\ overdue'[i] = overdue[i] + 1
    BY <1>6a DEF ExpireOverdue
  <2>2. i # j
    BY <2>1
  <2> QED BY <1>6a, <2>2 DEF ExpireOverdue
<1>7. ASSUME queue # <<>>, queue' = Tail(queue), popped' = Head(queue) \/ popped' = None,
             popped = None, UNCHANGED <<claimed, pushing, running>>
      PROVE  Single(j)' /\ Guarded(j)'
  <2>1. /\ Len(queue') = Len(queue) - 1 /\ Len(queue) \in Nat \ {0}
        /\ \A i \in 1..(Len(queue) - 1) : queue'[i] = queue[i + 1]
        /\ Head(queue) = queue[1]
    BY <1>7
  <2>2. ASSUME NEW i \in 1..Len(queue')
        PROVE  i \in Nat /\ i + 1 \in 1..Len(queue) /\ queue'[i] = queue[i + 1]
    <3>1. i \in Nat /\ i + 1 \in 1..Len(queue) /\ i \in 1..(Len(queue) - 1)
      BY <2>1
    <3> QED BY <2>1, <3>1
  <2>3. ASSUME NEW h \in 1..Len(queue'), NEW i \in 1..Len(queue'), queue'[h] = j, queue'[i] = j
        PROVE  h = i
    <3>0. /\ h + 1 \in 1..Len(queue) /\ queue[h + 1] = j
          /\ i + 1 \in 1..Len(queue) /\ queue[i + 1] = j
      BY <2>2, <2>3
    <3>1. h + 1 = i + 1
      BY <3>0
    <3> QED BY <2>2, <3>1
  <2>4. Queued(j)' => Queued(j)
    <3> SUFFICES ASSUME NEW i \in 1..Len(queue'), queue'[i] = j PROVE Queued(j)
      OBVIOUS
    <3>1. i + 1 \in 1..Len(queue) /\ queue[i + 1] = j
      BY <2>2
    <3> QED BY <3>1
  <2>5. popped' = j => Queued(j) /\ ~Queued(j)'
    <3> SUFFICES ASSUME popped' = j PROVE Queued(j) /\ ~Queued(j)'
      OBVIOUS
    <3>1. queue[1] = j /\ 1 \in 1..Len(queue)
      BY <1>7, <2>1
    <3>2. ASSUME NEW i \in 1..Len(queue'), queue'[i] = j PROVE FALSE
      <4>1. i \in Nat \ {0} /\ i + 1 \in 1..Len(queue) /\ queue[i + 1] = j
        BY <2>2, <3>2
      <4>2. i + 1 = 1
        BY <3>1, <4>1
      <4> QED BY <4>1, <4>2
    <3> QED BY <3>1, <3>2
  <2> QED BY <1>7, <2>3, <2>4, <2>5
<1>8. CASE Open \/ PopFails
  BY <1>8 DEF Open, PopFails
<1>9. CASE Pop
  BY <1>7, <1>9 DEF Pop
<1>10. CASE PopAnswerLost
  BY <1>7, <1>10 DEF PopAnswerLost, BackOff
<1>11. CASE Start
  <2>1. popped \in Task
    BY <1>11 DEF Start
  <2>2. running'[j] = IF popped = j THEN running[j] + 1 ELSE running[j]
    BY <1>11, <2>1 DEF Start
  <2> QED BY <1>11, <2>2 DEF Start
<1>12. ASSUME NEW t \in Task, Finish(t) PROVE Single(j)' /\ Guarded(j)'
  <2>1. running'[j] = IF t = j THEN running[j] - 1 ELSE running[j]
    BY <1>12 DEF Finish
  <2>2. claimed'[j] = IF t = j THEN FALSE ELSE claimed[j]
    BY <1>12 DEF Finish
  <2> QED BY <1>12, <2>1, <2>2 DEF Finish
<1>13. ASSUME NEW i \in Job, FinishUnreleased(i) PROVE Single(j)' /\ Guarded(j)'
  <2>1. running'[j] = IF i = j THEN running[j] - 1 ELSE running[j]
    BY <1>13 DEF FinishUnreleased, Task
  <2> QED BY <1>13, <2>1 DEF FinishUnreleased
<1>14. CASE CrashWorker
  BY <1>14 DEF CrashWorker
<1>15. CASE UNCHANGED queueVars
  BY <1>15 DEF queueVars
<1> QED
  BY <1>1, <1>2, <1>3, <1>4, <1>5, <1>6, <1>6a, <1>8, <1>9, <1>10, <1>11, <1>12, <1>13, <1>14, <1>15
  DEF QueueNext, Fault

-----------------------------------------------------------------------------
(* The queue implements the slot per job that TaskQueuePort promises, until the job   *)
(* outlasts its claim: each step moves the slot of one job, of all the worker had in  *)
(* hand, or of none.                                                                  *)

\* SlotOf, with the places of a message told apart.
Kind(j) ==
  IF overdue[j] > 0 THEN "overdue"
  ELSE IF Running(j) THEN "running"
  ELSE IF Pushing(j) \/ Queued(j) \/ Popped(j) THEN "pending"
  ELSE IF claimed[j] THEN "blocked" ELSE "free"

LEMMA SlotIsKind == QueueTypeOK => SlotMap = [j \in Job |-> Kind(j)]
<1> SUFFICES ASSUME QueueTypeOK, NEW j \in Job PROVE SlotOf(j) = Kind(j)
  BY DEF SlotMap
<1>1. Live(j) => Pushing(j) \/ Queued(j) \/ Popped(j) \/ Running(j)
  <2> SUFFICES ASSUME NEW z \in Places(j) PROVE Pushing(j) \/ Queued(j) \/ Popped(j) \/ Running(j)
    BY DEF Live
  <2>1. \/ z \in {<<"pushing", c>> : c \in {x_1 \in Client : pushing[x_1] = j}}
        \/ z \in {<<"queue", i>> : i \in {x_1 \in 1..Len(queue) : queue[x_1] = j}}
        \/ z \in {<<"popped", 0>> : x_1 \in {x_2 \in {0} : popped = j}}
        \/ z \in {<<"running", k>> : k \in 1..running[j]}
    BY DEF Places
  <2>2. z \in {<<"running", k>> : k \in 1..running[j]} => Running(j)
    BY DEF QueueTypeOK, Task, Running
  <2> QED BY <2>1, <2>2 DEF Pushing, Queued, Popped
<1>2. Live(j) <=> Pushing(j) \/ Queued(j) \/ Popped(j) \/ Running(j)
  BY <1>1, LiveSomewhere
<1> QED BY <1>2 DEF SlotOf, Kind, Running

LEMMA SlotIsKindNext == QueueTypeOK' => (SlotMap = [j \in Job |-> Kind(j)])'
BY SlotIsKind, PTL

\* What an append and a pop do to the jobs in the queue.
LEMMA Appended ==
  ASSUME QueueTypeOK, NEW x, queue' = Append(queue, x)
  PROVE  \A j \in Job : Queued(j)' <=> Queued(j) \/ x = j
<1>1. /\ Len(queue') = Len(queue) + 1 /\ Len(queue) \in Nat
      /\ \A i \in 1..Len(queue) : queue'[i] = queue[i]
      /\ queue'[Len(queue) + 1] = x
  BY DEF QueueTypeOK
<1>2. ASSUME NEW i \in 1..Len(queue') PROVE i \in 1..Len(queue) \/ i = Len(queue) + 1
  BY <1>1
<1>3. \A i \in 1..Len(queue) : i \in 1..Len(queue')
  BY <1>1
<1>4. Len(queue) + 1 \in 1..Len(queue')
  BY <1>1
<1> QED BY <1>1, <1>2, <1>3, <1>4 DEF Queued

LEMMA Taken ==
  ASSUME QueueTypeOK, queue # <<>>, queue' = Tail(queue)
  PROVE  \A j \in Job : Queued(j) <=> Queued(j)' \/ Head(queue) = j
<1>1. /\ Len(queue') = Len(queue) - 1 /\ Len(queue) \in Nat \ {0}
      /\ \A i \in 1..(Len(queue) - 1) : queue'[i] = queue[i + 1]
      /\ Head(queue) = queue[1]
  BY DEF QueueTypeOK
<1>2. ASSUME NEW i \in 1..Len(queue) PROVE i = 1 \/ (i - 1 \in 1..Len(queue') /\ queue'[i - 1] = queue[i])
  BY <1>1
<1>3. ASSUME NEW i \in 1..Len(queue') PROVE i + 1 \in 1..Len(queue) /\ queue'[i] = queue[i + 1]
  BY <1>1
<1>4. 1 \in 1..Len(queue)
  BY <1>1
<1>5. ASSUME NEW j \in Job, Queued(j) PROVE Queued(j)' \/ Head(queue) = j
  <2>1. PICK i \in 1..Len(queue) : queue[i] = j
    BY <1>5 DEF Queued
  <2> QED BY <1>1, <1>2, <2>1 DEF Queued
<1>6. ASSUME NEW j \in Job, Queued(j)' PROVE Queued(j)
  <2>1. PICK i \in 1..Len(queue') : queue'[i] = j
    BY <1>6 DEF Queued
  <2> QED BY <1>3, <2>1 DEF Queued
<1>7. ASSUME NEW j \in Job, Head(queue) = j PROVE Queued(j)
  BY <1>1, <1>4, <1>7 DEF Queued
<1> QED BY <1>5, <1>6, <1>7

\* The one message of a job that was first in the queue is gone with it.
LEMMA HeadGone ==
  ASSUME QueueTypeOK, Dedup, queue # <<>>, queue' = Tail(queue), Head(queue) \in Job,
         NEW i, i = Head(queue), overdue[i] = 0
  PROVE  ~Queued(i)'
<1>1. /\ Len(queue') = Len(queue) - 1 /\ Len(queue) \in Nat \ {0}
      /\ \A h \in 1..(Len(queue) - 1) : queue'[h] = queue[h + 1]
      /\ i = queue[1]
  BY DEF QueueTypeOK
<1>2. SUFFICES ASSUME NEW h \in 1..Len(queue'), queue'[h] = i PROVE FALSE
  BY DEF Queued
<1>3. h + 1 \in 1..Len(queue) /\ 1 \in 1..Len(queue) /\ queue[h + 1] = i /\ queue[1] = i
  BY <1>1, <1>2
<1>4. h + 1 = 1
  BY <1>3 DEF Dedup, Single
<1> QED BY <1>1, <1>4

\* The slot of a job that has not outlasted its claim: its message is in one place.
LEMMA KindOf ==
  ASSUME QueueTypeOK, Dedup, NEW j \in Job, overdue[j] = 0
  PROVE  /\ Pushing(j) => Kind(j) = "pending" /\ ~Queued(j) /\ ~Popped(j) /\ ~Running(j) /\ claimed[j]
         /\ Queued(j) => Kind(j) = "pending" /\ ~Pushing(j) /\ ~Popped(j) /\ ~Running(j) /\ claimed[j]
         /\ Popped(j) => Kind(j) = "pending" /\ ~Pushing(j) /\ ~Queued(j) /\ ~Running(j) /\ claimed[j]
         /\ Running(j) => Kind(j) = "running" /\ ~Pushing(j) /\ ~Queued(j) /\ ~Popped(j) /\ claimed[j]
                          /\ running[j] = 1
         /\ ~claimed[j] => Kind(j) = "free"
BY DEF Dedup, Single, Guarded, Kind, QueueTypeOK, Running, Task

\* The slot of one that has does not move.
LEMMA KindStays ==
  ASSUME QueueTypeOK, [QueueNext]_queueVars, NEW j \in Job, overdue[j] # 0
  PROVE  Kind(j)' = Kind(j)
BY OverdueGrows DEF Kind

\* No slot moves.
LEMMA SlotsStay ==
  ASSUME QueueTypeOK, QueueTypeOK', \A j \in Job : Kind(j)' = Kind(j)
  PROVE  SlotMap' = SlotMap
<1>1. SlotMap = [j \in Job |-> Kind(j)] /\ SlotMap' = [j \in Job |-> Kind(j)']
  BY SlotIsKind, SlotIsKindNext
<1> QED BY <1>1

\* One slot moves, from and to where the port says.
LEMMA SlotMoves ==
  ASSUME QueueTypeOK, QueueTypeOK', NEW i \in Job, \A j \in Job : j # i => Kind(j)' = Kind(j),
         \/ Kind(i) = "free" /\ Kind(i)' = "pending"
         \/ Kind(i) = "pending" /\ Kind(i)' = "running"
         \/ Kind(i) = "running" /\ Kind(i)' = "free"
         \/ Kind(i) \in {"free", "pending", "running"} /\ Kind(i)' = "blocked"
         \/ Kind(i) = "blocked" /\ Kind(i)' = "free"
         \/ Kind(i) \in {"pending", "running"} /\ Kind(i)' = "overdue"
  PROVE  Slot!Next
<1>1. SlotMap = [j \in Job |-> Kind(j)] /\ SlotMap' = [j \in Job |-> Kind(j)']
  BY SlotIsKind, SlotIsKindNext
<1>2. SlotMap[i] = Kind(i) /\ SlotMap' = [SlotMap EXCEPT ![i] = Kind(i)']
  BY <1>1
<1>3. \/ Slot!Move(i, {"free"}, "pending")
      \/ Slot!Move(i, {"pending"}, "running")
      \/ Slot!Move(i, {"running"}, "free")
      \/ Slot!Move(i, {"free", "pending", "running"}, "blocked")
      \/ Slot!Move(i, {"blocked"}, "free")
      \/ Slot!Move(i, {"pending", "running"}, "overdue")
  BY <1>2 DEF Slot!Move
<1>4. \/ Slot!Enqueue(i) \/ Slot!Begin(i) \/ Slot!End(i) \/ Slot!Lose(i) \/ Slot!Unblock(i)
      \/ Slot!Outlast(i)
  BY <1>3 DEF Slot!Enqueue, Slot!Begin, Slot!End, Slot!Lose, Slot!Unblock, Slot!Outlast
<1> QED BY <1>4 DEF Slot!Next

LEMMA StepSlots ==
  ASSUME QueueTypeOK, QueueTypeOK', Dedup, [QueueNext]_queueVars
  PROVE  [Slot!Next]_SlotMap
<1>0. ASSUME NEW i \in Job, overdue[i] # 0, \A j \in Job : j # i => Kind(j)' = Kind(j)
      PROVE  SlotMap' = SlotMap
  <2>1. \A j \in Job : Kind(j)' = Kind(j)
    BY <1>0, KindStays
  <2> QED BY <2>1, SlotsStay
\* Enqueue, and its answer lost.
<1>1. ASSUME NEW c \in Client, NEW i \in Job, Claim(c, i) PROVE Slot!Next \/ SlotMap' = SlotMap
  <2>1. /\ pushing[c] = None /\ pushing'[c] = i /\ ~claimed[i]
        /\ \A b \in Client : b # c => pushing'[b] = pushing[b]
        /\ \A j \in Job : j # i => claimed'[j] = claimed[j]
        /\ UNCHANGED <<queue, popped, running, overdue>>
    BY <1>1 DEF Claim, QueueTypeOK
  <2>2. ASSUME NEW j \in Job, j # i PROVE Kind(j)' = Kind(j)
    <3>1. (Pushing(j)' <=> Pushing(j)) /\ (Queued(j)' <=> Queued(j))
      BY <2>1, <2>2 DEF Pushing, Queued, QueueTypeOK
    <3> QED BY <2>1, <2>2, <3>1 DEF Kind, Popped, Running
  <2>3. CASE overdue[i] = 0
    <3>1. Kind(i) = "free"
      BY <2>1, <2>3, KindOf
    <3>2. Pushing(i)' /\ ~Running(i)'
      BY <2>1, <2>3, <3>1 DEF Pushing, Kind, Running
    <3>3. Kind(i)' = "pending"
      BY <2>1, <2>3, <3>2 DEF Kind, QueueTypeOK
    <3> QED BY <2>2, <3>1, <3>3, SlotMoves
  <2> QED BY <1>0, <2>2, <2>3
<1>2. ASSUME NEW c \in Client, NEW i \in Job, ClaimAnswerLost(c, i)
      PROVE  Slot!Next \/ SlotMap' = SlotMap
  <2>1. /\ ~claimed[i] /\ claimed'[i]
        /\ \A j \in Job : j # i => claimed'[j] = claimed[j]
        /\ UNCHANGED <<pushing, queue, popped, running, overdue>>
    BY <1>2 DEF ClaimAnswerLost, QueueTypeOK
  <2>2. \A j \in Job : j # i => Kind(j)' = Kind(j)
    BY <2>1 DEF Kind, Pushing, Queued, Popped, Running
  <2>3. CASE overdue[i] = 0
    <3>1. Kind(i) = "free"
      BY <2>1, <2>3, KindOf
    <3>2. Kind(i)' = "blocked"
      BY <2>1, <3>1 DEF Kind, Pushing, Queued, Popped, Running
    <3> QED BY <2>2, <3>1, <3>2, SlotMoves
  <2> QED BY <1>0, <2>2, <2>3
\* Push and PushFails.
<1>3. ASSUME NEW c \in Client, Push(c) PROVE SlotMap' = SlotMap
  <2>1. /\ pushing[c] # None /\ pushing'[c] = None
        /\ \A b \in Client : b # c => pushing'[b] = pushing[b]
        /\ UNCHANGED <<claimed, popped, running, overdue>>
    BY <1>3 DEF Push, QueueTypeOK
  <2>2. \A j \in Job : Queued(j)' <=> Queued(j) \/ pushing[c] = j
    BY <1>3, Appended DEF Push
  <2>3. ASSUME NEW j \in Job PROVE Pushing(j) \/ Queued(j) <=> Pushing(j)' \/ Queued(j)'
    BY <2>1, <2>2 DEF Pushing
  <2>4. \A j \in Job : Kind(j)' = Kind(j)
    BY <2>1, <2>3 DEF Kind, Popped, Running
  <2> QED BY <2>4, SlotsStay
<1>4. ASSUME NEW c \in Client, PushFails(c) PROVE Slot!Next \/ SlotMap' = SlotMap
  <2>1. /\ pushing[c] \in Job /\ pushing'[c] = None
        /\ \A b \in Client : b # c => pushing'[b] = pushing[b]
        /\ UNCHANGED <<claimed, queue, popped, running, overdue>>
    BY <1>4 DEF PushFails, QueueTypeOK
  <2>2. PICK i \in Job : i = pushing[c]
    BY <2>1
  <2>3. ASSUME NEW j \in Job, j # i PROVE Kind(j)' = Kind(j)
    <3>1. Pushing(j)' <=> Pushing(j)
      BY <2>1, <2>2, <2>3 DEF Pushing, QueueTypeOK
    <3> QED BY <2>1, <3>1 DEF Kind, Queued, Popped, Running
  <2>4. CASE overdue[i] = 0
    <3>1. \A b \in Client : pushing[b] = i => b = c
      BY <2>1, <2>2, <2>4 DEF Dedup, Single
    <3>2. ~Pushing(i)'
      BY <2>1, <2>2, <3>1 DEF Pushing, QueueTypeOK
    <3>3. Kind(i) = "pending" /\ ~Queued(i) /\ ~Popped(i) /\ ~Running(i) /\ claimed[i]
      BY <2>2, <2>4, KindOf DEF Pushing
    <3>4. Kind(i)' = "blocked"
      BY <2>1, <2>4, <3>2, <3>3 DEF Kind, Queued, Popped, Running
    <3> QED BY <2>3, <3>3, <3>4, SlotMoves
  <2> QED BY <1>0, <2>3, <2>4
<1>5. ASSUME NEW k \in Cron, Schedule(k) PROVE SlotMap' = SlotMap
  <2>1. \A j \in Job : Queued(j)' <=> Queued(j)
    BY <1>5, Appended DEF Schedule
  <2>2. \A j \in Job : Kind(j)' = Kind(j)
    BY <1>5, <2>1 DEF Schedule, Kind, Pushing, Popped, Running
  <2> QED BY <2>2, SlotsStay
\* The end of a claim, in time and overdue.
<1>6. ASSUME NEW i \in Job, Expire(i) PROVE Slot!Next \/ SlotMap' = SlotMap
  <2>1. ~(Pushing(i) \/ Queued(i) \/ Popped(i) \/ Running(i)) /\ claimed[i]
    BY <1>6, LiveSomewhere DEF Expire
  <2>2. /\ ~claimed'[i] /\ \A j \in Job : j # i => claimed'[j] = claimed[j]
        /\ UNCHANGED <<queue, pushing, popped, running, overdue>>
    BY <1>6 DEF Expire, QueueTypeOK
  <2>3. \A j \in Job : j # i => Kind(j)' = Kind(j)
    BY <2>2 DEF Kind, Pushing, Queued, Popped, Running
  <2>4. CASE overdue[i] = 0
    <3>1. Kind(i) = "blocked" /\ Kind(i)' = "free"
      BY <2>1, <2>2, <2>4 DEF Kind, Pushing, Queued, Popped, Running
    <3> QED BY <2>3, <3>1, SlotMoves
  <2> QED BY <1>0, <2>3, <2>4
<1>6a. ASSUME NEW i \in Job, ExpireOverdue(i) PROVE Slot!Next \/ SlotMap' = SlotMap
  <2>1. /\ Live(i) /\ overdue[i] \in Nat /\ overdue'[i] = overdue[i] + 1
        /\ \A j \in Job : j # i => claimed'[j] = claimed[j] /\ overdue'[j] = overdue[j]
        /\ UNCHANGED <<queue, pushing, popped, running>>
    BY <1>6a DEF ExpireOverdue, QueueTypeOK
  <2>2. \A j \in Job : j # i => Kind(j)' = Kind(j)
    BY <2>1 DEF Kind, Pushing, Queued, Popped, Running
  <2>3. CASE overdue[i] = 0
    <3>1. SlotOf(i) \in {"pending", "running"} /\ SlotOf(i) = Kind(i)
      <4>1. SlotMap[i] = SlotOf(i) /\ SlotMap[i] = Kind(i)
        BY SlotIsKind DEF SlotMap
      <4> QED BY <2>1, <2>3, <4>1 DEF SlotOf
    <3>2. Kind(i)' = "overdue"
      BY <2>1 DEF Kind
    <3> QED BY <2>2, <3>1, <3>2, SlotMoves
  <2> QED BY <1>0, <2>2, <2>3
\* The pop, and its answer lost.
<1>7. CASE Open \/ PopFails
  <2>1. \A j \in Job : Kind(j)' = Kind(j)
    BY <1>7 DEF Open, PopFails, Kind, Pushing, Queued, Popped, Running
  <2> QED BY <2>1, SlotsStay
<1>8. CASE Pop
  <2>1. \A j \in Job : Queued(j) <=> Queued(j)' \/ Head(queue) = j
    BY <1>8, Taken DEF Pop
  <2>2. ASSUME NEW j \in Job PROVE Queued(j) \/ Popped(j) <=> Queued(j)' \/ Popped(j)'
    BY <1>8, <2>1 DEF Pop, Popped
  <2>3. \A j \in Job : Kind(j)' = Kind(j)
    BY <1>8, <2>2 DEF Pop, Kind, Pushing, Running
  <2> QED BY <2>3, SlotsStay
<1>9. CASE PopAnswerLost
  <2>1. /\ \A j \in Job : Queued(j) <=> Queued(j)' \/ Head(queue) = j
        /\ UNCHANGED <<claimed, pushing, popped, running, overdue>> /\ popped = None
    BY <1>9, Taken DEF PopAnswerLost, BackOff
  <2>2. \A j \in Job : j # Head(queue) => Kind(j)' = Kind(j)
    BY <2>1 DEF Kind, Pushing, Popped, Running
  <2>3. CASE Head(queue) \in Job
    <3>0. PICK i \in Job : i = Head(queue)
      BY <2>3
    <3>1. CASE overdue[i] = 0
      <4>1. Queued(i) /\ Kind(i) = "pending" /\ ~Pushing(i) /\ ~Popped(i) /\ ~Running(i) /\ claimed[i]
        BY <2>1, <3>0, <3>1, KindOf
      <4>2. ~Queued(i)'
        BY <1>9, <3>0, <3>1, HeadGone DEF PopAnswerLost, BackOff
      <4>3. Kind(i)' = "blocked"
        BY <2>1, <3>1, <4>1, <4>2 DEF Kind, Pushing, Popped, Running
      <4> QED BY <2>2, <3>0, <4>1, <4>3, SlotMoves
    <3> QED BY <1>0, <2>2, <3>0, <3>1
  <2>4. CASE Head(queue) \notin Job
    BY <2>2, <2>4, SlotsStay
  <2> QED BY <2>3, <2>4
<1>10. CASE Start
  <2>1. /\ popped \in Task /\ popped' = None
        /\ running'[popped] = running[popped] + 1
        /\ \A j \in Job : j # popped => running'[j] = running[j]
        /\ UNCHANGED <<claimed, queue, pushing, overdue>>
    BY <1>10 DEF Start, QueueTypeOK, Task
  <2>2. \A j \in Job : j # popped => Kind(j)' = Kind(j)
    BY <2>1 DEF Kind, Pushing, Queued, Popped, Running
  <2>3. CASE popped \in Job
    <3>1. PICK i \in Job : i = popped
      BY <2>3
    <3>2. CASE overdue[i] = 0
      <4>1. Kind(i) = "pending"
        BY <3>1, <3>2, KindOf DEF Popped
      <4>2. running[i] \in Nat
        BY DEF QueueTypeOK, Task
      <4>3. Kind(i)' = "running"
        BY <2>1, <3>1, <3>2, <4>2 DEF Kind, Running
      <4> QED BY <2>2, <3>1, <4>1, <4>3, SlotMoves
    <3> QED BY <1>0, <2>2, <3>1, <3>2
  <2>4. CASE popped \notin Job
    BY <2>2, <2>4, SlotsStay
  <2> QED BY <2>3, <2>4
\* The end of a task.
<1>11. ASSUME NEW t \in Task, Finish(t) PROVE Slot!Next \/ SlotMap' = SlotMap
  <2>1. /\ running[t] > 0 /\ running'[t] = running[t] - 1
        /\ \A u \in Task : u # t => running'[u] = running[u]
        /\ \A j \in Job : claimed'[j] = (j # t /\ claimed[j])
        /\ UNCHANGED <<queue, pushing, popped, overdue>>
    BY <1>11 DEF Finish, QueueTypeOK
  <2>2. \A j \in Job : j # t => Kind(j)' = Kind(j)
    BY <2>1 DEF Kind, Pushing, Queued, Popped, Running, Task
  <2>3. CASE t \in Job
    <3>1. CASE overdue[t] = 0
      <4>1. Kind(t) = "running" /\ ~Pushing(t) /\ ~Queued(t) /\ ~Popped(t) /\ running[t] = 1
        BY <2>1, <2>3, <3>1, KindOf DEF Running
      <4>2. /\ ~Running(t)' /\ ~Pushing(t)' /\ ~Queued(t)' /\ ~Popped(t)'
            /\ ~claimed'[t] /\ overdue'[t] = 0
        <5>0. claimed'[t] = (t # t /\ claimed[t])
          BY <2>1, <2>3
        <5>1a. t \in Job /\ ~claimed'[t]
          BY <2>3, <5>0
        <5>1b. overdue'[t] = 0
          BY <2>1, <3>1
        <5>1c. running'[t] = running[t] - 1 /\ running[t] = 1
          BY <2>1, <4>1
        <5>1. t \in Job /\ running'[t] = 0 /\ ~claimed'[t] /\ overdue'[t] = 0
          BY <5>1a, <5>1b, <5>1c
        <5>2. UNCHANGED <<queue, pushing, popped>>
          BY <2>1
        <5> QED BY <4>1, <5>1, <5>2 DEF Pushing, Queued, Popped, Running
      <4>3. Kind(t)' = "free"
        BY <4>2 DEF Kind
      <4> QED BY <2>2, <2>3, <4>1, <4>3, SlotMoves
    <3> QED BY <1>0, <2>2, <2>3, <3>1
  <2>4. CASE t \notin Job
    BY <2>2, <2>4, SlotsStay
  <2> QED BY <2>3, <2>4
<1>12. ASSUME NEW i \in Job, FinishUnreleased(i) PROVE Slot!Next \/ SlotMap' = SlotMap
  <2>1. /\ running[i] > 0 /\ running'[i] = running[i] - 1
        /\ \A j \in Job : j # i => running'[j] = running[j]
        /\ UNCHANGED <<queue, claimed, pushing, popped, overdue>>
    BY <1>12 DEF FinishUnreleased, QueueTypeOK, Task
  <2>2. \A j \in Job : j # i => Kind(j)' = Kind(j)
    BY <2>1 DEF Kind, Pushing, Queued, Popped, Running
  <2>3. CASE overdue[i] = 0
    <3>1. Kind(i) = "running" /\ ~Pushing(i) /\ ~Queued(i) /\ ~Popped(i) /\ running[i] = 1 /\ claimed[i]
      BY <2>1, <2>3, KindOf DEF Running
    <3>2. Kind(i)' = "blocked"
      BY <2>1, <2>3, <3>1 DEF Kind, Pushing, Queued, Popped, Running
    <3> QED BY <2>2, <3>1, <3>2, SlotMoves
  <2> QED BY <1>0, <2>2, <2>3
<1>13. CASE CrashWorker
  <2> DEFINE Lost == {j \in Job : overdue[j] = 0 /\ (Running(j) \/ Popped(j))}
  <2>1. /\ popped' = None /\ \A j \in Job : running'[j] = 0
        /\ UNCHANGED <<claimed, queue, pushing, overdue>>
    BY <1>13 DEF CrashWorker, Task
  <2>2. SlotMap = [j \in Job |-> Kind(j)] /\ SlotMap' = [j \in Job |-> Kind(j)']
    BY SlotIsKind, SlotIsKindNext
  <2>3. ASSUME NEW j \in Lost PROVE Kind(j) \in {"pending", "running"} /\ Kind(j)' = "blocked"
    <3>1. ~Pushing(j) /\ ~Queued(j) /\ claimed[j] /\ Kind(j) \in {"pending", "running"}
      BY KindOf
    <3> QED BY <2>1, <3>1 DEF Kind, Pushing, Queued, Popped, Running
  <2>4. ASSUME NEW j \in Job, j \notin Lost PROVE Kind(j)' = Kind(j) /\ Kind(j) # "running"
    <3>0. overdue[j] \in Nat
      BY OverdueGrows
    <3>1. CASE overdue[j] # 0
      BY <2>1, <3>0, <3>1 DEF Kind
    <3>2. CASE overdue[j] = 0
      BY <2>1, <2>4, <3>2 DEF Kind, Pushing, Queued, Popped, Running
    <3> QED BY <3>1, <3>2
  <2>5. Slot!LoseWorker
    <3>1. /\ Lost \in SUBSET Job
          /\ \A j \in Job : SlotMap[j] = "running" => j \in Lost
          /\ \A j \in Lost : SlotMap[j] \in {"pending", "running"}
          /\ SlotMap' = [j \in Job |-> IF j \in Lost THEN "blocked" ELSE SlotMap[j]]
      BY <2>2, <2>3, <2>4
    <3> HIDE DEF Lost
    <3> QED BY <3>1 DEF Slot!LoseWorker
  <2> QED BY <2>5 DEF Slot!Next
<1>14. CASE UNCHANGED queueVars
  <2>1. \A j \in Job : Kind(j)' = Kind(j)
    BY <1>14 DEF queueVars, Kind, Pushing, Queued, Popped, Running
  <2> QED BY <2>1, SlotsStay
<1>15. Slot!Next \/ SlotMap' = SlotMap => [Slot!Next]_SlotMap
  OBVIOUS
<1> QED
  BY <1>15, <1>1, <1>2, <1>3, <1>4, <1>5, <1>6, <1>6a, <1>7, <1>8, <1>9, <1>10, <1>11, <1>12, <1>13,
     <1>14
  DEF QueueNext, Fault

\* Until a job outlasts its claim, the queue as it is built, a claim and then a push, a pop
\* and then a start, an end and then a release, any of which may fail, takes it through
\* the slots the port promises, for any jobs, clients and slots.
THEOREM Implements == QueueSpec => ImplementsSlots
<1>1. QueueInit => Typed /\ Dedup /\ Slot!Init
  <2>1. QueueInit => Typed /\ \A j \in Job : Kind(j) = "free"
    BY InitTyped DEF QueueInit, Kind, Pushing, Queued, Popped, Running, Task
  <2>2. QueueInit => Slot!Init
    BY <2>1, SlotIsKind DEF Slot!Init, Typed
  <2> QED BY <2>2, InitTyped, InitDedup
<1>2. Typed /\ Dedup /\ [QueueNext]_queueVars => (Typed /\ Dedup)'
  BY StepTyped, StepDedup DEF Typed
<1>3. Typed /\ Dedup /\ [QueueNext]_queueVars => [Slot!Next]_SlotMap
  BY StepTyped, StepSlots DEF Typed
<1> QED BY <1>1, <1>2, <1>3, PTL DEF QueueSpec, ImplementsSlots, Slot!Moves

-----------------------------------------------------------------------------
(* StaticData *)

USE StaticAssumption

-----------------------------------------------------------------------------
(* Type correctness.  It says, beyond types, that the key a refresh has just *)
(* written is never among those it is about to delete.                       *)

LEMMA NoEntryTyped == NoEntry \in Entry
BY DEF NoEntry, Entry

LEMMA StaticInitTyped == StaticInit => StaticTypeOK
<1> SUFFICES ASSUME StaticInit PROVE StaticTypeOK
  OBVIOUS
<1>1. row \in Row
  BY DEF StaticInit, Row
<1>2. source \in Version /\ cache \in [Key -> Entry] /\ deploys \in 0..MaxDeploys
  BY NoEntryTyped DEF StaticInit, Version
<1>3. /\ job = "free" /\ down = FALSE
      /\ pc = [p \in Proc |-> "idle"] /\ key = [p \in Proc |-> Bare] /\ filter = [p \in Proc |-> Bare]
      /\ stale = [p \in Proc |-> FALSE]
  BY DEF StaticInit
<1>4. payload \in [Proc -> 0..MaxVersion] /\ doomed \in [Proc -> SUBSET (Key \ {Bare})]
  BY DEF StaticInit
<1> QED BY <1>1, <1>2, <1>3, <1>4 DEF StaticTypeOK

LEMMA StaticStepTyped == StaticTypeOK /\ [StaticNext]_staticVars => StaticTypeOK'
<1> SUFFICES ASSUME StaticTypeOK, [StaticNext]_staticVars PROVE StaticTypeOK'
  OBVIOUS
<1>0. /\ row \in Row
      /\ row \in [raw : 0..MaxVersion, parsed : 0..MaxVersion, current : BOOLEAN, fresh : BOOLEAN]
  <2>1. row \in Row
    BY DEF StaticTypeOK
  <2> QED BY <2>1 DEF Row
<1>1. CASE Outage \/ Unblock \/ Publish
  <2>1. CASE Outage
    <3>1. down' \in BOOLEAN /\ UNCHANGED <<source, row, cache, job, deploys, pc, locals>>
      BY <2>1 DEF Outage
    <3> QED BY <3>1 DEF locals, StaticTypeOK
  <2>2. CASE Unblock \/ Publish
    BY <2>2 DEF Unblock, Publish, locals, StaticTypeOK, Version
  <2> QED BY <1>1, <2>1, <2>2
<1>2. CASE Age
  <2>1. row' \in Row
    BY <1>2, <1>0 DEF Age, Row
  <2> QED BY <1>2, <2>1 DEF Age, locals, StaticTypeOK
<1>3. CASE Deploy
  <2>1. row' \in Row
    BY <1>3, <1>0 DEF Deploy, Row
  <2> QED BY <1>3, <2>1, NoEntryTyped DEF Deploy, StaticTypeOK
<1>4. CASE LoseJob
  BY <1>4 DEF LoseJob, StaticTypeOK, Proc
<1>5. ASSUME NEW p \in Proc, FetchFails(p) PROVE StaticTypeOK'
  BY <1>5 DEF FetchFails, End, Goto, StaticTypeOK
<1>6. ASSUME NEW k \in Key, ExpireEntry(k) PROVE StaticTypeOK'
  BY <1>6, NoEntryTyped DEF ExpireEntry, locals, StaticTypeOK
<1>7. ASSUME NEW k \in Key, NEW r \in Request, Miss(r, k) PROVE StaticTypeOK'
  BY <1>7 DEF Miss, Goto, StaticTypeOK, Proc
<1>7a. ASSUME NEW k \in Key, NEW r \in Request, Announce(r, k) PROVE StaticTypeOK'
  BY <1>7a DEF Announce, Goto, StaticTypeOK, Proc
<1>8. ASSUME NEW r \in Request, SelectNothing(r) PROVE StaticTypeOK'
  BY <1>8 DEF SelectNothing, Goto, locals, StaticTypeOK, Proc
<1>9. ASSUME NEW r \in Request, SelectRow(r) PROVE StaticTypeOK'
  <2>1. /\ payload' \in [Proc -> 0..MaxVersion] /\ stale' \in [Proc -> BOOLEAN]
    BY <1>9, <1>0 DEF SelectRow, StaticTypeOK, Proc
  <2> QED BY <1>9, <2>1 DEF SelectRow, Goto, StaticTypeOK, Proc
<1>10. ASSUME NEW r \in Request, WriteBack(r) PROVE StaticTypeOK'
  <2>1. payload[r] \in 0..MaxVersion
    BY DEF StaticTypeOK, Proc
  <2>2. [row EXCEPT !.parsed = payload[r], !.current = TRUE] \in Row
    BY <2>1, <1>0 DEF Row
  <2>3. row' \in Row
    BY <1>10, <2>2, <1>0 DEF WriteBack, Writes, Row
  <2> QED BY <1>10, <2>3 DEF WriteBack, Goto, locals, StaticTypeOK, Proc
<1>11. ASSUME NEW r \in Request, Enqueue(r) PROVE StaticTypeOK'
  <2>1. job' \in {"free", "pending", "running", "blocked"}
    BY <1>11 DEF Enqueue, StaticTypeOK
  <2> QED BY <1>11, <2>1 DEF Enqueue, Goto, locals, StaticTypeOK, Proc
<1>12. ASSUME NEW p \in Proc, Fetch(p) PROVE StaticTypeOK'
  BY <1>12 DEF Fetch, Goto, StaticTypeOK, Version
<1>13. ASSUME NEW p \in Proc, Store(p) PROVE StaticTypeOK'
  <2>1. payload[p] \in 0..MaxVersion
    BY DEF StaticTypeOK
  <2>2. [raw |-> payload[p], parsed |-> payload[p], current |-> TRUE, fresh |-> TRUE] \in Row
    BY <2>1 DEF Row
  <2>3. row' \in Row
    BY <1>13, <2>2, <1>0 DEF Store, Writes
  <2> QED BY <1>13, <2>3 DEF Store, Goto, locals, StaticTypeOK
<1>14. ASSUME NEW p \in Proc, WriteCache(p) PROVE StaticTypeOK'
  <2>0. [page |-> payload[p], view |-> filter[p]] \in Entry
    BY DEF Entry, StaticTypeOK
  <2>1. cache' \in [Key -> Entry]
    BY <1>14, <2>0 DEF WriteCache, Writes, StaticTypeOK
  <2>2. CASE End(p, "cache")
    BY <1>14, <2>1, <2>2 DEF WriteCache, End, Goto, StaticTypeOK
  <2>3. CASE Goto(p, "cache", "scan") /\ UNCHANGED locals
    BY <1>14, <2>1, <2>3 DEF WriteCache, Goto, locals, StaticTypeOK
  <2> QED BY <1>14, <2>2, <2>3 DEF WriteCache
<1>15. ASSUME NEW w \in Worker, Begin(w) PROVE StaticTypeOK'
  BY <1>15 DEF Begin, Goto, locals, StaticTypeOK, Proc
<1>16. ASSUME NEW w \in Worker, Scan(w) PROVE StaticTypeOK'
  <2>1. doomed' \in [Proc -> SUBSET (Key \ {Bare})]
    BY <1>16 DEF Scan, StaticTypeOK, Proc
  <2> QED BY <1>16, <2>1 DEF Scan, Goto, StaticTypeOK, Proc
<1>17. ASSUME NEW w \in Worker, Delete(w) PROVE StaticTypeOK'
  <2>1. cache' \in [Key -> Entry]
    BY <1>17, NoEntryTyped DEF Delete, Writes, StaticTypeOK
  <2> QED BY <1>17, <2>1 DEF Delete, End, Goto, StaticTypeOK, Proc
<1>18. CASE UNCHANGED staticVars
  BY <1>18 DEF staticVars, locals, StaticTypeOK
<1> QED
  BY <1>1, <1>2, <1>3, <1>4, <1>5, <1>6, <1>7, <1>7a, <1>8, <1>9, <1>10, <1>11, <1>12,
     <1>13, <1>14, <1>15, <1>16, <1>17, <1>18
  DEF StaticNext, StaticFault, Answer, Refresh, Source

\* Whatever fails and whoever runs: every row, entry and local holds what it may, and
\* a refresh never dooms the key it keeps.
THEOREM StaticTypeCorrect == StaticSpec => []StaticTypeOK
BY StaticInitTyped, StaticStepTyped, PTL DEF StaticSpec

-----------------------------------------------------------------------------
(* Once there is a row that parses, only refreshes fetch, one at a time, so what *)
(* they store never goes backwards.                                              *)

OneRefresh ==
  /\ \A w \in Worker : pc[w] # "idle" => job = "running"
  /\ \A v, w \in Worker : pc[v] # "idle" /\ pc[w] # "idle" => v = w

OnlyRefreshesFetch == \A r \in Request : pc[r] \notin {"fetch", "store"}

RowBehindSource == 0 < row.raw /\ row.raw <= source

StoredIsNewer == \A w \in Worker :
  pc[w] = "store" => row.raw <= payload[w] /\ payload[w] <= source

Order == OneRefresh /\ OnlyRefreshesFetch /\ RowBehindSource /\ StoredIsNewer

LEMMA InitOrder == Warm /\ StaticInit => Order
BY DEF StaticInit, Order, OneRefresh, OnlyRefreshesFetch, RowBehindSource, StoredIsNewer, Proc

LEMMA StepOrder ==
  ASSUME ~LayoutMoves, StaticTypeOK, Order, [StaticNext]_staticVars
  PROVE  Order' /\ row'.raw >= row.raw
<1> USE DEF Order, OneRefresh, OnlyRefreshesFetch, RowBehindSource, StoredIsNewer
<1>0. /\ row \in [raw : 0..MaxVersion, parsed : 0..MaxVersion, current : BOOLEAN, fresh : BOOLEAN]
      /\ source \in 1..MaxVersion
      /\ payload \in [Proc -> 0..MaxVersion]
      /\ \A p \in Proc : p \in Request <=> p \notin Worker
  BY DEF StaticTypeOK, Row, Version, Proc
<1>1. CASE Outage \/ Unblock
  BY <1>0, <1>1 DEF Outage, Unblock, locals
<1>2. CASE Publish
  BY <1>0, <1>2 DEF Publish, locals, Proc
<1>3. CASE Age
  <2>1. row'.raw = row.raw
    BY <1>0, <1>3 DEF Age
  <2> QED BY <1>0, <1>3, <2>1 DEF Age, locals
<1>4. CASE Deploy
  <2>1. row'.raw = row.raw
    BY <1>0, <1>4 DEF Deploy
  <2> QED BY <1>0, <1>4, <2>1 DEF Deploy, Proc
<1>5. CASE LoseJob
  BY <1>0, <1>5 DEF LoseJob, Proc
<1>6. ASSUME NEW p \in Proc, FetchFails(p) PROVE Order' /\ row'.raw >= row.raw
  <2>1. p \in Worker
    BY <1>6 DEF FetchFails, End, Goto, Proc
  <2>2. \A w \in Worker : pc'[w] = "idle"
    BY <1>6, <2>1 DEF FetchFails, End, Goto, Proc, StaticTypeOK
  <2>3. \A r \in Request : pc'[r] = pc[r]
    BY <1>6, <2>1 DEF FetchFails, End, Goto, Proc, StaticTypeOK
  <2> QED BY <1>0, <1>6, <2>2, <2>3 DEF FetchFails
<1>7. ASSUME NEW k \in Key, ExpireEntry(k) PROVE Order' /\ row'.raw >= row.raw
  BY <1>0, <1>7 DEF ExpireEntry, locals
<1>8. ASSUME NEW k \in Key, NEW r \in Request, Miss(r, k) PROVE Order' /\ row'.raw >= row.raw
  BY <1>0, <1>8 DEF Miss, Goto, Proc, StaticTypeOK
<1>8a. ASSUME NEW k \in Key, NEW r \in Request, Announce(r, k)
       PROVE  Order' /\ row'.raw >= row.raw
  BY <1>0, <1>8a DEF Announce, Goto, Proc, StaticTypeOK
<1>9. ASSUME NEW r \in Request, SelectNothing(r) PROVE FALSE
  BY <1>0, <1>9 DEF SelectNothing
<1>10. ASSUME NEW r \in Request, SelectRow(r) PROVE Order' /\ row'.raw >= row.raw
  <2>1. /\ UNCHANGED <<source, row, job>>
        /\ pc'[r] \in {"writeBack", "cache", "enqueue"}
        /\ \A p \in Proc : p # r => pc'[p] = pc[p] /\ payload'[p] = payload[p]
    BY <1>10 DEF SelectRow, Goto, Proc, StaticTypeOK
  <2> QED BY <1>0, <2>1 DEF Proc
<1>11. ASSUME NEW r \in Request, WriteBack(r) PROVE Order' /\ row'.raw >= row.raw
  <2>1. row'.raw = row.raw
    BY <1>0, <1>11 DEF WriteBack, Writes
  <2>2. /\ UNCHANGED <<source, job, payload>>
        /\ pc'[r] \in {"cache", "enqueue"}
        /\ \A p \in Proc : p # r => pc'[p] = pc[p]
    BY <1>11 DEF WriteBack, Goto, Proc, StaticTypeOK, locals
  <2> QED BY <1>0, <2>1, <2>2 DEF Proc
<1>12. ASSUME NEW r \in Request, Enqueue(r) PROVE Order' /\ row'.raw >= row.raw
  <2>1. job = "running" => job' = "running"
    BY <1>12 DEF Enqueue
  <2>2. /\ UNCHANGED <<source, row, payload>>
        /\ pc'[r] = "cache"
        /\ \A p \in Proc : p # r => pc'[p] = pc[p]
    BY <1>12 DEF Enqueue, Goto, Proc, StaticTypeOK, locals
  <2> QED BY <1>0, <2>1, <2>2 DEF Proc
<1>13. ASSUME NEW p \in Proc, Fetch(p) PROVE Order' /\ row'.raw >= row.raw
  <2>1. p \in Worker
    BY <1>13 DEF Fetch, Goto, Proc
  <2>2. /\ UNCHANGED <<source, row, job>>
        /\ pc[p] = "fetch" /\ pc'[p] = "store" /\ payload'[p] = source
        /\ \A q \in Proc : q # p => pc'[q] = pc[q] /\ payload'[q] = payload[q]
    BY <1>13 DEF Fetch, Goto, Proc, StaticTypeOK
  <2> QED BY <1>0, <2>1, <2>2 DEF Proc
<1>14. ASSUME NEW p \in Proc, Store(p) PROVE Order' /\ row'.raw >= row.raw
  <2>1. p \in Worker /\ pc[p] = "store"
    BY <1>14 DEF Store, Goto, Proc
  <2>2. /\ UNCHANGED <<source, job, payload>>
        /\ pc'[p] = "cache"
        /\ \A q \in Proc : q # p => pc'[q] = pc[q]
    BY <1>14 DEF Store, Goto, Proc, StaticTypeOK, locals
  <2>3. row'.raw = payload[p] \/ row'.raw = row.raw
    BY <1>14 DEF Store, Writes
  <2>4. row.raw <= payload[p] /\ payload[p] <= source /\ payload[p] \in 0..MaxVersion
    BY <1>0, <2>1
  <2>5. \A w \in Worker : pc'[w] # "store"
    BY <2>1, <2>2 DEF Proc
  <2> QED BY <1>0, <2>1, <2>2, <2>3, <2>4, <2>5 DEF Proc
<1>15. ASSUME NEW p \in Proc, WriteCache(p) PROVE Order' /\ row'.raw >= row.raw
  <2>1. /\ UNCHANGED <<source, row, job>>
        /\ pc[p] = "cache" /\ pc'[p] \in {"idle", "scan"}
        /\ \A q \in Proc : q # p => pc'[q] = pc[q] /\ payload'[q] = payload[q]
    <3>1. CASE End(p, "cache")
      BY <1>15, <3>1 DEF WriteCache, End, Goto, StaticTypeOK
    <3>2. CASE Goto(p, "cache", "scan") /\ UNCHANGED locals
      BY <1>15, <3>2 DEF WriteCache, Goto, locals, StaticTypeOK
    <3> QED BY <1>15, <3>1, <3>2 DEF WriteCache
  <2> QED BY <1>0, <2>1 DEF Proc
<1>16. ASSUME NEW w \in Worker, Begin(w) PROVE Order' /\ row'.raw >= row.raw
  BY <1>0, <1>16 DEF Begin, Goto, Proc, StaticTypeOK, locals
<1>17. ASSUME NEW w \in Worker, Scan(w) PROVE Order' /\ row'.raw >= row.raw
  BY <1>0, <1>17 DEF Scan, Goto, Proc, StaticTypeOK
<1>18. ASSUME NEW w \in Worker, Delete(w) PROVE Order' /\ row'.raw >= row.raw
  <2>1. \A v \in Worker : pc'[v] = "idle"
    BY <1>18 DEF Delete, End, Goto, Proc, StaticTypeOK
  <2>2. \A r \in Request : pc'[r] = pc[r]
    BY <1>0, <1>18 DEF Delete, End, Goto, Proc, StaticTypeOK
  <2> QED BY <1>0, <1>18, <2>1, <2>2 DEF Delete
<1>19. CASE UNCHANGED staticVars
  BY <1>0, <1>19 DEF staticVars, locals
<1> QED
  BY <1>1, <1>2, <1>3, <1>4, <1>5, <1>6, <1>7, <1>8, <1>8a, <1>9, <1>10, <1>11, <1>12,
     <1>13, <1>14, <1>15, <1>16, <1>17, <1>18, <1>19
  DEF StaticNext, StaticFault, Answer, Refresh, Source

\* With a row in storage that today's parser reads, no interleaving of requests,
\* refreshes, outages, lost jobs and deployments replaces it by an older page.
THEOREM RowMonotone == Warm /\ ~LayoutMoves => (StaticSpec => RowNeverRegresses)
<1> SUFFICES ASSUME Warm, ~LayoutMoves PROVE StaticSpec => RowNeverRegresses
  OBVIOUS
<1>1. StaticInit => StaticTypeOK /\ Order
  BY StaticInitTyped, InitOrder
<1>2. StaticTypeOK /\ Order /\ [StaticNext]_staticVars => (StaticTypeOK /\ Order)'
  BY StaticStepTyped, StepOrder
<1>3. StaticTypeOK /\ Order /\ [StaticNext]_staticVars => [row'.raw >= row.raw]_staticVars
  BY StepOrder
<1> QED BY <1>1, <1>2, <1>3, PTL DEF StaticSpec, RowNeverRegresses
=============================================================================
