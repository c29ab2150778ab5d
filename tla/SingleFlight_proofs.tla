------------------------ MODULE SingleFlight_proofs ------------------------
(* Proofs about SingleFlight, for any finite set of coroutines and any keys. *)
EXTENDS SingleFlight, FiniteSetTheorems, SequenceTheorems, TLAPS

-----------------------------------------------------------------------------
(* Removal from a deque whose elements are distinct. *)

Distinct(s) == \A i, j \in 1..Len(s) : s[i] = s[j] => i = j

\* RemoveAt, by index.
LEMMA RemoveAtProperties ==
  ASSUME NEW S, NEW s \in Seq(S), NEW i \in 1..Len(s)
  PROVE  /\ RemoveAt(s, i) \in Seq(S)
         /\ Len(RemoveAt(s, i)) = Len(s) - 1
         /\ \A j \in 1..(Len(s) - 1) :
              RemoveAt(s, i)[j] = IF j < i THEN s[j] ELSE s[j + 1]
<1> DEFINE a == SubSeq(s, 1, i - 1)
           b == SubSeq(s, i + 1, Len(s))
           c == a \o b
<1>1. /\ a \in Seq(S) /\ Len(a) = i - 1
      /\ \A j \in 1..(i - 1) : a[j] = s[j]
  OBVIOUS
<1>2. /\ b \in Seq(S) /\ Len(b) = Len(s) - i
      /\ \A j \in 1..(Len(s) - i) : b[j] = s[i + j]
  OBVIOUS
<1>3. /\ c \in Seq(S) /\ Len(c) = Len(s) - 1
      /\ \A j \in 1..(Len(s) - 1) : c[j] = IF j <= i - 1 THEN a[j] ELSE b[j - (i - 1)]
  <2> HIDE DEF a, b
  <2>1. a \in Seq(S) /\ b \in Seq(S)
    BY <1>1, <1>2
  <2>2. /\ c \in Seq(S) /\ Len(c) = Len(a) + Len(b)
        /\ \A j \in 1..(Len(a) + Len(b)) :
             c[j] = IF j <= Len(a) THEN a[j] ELSE b[j - Len(a)]
    BY <2>1, ConcatProperties
  <2> QED BY <1>1, <1>2, <2>2
<1> HIDE DEF a, b, c
<1>4. ASSUME NEW j \in 1..(Len(s) - 1)
      PROVE  c[j] = IF j < i THEN s[j] ELSE s[j + 1]
  <2> i \in Nat /\ j \in Nat /\ Len(s) \in Nat
    OBVIOUS
  <2>1. CASE j < i
    <3>1. j \in 1..(i - 1) /\ c[j] = a[j]
      BY <1>3, <2>1
    <3> QED BY <3>1, <1>1, <2>1
  <2>2. CASE ~(j < i)
    <3>1. /\ j - (i - 1) \in 1..(Len(s) - i) /\ i + (j - (i - 1)) = j + 1
          /\ c[j] = b[j - (i - 1)]
      BY <1>3, <2>2
    <3>2. b[j - (i - 1)] = s[j + 1]
      BY <3>1, <1>2
    <3> QED BY <3>1, <3>2, <2>2
  <2> QED BY <2>1, <2>2
<1> QED
  BY <1>3, <1>4 DEF RemoveAt, a, b, c

\* Without(s, p) takes p, and only p, out of a deque of distinct coroutines.
LEMMA WithoutProperties ==
  ASSUME NEW S, NEW s \in Seq(S), Distinct(s), NEW p, Contains(s, p)
  PROVE  /\ Without(s, p) \in Seq(S)
         /\ Distinct(Without(s, p))
         /\ \A q : Contains(Without(s, p), q) <=> Contains(s, q) /\ q # p
         /\ Head(s) # p => Without(s, p) # <<>> /\ Head(Without(s, p)) = Head(s)
<1> DEFINE i == CHOOSE i \in 1..Len(s) : s[i] = p
           r == Without(s, p)
<1>1. i \in 1..Len(s) /\ s[i] = p
  BY DEF Contains
<1>2. /\ r \in Seq(S) /\ Len(r) = Len(s) - 1
      /\ \A j \in 1..(Len(s) - 1) : r[j] = IF j < i THEN s[j] ELSE s[j + 1]
  BY <1>1, RemoveAtProperties DEF Without
<1> HIDE DEF i, r
<1>3. Distinct(r)
  BY <1>1, <1>2 DEF Distinct
<1>4. ASSUME NEW q
      PROVE  Contains(r, q) <=> Contains(s, q) /\ q # p
  <2>1. ASSUME Contains(r, q) PROVE Contains(s, q) /\ q # p
    <3>1. PICK j \in 1..(Len(s) - 1) : r[j] = q
      BY <1>2, <2>1 DEF Contains
    <3> QED BY <3>1, <1>1, <1>2 DEF Contains, Distinct
  <2>2. ASSUME Contains(s, q), q # p PROVE Contains(r, q)
    <3>1. PICK j \in 1..Len(s) : s[j] = q
      BY <2>2 DEF Contains
    <3>2. CASE j < i
      BY <3>1, <3>2, <1>1, <1>2 DEF Contains
    <3>3. CASE ~(j < i)
      <4>1. j - 1 \in 1..(Len(s) - 1) /\ r[j - 1] = q
        BY <3>1, <3>3, <2>2, <1>1, <1>2
      <4> QED BY <4>1, <1>2 DEF Contains
    <3> QED BY <3>2, <3>3
  <2> QED BY <2>1, <2>2
<1>5. ASSUME Head(s) # p PROVE r # <<>> /\ Head(r) = Head(s)
  <2>1. i > 1 /\ Len(s) > 1
    BY <1>1, <1>5
  <2> QED BY <2>1, <1>1, <1>2
<1> QED
  BY <1>2, <1>3, <1>4, <1>5 DEF r

-----------------------------------------------------------------------------
(* The inductive invariant *)

IdleInv == \A p \in Proc : pc[p] = "idle" => lockOf[p] = NoLock

\* The counter is exact, and the dictionary entry of a key is there, and is the
\* lock of everyone using the key, exactly while someone uses it.
CountInv == \A k \in Key : users[k] = Cardinality(Users(k))
SharedInv == \A p \in Proc :
  pc[p] # "idle" => lockOf[p] \in LockId /\ lockOf[p] = locks[key[p]]
EntryInv == \A k \in Key : locks[k] # NoLock => Users(k) # {}

\* A deque holds each coroutine parked on its lock, once.
DequeInv == \A l \in LockId :
  /\ Distinct(waiters[l])
  /\ \A p \in Proc :
       Contains(waiters[l], p) <=> pc[p] = "waiting" /\ lockOf[p] = l

FutInv == \A p \in Proc : pc[p] = "waiting" <=> fut[p] # "none"
BodyInv == \A p \in Proc : pc[p] = "body" => owner[lockOf[p]] = p

\* A coroutine that was woken heads its deque and finds the lock free.
WokenInv == \A p \in Proc :
  fut[p] \in {"woken", "wokenCancelled"} =>
    /\ owner[lockOf[p]] = NoProc
    /\ waiters[lockOf[p]] # <<>> /\ Head(waiters[lockOf[p]]) = p

WakeupInv == \A l \in LockId :
  owner[l] = NoProc /\ waiters[l] # <<>> =>
    \E p \in Proc : Contains(waiters[l], p) /\ fut[p] # "pending"

IInv == /\ TypeOK /\ IdleInv /\ CountInv /\ SharedInv /\ EntryInv
        /\ DequeInv /\ FutInv /\ BodyInv /\ WokenInv /\ WakeupInv

-----------------------------------------------------------------------------
(* What Forget does to the counter and the dictionary. *)

\* Users(k) is finite, so counting it is meaningful.
LEMMA UsersFinite ==
  ASSUME NEW k \in Key
  PROVE  IsFiniteSet(Users(k)) /\ Cardinality(Users(k)) \in Nat
<1>1. Users(k) \subseteq Proc
  BY DEF Users
<1> QED
  BY <1>1, ConstantsAssumption, FS_Subset, FS_CardinalityType

LEMMA ForgetKeepsCount ==
  ASSUME IInv, NEW p \in Proc, pc[p] # "idle", Forget(p), NEW k \in Key, k = key[p]
  PROVE  CountInv' /\ EntryInv' /\ SharedInv' /\ IdleInv'
<1>1. k \in Key /\ p \in Users(k)
  BY DEF IInv, TypeOK, Users
<1>2. pc' = [pc EXCEPT ![p] = "idle"] /\ key' = key /\ pc \in [Proc -> {"idle", "waiting", "body"}]
  BY DEF Forget, IInv, TypeOK
<1>3. /\ Users(k)' = Users(k) \ {p}
      /\ \A j \in Key : j # k => Users(j)' = Users(j)
  BY <1>2 DEF Users
<1>4. Cardinality(Users(k)') = Cardinality(Users(k)) - 1
  BY <1>1, <1>3, UsersFinite, FS_RemoveElement
<1>5. users' = [users EXCEPT ![k] = @ - 1] /\ users \in [Key -> Nat]
  BY DEF Forget, IInv, TypeOK
<1>6. CountInv'
  BY <1>1, <1>3, <1>4, <1>5 DEF CountInv, IInv
<1>7. users[k] - 1 <= 0 <=> Users(k)' = {}
  <2>1. IsFiniteSet(Users(k)')
    BY <1>1, <1>3, UsersFinite, FS_RemoveElement
  <2>2. Cardinality(Users(k)') = 0 <=> Users(k)' = {}
    BY <2>1, FS_EmptySet
  <2>3. users[k] = Cardinality(Users(k)) /\ users[k] \in Nat
    BY <1>5 DEF IInv, CountInv
  <2>4. PICK n \in Nat : n = Cardinality(Users(k)')
    BY <2>1, FS_CardinalityType
  <2>5. n = users[k] - 1
    BY <1>4, <2>3, <2>4
  <2>6. users[k] - 1 <= 0 <=> n = 0
    BY <2>3, <2>5
  <2> QED BY <2>2, <2>4, <2>6
<1>8. locks' = IF Users(k)' = {} THEN [locks EXCEPT ![k] = NoLock] ELSE locks
  BY <1>7 DEF Forget
<1>9. EntryInv'
  BY <1>1, <1>3, <1>8 DEF EntryInv, IInv, TypeOK
<1>10. SharedInv' /\ IdleInv'
  <2>1. lockOf' = [lockOf EXCEPT ![p] = NoLock]
    BY DEF Forget
  <2>2. ASSUME NEW q \in Proc, pc'[q] # "idle"
        PROVE  lockOf'[q] \in LockId /\ lockOf'[q] = locks'[key'[q]]
    <3>1. q # p /\ pc[q] # "idle" /\ lockOf'[q] = lockOf[q] /\ key'[q] = key[q]
      BY <1>2, <2>1, <2>2 DEF IInv, TypeOK
    <3>2. locks'[key[q]] = locks[key[q]]
      <4>1. CASE key[q] = k
        <5>1. q \in Users(k)'
          BY <1>2, <2>2, <4>1 DEF Users
        <5> QED BY <5>1, <1>8
      <4>2. CASE key[q] # k
        BY <4>2, <1>8 DEF IInv, TypeOK
      <4> QED BY <4>1, <4>2
    <3> QED BY <3>1, <3>2 DEF IInv, SharedInv
  <2>3. SharedInv'
    BY <2>2 DEF SharedInv
  <2>4. IdleInv'
    BY <1>2, <2>1 DEF IdleInv, IInv, TypeOK
  <2> QED BY <2>3, <2>4
<1> QED
  BY <1>6, <1>9, <1>10

-----------------------------------------------------------------------------
(* One lemma per action: it preserves the invariant. *)

LEMMA InitInv == Init => IInv
<1> SUFFICES ASSUME Init PROVE IInv
  OBVIOUS
<1>1. TypeOK
  BY DEF Init, TypeOK
<1>2. \A k \in Key : Users(k) = {}
  BY DEF Init, Users
<1>3. CountInv /\ EntryInv
  BY <1>2, FS_EmptySet DEF Init, CountInv, EntryInv
<1>4. DequeInv
  BY DEF Init, DequeInv, Distinct, Contains
<1>5. IdleInv /\ SharedInv /\ FutInv /\ BodyInv /\ WokenInv /\ WakeupInv
  BY DEF Init, IdleInv, SharedInv, FutInv, BodyInv, WokenInv, WakeupInv
<1> QED
  BY <1>1, <1>3, <1>4, <1>5 DEF IInv

\* Entering: the counter and the dictionary, before the lock is looked at.
LEMMA EnterKeepsCount ==
  ASSUME IInv, NEW p \in Proc, NEW k \in Key, NEW l \in LockId,
         pc[p] = "idle", SetDefault(k, l),
         locks' = [locks EXCEPT ![k] = l],
         users' = [users EXCEPT ![k] = @ + 1],
         key' = [key EXCEPT ![p] = k],
         lockOf' = [lockOf EXCEPT ![p] = l],
         NEW s \in {"waiting", "body"}, pc' = [pc EXCEPT ![p] = s]
  PROVE  CountInv' /\ EntryInv' /\ SharedInv' /\ IdleInv'
<1> USE DEF IInv, TypeOK
<1>1. /\ p \notin Users(k) /\ Users(k)' = Users(k) \cup {p}
      /\ \A j \in Key : j # k => Users(j)' = Users(j)
  BY DEF Users
<1>2. Cardinality(Users(k)') = Cardinality(Users(k)) + 1
  BY <1>1, UsersFinite, FS_AddElement
<1>3. CountInv'
  BY <1>1, <1>2 DEF CountInv
<1>4. EntryInv'
  BY <1>1 DEF EntryInv
<1>5. SharedInv'
  <2> SUFFICES ASSUME NEW q \in Proc, pc'[q] # "idle"
               PROVE  lockOf'[q] \in LockId /\ lockOf'[q] = locks'[key'[q]]
    BY DEF SharedInv
  <2>1. CASE q = p
    BY <2>1
  <2>2. CASE q # p /\ key[q] = k
    <3>1. lockOf[q] \in LockId /\ lockOf[q] = locks[k]
      BY <2>2 DEF SharedInv
    <3>2. locks[k] = l
      BY <3>1, ConstantsAssumption DEF SetDefault
    <3> QED BY <2>2, <3>1, <3>2
  <2>3. CASE q # p /\ key[q] # k
    BY <2>3 DEF SharedInv
  <2> QED BY <2>1, <2>2, <2>3
<1>6. IdleInv'
  BY DEF IdleInv
<1> QED
  BY <1>3, <1>4, <1>5, <1>6

LEMMA EnterInv ==
  ASSUME IInv, NEW p \in Proc, NEW k \in Key, Enter(p, k)
  PROVE  IInv'
<1>1. PICK l \in LockId : Enter(p, k)!(l)
  BY DEF Enter
<1> DEFINE ws == waiters[l]
<1>2. p \notin {q \in Proc : Contains(ws, q)} /\ fut[p] = "none"
  BY <1>1 DEF IInv, DequeInv, FutInv, TypeOK
<1>3. CASE /\ MayBarge(l)
           /\ owner' = [owner EXCEPT ![l] = p]
           /\ pc' = [pc EXCEPT ![p] = "body"]
           /\ UNCHANGED <<waiters, fut>>
  <2>1. TypeOK'
    BY <1>1, <1>3 DEF IInv, TypeOK
  <2>2. CountInv' /\ EntryInv' /\ SharedInv' /\ IdleInv'
    BY <1>1, <1>3, EnterKeepsCount
  <2>3. DequeInv' /\ FutInv' /\ BodyInv'
    <3>1. ASSUME NEW m \in LockId, NEW q \in Proc
          PROVE  Contains(waiters[m], q) <=> pc'[q] = "waiting" /\ lockOf'[q] = m
      BY <1>1, <1>3 DEF IInv, TypeOK, DequeInv
    <3>2. DequeInv'
      BY <3>1, <1>3 DEF IInv, DequeInv
    <3>3. FutInv'
      BY <1>1, <1>3 DEF IInv, TypeOK, FutInv
    <3>4. ASSUME NEW q \in Proc, pc'[q] = "body" PROVE owner'[lockOf'[q]] = q
      <4>1. CASE q = p
        BY <4>1, <1>1, <1>3 DEF IInv, TypeOK
      <4>2. CASE q # p
        <5>1. /\ pc[q] = "body" /\ lockOf'[q] = lockOf[q] /\ lockOf[q] \in LockId
              /\ owner[lockOf[q]] = q
          BY <1>1, <1>3, <3>4, <4>2 DEF IInv, TypeOK, BodyInv, SharedInv
        <5>2. lockOf[q] # l
          BY <5>1, <1>3, ConstantsAssumption DEF MayBarge
        <5> QED BY <5>1, <5>2, <1>3 DEF IInv, TypeOK
      <4> QED BY <4>1, <4>2
    <3> QED BY <3>2, <3>3, <3>4 DEF BodyInv
  <2>4. WokenInv'
    <3> SUFFICES ASSUME NEW q \in Proc, fut[q] \in {"woken", "wokenCancelled"}
                 PROVE  /\ owner'[lockOf'[q]] = NoProc
                        /\ waiters[lockOf'[q]] # <<>> /\ Head(waiters[lockOf'[q]]) = q
      BY <1>3 DEF WokenInv
    <3>1. q # p /\ lockOf'[q] = lockOf[q] /\ pc[q] = "waiting" /\ lockOf[q] \in LockId
      BY <1>1, <1>2 DEF IInv, TypeOK, FutInv, SharedInv
    <3>2. Contains(waiters[lockOf[q]], q)
      BY <3>1 DEF IInv, DequeInv
    <3>3. lockOf[q] # l
      BY <3>2, <1>3 DEF MayBarge, Contains
    <3> QED BY <3>1, <3>3, <1>3 DEF IInv, WokenInv, TypeOK
  <2>5. WakeupInv'
    BY <1>3, ConstantsAssumption DEF IInv, TypeOK, WakeupInv
  <2> QED BY <2>1, <2>2, <2>3, <2>4, <2>5 DEF IInv
<1>4. CASE /\ ~MayBarge(l)
           /\ waiters' = [waiters EXCEPT ![l] = Append(@, p)]
           /\ fut' = [fut EXCEPT ![p] = "pending"]
           /\ pc' = [pc EXCEPT ![p] = "waiting"]
           /\ UNCHANGED owner
  <2>0. /\ ws \in Seq(Proc) /\ waiters'[l] = Append(ws, p)
        /\ \A m \in LockId : m # l => waiters'[m] = waiters[m]
    BY <1>4 DEF IInv, TypeOK
  <2>1. TypeOK'
    BY <1>1, <1>4, <2>0 DEF IInv, TypeOK
  <2>2. CountInv' /\ EntryInv' /\ SharedInv' /\ IdleInv'
    BY <1>1, <1>4, EnterKeepsCount
  <2>3. \A q : Contains(Append(ws, p), q) <=> Contains(ws, q) \/ q = p
    BY <2>0 DEF Contains
  <2>4. DequeInv'
    <3>1. Distinct(ws) /\ ~Contains(ws, p)
      BY <1>2 DEF IInv, DequeInv
    <3>2. Distinct(Append(ws, p))
      BY <2>0, <3>1 DEF Distinct, Contains
    <3>3. ASSUME NEW m \in LockId, NEW q \in Proc
          PROVE  Contains(waiters'[m], q) <=> pc'[q] = "waiting" /\ lockOf'[q] = m
      BY <1>1, <1>4, <2>0, <2>3 DEF IInv, TypeOK, DequeInv
    <3> QED BY <2>0, <3>2, <3>3 DEF IInv, DequeInv
  <2>5. FutInv' /\ BodyInv'
    BY <1>1, <1>4 DEF IInv, TypeOK, FutInv, BodyInv
  <2>6. WokenInv'
    <3> SUFFICES ASSUME NEW q \in Proc, fut'[q] \in {"woken", "wokenCancelled"}
                 PROVE  /\ owner'[lockOf'[q]] = NoProc
                        /\ waiters'[lockOf'[q]] # <<>> /\ Head(waiters'[lockOf'[q]]) = q
      BY DEF WokenInv
    <3>1. /\ q # p /\ fut[q] \in {"woken", "wokenCancelled"}
          /\ lockOf'[q] = lockOf[q] /\ lockOf[q] \in LockId
      BY <1>1, <1>4 DEF IInv, TypeOK, FutInv, SharedInv
    <3>2. owner[lockOf[q]] = NoProc /\ waiters[lockOf[q]] # <<>> /\ Head(waiters[lockOf[q]]) = q
      BY <3>1 DEF IInv, WokenInv
    <3>3. CASE lockOf[q] = l
      BY <3>1, <3>2, <3>3, <2>0, <1>4
    <3>4. CASE lockOf[q] # l
      BY <3>1, <3>2, <3>4, <2>0, <1>4
    <3> QED BY <3>3, <3>4
  <2>7. WakeupInv'
    <3> SUFFICES ASSUME NEW m \in LockId, owner[m] = NoProc, waiters'[m] # <<>>
                 PROVE  \E q \in Proc : Contains(waiters'[m], q) /\ fut'[q] # "pending"
      BY <1>4 DEF WakeupInv
    <3>1. waiters[m] # <<>>
      <4>1. CASE m = l
        <5>1. PICK i \in 1..Len(ws) : fut[ws[i]] # "cancelled"
          BY <1>4, <4>1 DEF MayBarge
        <5> QED BY <5>1, <4>1, <2>0
      <4>2. CASE m # l
        BY <4>2, <2>0
      <4> QED BY <4>1, <4>2
    <3>2. PICK q \in Proc : Contains(waiters[m], q) /\ fut[q] # "pending"
      BY <3>1 DEF IInv, WakeupInv
    <3>3. q # p
      BY <3>2, <1>1 DEF IInv, DequeInv
    <3>4. Contains(waiters'[m], q)
      BY <3>2, <2>0, <2>3
    <3> QED BY <3>2, <3>3, <3>4, <1>4 DEF IInv, TypeOK
  <2> QED BY <2>1, <2>2, <2>4, <2>5, <2>6, <2>7 DEF IInv
<1> QED
  BY <1>1, <1>3, <1>4

\* Waking the first waiter of a deque whose lock is free: what Leave and
\* ResumeCancelled have in common.
LEMMA WakeFirstProperties ==
  ASSUME TypeOK, NEW ws \in Seq(Proc)
  PROVE  /\ WakeFirst(ws, fut) \in
              [Proc -> {"none", "pending", "woken", "cancelled", "wokenCancelled"}]
         /\ \A q \in Proc : \/ WakeFirst(ws, fut)[q] = fut[q]
                           \/ /\ ws # <<>> /\ q = Head(ws)
                              /\ fut[q] = "pending" /\ WakeFirst(ws, fut)[q] = "woken"
         /\ ws # <<>> => WakeFirst(ws, fut)[Head(ws)] # "pending" /\ Head(ws) \in Proc
  BY DEF TypeOK, WakeFirst

LEMMA ResumeInv ==
  ASSUME IInv, NEW p \in Proc, Resume(p)
  PROVE  IInv'
<1> DEFINE l == lockOf[p]
           ws == waiters[l]
<1>1. /\ l \in LockId /\ ws \in Seq(Proc) /\ Distinct(ws) /\ Contains(ws, p)
      /\ owner[l] = NoProc /\ Head(ws) = p
  BY DEF Resume, IInv, TypeOK, SharedInv, DequeInv, WokenInv
<1>2. /\ Without(ws, p) \in Seq(Proc) /\ Distinct(Without(ws, p))
      /\ \A q : Contains(Without(ws, p), q) <=> Contains(ws, q) /\ q # p
  BY <1>1, WithoutProperties
<1>3. /\ waiters'[l] = Without(ws, p)
      /\ \A m \in LockId : m # l => waiters'[m] = waiters[m]
  BY <1>1 DEF Resume, IInv, TypeOK
<1>4. TypeOK'
  BY <1>1, <1>2 DEF Resume, IInv, TypeOK
<1>5. IdleInv' /\ SharedInv' /\ FutInv' /\ BodyInv'
  <2>1. IdleInv' /\ SharedInv' /\ FutInv'
    BY <1>1 DEF Resume, IInv, TypeOK, IdleInv, SharedInv, FutInv
  <2>2. ASSUME NEW q \in Proc, pc'[q] = "body", q # p
        PROVE  owner'[lockOf[q]] = q
    <3>1. pc[q] = "body" /\ owner[lockOf[q]] = q /\ lockOf[q] \in LockId
      BY <2>2 DEF Resume, IInv, TypeOK, BodyInv, SharedInv
    <3>2. lockOf[q] # l
      BY <3>1, <1>1, ConstantsAssumption
    <3> QED BY <3>1, <3>2 DEF Resume, IInv, TypeOK
  <2>3. owner'[lockOf[p]] = p /\ lockOf' = lockOf
    BY <1>1 DEF Resume, IInv, TypeOK
  <2> QED BY <2>1, <2>2, <2>3 DEF BodyInv
<1>6. \A k \in Key : Users(k)' = Users(k)
  BY DEF Resume, IInv, TypeOK, Users
<1>7. CountInv' /\ EntryInv'
  BY <1>6 DEF Resume, IInv, CountInv, EntryInv
<1>8. DequeInv'
  <2>1. ASSUME NEW m \in LockId, NEW q \in Proc
        PROVE  Contains(waiters'[m], q) <=> pc'[q] = "waiting" /\ lockOf'[q] = m
    BY <1>1, <1>2, <1>3 DEF Resume, IInv, TypeOK, DequeInv
  <2> QED BY <2>1, <1>2, <1>3 DEF IInv, DequeInv
<1>9. WokenInv'
  <2> SUFFICES ASSUME NEW q \in Proc, fut'[q] \in {"woken", "wokenCancelled"}
               PROVE  /\ owner'[lockOf'[q]] = NoProc
                      /\ waiters'[lockOf'[q]] # <<>> /\ Head(waiters'[lockOf'[q]]) = q
    BY DEF WokenInv
  <2>1. q # p /\ fut[q] \in {"woken", "wokenCancelled"} /\ lockOf'[q] = lockOf[q]
    BY DEF Resume, IInv, TypeOK
  <2>2. /\ owner[lockOf[q]] = NoProc /\ waiters[lockOf[q]] # <<>>
        /\ Head(waiters[lockOf[q]]) = q /\ lockOf[q] \in LockId
    BY <2>1 DEF IInv, WokenInv, FutInv, SharedInv
  <2>3. lockOf[q] # l
    BY <1>1, <2>1, <2>2
  <2> QED BY <2>1, <2>2, <2>3, <1>3 DEF Resume, IInv, TypeOK
<1>10. WakeupInv'
  <2> SUFFICES ASSUME NEW m \in LockId, owner'[m] = NoProc, waiters'[m] # <<>>
               PROVE  \E q \in Proc : Contains(waiters'[m], q) /\ fut'[q] # "pending"
    BY DEF WakeupInv
  <2>1. m # l
    BY <1>1, ConstantsAssumption DEF Resume, IInv, TypeOK
  <2>2. owner[m] = NoProc /\ waiters'[m] = waiters[m]
    BY <2>1, <1>3 DEF Resume, IInv, TypeOK
  <2> QED BY <2>2 DEF Resume, IInv, TypeOK, WakeupInv
<1> QED
  BY <1>4, <1>5, <1>7, <1>8, <1>9, <1>10 DEF IInv

LEMMA LeaveInv ==
  ASSUME IInv, NEW p \in Proc, Leave(p)
  PROVE  IInv'
<1> DEFINE l == lockOf[p]
           ws == waiters[l]
<1>1. l \in LockId /\ ws \in Seq(Proc) /\ owner[l] = p /\ p # NoProc /\ fut[p] = "none"
  BY ConstantsAssumption DEF Leave, IInv, TypeOK, SharedInv, BodyInv, FutInv
<1>2. /\ pc' = [pc EXCEPT ![p] = "idle"] /\ lockOf' = [lockOf EXCEPT ![p] = NoLock]
      /\ key' = key /\ waiters' = waiters /\ owner' = [owner EXCEPT ![l] = NoProc]
      /\ fut' = WakeFirst(ws, fut)
  BY DEF Leave, Forget
<1>3. CountInv' /\ EntryInv' /\ SharedInv' /\ IdleInv'
  BY ForgetKeepsCount DEF Leave, IInv, TypeOK
<1>4. TypeOK'
  <2>1. users[key[p]] - 1 \in Nat
    <3>1. key[p] \in Key /\ p \in Users(key[p])
      BY DEF Leave, IInv, TypeOK, Users
    <3>2. Cardinality(Users(key[p])) # 0
      BY <3>1, UsersFinite, FS_EmptySet
    <3> QED BY <3>1, <3>2, UsersFinite DEF IInv, CountInv
  <2>2. users' \in [Key -> Nat] /\ locks' \in [Key -> LockId \cup {NoLock}]
    BY <2>1 DEF Leave, Forget, IInv, TypeOK
  <2>3. fut' \in [Proc -> {"none", "pending", "woken", "cancelled", "wokenCancelled"}]
    BY <1>1, <1>2, WakeFirstProperties DEF IInv
  <2> QED BY <1>2, <2>2, <2>3 DEF IInv, TypeOK
<1>5. \A q \in Proc : Contains(ws, q) => fut[q] # "none" /\ pc[q] = "waiting" /\ lockOf[q] = l
  BY <1>1 DEF IInv, DequeInv, FutInv
<1>6. \A q \in Proc : \/ fut'[q] = fut[q]
                     \/ /\ ws # <<>> /\ q = Head(ws)
                        /\ fut[q] = "pending" /\ fut'[q] = "woken"
  BY <1>1, <1>2, WakeFirstProperties DEF IInv
<1>7. DequeInv' /\ FutInv' /\ BodyInv'
  <2>1. ASSUME NEW m \in LockId, NEW q \in Proc
        PROVE  Contains(waiters[m], q) <=> pc'[q] = "waiting" /\ lockOf'[q] = m
    BY <1>2 DEF Leave, IInv, TypeOK, DequeInv
  <2>2. DequeInv'
    BY <2>1, <1>2 DEF IInv, DequeInv
  <2>3. FutInv'
    BY <1>1, <1>2, <1>6 DEF IInv, TypeOK, FutInv
  <2>4. ASSUME NEW q \in Proc, pc'[q] = "body" PROVE owner'[lockOf'[q]] = q
    <3>1. q # p /\ pc[q] = "body" /\ lockOf'[q] = lockOf[q] /\ owner[lockOf[q]] = q
      BY <1>2, <2>4 DEF IInv, TypeOK, BodyInv
    <3>2. lockOf[q] # l
      BY <3>1, <1>1
    <3> QED BY <3>1, <3>2, <1>2 DEF IInv, TypeOK
  <2> QED BY <2>2, <2>3, <2>4 DEF BodyInv
<1>8. WokenInv'
  <2> SUFFICES ASSUME NEW q \in Proc, fut'[q] \in {"woken", "wokenCancelled"}
               PROVE  /\ owner'[lockOf'[q]] = NoProc
                      /\ waiters'[lockOf'[q]] # <<>> /\ Head(waiters'[lockOf'[q]]) = q
    BY DEF WokenInv
  <2>1. CASE fut'[q] = fut[q]
    BY <2>1, <1>1, <1>2 DEF IInv, TypeOK, WokenInv
  <2>2. CASE fut'[q] # fut[q]
    <3>1. ws # <<>> /\ q = Head(ws) /\ Contains(ws, q)
      BY <2>2, <1>6, <1>1 DEF Contains
    <3>2. q # p /\ lockOf[q] = l
      BY <3>1, <1>5, <1>1
    <3> QED BY <3>1, <3>2, <1>1, <1>2 DEF IInv, TypeOK
  <2> QED BY <2>1, <2>2
<1>9. WakeupInv'
  <2> SUFFICES ASSUME NEW m \in LockId, owner'[m] = NoProc, waiters[m] # <<>>
               PROVE  \E q \in Proc : Contains(waiters[m], q) /\ fut'[q] # "pending"
    BY <1>2 DEF WakeupInv
  <2>1. CASE m = l
    <3>1. Head(ws) \in Proc /\ Contains(ws, Head(ws)) /\ fut'[Head(ws)] # "pending"
      BY <2>1, <1>1, <1>2, WakeFirstProperties DEF IInv, Contains
    <3> QED BY <3>1, <2>1
  <2>2. CASE m # l
    <3>1. PICK q \in Proc : Contains(waiters[m], q) /\ fut[q] # "pending"
      BY <2>2, <1>2 DEF IInv, TypeOK, WakeupInv
    <3> QED BY <3>1, <1>6
  <2> QED BY <2>1, <2>2
<1> QED
  BY <1>3, <1>4, <1>7, <1>8, <1>9 DEF IInv

LEMMA CancelInv ==
  ASSUME IInv, NEW p \in Proc, Cancel(p)
  PROVE  IInv'
<1>1. UNCHANGED <<locks, users, owner, waiters, pc, key, lockOf>>
  BY DEF Cancel
<1>2. /\ \A q \in Proc : q # p => fut'[q] = fut[q]
      /\ \/ fut[p] = "pending" /\ fut'[p] = "cancelled"
         \/ fut[p] = "woken" /\ fut'[p] = "wokenCancelled"
  BY DEF Cancel, IInv, TypeOK
<1>3. TypeOK'
  BY <1>1 DEF Cancel, IInv, TypeOK
<1>4. CountInv' /\ EntryInv' /\ SharedInv' /\ IdleInv' /\ BodyInv' /\ DequeInv'
  BY <1>1 DEF IInv, CountInv, EntryInv, SharedInv, IdleInv, BodyInv, DequeInv, Users,
              Contains, Distinct
<1>5. FutInv' /\ WokenInv'
  BY <1>1, <1>2 DEF IInv, FutInv, WokenInv
<1>6. WakeupInv'
  <2> SUFFICES ASSUME NEW m \in LockId, owner[m] = NoProc, waiters[m] # <<>>
               PROVE  \E q \in Proc : Contains(waiters[m], q) /\ fut'[q] # "pending"
    BY <1>1 DEF WakeupInv
  <2>1. PICK q \in Proc : Contains(waiters[m], q) /\ fut[q] # "pending"
    BY DEF IInv, WakeupInv
  <2> QED BY <2>1, <1>2
<1> QED
  BY <1>3, <1>4, <1>5, <1>6 DEF IInv

LEMMA ResumeCancelledInv ==
  ASSUME IInv, NEW p \in Proc, ResumeCancelled(p)
  PROVE  IInv'
<1> DEFINE l == lockOf[p]
           ws == waiters[l]
           rest == Without(ws, p)
           woke == IF owner[l] = NoProc THEN WakeFirst(rest, fut) ELSE fut
<1>1. /\ l \in LockId /\ ws \in Seq(Proc) /\ Distinct(ws) /\ Contains(ws, p)
      /\ fut[p] \in {"cancelled", "wokenCancelled"} /\ pc[p] = "waiting"
  BY DEF ResumeCancelled, IInv, TypeOK, SharedInv, DequeInv
<1>2. /\ rest \in Seq(Proc) /\ Distinct(rest)
      /\ \A q : Contains(rest, q) <=> Contains(ws, q) /\ q # p
      /\ Head(ws) # p => rest # <<>> /\ Head(rest) = Head(ws)
  BY <1>1, WithoutProperties
<1>3. /\ waiters'[l] = rest
      /\ \A m \in LockId : m # l => waiters'[m] = waiters[m]
      /\ pc' = [pc EXCEPT ![p] = "idle"] /\ lockOf' = [lockOf EXCEPT ![p] = NoLock]
      /\ key' = key /\ owner' = owner /\ fut' = [woke EXCEPT ![p] = "none"]
  BY <1>1 DEF ResumeCancelled, Forget, IInv, TypeOK
<1> HIDE DEF rest
<1>4. /\ woke \in [Proc -> {"none", "pending", "woken", "cancelled", "wokenCancelled"}]
      /\ \A q \in Proc : \/ woke[q] = fut[q]
                        \/ /\ owner[l] = NoProc /\ rest # <<>> /\ q = Head(rest)
                           /\ fut[q] = "pending" /\ woke[q] = "woken"
      /\ owner[l] = NoProc /\ rest # <<>> =>
           woke[Head(rest)] # "pending" /\ Head(rest) \in Proc
  <2>1. CASE owner[l] = NoProc
    BY <2>1, <1>2, WakeFirstProperties DEF IInv
  <2>2. CASE owner[l] # NoProc
    BY <2>2 DEF IInv, TypeOK
  <2> QED BY <2>1, <2>2
<1>5. CountInv' /\ EntryInv' /\ SharedInv' /\ IdleInv'
  BY ForgetKeepsCount DEF ResumeCancelled, IInv, TypeOK
<1> HIDE DEF woke
<1>6. TypeOK'
  <2>1. users[key[p]] - 1 \in Nat
    <3>1. key[p] \in Key /\ p \in Users(key[p])
      BY <1>1 DEF IInv, TypeOK, Users
    <3>2. Cardinality(Users(key[p])) # 0
      BY <3>1, UsersFinite, FS_EmptySet
    <3> QED BY <3>1, <3>2, UsersFinite DEF IInv, CountInv
  <2>2. users' \in [Key -> Nat] /\ locks' \in [Key -> LockId \cup {NoLock}]
    BY <2>1 DEF ResumeCancelled, Forget, IInv, TypeOK
  <2>3. waiters' \in [LockId -> Seq(Proc)]
    BY <1>1, <1>2 DEF ResumeCancelled, rest, IInv, TypeOK
  <2> QED BY <1>3, <1>4, <2>2, <2>3 DEF IInv, TypeOK
<1>7. \A q \in Proc : q # p =>
        \/ fut'[q] = fut[q]
        \/ /\ owner[l] = NoProc /\ rest # <<>> /\ q = Head(rest)
           /\ fut[q] = "pending" /\ fut'[q] = "woken"
  BY <1>3, <1>4
<1>8. fut'[p] = "none" /\ \A q \in Proc : q # p => pc'[q] = pc[q] /\ lockOf'[q] = lockOf[q]
  BY <1>3, <1>4 DEF IInv, TypeOK
<1>9. DequeInv' /\ FutInv' /\ BodyInv'
  <2>1. ASSUME NEW m \in LockId, NEW q \in Proc
        PROVE  Contains(waiters'[m], q) <=> pc'[q] = "waiting" /\ lockOf'[q] = m
    BY <1>1, <1>2, <1>3 DEF IInv, TypeOK, DequeInv
  <2>2. DequeInv'
    BY <2>1, <1>2, <1>3 DEF IInv, DequeInv
  <2>3. FutInv'
    BY <1>3, <1>7, <1>8 DEF IInv, TypeOK, FutInv
  <2>4. BodyInv'
    BY <1>3 DEF IInv, TypeOK, BodyInv
  <2> QED BY <2>2, <2>3, <2>4
<1>10. WokenInv'
  <2> SUFFICES ASSUME NEW q \in Proc, fut'[q] \in {"woken", "wokenCancelled"}
               PROVE  /\ owner[lockOf'[q]] = NoProc
                      /\ waiters'[lockOf'[q]] # <<>> /\ Head(waiters'[lockOf'[q]]) = q
    BY <1>3 DEF WokenInv
  <2>1. q # p /\ lockOf'[q] = lockOf[q]
    BY <1>8
  <2>2. CASE fut'[q] = fut[q]
    <3>1. /\ owner[lockOf[q]] = NoProc /\ waiters[lockOf[q]] # <<>>
          /\ Head(waiters[lockOf[q]]) = q /\ lockOf[q] \in LockId
      BY <2>2 DEF IInv, WokenInv, FutInv, SharedInv
    <3>2. CASE lockOf[q] = l
      BY <3>1, <3>2, <2>1, <1>2, <1>3
    <3>3. CASE lockOf[q] # l
      BY <3>1, <3>3, <2>1, <1>3
    <3> QED BY <3>2, <3>3
  <2>3. CASE fut'[q] # fut[q]
    <3>1. owner[l] = NoProc /\ rest # <<>> /\ q = Head(rest)
      BY <2>1, <2>3, <1>7
    <3>2. Contains(rest, q)
      BY <3>1, <1>2 DEF Contains
    <3>3. lockOf[q] = l
      BY <3>2, <1>1, <1>2 DEF IInv, DequeInv
    <3> QED BY <3>1, <3>3, <2>1, <1>3
  <2> QED BY <2>2, <2>3
<1>11. WakeupInv'
  <2> SUFFICES ASSUME NEW m \in LockId, owner[m] = NoProc, waiters'[m] # <<>>
               PROVE  \E q \in Proc : Contains(waiters'[m], q) /\ fut'[q] # "pending"
    BY <1>3 DEF WakeupInv
  <2>1. CASE m = l
    <3> DEFINE h == Head(rest)
    <3>1. h \in Proc /\ woke[h] # "pending" /\ Contains(rest, h)
      BY <2>1, <1>2, <1>3, <1>4 DEF Contains
    <3>2. fut'[h] # "pending"
      BY <3>1, <1>3, <1>4
    <3> QED BY <3>1, <3>2, <2>1, <1>3
  <2>2. CASE m # l
    <3>1. PICK q \in Proc : Contains(waiters[m], q) /\ fut[q] # "pending"
      BY <2>2, <1>3 DEF IInv, WakeupInv
    <3>2. fut'[q] # "pending"
      BY <3>1, <1>7, <1>8
    <3> QED BY <3>1, <3>2, <2>2, <1>3
  <2> QED BY <2>1, <2>2
<1> QED
  BY <1>5, <1>6, <1>9, <1>10, <1>11 DEF IInv

-----------------------------------------------------------------------------
(* Theorems *)

\* Every reachable state satisfies the invariant: type correctness among it.
THEOREM Invariance == Spec => []IInv
<1>1. IInv /\ [Next]_vars => IInv'
  <2> SUFFICES ASSUME IInv, [Next]_vars PROVE IInv'
    OBVIOUS
  <2>1. CASE Next
    BY <2>1, EnterInv, ResumeInv, LeaveInv, CancelInv, ResumeCancelledInv DEF Next
  <2>2. CASE UNCHANGED vars
    BY <2>2 DEF vars, IInv, TypeOK, IdleInv, CountInv, SharedInv, EntryInv, DequeInv,
                FutInv, BodyInv, WokenInv, WakeupInv, Users, Contains, Distinct
  <2> QED BY <2>1, <2>2
<1> QED
  BY InitInv, <1>1, PTL DEF Spec

\* The counters never go below zero, and the locks, deques and futures keep their types.
THEOREM TypeCorrect == Spec => []TypeOK
  BY Invariance, PTL DEF IInv

\* However often the lock of a key is dropped and made anew, no two coroutines
\* are in the body of single_flight for that key.
THEOREM Exclusion == Spec => []MutualExclusion
<1>1. IInv => MutualExclusion
  <2> SUFFICES ASSUME IInv, NEW p \in Proc, NEW q \in Proc,
                      pc[p] = "body", pc[q] = "body", key[p] = key[q]
               PROVE  p = q
    BY DEF MutualExclusion
  <2>1. lockOf[p] = lockOf[q]
    BY DEF IInv, SharedInv
  <2> QED BY <2>1 DEF IInv, BodyInv
<1> QED
  BY Invariance, <1>1, PTL

\* The counter and the dictionary are exact: one lock per key in use, none left
\* behind by a key nobody uses.
THEOREM Sharing == Spec => []LockIsShared
<1>1. IInv => LockIsShared
  <2> SUFFICES ASSUME IInv PROVE LockIsShared
    OBVIOUS
  <2>1. \A k \in Key : \A p \in Users(k) : lockOf[p] = locks[k] /\ locks[k] # NoLock
    BY ConstantsAssumption DEF IInv, SharedInv, Users
  <2> QED BY <2>1 DEF IInv, CountInv, EntryInv, LockIsShared
<1> QED
  BY Invariance, <1>1, PTL

\* No interleaving of releases and cancellations leaves a free lock with all its
\* waiters asleep.
THEOREM Wakeups == Spec => []NoLostWakeup
<1>1. IInv => NoLostWakeup
  <2> SUFFICES ASSUME IInv, NEW p \in Proc, pc[p] = "waiting", owner[lockOf[p]] = NoProc
               PROVE  \E i \in 1..Len(waiters[lockOf[p]]) : fut[waiters[lockOf[p]][i]] # "pending"
    BY DEF NoLostWakeup
  <2>1. lockOf[p] \in LockId /\ Contains(waiters[lockOf[p]], p)
    BY DEF IInv, SharedInv, DequeInv
  <2>2. waiters[lockOf[p]] # <<>>
    BY <2>1 DEF IInv, TypeOK, Contains
  <2> QED BY <2>1, <2>2 DEF IInv, WakeupInv, Contains
<1> QED
  BY Invariance, <1>1, PTL

-----------------------------------------------------------------------------
(* The dictionaries, counters and futures implement one line per key: each step is a   *)
(* step of the line, or none of its callers sees it.                                   *)

\* Who is parked before whom, in a deque that loses one or gains one.
LEMMA BeforeWithout ==
  ASSUME NEW S, NEW s \in Seq(S), Distinct(s), NEW p, Contains(s, p), NEW q, NEW r, q # p, r # p
  PROVE  Before(Without(s, p), q, r) <=> Before(s, q, r)
<1> DEFINE i == CHOOSE i \in 1..Len(s) : s[i] = p
           w == Without(s, p)
<1>1. i \in 1..Len(s) /\ s[i] = p
  BY DEF Contains
<1>2. /\ w \in Seq(S) /\ Len(w) = Len(s) - 1
      /\ \A j \in 1..(Len(s) - 1) : w[j] = IF j < i THEN s[j] ELSE s[j + 1]
  BY <1>1, RemoveAtProperties DEF Without
<1> HIDE DEF i, w
<1>3. Len(s) \in Nat /\ Len(w) \in Nat
  BY <1>2
<1>4. ASSUME Before(w, q, r) PROVE Before(s, q, r)
  <2>1. PICK a, b \in 1..Len(w) : a < b /\ w[a] = q /\ w[b] = r
    BY <1>4 DEF Before
  <2>2. PICK c \in 1..Len(s) : s[c] = q /\ c = (IF a < i THEN a ELSE a + 1)
    BY <1>2, <2>1
  <2>3. PICK e \in 1..Len(s) : s[e] = r /\ e = (IF b < i THEN b ELSE b + 1)
    BY <1>2, <2>1
  <2>4. c < e
    BY <1>1, <2>1, <2>2, <2>3
  <2> QED BY <2>2, <2>3, <2>4 DEF Before
<1>5. ASSUME Before(s, q, r) PROVE Before(w, q, r)
  <2>1. PICK a, b \in 1..Len(s) : a < b /\ s[a] = q /\ s[b] = r
    BY <1>5 DEF Before
  <2>2. a # i /\ b # i
    BY <1>1, <2>1
  <2>3. ASSUME NEW x \in 1..Len(s), x # i, NEW y, y = (IF x < i THEN x ELSE x - 1)
        PROVE  y \in 1..Len(w) /\ w[y] = s[x]
    <3>1. y \in 1..(Len(s) - 1)
      BY <1>1, <1>3, <2>3
    <3>2. IF y < i THEN y = x ELSE y + 1 = x
      BY <1>1, <1>3, <2>3
    <3> QED BY <1>2, <3>1, <3>2
  <2>4. PICK c, e \in 1..Len(w) : /\ w[c] = q /\ c = (IF a < i THEN a ELSE a - 1)
                                 /\ w[e] = r /\ e = (IF b < i THEN b ELSE b - 1)
    BY <2>1, <2>2, <2>3
  <2>5. c < e
    BY <1>1, <2>1, <2>2, <2>4
  <2> QED BY <2>4, <2>5 DEF Before
<1> QED BY <1>4, <1>5 DEF w

LEMMA BeforeAppend ==
  ASSUME NEW S, NEW s \in Seq(S), NEW p \in S, ~Contains(s, p), NEW q
  PROVE  /\ Before(Append(s, p), q, p) <=> Contains(s, q)
         /\ \A r : r # p => (Before(Append(s, p), q, r) <=> Before(s, q, r))
<1> DEFINE t == Append(s, p)
<1>1. /\ Len(t) = Len(s) + 1 /\ Len(s) \in Nat
      /\ \A i \in 1..Len(s) : t[i] = s[i]
      /\ t[Len(s) + 1] = p
  OBVIOUS
<1> HIDE DEF t
<1>2. ASSUME Contains(s, q) PROVE Before(t, q, p)
  <2>1. PICK i \in 1..Len(s) : s[i] = q
    BY <1>2 DEF Contains
  <2>2. i \in 1..Len(t) /\ Len(s) + 1 \in 1..Len(t) /\ i < Len(s) + 1
    BY <1>1
  <2> QED BY <1>1, <2>1, <2>2 DEF Before
<1>3. ASSUME Before(t, q, p) PROVE Contains(s, q)
  <2>1. PICK i, j \in 1..Len(t) : i < j /\ t[i] = q /\ t[j] = p
    BY <1>3 DEF Before
  <2>2. i \in 1..Len(s)
    BY <1>1, <2>1
  <2> QED BY <1>1, <2>1, <2>2 DEF Contains
<1>4. ASSUME NEW r, r # p PROVE Before(t, q, r) <=> Before(s, q, r)
  <2>1. ASSUME Before(t, q, r) PROVE Before(s, q, r)
    <3>1. PICK i, j \in 1..Len(t) : i < j /\ t[i] = q /\ t[j] = r
      BY <2>1 DEF Before
    <3>2. i \in 1..Len(s) /\ j \in 1..Len(s)
      BY <1>1, <1>4, <3>1
    <3> QED BY <1>1, <3>1, <3>2 DEF Before
  <2>2. ASSUME Before(s, q, r) PROVE Before(t, q, r)
    <3>1. PICK i, j \in 1..Len(s) : i < j /\ s[i] = q /\ s[j] = r
      BY <2>2 DEF Before
    <3>2. i \in 1..Len(t) /\ j \in 1..Len(t)
      BY <1>1
    <3> QED BY <1>1, <3>1, <3>2 DEF Before
  <2> QED BY <2>1, <2>2
<1> QED BY <1>2, <1>3, <1>4 DEF t

LEMMA BeforeHead ==
  ASSUME NEW S, NEW s \in Seq(S), Distinct(s), NEW p, s # <<>>, Head(s) = p
  PROVE  /\ \A q : ~Before(s, q, p)
         /\ \A r : Contains(s, r) /\ r # p => Before(s, p, r)
<1>1. Len(s) \in Nat /\ 1 \in 1..Len(s) /\ s[1] = p
  OBVIOUS
<1>2. ASSUME NEW q, Before(s, q, p) PROVE FALSE
  <2>1. PICK i, j \in 1..Len(s) : i < j /\ s[j] = p
    BY <1>2 DEF Before
  <2>2. j = 1
    BY <1>1, <2>1 DEF Distinct
  <2> QED BY <2>1, <2>2
<1>3. ASSUME NEW r, Contains(s, r), r # p PROVE Before(s, p, r)
  <2>1. PICK j \in 1..Len(s) : s[j] = r
    BY <1>3 DEF Contains
  <2>2. 1 < j
    BY <1>1, <1>3, <2>1
  <2> QED BY <1>1, <2>1, <2>2 DEF Before
<1> QED BY <1>2, <1>3

LEMMA BeforeContained ==
  ASSUME NEW s, NEW q, NEW p, Before(s, q, p)
  PROVE  Contains(s, q) /\ Contains(s, p)
BY DEF Before, Contains

\* What the invariant says of those who stand in line.
LEMMA StandingFacts ==
  ASSUME IInv, NEW p \in Proc
  PROVE  /\ Standing(p) <=> pc[p] = "body" \/ (pc[p] = "waiting" /\ fut[p] \in {"pending", "woken"})
         /\ Standing(p) => lockOf[p] \in LockId /\ lockOf[p] = locks[key[p]]
         /\ pc[p] = "waiting" => Contains(waiters[lockOf[p]], p)
         /\ pc[p] = "body" => owner[lockOf[p]] = p /\ p # NoProc
         /\ \A l \in LockId : Contains(waiters[l], p) => pc[p] = "waiting" /\ lockOf[p] = l
BY ConstantsAssumption DEF IInv, Standing, FutInv, SharedInv, DequeInv, BodyInv, TypeOK

\* The callers of a key who are inside or parked share a lock, so one alone is inside, and
\* whoever is parked then is behind it.
LEMMA LineFacts ==
  ASSUME IInv, NEW p \in Proc, NEW q \in Proc, Standing(p), Standing(q), key[p] = key[q]
  PROVE  /\ lockOf[p] = lockOf[q]
         /\ pc[p] = "body" /\ pc[q] = "body" => p = q
         /\ pc[p] = "body" => ~InFront(q, p)
BY StandingFacts, BeforeContained DEF InFront

\* A step that changes nobody's standing, body or order is no step of the line.
LEMMA LineStays ==
  ASSUME \A p \in Proc : Standing(p)' <=> Standing(p),
         \A p \in Proc : Standing(p) => key'[p] = key[p],
         \A p \in Proc : pc'[p] = "body" <=> pc[p] = "body",
         \A p, q \in Proc : Standing(p) /\ Standing(q) => (InFront(q, p)' <=> InFront(q, p))
  PROVE  LineMap' = LineMap /\ AheadMap' = AheadMap /\ InsideMap' = InsideMap
<1>1. LineMap' = LineMap
  BY DEF LineMap
<1>2. AheadMap' = AheadMap
  <2>1. \A p, q \in Proc : InFront(q, p) => Standing(q)
    BY DEF InFront
  <2>2. \A p, q \in Proc : InFront(q, p)' => Standing(q)'
    BY DEF InFront
  <2> QED BY <2>1, <2>2 DEF AheadMap
<1>3. InsideMap' = InsideMap
  BY DEF InsideMap
<1> QED BY <1>1, <1>2, <1>3

\* A caller that steps out of its line leaves those behind it in their order.
LEMMA LineLosesOne ==
  ASSUME NEW p \in Proc, NEW k \in Key, Standing(p), key[p] = k, ~Standing(p)',
         \A q \in Proc : q # p => (Standing(q)' <=> Standing(q)),
         \A q \in Proc : Standing(q)' => key'[q] = key[q],
         \A q, r \in Proc : Standing(q)' /\ Standing(r)' => (InFront(q, r)' <=> InFront(q, r))
  PROVE  Line!StepOut(p, k)
<1>1. p \in LineMap[k]
  BY DEF LineMap
<1>2. LineMap' = [LineMap EXCEPT ![k] = @ \ {p}]
  <2>1. ASSUME NEW j \in Key PROVE LineMap'[j] = IF j = k THEN LineMap[j] \ {p} ELSE LineMap[j]
    BY DEF LineMap
  <2>2. LineMap = [j \in Key |-> LineMap[j]] /\ LineMap' = [j \in Key |-> LineMap'[j]]
    BY DEF LineMap
  <2> QED BY <2>1, <2>2
<1>3. AheadMap' = [q \in Proc |-> IF q = p THEN {} ELSE AheadMap[q] \ {p}]
  <2>1. \A r, q \in Proc : InFront(q, r) => Standing(q)
    BY DEF InFront
  <2>2. \A r, q \in Proc : InFront(q, r)' => Standing(q)'
    BY DEF InFront
  <2>3. ASSUME NEW r \in Proc PROVE AheadMap'[r] = IF r = p THEN {} ELSE AheadMap[r] \ {p}
    <3>1. AheadMap[r] = {q \in Proc : Standing(r) /\ InFront(q, r)}
      BY DEF AheadMap
    <3>2. AheadMap'[r] = {q \in Proc : Standing(r)' /\ InFront(q, r)'}
      BY DEF AheadMap
    <3> QED BY <2>1, <2>2, <3>1, <3>2
  <2>4. AheadMap' = [q \in Proc |-> AheadMap'[q]]
    BY DEF AheadMap
  <2> QED BY <2>3, <2>4
<1> QED BY <1>1, <1>2, <1>3 DEF Line!StepOut

LEMMA CancelLine ==
  ASSUME IInv, NEW p \in Proc, Cancel(p)
  PROVE  Line!GiveUp(p, key[p])
<1>1. /\ UNCHANGED <<waiters, pc, key, lockOf>> /\ pc[p] = "waiting" /\ key[p] \in Key
      /\ fut[p] \in {"pending", "woken"} /\ fut'[p] \notin {"pending", "woken"}
      /\ \A q \in Proc : q # p => fut'[q] = fut[q]
  BY DEF Cancel, IInv, TypeOK
<1>2. Standing(p) /\ ~Standing(p)' /\ \A q \in Proc : q # p => (Standing(q)' <=> Standing(q))
  BY <1>1 DEF Standing
<1>3. \A q, r \in Proc : Standing(q)' /\ Standing(r)' => (InFront(q, r)' <=> InFront(q, r))
  BY <1>1, <1>2 DEF InFront, Before
<1>4. Line!StepOut(p, key[p])
  BY <1>1, <1>2, <1>3, LineLosesOne
<1>5. p \notin InsideMap /\ InsideMap' = InsideMap
  BY <1>1 DEF InsideMap
<1> QED BY <1>4, <1>5 DEF Line!GiveUp

LEMMA LeaveLine ==
  ASSUME IInv, NEW p \in Proc, Leave(p)
  PROVE  Line!Exit(p, key[p])
<1> DEFINE ws == waiters[lockOf[p]]
<1>1. /\ pc[p] = "body" /\ pc' = [pc EXCEPT ![p] = "idle"] /\ key' = key /\ key[p] \in Key
      /\ waiters' = waiters /\ lockOf' = [lockOf EXCEPT ![p] = NoLock]
      /\ fut' = WakeFirst(ws, fut) /\ lockOf[p] \in LockId /\ ws \in Seq(Proc)
  BY StandingFacts DEF Leave, Forget, IInv, TypeOK, Standing
<1>2. \A q \in Proc : \/ fut'[q] = fut[q]
                     \/ /\ ws # <<>> /\ q = Head(ws)
                        /\ fut[q] = "pending" /\ fut'[q] = "woken"
  BY <1>1, WakeFirstProperties DEF IInv
<1>3. \A q \in Proc : q # p => pc'[q] = pc[q] /\ lockOf'[q] = lockOf[q]
  BY <1>1 DEF IInv, TypeOK
<1>4. fut[p] = "none" /\ fut'[p] = "none" /\ pc'[p] = "idle"
  BY <1>1, <1>2 DEF IInv, TypeOK, FutInv
<1>5. Standing(p) /\ ~Standing(p)' /\ \A q \in Proc : q # p => (Standing(q)' <=> Standing(q))
  BY <1>1, <1>2, <1>3, <1>4 DEF Standing
<1>6. ASSUME NEW q \in Proc, NEW r \in Proc, Standing(q)', Standing(r)'
      PROVE  InFront(q, r)' <=> InFront(q, r)
  <2>1. q # p /\ r # p /\ Standing(q)
    BY <1>5, <1>6
  <2>2. waiters'[lockOf'[r]] = waiters[lockOf[r]]
    BY <1>1, <1>3, <2>1
  <2> QED BY <1>1, <1>3, <1>6, <2>1, <2>2 DEF InFront, Before
<1>7. Line!StepOut(p, key[p])
  BY <1>1, <1>5, <1>6, LineLosesOne
<1>8. p \in InsideMap /\ InsideMap' = InsideMap \ {p}
  BY <1>1, <1>3, <1>4 DEF InsideMap
<1> QED BY <1>7, <1>8 DEF Line!Exit

\* The coroutine cancelled earlier leaves the deque, as it left the line when cancelled.
LEMMA ResumeCancelledLine ==
  ASSUME IInv, NEW p \in Proc, ResumeCancelled(p)
  PROVE  LineMap' = LineMap /\ AheadMap' = AheadMap /\ InsideMap' = InsideMap
<1> DEFINE l == lockOf[p]
           ws == waiters[l]
           rest == Without(ws, p)
           woke == IF owner[l] = NoProc THEN WakeFirst(rest, fut) ELSE fut
<1>1. /\ l \in LockId /\ ws \in Seq(Proc) /\ Distinct(ws) /\ Contains(ws, p)
      /\ fut[p] \in {"cancelled", "wokenCancelled"} /\ pc[p] = "waiting"
  BY DEF ResumeCancelled, IInv, TypeOK, SharedInv, DequeInv
<1>2. /\ rest \in Seq(Proc) /\ \A q : Contains(rest, q) => Contains(ws, q) /\ q # p
      /\ \A q, r : q # p /\ r # p => (Before(rest, q, r) <=> Before(ws, q, r))
  BY <1>1, WithoutProperties, BeforeWithout
<1>3. /\ waiters'[l] = rest
      /\ \A m \in LockId : m # l => waiters'[m] = waiters[m]
      /\ pc' = [pc EXCEPT ![p] = "idle"] /\ lockOf' = [lockOf EXCEPT ![p] = NoLock]
      /\ key' = key /\ fut' = [woke EXCEPT ![p] = "none"]
  BY <1>1 DEF ResumeCancelled, Forget, IInv, TypeOK
<1> HIDE DEF rest
<1>4. /\ woke \in [Proc -> {"none", "pending", "woken", "cancelled", "wokenCancelled"}]
      /\ \A q \in Proc : woke[q] = fut[q] \/ (fut[q] = "pending" /\ woke[q] = "woken")
  <2>1. CASE owner[l] = NoProc
    BY <2>1, <1>2, WakeFirstProperties DEF IInv
  <2>2. CASE owner[l] # NoProc
    BY <2>2 DEF IInv, TypeOK
  <2> QED BY <2>1, <2>2
<1> HIDE DEF woke
<1>5. /\ fut'[p] = "none" /\ pc'[p] = "idle"
      /\ \A q \in Proc : q # p => /\ pc'[q] = pc[q] /\ lockOf'[q] = lockOf[q]
                                  /\ fut'[q] = fut[q] \/ (fut[q] = "pending" /\ fut'[q] = "woken")
  BY <1>3, <1>4 DEF IInv, TypeOK
<1>6. ~Standing(p) /\ ~Standing(p)' /\ \A q \in Proc : q # p => (Standing(q)' <=> Standing(q))
  BY <1>1, <1>5 DEF Standing
<1>7. ASSUME NEW q \in Proc, NEW r \in Proc, Standing(q), Standing(r)
      PROVE  InFront(q, r)' <=> InFront(q, r)
  <2>1. q # p /\ r # p /\ Standing(q)' /\ lockOf'[r] = lockOf[r] /\ lockOf[r] \in LockId
    BY <1>5, <1>6, <1>7, StandingFacts
  <2>2. CASE lockOf[r] = l
    <3>1. waiters'[lockOf'[r]] = rest /\ waiters[lockOf[r]] = ws
      BY <1>3, <2>1, <2>2
    <3>2. Before(waiters'[lockOf'[r]], q, r) <=> Before(waiters[lockOf[r]], q, r)
      BY <1>2, <2>1, <3>1
    <3>3. InFront(q, r)' <=> /\ Standing(q)' /\ key'[q] = key'[r] /\ q # r
                             /\ pc'[q] = "body" \/ Before(waiters'[lockOf'[r]], q, r)
      BY DEF InFront, Before
    <3> QED BY <1>3, <1>5, <1>7, <2>1, <3>2, <3>3 DEF InFront
  <2>3. CASE lockOf[r] # l
    <3>1. waiters'[lockOf'[r]] = waiters[lockOf[r]]
      BY <1>3, <2>1, <2>3
    <3> QED BY <1>3, <1>5, <1>7, <2>1, <3>1 DEF InFront, Before
  <2> QED BY <2>2, <2>3
<1>8. \A q \in Proc : pc'[q] = "body" <=> pc[q] = "body"
  BY <1>1, <1>5
<1> QED BY <1>3, <1>6, <1>7, <1>8, LineStays

\* The woken coroutine is the first of its line, and goes in.
LEMMA ResumeLine ==
  ASSUME IInv, NEW p \in Proc, Resume(p)
  PROVE  Line!Admit(p, key[p])
<1> DEFINE l == lockOf[p]
           ws == waiters[l]
           rest == Without(ws, p)
<1>1. /\ l \in LockId /\ ws \in Seq(Proc) /\ Distinct(ws) /\ Contains(ws, p)
      /\ owner[l] = NoProc /\ ws # <<>> /\ Head(ws) = p
      /\ fut[p] = "woken" /\ pc[p] = "waiting" /\ key[p] \in Key
  BY DEF Resume, IInv, TypeOK, SharedInv, DequeInv, WokenInv
<1>2. /\ \A q : Contains(rest, q) => q # p
      /\ \A q, r : q # p /\ r # p => (Before(rest, q, r) <=> Before(ws, q, r))
  BY <1>1, WithoutProperties, BeforeWithout
<1>3. /\ waiters'[l] = rest
      /\ \A m \in LockId : m # l => waiters'[m] = waiters[m]
      /\ UNCHANGED <<key, lockOf>> /\ pc'[p] = "body"
      /\ \A q \in Proc : q # p => pc'[q] = pc[q] /\ fut'[q] = fut[q]
  BY <1>1 DEF Resume, IInv, TypeOK
<1> HIDE DEF rest
<1>4. Standing(p) /\ Standing(p)' /\ \A q \in Proc : Standing(q)' <=> Standing(q)
  BY <1>1, <1>3 DEF Standing
<1>5. \A q \in Proc : ~InFront(q, p)
  <2> SUFFICES ASSUME NEW q \in Proc, Standing(q), key[q] = key[p], q # p
               PROVE  pc[q] # "body" /\ ~Before(ws, q, p)
    BY DEF InFront
  <2>1. lockOf[q] = l
    BY <1>4, LineFacts
  <2> QED BY <1>1, <2>1, StandingFacts, BeforeHead
<1>6. ASSUME NEW q \in Proc, NEW r \in Proc, Standing(q), Standing(r)
      PROVE  InFront(q, r)' <=> InFront(q, r)
  <2>0. InFront(q, r)' <=> /\ Standing(q)' /\ key'[q] = key'[r] /\ q # r
                           /\ pc'[q] = "body" \/ Before(waiters'[lockOf'[r]], q, r)
    BY DEF InFront, Before
  <2>1. CASE r = p
    <3>1. ~Before(rest, q, p)
      BY <1>2, BeforeContained
    <3>2. pc[q] = "body" /\ key[q] = key[p] => q = p
      BY <1>5, <1>6 DEF InFront
    <3> QED BY <1>3, <1>5, <2>0, <2>1, <3>1, <3>2
  <2>2. CASE r # p /\ q = p
    <3>1. key[p] = key[r] => InFront(p, r)
      <4> SUFFICES ASSUME key[p] = key[r] PROVE InFront(p, r)
        OBVIOUS
      <4>1. lockOf[r] = l /\ pc[r] # "body"
        BY <1>4, <1>5, <1>6, <2>2, LineFacts DEF InFront
      <4>2. Contains(ws, r)
        BY <4>1, <1>6, StandingFacts
      <4>3. Before(ws, p, r)
        BY <1>1, <2>2, <4>2, BeforeHead
      <4> QED BY <1>4, <2>2, <4>1, <4>3 DEF InFront
    <3> QED BY <1>3, <1>4, <2>0, <2>2, <3>1 DEF InFront
  <2>3. CASE r # p /\ q # p
    <3>1. lockOf[r] \in LockId
      BY <1>6, StandingFacts
    <3>2. Before(waiters'[lockOf[r]], q, r) <=> Before(waiters[lockOf[r]], q, r)
      BY <1>2, <1>3, <2>3, <3>1
    <3> QED BY <1>3, <1>4, <2>0, <2>3, <3>2 DEF InFront
  <2> QED BY <2>1, <2>2, <2>3
<1>7. LineMap' = LineMap
  BY <1>3, <1>4 DEF LineMap
<1>8. AheadMap' = AheadMap
  <2>1. \A q, r \in Proc : InFront(q, r) => Standing(q)
    BY DEF InFront
  <2>2. \A q, r \in Proc : InFront(q, r)' => Standing(q)'
    BY DEF InFront
  <2> QED BY <1>4, <1>6, <2>1, <2>2 DEF AheadMap
<1>9. /\ p \in LineMap[key[p]] /\ AheadMap[p] = {} /\ p \notin InsideMap
      /\ InsideMap' = InsideMap \cup {p}
  BY <1>1, <1>3, <1>4, <1>5 DEF LineMap, AheadMap, InsideMap
<1> QED BY <1>7, <1>8, <1>9 DEF Line!Admit

\* A caller joins behind all that stand in its line, or walks into an empty one.
LEMMA EnterLine ==
  ASSUME IInv, NEW p \in Proc, NEW k \in Key, Enter(p, k)
  PROVE  Line!Join(p, k)
<1>1. PICK l \in LockId : Enter(p, k)!(l)
  BY DEF Enter
<1> DEFINE ws == waiters[l]
<1>2. /\ pc[p] = "idle" /\ fut[p] = "none" /\ ws \in Seq(Proc) /\ ~Contains(ws, p)
      /\ key'[p] = k /\ lockOf'[p] = l
      /\ \A q \in Proc : q # p => key'[q] = key[q] /\ lockOf'[q] = lockOf[q]
  BY <1>1 DEF IInv, TypeOK, FutInv, DequeInv
<1>3. ~Standing(p) /\ \A m \in LockId : ~Contains(waiters[m], p)
  BY <1>2, StandingFacts DEF Standing
<1>4. ASSUME NEW q \in Proc, Standing(q), key[q] = k
      PROVE  lockOf[q] = l /\ (pc[q] = "body" \/ Contains(ws, q))
  <2>1. lockOf[q] \in LockId /\ lockOf[q] = locks[k]
    BY <1>4, StandingFacts
  <2>2. locks[k] = l
    BY <1>1, <2>1, ConstantsAssumption DEF SetDefault
  <2> QED BY <1>4, <2>1, <2>2, StandingFacts
<1>5. ASSUME NEW q \in Proc, q # p
      PROVE  pc'[q] = pc[q] /\ fut'[q] = fut[q] /\ (Standing(q)' <=> Standing(q))
  BY <1>1, <1>5 DEF IInv, TypeOK, Standing
<1>6. /\ Standing(p)'
      /\ MayBarge(l) => pc'[p] = "body" /\ UNCHANGED waiters
      /\ ~MayBarge(l) => /\ pc'[p] = "waiting" /\ waiters'[l] = Append(ws, p)
                         /\ \A m \in LockId : m # l => waiters'[m] = waiters[m]
  BY <1>1 DEF IInv, TypeOK, Standing
<1>7. ~Line!InLine(p)
  BY <1>3 DEF Line!InLine, LineMap
<1>8. LineMap' = [LineMap EXCEPT ![k] = @ \cup {p}]
  <2>1. ASSUME NEW j \in Key PROVE LineMap'[j] = IF j = k THEN LineMap[j] \cup {p} ELSE LineMap[j]
    BY <1>2, <1>3, <1>5, <1>6 DEF LineMap
  <2>2. LineMap = [j \in Key |-> LineMap[j]] /\ LineMap' = [j \in Key |-> LineMap'[j]]
    BY DEF LineMap
  <2> QED BY <2>1, <2>2
<1>9. MayBarge(l) => LineMap[k] = {}
  <2> SUFFICES ASSUME MayBarge(l), NEW q \in Proc, Standing(q), key[q] = k PROVE FALSE
    BY DEF LineMap
  <2>1. owner[l] = NoProc /\ (Contains(ws, q) => fut[q] = "cancelled")
    BY DEF MayBarge, Contains
  <2>2. lockOf[q] = l /\ (pc[q] = "body" => owner[l] = q /\ q # NoProc)
    BY <1>4, StandingFacts
  <2> QED BY <1>4, <2>1, <2>2, StandingFacts
<1>10. \A q, r \in Proc : InFront(q, r)' <=>
         /\ Standing(q)' /\ key'[q] = key'[r] /\ q # r
         /\ pc'[q] = "body" \/ Before(waiters'[lockOf'[r]], q, r)
  BY DEF InFront, Before
<1>11. ASSUME NEW q \in Proc PROVE InFront(q, p)' <=> q \in LineMap[k]
  <2>1. q \in LineMap[k] <=> Standing(q) /\ key[q] = k
    BY DEF LineMap
  <2>2. CASE q = p
    BY <1>3, <1>10, <2>1, <2>2
  <2>3. CASE q # p /\ MayBarge(l)
    BY <1>2, <1>5, <1>9, <1>10, <2>1, <2>3
  <2>4. CASE q # p /\ ~MayBarge(l)
    <3>1. waiters'[lockOf'[p]] = Append(ws, p)
      BY <1>2, <1>6, <2>4
    <3>2. Before(Append(ws, p), q, p) <=> Contains(ws, q)
      BY <1>2, BeforeAppend
    <3> QED BY <1>2, <1>4, <1>5, <1>10, <2>1, <2>4, <3>1, <3>2
  <2> QED BY <2>2, <2>3, <2>4
<1>12. ASSUME NEW q \in Proc, NEW r \in Proc, r # p, Standing(r)
       PROVE  InFront(q, r)' <=> InFront(q, r)
  <2>1. lockOf'[r] = lockOf[r] /\ lockOf[r] \in LockId
    BY <1>2, <1>12, StandingFacts
  <2>2. Before(waiters'[lockOf'[r]], q, r) <=> Before(waiters[lockOf[r]], q, r)
    <3>1. CASE MayBarge(l) \/ lockOf[r] # l
      BY <1>6, <2>1, <3>1
    <3>2. CASE ~MayBarge(l) /\ lockOf[r] = l
      <4>1. waiters'[lockOf'[r]] = Append(ws, p) /\ waiters[lockOf[r]] = ws
        BY <1>6, <2>1, <3>2
      <4>2. Before(Append(ws, p), q, r) <=> Before(ws, q, r)
        BY <1>2, <1>12, BeforeAppend
      <4> QED BY <4>1, <4>2
    <3> QED BY <3>1, <3>2
  <2>3. CASE q = p
    <3>1. ~Before(waiters[lockOf[r]], p, r)
      BY <1>3, <2>1, BeforeContained
    <3>2. MayBarge(l) => key'[r] # k
      BY <1>2, <1>9, <1>12 DEF LineMap
    <3> QED BY <1>2, <1>3, <1>6, <1>10, <2>2, <2>3, <3>1, <3>2 DEF InFront
  <2>4. CASE q # p
    BY <1>2, <1>5, <1>10, <1>12, <2>2, <2>4 DEF InFront
  <2> QED BY <2>3, <2>4
<1>13. AheadMap' = [AheadMap EXCEPT ![p] = LineMap[k]]
  <2>1. ASSUME NEW r \in Proc PROVE AheadMap'[r] = IF r = p THEN LineMap[k] ELSE AheadMap[r]
    <3>1. AheadMap'[r] = {q \in Proc : Standing(r)' /\ InFront(q, r)'}
      BY DEF AheadMap
    <3>2. AheadMap[r] = {q \in Proc : Standing(r) /\ InFront(q, r)}
      BY DEF AheadMap
    <3>3. LineMap[k] \subseteq Proc
      BY DEF LineMap
    <3>4. CASE r = p
      BY <1>6, <1>11, <3>1, <3>3, <3>4
    <3>5. CASE r # p
      BY <1>5, <1>12, <3>1, <3>2, <3>5
    <3> QED BY <3>4, <3>5
  <2>2. AheadMap = [r \in Proc |-> AheadMap[r]] /\ AheadMap' = [r \in Proc |-> AheadMap'[r]]
    BY DEF AheadMap
  <2> QED BY <2>1, <2>2
<1>14. \/ InsideMap' = InsideMap
       \/ LineMap[k] = {} /\ InsideMap' = InsideMap \cup {p}
  <2>1. CASE MayBarge(l)
    BY <1>5, <1>6, <1>9, <2>1 DEF InsideMap
  <2>2. CASE ~MayBarge(l)
    BY <1>2, <1>5, <1>6, <2>2 DEF InsideMap
  <2> QED BY <2>1, <2>2
<1> QED BY <1>7, <1>8, <1>13, <1>14 DEF Line!Join

\* For any coroutines, keys and lock objects, and whoever is cancelled at whatever moment,
\* single_flight is a line per key: its callers go in one at a time in the order they came,
\* though the lock they wait on is found in a dictionary that forgets and remakes it.
THEOREM Implements == Spec => ImplementsLine
<1>1. Init => Line!Init
  BY DEF Init, Line!Init, LineMap, AheadMap, InsideMap, Standing
<1>2. IInv /\ [Next]_vars => [Line!Next]_Line!vars
  <2> SUFFICES ASSUME IInv, [Next]_vars
               PROVE  Line!Next \/ (LineMap' = LineMap /\ AheadMap' = AheadMap /\ InsideMap' = InsideMap)
    BY DEF Line!vars
  <2>1. \A p \in Proc : key[p] \in Key
    BY DEF IInv, TypeOK
  <2>2. CASE Next
    BY <2>1, <2>2, EnterLine, ResumeLine, LeaveLine, CancelLine, ResumeCancelledLine
    DEF Next, Line!Next
  <2>3. CASE UNCHANGED vars
    BY <2>3, LineStays DEF vars, Standing, InFront, Before
  <2> QED BY <2>2, <2>3
<1> QED BY <1>1, <1>2, Invariance, PTL DEF Spec, ImplementsLine, Line!Moves
=============================================================================
