---------------------------- MODULE SingleFlight ----------------------------
(***************************************************************************)
(* single_flight(key) of app/domain/services/player_service.py: a          *)
(* dictionary of asyncio locks, one per key in use, and a counter of the   *)
(* coroutines using each.  A lock is created by the first caller of a key  *)
(* and dropped by the last one out, so the danger is a coroutine that      *)
(* still waits on (or holds) a lock nobody else can find any more.         *)
(*                                                                         *)
(* One event loop runs every coroutine; a step below is what runs between  *)
(* two awaits that suspend.  asyncio.Lock is external: a flag and a deque  *)
(* of futures, whose release wakes the first waiter and leaves the lock    *)
(* free until that waiter has run.                                         *)
(***************************************************************************)
EXTENDS Naturals, FiniteSets, Sequences, SequencesExt

CONSTANTS Proc,    \* coroutines of one process
          Key,     \* player ids, as single_flight gets them
          LockId,  \* lock objects
          NoLock, NoProc

ASSUME ConstantsAssumption ==
  /\ IsFiniteSet(Proc)
  /\ NoLock \notin LockId
  /\ NoProc \notin Proc

VARIABLES
  locks,    \* _INFLIGHT_LOCKS: the lock of each key, NoLock when absent
  users,    \* _INFLIGHT_WAITERS: the counter of each key, 0 when absent
  owner,    \* asyncio.Lock._locked, with the coroutine that set it
  waiters,  \* asyncio.Lock._waiters
  fut,      \* the future a waiting coroutine is parked on
  pc, key, lockOf  \* of each coroutine: where it is, its arguments, its lock

vars == <<locks, users, owner, waiters, fut, pc, key, lockOf>>

TypeOK ==
  /\ locks \in [Key -> LockId \cup {NoLock}]
  /\ users \in [Key -> Nat]
  /\ owner \in [LockId -> Proc \cup {NoProc}]
  /\ waiters \in [LockId -> Seq(Proc)]
  /\ fut \in [Proc -> {"none", "pending", "woken", "cancelled", "wokenCancelled"}]
  /\ pc \in [Proc -> {"idle", "waiting", "body"}]
  /\ key \in [Proc -> Key]
  /\ lockOf \in [Proc -> LockId \cup {NoLock}]

Init ==
  /\ locks = [k \in Key |-> NoLock]
  /\ users = [k \in Key |-> 0]
  /\ owner = [l \in LockId |-> NoProc]
  /\ waiters = [l \in LockId |-> <<>>]
  /\ fut = [p \in Proc |-> "none"]
  /\ pc = [p \in Proc |-> "idle"]
  /\ key \in [Proc -> Key]
  /\ lockOf = [p \in Proc |-> NoLock]

-----------------------------------------------------------------------------
(* asyncio.Lock *)

\* deque.remove; a coroutine is in a deque at most once.
Without(s, p) == RemoveAt(s, CHOOSE i \in 1..Len(s) : s[i] = p)

\* A future that is done will run its coroutine by itself and is not set again.
WakeFirst(ws, f) ==
  IF ws # <<>> /\ f[Head(ws)] = "pending"
  THEN [f EXCEPT ![Head(ws)] = "woken"] ELSE f

\* The fast path of acquire: free, and nobody but cancelled waiters in front.
MayBarge(l) ==
  /\ owner[l] = NoProc
  /\ \A i \in 1..Len(waiters[l]) : fut[waiters[l][i]] = "cancelled"

\* Lock objects some variable still refers to; the others are garbage.
Referenced == {locks[k] : k \in Key} \cup {lockOf[p] : p \in Proc}

-----------------------------------------------------------------------------
(* single_flight *)

\* setdefault evaluates to the lock in the dictionary, or puts a new one there.
SetDefault(k, l) ==
  \/ locks[k] = l
  \/ locks[k] = NoLock /\ l \notin Referenced

Enter(p, k) == \E l \in LockId :
  /\ pc[p] = "idle"
  /\ SetDefault(k, l)
  /\ locks' = [locks EXCEPT ![k] = l]
  /\ users' = [users EXCEPT ![k] = @ + 1]
  /\ key' = [key EXCEPT ![p] = k]
  /\ lockOf' = [lockOf EXCEPT ![p] = l]
  /\ \/ /\ MayBarge(l)
        /\ owner' = [owner EXCEPT ![l] = p]
        /\ pc' = [pc EXCEPT ![p] = "body"]
        /\ UNCHANGED <<waiters, fut>>
     \/ /\ ~MayBarge(l)
        /\ waiters' = [waiters EXCEPT ![l] = Append(@, p)]
        /\ fut' = [fut EXCEPT ![p] = "pending"]
        /\ pc' = [pc EXCEPT ![p] = "waiting"]
        /\ UNCHANGED owner

\* The woken waiter runs, takes the lock and enters the body.
Resume(p) ==
  /\ pc[p] = "waiting" /\ fut[p] = "woken"
  /\ waiters' = [waiters EXCEPT ![lockOf[p]] = Without(@, p)]
  /\ owner' = [owner EXCEPT ![lockOf[p]] = p]
  /\ fut' = [fut EXCEPT ![p] = "none"]
  /\ pc' = [pc EXCEPT ![p] = "body"]
  /\ UNCHANGED <<locks, users, key, lockOf>>

\* Mutated forms of Forget: the first one out drops the lock of those behind it;
\* the lock is never dropped; it is dropped while one user is left; the counter
\* is decremented twice.
ForgetUncounted(p) ==
  LET k == key[p] IN
  /\ users' = [users EXCEPT ![k] = @ - 1]
  /\ locks' = [locks EXCEPT ![k] = NoLock]
  /\ pc' = [pc EXCEPT ![p] = "idle"]
  /\ lockOf' = [lockOf EXCEPT ![p] = NoLock]
  /\ UNCHANGED key

ForgetLeaky(p) ==
  /\ users' = [users EXCEPT ![key[p]] = @ - 1]
  /\ pc' = [pc EXCEPT ![p] = "idle"]
  /\ lockOf' = [lockOf EXCEPT ![p] = NoLock]
  /\ UNCHANGED <<key, locks>>

ForgetEarly(p) ==
  LET k == key[p] IN
  /\ users' = [users EXCEPT ![k] = @ - 1]
  /\ locks' = IF users[k] - 1 <= 1 THEN [locks EXCEPT ![k] = NoLock] ELSE locks
  /\ pc' = [pc EXCEPT ![p] = "idle"]
  /\ lockOf' = [lockOf EXCEPT ![p] = NoLock]
  /\ UNCHANGED key

ForgetTwice(p) ==
  LET k == key[p] IN
  /\ users' = [users EXCEPT ![k] = @ - 2]
  /\ locks' = IF users[k] - 2 <= 0 THEN [locks EXCEPT ![k] = NoLock] ELSE locks
  /\ pc' = [pc EXCEPT ![p] = "idle"]
  /\ lockOf' = [lockOf EXCEPT ![p] = NoLock]
  /\ UNCHANGED key

\* The finally block: one user less, and the last one drops the lock.
Forget(p) ==
  LET k == key[p] IN
  /\ users' = [users EXCEPT ![k] = @ - 1]
  /\ locks' = IF users[k] - 1 <= 0 THEN [locks EXCEPT ![k] = NoLock] ELSE locks
  /\ pc' = [pc EXCEPT ![p] = "idle"]
  /\ lockOf' = [lockOf EXCEPT ![p] = NoLock]
  /\ UNCHANGED key

\* The body returns or raises: the lock is released, then the finally block runs.
Leave(p) ==
  /\ pc[p] = "body"
  /\ owner' = [owner EXCEPT ![lockOf[p]] = NoProc]
  /\ fut' = WakeFirst(waiters[lockOf[p]], fut)
  /\ Forget(p)
  /\ UNCHANGED waiters

\* The coroutine is cancelled while it waits.  A pending future is cancelled at
\* once; a future already set stays set and the coroutine gets the exception
\* when it runs.
Cancel(p) ==
  /\ pc[p] = "waiting" /\ fut[p] \in {"pending", "woken"}
  /\ fut' = [fut EXCEPT ![p] = IF @ = "pending" THEN "cancelled"
                                                ELSE "wokenCancelled"]
  /\ UNCHANGED <<locks, users, owner, waiters, pc, key, lockOf>>

\* Mutated form of ResumeCancelled: the wake-up is not passed on.
ResumeCancelledSilently(p) ==
  LET l == lockOf[p] IN
  /\ pc[p] = "waiting" /\ fut[p] \in {"cancelled", "wokenCancelled"}
  /\ waiters' = [waiters EXCEPT ![l] = Without(@, p)]
  /\ fut' = [fut EXCEPT ![p] = "none"]
  /\ Forget(p)
  /\ UNCHANGED owner

\* The cancelled coroutine runs: out of the deque, and if the lock is free the
\* wake-up it may have swallowed is passed on.
ResumeCancelled(p) ==
  LET l == lockOf[p]  rest == Without(waiters[l], p) IN
  /\ pc[p] = "waiting" /\ fut[p] \in {"cancelled", "wokenCancelled"}
  /\ waiters' = [waiters EXCEPT ![l] = rest]
  /\ fut' = [IF owner[l] = NoProc THEN WakeFirst(rest, fut) ELSE fut
              EXCEPT ![p] = "none"]
  /\ Forget(p)
  /\ UNCHANGED owner

Next == \E p \in Proc :
  \/ \E k \in Key : Enter(p, k)
  \/ Resume(p) \/ Leave(p) \/ Cancel(p) \/ ResumeCancelled(p)

\* The event loop runs what is ready, and the body ends: every await in it is a
\* storage or HTTP call with a timeout.
Fairness == \A p \in Proc :
  WF_vars(Resume(p)) /\ WF_vars(Leave(p)) /\ WF_vars(ResumeCancelled(p))

Spec == Init /\ [][Next]_vars
FairSpec == Spec /\ Fairness

-----------------------------------------------------------------------------
(* Properties *)

\* Two coroutines are never in the body of single_flight for one key, however
\* the lock of that key was dropped and created again meanwhile.
MutualExclusion == \A p, q \in Proc :
  pc[p] = "body" /\ pc[q] = "body" /\ key[p] = key[q] => p = q

\* Everyone using a key refers to the lock the dictionary holds for it, so the
\* next caller queues behind them; and a key nobody uses has no entry, so the
\* dictionaries do not grow with the ids ever requested.
Users(k) == {p \in Proc : pc[p] # "idle" /\ key[p] = k}
LockIsShared == \A k \in Key :
  /\ \A p \in Users(k) : lockOf[p] = locks[k]
  /\ locks[k] = NoLock <=> Users(k) = {}
  /\ users[k] = Cardinality(Users(k))

\* A free lock with coroutines parked on it always has one of them scheduled:
\* no cancellation swallows the wake-up and leaves the rest parked for ever.
NoLostWakeup == \A p \in Proc :
  pc[p] = "waiting" /\ owner[lockOf[p]] = NoProc
    => \E i \in 1..Len(waiters[lockOf[p]]) : fut[waiters[lockOf[p]][i]] # "pending"

\* Standing in line is being inside, or waiting uncancelled; q is in front of p when it
\* is inside for p's key, or parked before p on the lock p waits for.
Standing(p) == pc[p] = "body" \/ fut[p] \in {"pending", "woken"}
Before(s, q, p) == \E i, j \in 1..Len(s) : i < j /\ s[i] = q /\ s[j] = p
InFront(q, p) ==
  /\ Standing(q) /\ key[q] = key[p] /\ q # p
  /\ pc[q] = "body" \/ Before(waiters[lockOf[p]], q, p)

LineMap == [k \in Key |-> {p \in Proc : Standing(p) /\ key[p] = k}]
AheadMap == [p \in Proc |-> {q \in Proc : Standing(p) /\ InFront(q, p)}]
InsideMap == {p \in Proc : pc[p] = "body"}
Line == INSTANCE KeyedQueueLock WITH
          line <- LineMap, ahead <- AheadMap, inside <- InsideMap

\* The dictionaries, counters and futures implement one line per key: first come, first
\* served, whoever is cancelled, and whatever becomes of the lock object in between.
ImplementsLine == Line!Moves

\* And the line moves: whoever is first and stays gets in, and whoever is in gets out.
LineKeepsMoving == Line!Fairness
=============================================================================
