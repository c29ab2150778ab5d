----------------------------- MODULE TaskQueue -----------------------------
(***************************************************************************)
(* The background job queue: ValkeyTaskQueue (SET NX claims with a TTL),   *)
(* ValkeyListBroker (LPUSH / BRPOP) and the refresh tasks of app/worker.py *)
(* that release a claim when they end.                                     *)
(*                                                                         *)
(* Three parties share Valkey: requests that enqueue, the scheduler that   *)
(* pushes cron messages without a claim, and one worker.  A claim's TTL is *)
(* not counted down: it may run out at any time.  When it does while the   *)
(* job still waits or runs, the history variable overdue counts it.        *)
(***************************************************************************)
EXTENDS Naturals, Sequences, FiniteSets

CONSTANTS
  Job,      \* entity ids of refresh jobs, which are their dedup ids
  Cron,     \* scheduled tasks
  Client,   \* coroutines that enqueue
  Slots,    \* tasks the worker runs at once
  Faulty,   \* Valkey calls fail, connections break, processes die
  None,
  MaxBacklog, \* bound: messages of one cron task in the queue
  MaxOverdue  \* bound: claims of one job that expire while it waits or runs

ASSUME QueueAssumption ==
  /\ Slots \in Nat \ {0} /\ MaxBacklog \in Nat /\ MaxOverdue \in Nat
  /\ Faulty \in BOOLEAN
  /\ None \notin Job \cup Cron
  /\ Job \cap Cron = {}

Task == Job \cup Cron

VARIABLES
  claimed,   \* Valkey: worker:job:{id} exists
  queue,     \* Valkey: taskiq:queue, its right end first
  pushing,   \* per client: the job it claimed and has not pushed yet
  popped,    \* the message listen() yielded and the worker has not started
  running,   \* per task: how many times it is running
  listening, \* whether listen() is in its BRPOP loop, and not in its back-off
  overdue    \* history, per job: claims that expired while it waited or ran

queueVars == <<claimed, queue, pushing, popped, running, listening, overdue>>

\* The receiver's slots that are taken, one element for each.
Occupied == UNION {{t} \X (1..running[t]) : t \in Task}

QueueTypeOK ==
  /\ claimed \in [Job -> BOOLEAN]
  /\ queue \in Seq(Task)
  /\ pushing \in [Client -> Job \cup {None}]
  /\ popped \in Task \cup {None}
  /\ running \in [Task -> Nat] /\ Cardinality(Occupied) <= Slots
  /\ listening \in BOOLEAN
  /\ overdue \in [Job -> 0..MaxOverdue]

QueueInit ==
  /\ claimed = [j \in Job |-> FALSE]
  /\ queue = <<>>
  /\ pushing = [c \in Client |-> None]
  /\ popped = None
  /\ running = [t \in Task |-> 0]
  /\ listening = FALSE
  /\ overdue = [j \in Job |-> 0]

\* Where the messages of a job are, one element for each.
Places(j) ==
  {<<"pushing", c>> : c \in {x \in Client : pushing[x] = j}}
    \cup {<<"queue", i>> : i \in {x \in 1..Len(queue) : queue[x] = j}}
    \cup {<<"popped", 0>> : x \in {x \in {0} : popped = j}}
    \cup {<<"running", k>> : k \in 1..running[j]}
Live(j) == Places(j) # {}

-----------------------------------------------------------------------------
(* ValkeyTaskQueue.enqueue, ValkeyListBroker.kick *)

\* Mutated form of Claim: the key is set without NX.
ClaimAlways(c, j) ==
  /\ pushing[c] = None
  /\ claimed' = [claimed EXCEPT ![j] = TRUE]
  /\ pushing' = [pushing EXCEPT ![c] = j]
  /\ UNCHANGED <<queue, popped, running, listening, overdue>>

\* SET NX wins; a caller that loses leaves everything as it is.
Claim(c, j) ==
  /\ pushing[c] = None
  /\ ~claimed[j]
  /\ claimed' = [claimed EXCEPT ![j] = TRUE]
  /\ pushing' = [pushing EXCEPT ![c] = j]
  /\ UNCHANGED <<queue, popped, running, listening, overdue>>

\* The SET is done but its answer is lost: the error is logged, nothing is pushed.
ClaimAnswerLost(c, j) ==
  /\ Faulty /\ pushing[c] = None /\ ~claimed[j]
  /\ claimed' = [claimed EXCEPT ![j] = TRUE]
  /\ UNCHANGED <<queue, pushing, popped, running, listening, overdue>>

Push(c) ==
  /\ pushing[c] # None
  /\ queue' = Append(queue, pushing[c])
  /\ pushing' = [pushing EXCEPT ![c] = None]
  /\ UNCHANGED <<claimed, popped, running, listening, overdue>>

\* kiq raises, or the process dies, before the LPUSH: the claim is not undone.
PushFails(c) ==
  /\ Faulty /\ pushing[c] # None
  /\ pushing' = [pushing EXCEPT ![c] = None]
  /\ UNCHANGED <<claimed, queue, popped, running, listening, overdue>>

\* The scheduler kicks a cron task: no claim, and no look at what is queued.
Schedule(k) ==
  /\ Cardinality({i \in DOMAIN queue : queue[i] = k}) < MaxBacklog
  /\ queue' = Append(queue, k)
  /\ UNCHANGED <<claimed, pushing, popped, running, listening, overdue>>

\* Mutated form of Expire: a claim without a TTL.
ExpireNever(j) == claimed[j] /\ FALSE /\ UNCHANGED queueVars

\* The TTL is over, and the job is neither waiting nor running any more.
Expire(j) ==
  /\ claimed[j] /\ ~Live(j)
  /\ claimed' = [claimed EXCEPT ![j] = FALSE]
  /\ UNCHANGED <<queue, pushing, popped, running, listening, overdue>>

\* The TTL is over, but it was set at the enqueue and never renewed: the job waits
\* in a backlog, or runs slowly, and has outlasted it.
ExpireOverdue(j) ==
  /\ claimed[j] /\ Live(j) /\ overdue[j] < MaxOverdue
  /\ claimed' = [claimed EXCEPT ![j] = FALSE]
  /\ overdue' = [overdue EXCEPT ![j] = @ + 1]
  /\ UNCHANGED <<queue, pushing, popped, running, listening>>

-----------------------------------------------------------------------------
(* ValkeyListBroker.listen *)

\* The sleep, if there was one, is over: the loop is entered (again).
Open ==
  /\ ~listening
  /\ listening' = TRUE
  /\ UNCHANGED <<claimed, queue, pushing, popped, running, overdue>>

Pop ==
  /\ listening /\ popped = None /\ queue # <<>>
  /\ popped' = Head(queue)
  /\ queue' = Tail(queue)
  /\ UNCHANGED <<claimed, pushing, running, listening, overdue>>

\* BRPOP raises: sleep before the next try.
BackOff ==
  /\ Faulty /\ listening /\ popped = None
  /\ listening' = FALSE

PopFails == BackOff /\ UNCHANGED <<claimed, queue, pushing, popped, running, overdue>>

\* Valkey has popped the message when the connection breaks.
PopAnswerLost ==
  /\ queue # <<>>
  /\ BackOff
  /\ queue' = Tail(queue)
  /\ UNCHANGED <<claimed, pushing, popped, running, overdue>>

-----------------------------------------------------------------------------
(* The worker *)

\* Mutated forms of Start: the receiver does not count the tasks it runs; the claim
\* is released before the task and not after it.
StartUnlimited ==
  /\ popped # None
  /\ running' = [running EXCEPT ![popped] = @ + 1]
  /\ popped' = None
  /\ UNCHANGED <<claimed, queue, pushing, listening, overdue>>

StartReleasing ==
  /\ popped # None
  /\ Cardinality(Occupied) < Slots
  /\ running' = [running EXCEPT ![popped] = @ + 1]
  /\ claimed' = [j \in Job |-> j # popped /\ claimed[j]]
  /\ popped' = None
  /\ UNCHANGED <<queue, pushing, listening, overdue>>

\* The receiver takes a message once fewer than Slots tasks run.
Start ==
  /\ popped # None
  /\ Cardinality(Occupied) < Slots
  /\ running' = [running EXCEPT ![popped] = @ + 1]
  /\ popped' = None
  /\ UNCHANGED <<claimed, queue, pushing, listening, overdue>>

\* The task returns or raises.  A refresh then deletes its claim, whoever set it.
Finish(t) ==
  /\ running[t] > 0
  /\ running' = [running EXCEPT ![t] = @ - 1]
  /\ claimed' = IF t \in Job THEN [claimed EXCEPT ![t] = FALSE] ELSE claimed
  /\ UNCHANGED <<queue, pushing, popped, listening, overdue>>

\* The DELETE fails, or the dependencies could not be resolved and the release was
\* never reached.
FinishUnreleased(j) ==
  /\ Faulty /\ running[j] > 0
  /\ running' = [running EXCEPT ![j] = @ - 1]
  /\ UNCHANGED <<claimed, queue, pushing, popped, listening, overdue>>

\* The worker dies and is started again, with nothing in hand.
CrashWorker ==
  /\ Faulty
  /\ popped' = None
  /\ running' = [t \in Task |-> 0]
  /\ listening' = FALSE
  /\ UNCHANGED <<claimed, queue, pushing, overdue>>

-----------------------------------------------------------------------------
Fault ==
  \/ PopFails \/ PopAnswerLost \/ CrashWorker
  \/ \E c \in Client : PushFails(c) \/ \E j \in Job : ClaimAnswerLost(c, j)
  \/ \E j \in Job : FinishUnreleased(j)

QueueNext ==
  \/ Fault
  \/ Open \/ Pop \/ Start
  \/ \E c \in Client : Push(c) \/ \E j \in Job : Claim(c, j)
  \/ \E k \in Cron : Schedule(k)
  \/ \E j \in Job : Expire(j) \/ ExpireOverdue(j)
  \/ \E t \in Task : Finish(t)

\* Keys expire, the processes run, and tasks end: their HTTP and database calls
\* have timeouts.  Nobody has to enqueue or schedule anything.
QueueFairness ==
  /\ WF_queueVars(Open) /\ WF_queueVars(Pop) /\ WF_queueVars(Start)
  /\ \A c \in Client : WF_queueVars(Push(c))
  /\ \A t \in Task : WF_queueVars(Finish(t))
  /\ \A j \in Job : WF_queueVars(Expire(j))

QueueSpec == QueueInit /\ [][QueueNext]_queueVars

-----------------------------------------------------------------------------
(* Properties *)

\* A job pending or running is not enqueued again (TaskQueuePort.enqueue): of its
\* messages, between claim and end of the task, there is never more than one for
\* the claim that stands and one for each claim that expired under a live job.  So
\* without such an expiry there is one at most, and after it the release of a claim
\* by the task that did not set it, which lets the job be enqueued once more, adds
\* no further message to those the expiry let in.
OneLivePerClaim ==
  \A j \in Job : Cardinality(Places(j)) <= (IF claimed[j] THEN 1 ELSE 0) + overdue[j]

\* Dedup, a broken kick, a lost message and a dead worker add up to what the port
\* promises: a job is free, pending, running, or blocked until its key expires, and
\* goes from one to the other as the port says, unless it has outlasted its claim.
SlotOf(j) ==
  IF overdue[j] > 0 THEN "overdue"
  ELSE IF running[j] > 0 THEN "running"
  ELSE IF Live(j) THEN "pending"
  ELSE IF claimed[j] THEN "blocked" ELSE "free"
SlotMap == [j \in Job |-> SlotOf(j)]
Slot == INSTANCE JobSlots WITH slot <- SlotMap
ImplementsSlots == Slot!Moves

\* However long faults go on, a job whose message was lost does not stay blocked.
SlotsRecover == Slot!Recovery

\* And once faults stop, a job that is asked for again and again runs again and again:
\* no failed push, lost message or dead worker takes its id out of use for good.
Served ==
  /\ SlotsRecover
  /\ \A j \in Job :
       /\ <>[][~Fault]_queueVars
       /\ SF_queueVars(\E c \in Client : Claim(c, j))
       => []<>(running[j] > 0)
=============================================================================
