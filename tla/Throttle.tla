------------------------------ MODULE Throttle ------------------------------
(***************************************************************************)
(* BlizzardThrottle (app/adapters/blizzard/throttle.py) and its only user, *)
(* BlizzardClient.get.  The throttle's five values live in Valkey and are  *)
(* shared by the API process and the worker; every read and every write of *)
(* one is an await of its own, between which other requests of the same    *)
(* event loop, and the other process, run.  The pace lock and the          *)
(* _penalty_start shortcut are private to a process.                       *)
(*                                                                         *)
(* Time is an age that saturates where the code stops telling ages apart,  *)
(* so no clock has to be bounded.  A key that was never written behaves    *)
(* like the default the code falls back to, or like an old timestamp.      *)
(***************************************************************************)
EXTENDS ThrottleArithmetic

CONSTANTS
  Process,          \* the API process and the worker
  Task,             \* coroutines that ask Blizzard for a page
  ProcessOf,        \* the process each task runs in
  PenaltyDuration,  \* throttle_penalty_duration, in ticks
  TicksPerSecond,   \* is_rate_limited rounds down to whole seconds
  Settings,         \* what to look at: overlapping requests, a failing Valkey
  NoTask

ASSUME ThrottleAssumption ==
  /\ ProcessOf \in [Task -> Process]
  /\ PenaltyDuration \in Nat /\ TicksPerSecond \in Nat \ {0}
  /\ Settings \subseteq [overlap : BOOLEAN, flaky : BOOLEAN]
  /\ NoTask \notin Task

VARIABLES
  delay, ssthresh, streak,  \* Valkey: throttle:delay, :ssthresh, :streak
  since403, sinceRequest,   \* Valkey: ages of throttle:last_403 and :last_request
  penaltyAge,               \* per process: age of _penalty_start
  paceLock,                 \* per process: holder of _pace_lock
  sinceFire,                \* per process: age of its last request to Blizzard
  pc, sleep,                \* per task: next await, time left to sleep
  d, n,                     \* per task: current_delay and streak, as it read them
  overlap,                  \* whether requests overlap in this behaviour
  flaky                     \* whether Valkey calls may fail in this behaviour, which
                            \* ValkeyCache swallows

valkey == <<delay, ssthresh, streak, since403, sinceRequest>>
vars == <<valkey, penaltyAge, paceLock, sinceFire, pc, sleep, d, n>>
setting == <<overlap, flaky>>

\* Where a task can be: waiting for admission and its turn, in flight, and in the
\* awaits of _on_success, of _apply_403_penalty, and of the reset.
Waiting == {"last403Get", "queue", "delayGet", "lastRequestGet", "sleep", "lastRequestSet"}
OnSuccess == {"ok403Get", "okStreakGet", "okDelayGet", "okSsthreshGet",
              "okStreakSet", "okDelaySet"}
OnForbidden == {"penDelayGet", "penDelaySet", "penSsthreshSet", "pen403Set", "penStreakSet"}
Holding == {"delayGet", "lastRequestGet", "sleep", "lastRequestSet"}

TypeOK ==
  /\ delay \in Delays /\ ssthresh \in Delays
  /\ streak \in 0..(AtLeast(SlowStartN, AimdN))
  /\ since403 \in 0..PenaltyDuration /\ sinceRequest \in 0..MaxDelay
  /\ penaltyAge \in [Process -> 0..PenaltyDuration]
  /\ paceLock \in [Process -> Task \cup {NoTask}]
  /\ sinceFire \in [Process -> 0..MaxDelay]
  /\ pc \in [Task -> {"idle", "inflight", "streakReset"} \cup Waiting
                       \cup OnSuccess \cup OnForbidden]
  /\ sleep \in [Task -> 0..MaxDelay]
  /\ d \in [Task -> Delays] /\ n \in [Task -> Nat]

Init ==
  /\ delay = StartDelay /\ ssthresh = MinDelay /\ streak = 0
  /\ since403 = PenaltyDuration /\ sinceRequest = MaxDelay
  /\ penaltyAge = [p \in Process |-> PenaltyDuration]
  /\ paceLock = [p \in Process |-> NoTask]
  /\ sinceFire = [p \in Process |-> MaxDelay]
  /\ pc = [t \in Task |-> "idle"]
  /\ sleep = [t \in Task |-> 0]
  /\ d = [t \in Task |-> StartDelay] /\ n = [t \in Task |-> 0]
  /\ \E s \in Settings : overlap = s.overlap /\ flaky = s.flaky

-----------------------------------------------------------------------------
Goto(t, from, to) == pc[t] = from /\ pc' = [pc EXCEPT ![t] = to]

\* The locals of a call are forgotten once nothing reads them any more.
ForgetLocals(t) ==
  d' = [d EXCEPT ![t] = StartDelay] /\ n' = [n EXCEPT ![t] = 0]

\* A Valkey read gives the value, or the default when it fails.
Reads(value, default) == {value} \cup (IF flaky THEN {default} ELSE {})

\* is_rate_limited in whole seconds, of a penalty of that age: int(remaining).
SecondsLeft(age) == (PenaltyDuration - age) \div TicksPerSecond

\* The first half of is_rate_limited: the penalty this process remembers decides
\* alone until it is over, its last fraction of a second counting as none.
LocallyLimited(p) == penaltyAge[p] < PenaltyDuration /\ SecondsLeft(penaltyAge[p]) > 0
LocallyFree(p) == penaltyAge[p] < PenaltyDuration /\ SecondsLeft(penaltyAge[p]) = 0

\* The second half: the shared timestamp, remembered when it is still in force.
\* The task goes on at "limited" when whole seconds of it are left, else at "free".
SharedCheck(t, from, limited, free) ==
  \E age \in Reads(since403, PenaltyDuration) :
    /\ Goto(t, from, IF SecondsLeft(age) > 0 THEN limited ELSE free)
    /\ penaltyAge' = IF age < PenaltyDuration
                     THEN [penaltyAge EXCEPT ![ProcessOf[t]] = age] ELSE penaltyAge

-----------------------------------------------------------------------------
(* wait_before_request *)

\* Admission; a task refused here gets a 503 and changes nothing.
Begin(t) ==
  /\ ~LocallyLimited(ProcessOf[t])
  /\ Goto(t, "idle", IF LocallyFree(ProcessOf[t]) THEN "queue" ELSE "last403Get")
  /\ UNCHANGED <<valkey, penaltyAge, paceLock, sinceFire, sleep, d, n>>

AdmissionCheck(t) ==
  /\ SharedCheck(t, "last403Get", "idle", "queue")
  /\ UNCHANGED <<valkey, paceLock, sinceFire, sleep, d, n>>

\* Mutated form of AcquirePace: the read-sleep-write is not serialised.
AcquirePaceUnlocked(t) ==
  /\ Goto(t, "queue", "delayGet")
  /\ paceLock' = [paceLock EXCEPT ![ProcessOf[t]] = t]
  /\ UNCHANGED <<valkey, penaltyAge, sinceFire, sleep, d, n>>

AcquirePace(t) ==
  /\ paceLock[ProcessOf[t]] = NoTask
  /\ Goto(t, "queue", "delayGet")
  /\ paceLock' = [paceLock EXCEPT ![ProcessOf[t]] = t]
  /\ UNCHANGED <<valkey, penaltyAge, sinceFire, sleep, d, n>>

ReadDelay(t) ==
  /\ Goto(t, "delayGet", "lastRequestGet")
  /\ \E v \in Reads(delay, StartDelay) : d' = [d EXCEPT ![t] = v]
  /\ UNCHANGED <<valkey, penaltyAge, paceLock, sinceFire, sleep, n>>

ReadLastRequest(t) ==
  /\ Goto(t, "lastRequestGet", "sleep")
  /\ \E age \in Reads(sinceRequest, MaxDelay) :
       sleep' = [sleep EXCEPT ![t] = IF age >= d[t] THEN 0 ELSE d[t] - age]
  /\ UNCHANGED <<valkey, penaltyAge, paceLock, sinceFire, d, n>>

\* The sleep is over: the time is taken that will be last_request.
Fire(t) ==
  /\ sleep[t] = 0
  /\ Goto(t, "sleep", "lastRequestSet")
  /\ sinceFire' = [sinceFire EXCEPT ![ProcessOf[t]] = 0]
  /\ ForgetLocals(t)
  /\ UNCHANGED <<valkey, penaltyAge, paceLock, sleep>>

\* Mutated form of WriteLastRequest: the lock stays taken.
WriteLastRequestLocked(t) ==
  /\ Goto(t, "lastRequestSet", "inflight")
  /\ sinceRequest' \in Reads(sinceFire[ProcessOf[t]], sinceRequest)
  /\ UNCHANGED <<delay, ssthresh, streak, since403, penaltyAge, paceLock, sinceFire, sleep, d, n>>

\* It is written, as old as it is by then; the lock is released, the request sent.
WriteLastRequest(t) ==
  /\ Goto(t, "lastRequestSet", "inflight")
  /\ sinceRequest' \in Reads(sinceFire[ProcessOf[t]], sinceRequest)
  /\ paceLock' = [paceLock EXCEPT ![ProcessOf[t]] = NoTask]
  /\ UNCHANGED <<delay, ssthresh, streak, since403, penaltyAge, sinceFire, sleep, d, n>>

-----------------------------------------------------------------------------
(* adjust_delay, by status *)

\* A timeout or a protocol error becomes a 504 before adjust_delay is reached.
TransportError(t) ==
  /\ Goto(t, "inflight", "idle")
  /\ UNCHANGED <<valkey, penaltyAge, paceLock, sinceFire, sleep, d, n>>

Got403(t) ==
  /\ Goto(t, "inflight", "penDelayGet")
  /\ UNCHANGED <<valkey, penaltyAge, paceLock, sinceFire, sleep, d, n>>

GotOther(t) ==
  /\ Goto(t, "inflight", "streakReset")
  /\ UNCHANGED <<valkey, penaltyAge, paceLock, sinceFire, sleep, d, n>>

\* A 200 while this process knows of a penalty is ignored.
Got200(t) ==
  /\ Goto(t, "inflight", IF LocallyLimited(ProcessOf[t]) THEN "idle"
                         ELSE IF LocallyFree(ProcessOf[t]) THEN "okStreakGet"
                         ELSE "ok403Get")
  /\ UNCHANGED <<valkey, penaltyAge, paceLock, sinceFire, sleep, d, n>>

ResetStreak(t) ==
  /\ Goto(t, "streakReset", "idle")
  /\ streak' \in Reads(0, streak)
  /\ UNCHANGED <<delay, ssthresh, since403, sinceRequest,
                 penaltyAge, paceLock, sinceFire, sleep, d, n>>

(* _on_success *)

OkCheck(t) ==
  /\ SharedCheck(t, "ok403Get", "idle", "okStreakGet")
  /\ UNCHANGED <<valkey, paceLock, sinceFire, sleep, d, n>>

OkReadStreak(t) ==
  /\ Goto(t, "okStreakGet", "okDelayGet")
  /\ \E v \in Reads(streak, 0) : n' = [n EXCEPT ![t] = v + 1]
  /\ UNCHANGED <<valkey, penaltyAge, paceLock, sinceFire, sleep, d>>

OkReadDelay(t) ==
  /\ Goto(t, "okDelayGet", "okSsthreshGet")
  /\ \E v \in Reads(delay, StartDelay) : d' = [d EXCEPT ![t] = v]
  /\ UNCHANGED <<valkey, penaltyAge, paceLock, sinceFire, sleep, n>>

\* With the threshold read, the new streak and delay are computed; both are kept
\* in n and d until they are written.  An unmoved delay is not written.
OkReadSsthresh(t) ==
  /\ pc[t] = "okSsthreshGet"
  /\ \E ss \in Reads(ssthresh, MinDelay) :
       /\ n' = [n EXCEPT ![t] = StreakAfter(@, d[t], ss)]
       /\ d' = [d EXCEPT ![t] = DelayAfter(n[t], @, ss)]
       /\ pc' = [pc EXCEPT ![t] = "okStreakSet"]
  /\ UNCHANGED <<valkey, penaltyAge, paceLock, sinceFire, sleep>>

\* Mutated form of OkWriteStreak: only a streak that starts again is written.
OkWriteStreakLost(t) ==
  /\ \/ n[t] = 0 /\ Goto(t, "okStreakSet", "okDelaySet") /\ UNCHANGED <<d, n>>
     \/ n[t] # 0 /\ Goto(t, "okStreakSet", "idle") /\ ForgetLocals(t)
  /\ streak' = IF n[t] = 0 THEN 0 ELSE streak
  /\ UNCHANGED <<delay, ssthresh, since403, sinceRequest,
                 penaltyAge, paceLock, sinceFire, sleep>>

OkWriteStreak(t) ==
  /\ streak' \in Reads(n[t], streak)
  /\ \/ n[t] = 0 /\ Goto(t, "okStreakSet", "okDelaySet") /\ UNCHANGED <<d, n>>
     \/ n[t] # 0 /\ Goto(t, "okStreakSet", "idle") /\ ForgetLocals(t)
  /\ UNCHANGED <<delay, ssthresh, since403, sinceRequest,
                 penaltyAge, paceLock, sinceFire, sleep>>

OkWriteDelay(t) ==
  /\ Goto(t, "okDelaySet", "idle")
  /\ delay' \in Reads(d[t], delay)
  /\ ForgetLocals(t)
  /\ UNCHANGED <<ssthresh, streak, since403, sinceRequest,
                 penaltyAge, paceLock, sinceFire, sleep>>

(* _apply_403_penalty *)

PenReadDelay(t) ==
  /\ Goto(t, "penDelayGet", "penDelaySet")
  /\ \E v \in Reads(delay, StartDelay) : d' = [d EXCEPT ![t] = v]
  /\ UNCHANGED <<valkey, penaltyAge, paceLock, sinceFire, sleep, n>>

PenWriteDelay(t) ==
  /\ Goto(t, "penDelaySet", "penSsthreshSet")
  /\ delay' \in Reads(PenaltyDelayFrom(d[t]), delay)
  /\ UNCHANGED <<ssthresh, streak, since403, sinceRequest,
                 penaltyAge, paceLock, sinceFire, sleep, d, n>>

\* Mutated form of PenWriteSsthresh: the threshold is the delay before the 403.
PenWriteSsthreshUndoubled(t) ==
  /\ Goto(t, "penSsthreshSet", "pen403Set")
  /\ ssthresh' \in Reads(d[t], ssthresh)
  /\ ForgetLocals(t)
  /\ UNCHANGED <<delay, streak, since403, sinceRequest,
                 penaltyAge, paceLock, sinceFire, sleep>>

PenWriteSsthresh(t) ==
  /\ Goto(t, "penSsthreshSet", "pen403Set")
  /\ ssthresh' \in Reads(PenaltySsthreshFrom(d[t]), ssthresh)
  /\ ForgetLocals(t)
  /\ UNCHANGED <<delay, streak, since403, sinceRequest,
                 penaltyAge, paceLock, sinceFire, sleep>>

PenWrite403(t) ==
  /\ Goto(t, "pen403Set", "penStreakSet")
  /\ since403' \in Reads(0, since403)
  /\ UNCHANGED <<delay, ssthresh, streak, sinceRequest,
                 penaltyAge, paceLock, sinceFire, sleep, d, n>>

\* Mutated form of PenWriteStreak: the streak survives the penalty.
PenWriteStreakKept(t) ==
  /\ Goto(t, "penStreakSet", "idle")
  /\ penaltyAge' = [penaltyAge EXCEPT ![ProcessOf[t]] = 0]
  /\ UNCHANGED <<valkey, paceLock, sinceFire, sleep, d, n>>

\* The last write, after which the process remembers the penalty as well.
PenWriteStreak(t) ==
  /\ Goto(t, "penStreakSet", "idle")
  /\ streak' \in Reads(0, streak)
  /\ penaltyAge' = [penaltyAge EXCEPT ![ProcessOf[t]] = 0]
  /\ UNCHANGED <<delay, ssthresh, since403, sinceRequest,
                 paceLock, sinceFire, sleep, d, n>>

-----------------------------------------------------------------------------
Older(age, limit) == AtMost(age + 1, limit)

\* Time passes: every age grows, every sleep shrinks.
Tick ==
  /\ since403' = Older(since403, PenaltyDuration)
  /\ sinceRequest' = Older(sinceRequest, MaxDelay)
  /\ penaltyAge' = [p \in Process |-> Older(penaltyAge[p], PenaltyDuration)]
  /\ sinceFire' = [p \in Process |-> Older(sinceFire[p], MaxDelay)]
  /\ sleep' = [t \in Task |-> IF sleep[t] = 0 THEN 0 ELSE sleep[t] - 1]
  /\ UNCHANGED <<delay, ssthresh, streak, paceLock, pc, d, n>>

Valkey(t) ==
  \/ AdmissionCheck(t) \/ ReadDelay(t) \/ ReadLastRequest(t) \/ Fire(t)
  \/ WriteLastRequest(t)
  \/ ResetStreak(t)
  \/ OkCheck(t) \/ OkReadStreak(t) \/ OkReadDelay(t) \/ OkReadSsthresh(t)
  \/ OkWriteStreak(t) \/ OkWriteDelay(t)
  \/ PenReadDelay(t) \/ PenWriteDelay(t) \/ PenWriteSsthresh(t) \/ PenWrite403(t)
  \/ PenWriteStreak(t)
Answer(t) == Got200(t) \/ Got403(t) \/ GotOther(t) \/ TransportError(t)

\* A request may always begin, or, where none overlap, when there is no other.
Turn == overlap \/ \A t \in Task : pc[t] = "idle"

Next ==
  /\ \/ Tick
     \/ \E t \in Task : (Turn /\ Begin(t)) \/ AcquirePace(t) \/ Valkey(t) \/ Answer(t)
  /\ UNCHANGED setting

\* Time passes, Valkey and Blizzard answer (the HTTP client has a timeout), and
\* asyncio.Lock serves its waiters in order, so a waiting task gets its turn.
Fairness ==
  /\ WF_vars(Tick)
  /\ \A t \in Task : WF_vars(Valkey(t)) /\ WF_vars(Answer(t)) /\ SF_vars(AcquirePace(t))

Spec == Init /\ [][Next]_<<vars, setting>>
FairSpec == Spec /\ Fairness

-----------------------------------------------------------------------------
(* Properties *)

\* Where Valkey answers, the turns of two requests of one process are at least the
\* delay apart that the later one read under the pace lock.
PacedPerProcess == \A t \in Task :
  ~flaky /\ pc[t] = "sleep" /\ sleep[t] = 0 => sinceFire[ProcessOf[t]] >= d[t]

\* Every request ends: nobody waits for ever on the pace lock, on the sleep or on
\* a penalty, whichever reads come back as their defaults and whichever writes are lost.
RequestSettles == \A t \in Task : pc[t] # "idle" ~> pc[t] = "idle"

\* Where requests do not overlap and Valkey answers, the delay never shrinks during a
\* penalty.
NoRecoveryAlone == [][~overlap /\ ~flaky /\ since403 < PenaltyDuration => delay' >= delay]_vars

\* Where requests do not overlap and Valkey answers: once Blizzard answers nothing but
\* 200 the delay comes back to its minimum.
Recovers ==
  /\ ~overlap /\ ~flaky
  /\ <>[][\A t \in Task : ~(Got403(t) \/ GotOther(t))]_vars
  /\ []<><<\E t \in Task : OkReadStreak(t)>>_vars
  => <>[](delay = MinDelay)

\* Where requests do not overlap and Valkey answers, the awaits add up to the
\* controller's atomic steps: a 200 takes effect when its streak is written, a 403 when its delay is.
\* Nothing is claimed, and the controller stands still, where that is not so.
Atomic == ~overlap /\ ~flaky
Writing(place) == \E t \in Task : pc[t] = place
Writer(place) == CHOOSE t \in Task : pc[t] = place

DuringPenalty == Writing("penSsthreshSet") \/ Writing("pen403Set") \/ Writing("penStreakSet")

SeenDelay ==
  IF ~Atomic THEN StartDelay
  ELSE IF Writing("okDelaySet") THEN d[Writer("okDelaySet")] ELSE delay
SeenSsthresh ==
  IF ~Atomic THEN MinDelay
  ELSE IF Writing("penSsthreshSet") THEN PenaltySsthreshFrom(d[Writer("penSsthreshSet")])
  ELSE ssthresh
SeenStreak == IF ~Atomic \/ DuringPenalty THEN 0 ELSE streak

OneAtATime == INSTANCE ThrottleController WITH
  delay <- SeenDelay, ssthresh <- SeenSsthresh, streak <- SeenStreak
ImplementsController == OneAtATime!Spec

(* A property the code does not have. *)

\* During a penalty the delay never shrinks (recovery is blocked), says the
\* configuration.  An answer 200 that is being counted while another request gets
\* its 403 writes over the delay of the penalty, also where Valkey answers.
NoRecoveryInPenalty == [][~flaky /\ since403 < PenaltyDuration => delay' >= delay]_vars
=============================================================================
