------------------------- MODULE ThrottleArithmetic -------------------------
(***************************************************************************)
(* The numbers BlizzardThrottle computes with (throttle.py, config.py):    *)
(* what a 403 makes of the delay and the slow-start threshold, and what a  *)
(* 200 makes of the delay and the streak of successes.  ThrottleController *)
(* and Throttle say in which steps, and around which awaits, it is done.   *)
(* Delays are in ticks; a halved delay is rounded down to one.             *)
(***************************************************************************)
EXTENDS Naturals

CONSTANTS
  MinDelay, StartDelay, PenaltyDelay, MaxDelay,  \* throttle_*_delay, in ticks
  AimdDelta,                                     \* throttle_aimd_delta, in ticks
  SlowStartN, AimdN                              \* throttle_*_n_successes

ASSUME ControllerAssumption ==
  /\ MinDelay \in Nat /\ StartDelay \in Nat /\ PenaltyDelay \in Nat /\ MaxDelay \in Nat
  /\ 0 < MinDelay /\ MinDelay <= StartDelay /\ StartDelay <= MaxDelay
  /\ MinDelay <= PenaltyDelay /\ PenaltyDelay <= MaxDelay
  /\ AimdDelta \in Nat /\ SlowStartN \in Nat \ {0} /\ AimdN \in Nat \ {0}

Delays == MinDelay..MaxDelay

AtMost(x, y) == IF x <= y THEN x ELSE y
AtLeast(x, y) == IF x >= y THEN x ELSE y

\* Mutated form of PenaltyDelayFrom: the doubled delay is not capped.
PenaltyDelayUncapped(d) == AtLeast(2 * d, PenaltyDelay)

\* After a 403 seen at delay d.
PenaltyDelayFrom(d) == AtMost(AtLeast(2 * d, PenaltyDelay), MaxDelay)
PenaltySsthreshFrom(d) == AtMost(2 * d, MaxDelay)

\* After the n-th 200 in a row, at delay d and slow-start threshold ss: the delay
\* moves, and the streak starts again, when n reaches what the phase asks for.
StreakNeeded(d, ss) == IF d > ss THEN SlowStartN ELSE AimdN
StreakAfter(n, d, ss) == IF n >= StreakNeeded(d, ss) THEN 0 ELSE n
DelayAfter(n, d, ss) ==
  IF n < StreakNeeded(d, ss) THEN d
  ELSE IF d > ss THEN AtLeast(MinDelay, d \div 2)
  ELSE IF d <= AimdDelta THEN MinDelay ELSE AtLeast(MinDelay, d - AimdDelta)
=============================================================================
