------------------------- MODULE ThrottleController -------------------------
(***************************************************************************)
(* The controller BlizzardThrottle.adjust_delay promises, one answer of    *)
(* Blizzard at a time: slow start and AIMD on 200, back-off on 403, a      *)
(* broken streak on anything else.                                         *)
(***************************************************************************)
EXTENDS ThrottleArithmetic

VARIABLES delay, ssthresh, streak

vars == <<delay, ssthresh, streak>>

Init == delay = StartDelay /\ ssthresh = MinDelay /\ streak = 0

Success ==
  /\ streak' = StreakAfter(streak + 1, delay, ssthresh)
  /\ delay' = DelayAfter(streak + 1, delay, ssthresh)
  /\ UNCHANGED ssthresh

Forbidden ==
  /\ delay' = PenaltyDelayFrom(delay)
  /\ ssthresh' = PenaltySsthreshFrom(delay)
  /\ streak' = 0

OtherStatus == streak' = 0 /\ UNCHANGED <<delay, ssthresh>>

Next == Success \/ Forbidden \/ OtherStatus

Spec == Init /\ [][Next]_vars
=============================================================================
