----------------------------- MODULE MCThrottle -----------------------------
(* Finite instances of Throttle: tasks a1, a2 in the API process, w1 in the     *)
(* worker.  Delays and durations keep the order of the configured ones: minimum *)
(* < start < penalty < maximum, and a penalty that outlasts a paced request.    *)
EXTENDS Throttle, TLC

CONSTANTS app, worker, a1, a2, w1

MCProcess == {app, worker}
MCSymmetry == Permutations({a1, a2})
\* Requests that overlap, and a Valkey that fails, each without the other.
MCSettings == {s \in [overlap : BOOLEAN, flaky : BOOLEAN] : ~(s.overlap /\ s.flaky)}
MCSteady == {[overlap |-> TRUE, flaky |-> FALSE]}
MCProcessOf == [t \in Task |-> IF t = w1 THEN worker ELSE app]
=============================================================================
