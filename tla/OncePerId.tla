----------------------------- MODULE OncePerId -----------------------------
(***************************************************************************)
(* What keeps the service from doing the same work twice at once for one   *)
(* id: the lock per player within the API process, and the claim per job   *)
(* between the processes.  They do not interact, so a behaviour looks at   *)
(* one of them.                                                            *)
(***************************************************************************)
EXTENDS SingleFlight, TaskQueue

VARIABLE subject
onceVars == <<vars, queueVars, subject>>

OnceInit == Init /\ QueueInit /\ subject \in {"requests", "jobs"}

OnceNext ==
  /\ UNCHANGED subject
  /\ \/ subject = "requests" /\ Next /\ UNCHANGED queueVars
     \/ subject = "jobs" /\ QueueNext /\ UNCHANGED vars

OnceFairness ==
  \/ subject = "requests" /\ Fairness
  \/ subject = "jobs" /\ QueueFairness

OnceSpec == OnceInit /\ [][OnceNext]_onceVars /\ OnceFairness
=============================================================================
