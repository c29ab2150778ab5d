------------------------------ MODULE JobSlots ------------------------------
(***************************************************************************)
(* What TaskQueuePort (app/domain/ports/task_queue.py) promises for each   *)
(* job id: a job that is pending or running is not enqueued again, and one *)
(* whose message was lost blocks its id only until its key expires.  A job *)
(* whose key expires while it is pending or running is overdue, and the    *)
(* port's promise is off.                                                  *)
(***************************************************************************)
CONSTANT Job

VARIABLE slot  \* "free", "pending", "running", "blocked" by a lost message, or "overdue"

Move(j, from, to) == slot[j] \in from /\ slot' = [slot EXCEPT ![j] = to]

Enqueue(j) == Move(j, {"free"}, "pending")
Begin(j) == Move(j, {"pending"}, "running")
End(j) == Move(j, {"running"}, "free")
Lose(j) == Move(j, {"free", "pending", "running"}, "blocked")
Unblock(j) == Move(j, {"blocked"}, "free")
Outlast(j) == Move(j, {"pending", "running"}, "overdue")

\* A worker that dies takes every job it had begun, and one it was about to, with it.
LoseWorker == \E J \in SUBSET Job :
  /\ \A j \in Job : slot[j] = "running" => j \in J
  /\ \A j \in J : slot[j] \in {"pending", "running"}
  /\ slot' = [j \in Job |-> IF j \in J THEN "blocked" ELSE slot[j]]

Init == slot = [j \in Job |-> "free"]
Next ==
  \/ LoseWorker
  \/ \E j \in Job : Enqueue(j) \/ Begin(j) \/ End(j) \/ Lose(j)
                     \/ Unblock(j) \/ Outlast(j)

Moves == Init /\ [][Next]_slot
Recovery == \A j \in Job : WF_slot(Unblock(j))
Spec == Moves /\ Recovery
=============================================================================
