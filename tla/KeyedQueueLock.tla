--------------------------- MODULE KeyedQueueLock ---------------------------
(***************************************************************************)
(* What single_flight promises its callers, without its dictionaries:      *)
(* for each key the callers stand in one line, in the order they called,   *)
(* only a caller with nobody in front may go inside, and a line moves as   *)
(* long as its first caller stays.  A caller that is cancelled leaves the  *)
(* line from any place in it.                                              *)
(***************************************************************************)
CONSTANTS Proc,   \* coroutines that call single_flight
          Key     \* keys they call it with

VARIABLES line,   \* line[k]: the callers of k that stand in its line
          ahead,  \* ahead[p]: those that came before p and still stand in its line
          inside  \* the callers running the guarded body

vars == <<line, ahead, inside>>

InLine(p) == \E k \in Key : p \in line[k]

Init == /\ line = [k \in Key |-> {}]
        /\ ahead = [p \in Proc |-> {}]
        /\ inside = {}

\* A call joins the end of the line; into an empty line it may walk straight in.
Join(p, k) ==
  /\ ~InLine(p)
  /\ line' = [line EXCEPT ![k] = @ \cup {p}]
  /\ ahead' = [ahead EXCEPT ![p] = line[k]]
  /\ \/ inside' = inside
     \/ line[k] = {} /\ inside' = inside \cup {p}

Admit(p, k) ==
  /\ p \in line[k] /\ ahead[p] = {}
  /\ p \notin inside
  /\ inside' = inside \cup {p}
  /\ UNCHANGED <<line, ahead>>

StepOut(p, k) ==
  /\ p \in line[k]
  /\ line' = [line EXCEPT ![k] = @ \ {p}]
  /\ ahead' = [q \in Proc |-> IF q = p THEN {} ELSE ahead[q] \ {p}]

GiveUp(p, k) == p \notin inside /\ StepOut(p, k) /\ UNCHANGED inside

Exit(p, k) == p \in inside /\ StepOut(p, k) /\ inside' = inside \ {p}

Next == \E p \in Proc, k \in Key : Join(p, k) \/ Admit(p, k) \/ GiveUp(p, k) \/ Exit(p, k)

\* Whoever stays first is admitted.  Fairness for the line as a whole would ask too
\* much: a line of callers that are all cancelled in turn admits nobody.
Fairness == \A p \in Proc, k \in Key : WF_vars(Exit(p, k)) /\ WF_vars(Admit(p, k))

Moves == Init /\ [][Next]_vars
Spec == Moves /\ Fairness
=============================================================================
