------------------------------ MODULE History ------------------------------
(***************************************************************************)
(* A player's snapshot series and the devices alerted from it.  A          *)
(* behaviour looks at the series alone, with many games and requests, or   *)
(* at the devices too, with few games.                                     *)
(***************************************************************************)
EXTENDS DeviceAlerts

CONSTANTS MaxGames, FewGames  \* bounds

VARIABLE subject
vars == <<historyVars, deviceVars, subject>>

\* What the devices' behaviours have of the series: one game, one request at a time.
WatchedNext ==
  LET q == CHOOSE q \in Request : TRUE
  IN \/ Tick /\ at["recap"] = "idle"
     \/ Play(CHOOSE game \in Game : TRUE) \/ Fetch(q) \/ Record(q)

Init ==
  /\ HistoryInit /\ DevicesInit
  /\ \/ subject = "series" /\ left = MaxGames
     \/ subject = "devices" /\ left = FewGames

Next ==
  /\ UNCHANGED subject
  /\ \/ subject = "series" /\ HistoryNext /\ UNCHANGED deviceVars
     \/ subject = "devices" /\ WatchedNext /\ UNCHANGED deviceVars
     \/ subject = "devices" /\ DevicesNext /\ UNCHANGED historyVars

Spec == Init /\ [][Next]_vars

TypeOK ==
  /\ HistoryTypeOK
  /\ \A d \in Device : rows[d] # None => rows[d].device = d /\ rows[d].life = lives[d]
  /\ \A job \in Job : at[job] \in {"idle", "decide", "send"}
  /\ at["heroes"] # "send"
  /\ \A job \in Job : at[job] = "idle" => roster[job] = {} /\ outbox[job] = {}
  /\ chosen # None <=> at["heroes"] # "idle"
=============================================================================
