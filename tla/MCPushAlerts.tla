---------------------------- MODULE MCPushAlerts ----------------------------
(* Finite instances of PushAlerts: one player, with or without a BattleTag. *)
EXTENDS PushAlerts, TLC

MCOwner == [t \in Tag |-> CHOOSE p \in Player : TRUE]
=============================================================================
