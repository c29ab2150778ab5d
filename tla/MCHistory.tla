----------------------------- MODULE MCHistory -----------------------------
(* One player, two heroes, a season's end; a device that watches the player by *)
(* id or by BattleTag.                                                       *)
EXTENDS History

MCRegistration == {[players |-> {"id"}, recap |-> "id", zone |-> 0],
                   [players |-> {"tag", "id"}, recap |-> None, zone |-> 1]}
MCGame == {[section |-> "quickplay", hero |-> "mei", won |-> TRUE],
           [section |-> "competitive", hero |-> "ana", won |-> FALSE]}
MCDivisionOrder == <<"silver", "gold">>
MCPatchEntries == {<<[hero |-> "mei", details |-> TRUE], [hero |-> None, details |-> TRUE]>>,
                   <<[hero |-> "ana", details |-> TRUE], [hero |-> "mei", details |-> FALSE]>>}
=============================================================================
