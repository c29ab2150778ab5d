----------------------------- MODULE MCPages ------------------------------
(* A career of two heroes and a few rows of each kind: genuine ones, ones with *)
(* a hero, category, role or division the API does not know, unreadable ones *)
(* and broken ones.                                                          *)
EXTENDS Pages

MCHero == {"ana", "mei"}
MCRoleOfHero == [ana |-> "support", mei |-> "damage"]
MCHeroRole == {"tank", "damage", "support"}
MCComparison == {"time_played", "games_won", "win_percentage"}
MCCategoryId == ("0x21" :> "time_played") @@ ("0x39" :> "games_won")
MCStatCategory == {"game", "combat"}
MCLocalized == [spiel |-> "game"]
MCPluralCategory == [game_won |-> "games_won"]
MCPluralStat == [game_played |-> "games_played", game_won |-> "games_won"]

MCBlock == {[id |-> "0x39", label |-> "games_won", bars |-> <<>>],
            [id |-> "0x99", label |-> "game_won", bars |-> <<>>],
            [id |-> "0x42", label |-> None, bars |-> <<>>]}

Number(n) == [form |-> "number", number |-> n]
Minutes(m, s) == [form |-> "minutes", parts |-> <<m, s>>]
Hours(h, m, s) == [form |-> "hours", parts |-> <<h, m, s>>]
Text == [form |-> "text"]
MCRow == {[label |-> "game_played", cell |-> Number(3)],
          [label |-> "games_lost", cell |-> Number(-1)],
          [label |-> "games_lost", cell |-> Number(1)],
          [label |-> "time_played", cell |-> Minutes(1, 5)],
          [label |-> "time_played", cell |-> Text]}
MCStatCard == {[label |-> "game", rows |-> <<[label |-> "time_played", cell |-> Hours(0, 1, 7)]>>],
           [label |-> "combat", rows |-> <<[label |-> "eliminations", cell |-> Number(2)]>>],
           [label |-> "game", rows |-> <<[label |-> "time_played", cell |-> Text]>>],
           [label |-> "newmode", rows |-> <<[label |-> "time_played", cell |-> Number(2)]>>],
           [label |-> Missing, rows |-> <<>>]}
MCBar == {[id |-> "ana", title |-> "ana", amount |-> Minutes(2, 0)],
          [id |-> None, title |-> "wrecking ball", amount |-> Number(1)],
          [id |-> "ana", title |-> "ana", amount |-> Text]}
MCWrapper == {[role |-> "tank", division |-> "diamond", tier |-> 3, icons |-> 2],
              [role |-> "offense", division |-> "bronze", tier |-> 5, icons |-> 2],
              [role |-> "captain", division |-> "bronze", tier |-> 5, icons |-> 2],
              [role |-> "tank", division |-> "emerald", tier |-> 1, icons |-> 2],
              [role |-> "tank", division |-> "diamond", tier |-> 0, icons |-> 2],
              [role |-> Missing, division |-> "diamond", tier |-> 3, icons |-> 2]}
MCHeroOrder == <<"ana", "mei", "zed">>
\* The name of mei in French is the English name of ana.
MCNameIn == [en |-> [ana |-> "ana", mei |-> "mei", zed |-> "zed"],
             fr |-> [ana |-> "anne", mei |-> "ana", zed |-> "mei"]]
MCEntry == {[kind |-> "hero", name |-> "ana", details |-> TRUE],
            [kind |-> "hero", name |-> "mei", details |-> TRUE],
            [kind |-> "hero", name |-> "zed", details |-> FALSE],
            [kind |-> "map", name |-> None, details |-> TRUE]}
MCVideo == {[group |-> 0, complete |-> FALSE], [group |-> 0, complete |-> TRUE],
            [group |-> 1, complete |-> TRUE], [group |-> None, complete |-> TRUE]}
MCPlayer == {[id |-> 1, name |-> "ana", cased |-> FALSE, public |-> TRUE, updated |-> 2],
             [id |-> 2, name |-> "ana", cased |-> TRUE, public |-> TRUE, updated |-> 1],
             [id |-> 3, name |-> "ana", cased |-> FALSE, public |-> TRUE, updated |-> 3],
             [id |-> 4, name |-> "ana", cased |-> TRUE, public |-> FALSE, updated |-> 1],
             [id |-> 5, name |-> "anais", cased |-> FALSE, public |-> TRUE, updated |-> 2]}
MCFrame == {0, 3, Missing}
=============================================================================
