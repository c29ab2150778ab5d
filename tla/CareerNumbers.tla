--------------------------- MODULE CareerNumbers ---------------------------
(***************************************************************************)
(* What the API computes from a parsed career: the totals of               *)
(* /stats/summary (parsers/player_stats.py), the tables of /stats/career   *)
(* (parsers/player_career_stats.py) and the payload of a stored snapshot   *)
(* (build_player_snapshot of parsers/player_snapshot.py).                  *)
(*                                                                         *)
(* Ratios stay fractions: winrate and KDA are their numerators and         *)
(* denominators, and rounding to two places is left out.  Of the five      *)
(* combat totals, eliminations and deaths stand for all.                   *)
(***************************************************************************)
EXTENDS CareerPage

CONSTANTS
  RoleOfHero,  \* get_hero_role, from heroes.csv
  HeroRole     \* Role: tank, damage, support

\* heroes.csv has finitely many heroes and a role for each.
ASSUME HeroAssumption ==
  IsFiniteSet(Hero) /\ IsFiniteSet(HeroRole) /\ RoleOfHero \in [Hero -> HeroRole]

Totals == {"games_played", "games_won", "games_lost", "time_played",
           "eliminations", "deaths"}

\* The totals of a table of totals, added up.
SumTotals(table) == [t \in Totals |-> SumFunction([k \in DOMAIN table |-> table[k][t]])]

-----------------------------------------------------------------------------
(* One hero in one platform and gamemode *)

\* The first category of that name, and in it the first stat of that key; else 0.
StatValue(groups, category, key) ==
  LET group == {i \in DOMAIN groups : groups[i].category = category}
      stats == IF group = {} THEN <<>> ELSE groups[Min(group)].stats
      stat == {i \in DOMAIN stats : PluralStatKey(stats[i].key) = key}
  IN IF stat = {} THEN 0 ELSE stats[Min(stat)].value

\* Python's round: a half goes to the even side.
RoundedHalf(n) ==
  LET half == n \div 2 IN IF n % 2 = 0 THEN half ELSE half + (half % 2)

\* Mutated form of GamesLost: what the page says.
GamesLostUnchecked(played, lost) == lost

\* Blizzard sometimes shows a negative number of lost games: then half of them.
GamesLost(played, lost) == IF lost < 0 THEN RoundedHalf(played) ELSE lost

HeroTotals(groups) ==
  LET played == StatValue(groups, "game", "games_played")
      lost == GamesLost(played, StatValue(groups, "game", "games_lost"))
  IN [games_played |-> played,
      games_lost |-> lost,
      games_won |-> IF played < lost THEN 0 ELSE played - lost,
      time_played |-> StatValue(groups, "game", "time_played"),
      eliminations |-> StatValue(groups, "combat", "eliminations"),
      deaths |-> StatValue(groups, "combat", "deaths")]

-----------------------------------------------------------------------------
(* /stats/summary *)

Played(table) == [k \in {k \in DOMAIN table : table[k].time_played > 0} |-> table[k]]

\* The heroes with statistics anywhere; one that is not in heroes.csv is skipped.
KnownHeroes(stats) ==
  {h \in Hero : \E p \in DOMAIN stats : stats[p] # None /\
     \E g \in Gamemode : stats[p][g] # None /\ h \in DOMAIN stats[p][g].career_stats}

\* Mutated form of Sections: the gamemode is not looked at.
SectionsOfAllModes(stats, g, platform) ==
  {s \in (DOMAIN stats) \X Gamemode :
     platform \in {None, s[1]} /\ stats[s[1]] # None /\ stats[s[1]][s[2]] # None}

\* The platforms and gamemodes the filters leave.
Sections(stats, g, platform) ==
  {s \in (DOMAIN stats) \X Gamemode :
     /\ platform \in {None, s[1]} /\ g \in {None, s[2]}
     /\ stats[s[1]] # None /\ stats[s[1]][s[2]] # None}

\* compute_heroes_data; a hero without time there is left out.
HeroesData(stats, g, platform) ==
  LET careerOf(s) == stats[s[1]][s[2]].career_stats
  IN Played([h \in KnownHeroes(stats) |->
       SumTotals([s \in {s \in Sections(stats, g, platform) : h \in DOMAIN careerOf(s)}
                  |-> HeroTotals(careerOf(s)[h])])])

RolesStats(heroes) ==
  Played([r \in HeroRole |->
    SumTotals([h \in {h \in DOMAIN heroes : RoleOfHero[h] = r} |-> heroes[h]])])

GeneralStats(roles) == SumTotals(roles)

\* The fractions the response shows, <<numerator, denominator>>; 0 for no games, no
\* death, no time.
Winrate(t) ==
  IF t.games_played <= 0 THEN <<0, 1>> ELSE <<t.games_won, t.games_played>>
Kda(t) == IF t.deaths <= 0 THEN <<0, 1>> ELSE <<t.eliminations, t.deaths>>
Average(t, total) ==
  IF t.time_played <= 0 THEN <<0, 1>> ELSE <<600 * t[total], t.time_played>>

\* process_player_stats_summary; None stands for its empty answer.
StatsSummary(profile, g, platform) ==
  LET heroes == IF profile.stats = None THEN <<>>
                ELSE HeroesData(profile.stats, g, platform)
  IN IF DOMAIN heroes = {} THEN None
     ELSE [heroes |-> heroes, roles |-> RolesStats(heroes),
           general |-> GeneralStats(RolesStats(heroes))]

-----------------------------------------------------------------------------
(* /stats/career: {hero: {category: {key: value}}}, of repeated keys the last *)

CareerTable(groups) ==
  Dict(groups, DOMAIN groups, LAMBDA c : c.category,
    LAMBDA c : Dict(c.stats, DOMAIN c.stats, LAMBDA s : s.key, LAMBDA s : s.value))

ProcessCareerStats(profile, g, platform, hero) ==
  LET career == StatsByQuery(profile.stats, g, platform, hero)
  IN [h \in DOMAIN career |-> CareerTable(career[h])]

-----------------------------------------------------------------------------
(* build_player_snapshot *)

SnapshotCategories == {"time_played", "games_won", "win_percentage"}

\* A table without the keys that have nothing.
Filled(table, nothing) ==
  [k \in {k \in DOMAIN table : table[k] # nothing} |-> table[k]]

SnapshotCompetitive(competitive) ==
  IF competitive = None THEN <<>>
  ELSE Filled([p \in DOMAIN competitive |->
         IF competitive[p] = None THEN <<>> ELSE Filled(competitive[p].roles, None)], <<>>)

SnapshotSeasons(competitive) ==
  IF competitive = None THEN <<>>
  ELSE Filled([p \in DOMAIN competitive |->
         IF competitive[p] = None THEN None ELSE competitive[p].season], None)

\* {category: [hero, value]} turned into {hero: {category: value}}.
SnapshotOfGamemode(comparisons) ==
  LET kept == {c \in SnapshotCategories : comparisons[c] # None}
      rows(c) == Dict(comparisons[c], DOMAIN comparisons[c],
                   LAMBDA r : r.hero, LAMBDA r : r.value)
  IN [h \in UNION {DOMAIN rows(c) : c \in kept} |->
       [c \in {c \in kept : h \in DOMAIN rows(c)} |-> rows(c)[h]]]

SnapshotHeroes(stats) ==
  IF stats = None THEN <<>>
  ELSE Filled([p \in DOMAIN stats |->
         IF stats[p] = None THEN <<>>
         ELSE Filled([g \in Gamemode |->
                IF stats[p][g] = None THEN <<>>
                ELSE SnapshotOfGamemode(stats[p][g].heroes_comparisons)], <<>>)], <<>>)

SnapshotGeneral(profile) ==
  Filled([p \in Range(Platform) |->
    LET of(g) == StatsSummary(profile, g, p)
    IN [g \in {g \in Gamemode : of(g) # None} |-> of(g).general]], <<>>)

\* None for a private profile: neither ranks nor compared heroes.
BuildSnapshot(profile) ==
  LET competitive == SnapshotCompetitive(profile.summary.competitive)
      heroes == SnapshotHeroes(profile.stats)
  IN IF competitive = <<>> /\ heroes = <<>> THEN None
     ELSE [endorsement |-> IF profile.summary.endorsement = None THEN None
                           ELSE profile.summary.endorsement.level,
           competitive |-> competitive,
           seasons |-> SnapshotSeasons(profile.summary.competitive),
           heroes |-> heroes,
           general |-> SnapshotGeneral(profile)]
=============================================================================
