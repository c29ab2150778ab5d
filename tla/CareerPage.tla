----------------------------- MODULE CareerPage -----------------------------
(***************************************************************************)
(* The parser of a Blizzard career page: app/domain/parsers/               *)
(* player_profile.py with the helpers of player_helpers.py.                *)
(*                                                                         *)
(* A page is a record of what the parser looks for in it: the language it  *)
(* declares, the masthead with title, endorsement and rank wrappers, and   *)
(* per platform and gamemode the section with the comparison blocks and    *)
(* the career containers.                                                  *)
(***************************************************************************)
EXTENDS ParserBasics

CONSTANTS
  Hero,             \* HeroKey: the heroes of heroes.csv
  KnownComparison,  \* CareerHeroesComparisonsCategory
  CategoryId,       \* CAREER_COMPARISON_CATEGORY_IDS, Blizzard's id -> our key
  StatCategory,     \* CareerStatCategory
  Localized,        \* category label in another language -> English
  PluralCategory,   \* comparison category named in the singular -> in the plural
  PluralStat        \* statistic named in the singular -> in the plural

Platform == <<"pc", "console">>
Gamemode == {"quickplay", "competitive"}
Role == {"tank", "damage", "support", "open"}
Division == {"bronze", "diamond", "champion"}

\* None is no platform and no gamemode, and what is plural stays so.
ASSUME KeysAssumption ==
  /\ None \notin Range(Platform) \cup Gamemode
  /\ \A key \in DOMAIN PluralStat : Renamed(PluralStat, PluralStat[key]) = PluralStat[key]

-----------------------------------------------------------------------------
(* Numbers: h:m:s and m:s in seconds, the sign being the first part's only; *)
(* "--" and "NaN" are 0; any other text comes back as it is, None here.     *)

ComputedStatValue(cell) ==
  CASE cell.form = "hours" -> 3600 * cell.parts[1] + 60 * cell.parts[2] + cell.parts[3]
    [] cell.form = "minutes" -> 60 * cell.parts[1] + cell.parts[2]
    [] cell.form = "number" -> cell.number
    [] cell.form = "nothing" -> 0
    [] cell.form = "text" -> None

Unreadable(cell) == cell = Missing \/ ComputedStatValue(cell) = None

-----------------------------------------------------------------------------
(* The summary *)

\* "no title" and the empty title are none.
PlayerTitle(title) == IF title \in {"", "no title"} THEN None ELSE title

\* The old icon of the damage role is named "offense"; a role added since is None.
RoleOf(icon) ==
  IF icon = "offense" THEN "damage" ELSE IF icon \in Role THEN icon ELSE None

\* Mutated form of Ranked: any wrapper is a rank.
RankedAnyway(wrapper) == TRUE

\* An unknown division, or a tier that cannot be read (0), leaves the role unranked.
Ranked(wrapper) == wrapper.division \in Division /\ wrapper.tier # 0

Ranks(wrappers) ==
  [r \in Role |->
    LET ranked == {i \in DOMAIN wrappers : RoleOf(wrappers[i].role) = r /\ Ranked(wrappers[i])}
    IN IF ranked = {} THEN None
       ELSE [division |-> wrappers[Max(ranked)].division, tier |-> wrappers[Max(ranked)].tier]]

\* A wrapper without its role, or of a known role without both its icons, is an error.
WrapperBroken(w) == w.role = Missing \/ (RoleOf(w.role) # None /\ w.icons < 2)

LastSeasonPlayed(page, p) ==
  IF page.views[p] = Missing \/ page.views[p].competitive = Missing THEN None
  ELSE page.views[p].competitive.season

PlatformRanks(page, p) ==
  IF page.ranks[p] = <<>> /\ LastSeasonPlayed(page, p) \in {None, 0} THEN None
  ELSE [roles |-> Ranks(page.ranks[p]), season |-> LastSeasonPlayed(page, p)]

CompetitiveRanks(page) ==
  LET ranks == [p \in Range(Platform) |-> PlatformRanks(page, p)]
  IN IF \A p \in DOMAIN ranks : ranks[p] = None THEN None ELSE ranks

\* The level is read off the name of the frame, 0 when there is no number in it.
Endorsement(page) ==
  IF page.endorsement = None THEN None
  ELSE [level |-> IF page.endorsement.frame \in Nat THEN page.endorsement.frame ELSE 0,
        frame |-> page.endorsement.frame]

\* What the search knows of the player goes before what the page says.
Summary(page, search) ==
  [title |-> PlayerTitle(Either(search.title, page.title)),
   endorsement |-> Endorsement(page),
   competitive |-> CompetitiveRanks(page),
   lastUpdated |-> Either(search.updated, page.updated)]

SummaryBroken(page) ==
  \/ page.player = Missing \/ page.endorsement = Missing
  \/ \E p \in DOMAIN page.ranks : \E i \in DOMAIN page.ranks[p] :
       WrapperBroken(page.ranks[p][i])

-----------------------------------------------------------------------------
(* Comparisons: {category: {hero: value}} of one platform and gamemode *)

\* A bar without the id of its hero falls back to the displayed name.
HeroOf(bar) == IF bar.id # None THEN bar.id ELSE bar.title

\* Mutated form of ComparableBars: the name is taken as it comes.
ComparableBarsUnnamed(bars) ==
  {i \in DOMAIN bars : ~Unreadable(bars[i].amount)}

\* The rows the response can represent; the others are skipped.
ComparableBars(bars) ==
  {i \in DOMAIN bars : HeroOf(bars[i]) \in Hero /\ ~Unreadable(bars[i].amount)}

HeroComparisonEntries(bars) ==
  LET rows == Picked(bars, ComparableBars(bars))
  IN [i \in DOMAIN rows |->
       [hero |-> HeroOf(rows[i]), value |-> ComputedStatValue(rows[i].amount)]]

\* get_real_category_name
RealCategoryName(label) == Renamed(PluralCategory, label)

\* The id decides, so that a reworded label does not move a category.
CategoryKey(block) ==
  IF block.id \in DOMAIN CategoryId THEN CategoryId[block.id]
  ELSE RealCategoryName(block.label)

\* A block whose id is not in the dropdown has no label and is left out; a known
\* category without a value is None.
HeroesComparisons(section) ==
  LET shown == {i \in DOMAIN section.blocks : section.blocks[i].label # None}
      parsed == Dict(section.blocks, shown, CategoryKey,
                  LAMBDA b : HeroComparisonEntries(b.bars))
  IN [c \in DOMAIN parsed \cup KnownComparison |->
       IF c \notin DOMAIN parsed \/ (c \in KnownComparison /\ parsed[c] = <<>>)
       THEN None ELSE parsed[c]]

-----------------------------------------------------------------------------
(* Career statistics: {hero: [{category, stats}]} of one platform and gamemode *)

\* get_plural_stat_key
PluralStatKey(key) == Renamed(PluralStat, key)

StatRows(rows) ==
  LET readable == Picked(rows, {i \in DOMAIN rows : ~Unreadable(rows[i].cell)})
  IN [i \in DOMAIN readable |->
       [key |-> PluralStatKey(readable[i].label),
        value |-> ComputedStatValue(readable[i].cell)]]

\* normalize_career_stat_category_name
NormalizedCategory(label) == Renamed(Localized, label)

\* The label in English; None for a card without header and for a category that
\* the response cannot name.
CareerStatCategory(card) ==
  LET category == NormalizedCategory(card.label)
  IN IF card.label # Missing /\ category \in StatCategory THEN category ELSE None

Cards(container) ==
  LET cards == container.cards
      named == Picked(cards, {i \in DOMAIN cards : CareerStatCategory(cards[i]) # None})
  IN [i \in DOMAIN named |->
       [category |-> CareerStatCategory(named[i]), stats |-> StatRows(named[i].rows)]]

\* A container whose option has no label is of nobody knows whom; a hero without
\* a card is as if not played.
CareerStats(section) ==
  LET shown == {i \in DOMAIN section.containers : section.containers[i].hero # None}
      parsed == Dict(section.containers, shown, LAMBDA c : c.hero, Cards)
  IN [h \in {h \in DOMAIN parsed : parsed[h] # <<>>} |-> parsed[h]]

-----------------------------------------------------------------------------
(* The profile *)

\* No select in the section: the gamemode has no data.
GamemodeStats(view, g) ==
  IF view = Missing \/ view[g] = Missing \/ ~view[g].select THEN None
  ELSE [heroes_comparisons |-> HeroesComparisons(view[g]),
        career_stats |-> CareerStats(view[g])]

PlatformStats(page, p) ==
  LET stats == [g \in Gamemode |-> GamemodeStats(page.views[p], g)]
  IN IF \A g \in Gamemode : stats[g] = None THEN None ELSE stats

Stats(page) ==
  LET stats == [p \in Range(Platform) |-> PlatformStats(page, p)]
  IN IF \A p \in DOMAIN stats : stats[p] = None THEN None ELSE stats

\* A section with its dropdown but without its career part is an error.
StatsBroken(page) ==
  \E p \in Range(Platform), g \in Gamemode :
    /\ page.views[p] # Missing /\ page.views[p][g] # Missing
    /\ page.views[p][g].select /\ page.views[p][g].containers = Missing

IsEnglish(page) == page.lang \in {None, "en"}

\* parse_player_profile_html
ParseProfile(page, search) ==
  IF ~page.masthead THEN Failure(404)
  ELSE IF SummaryBroken(page) \/ StatsBroken(page) THEN Failure(500)
  ELSE [status |-> 200, summary |-> Summary(page, search), stats |-> Stats(page)]

\* fetch_player_html, of an answer of Blizzard that is a page: a localised page is
\* refused before anything parses or stores it.
FetchProfile(page, search) ==
  IF ~IsEnglish(page) THEN Failure(502) ELSE ParseProfile(page, search)

-----------------------------------------------------------------------------
(* The filters of the stats routes *)

\* filter_stats_by_query: without a platform, the first that has data.
StatsByQuery(stats, g, platform, hero) ==
  LET filled == {i \in DOMAIN Platform : stats # None /\ stats[Platform[i]] # None}
      p == IF platform # None THEN platform
           ELSE IF filled = {} THEN None ELSE Platform[Min(filled)]
  IN IF stats = None \/ p = None THEN <<>>
     ELSE IF stats[p] = None THEN <<>>
     ELSE IF stats[p][g] = None THEN <<>>
     ELSE LET career == stats[p][g].career_stats
          IN [h \in {h \in DOMAIN career : hero \in {None, h}} |-> career[h]]

\* filter_all_stats_data: what does not match becomes None, the keys stay.
AllStats(stats, platform, g) ==
  IF stats = None THEN None
  ELSE [p \in Range(Platform) |->
         IF platform \notin {None, p} \/ stats[p] = None THEN None
         ELSE [m \in Gamemode |-> IF g \in {None, m} THEN stats[p][m] ELSE None]]
=============================================================================
