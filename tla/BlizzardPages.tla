--------------------------- MODULE BlizzardPages ---------------------------
(***************************************************************************)
(* The parsers of Blizzard's other pages: the heroes index (parsers/       *)
(* heroes.py), one hero (parsers/hero.py, merged with the index by         *)
(* services/hero_service.py), the patch notes (parsers/patch_notes.py)     *)
(* and the player search (parsers/player_search.py and                     *)
(* parsers/player_summary.py).                                             *)
(*                                                                         *)
(* "catalogue" is heroes.csv as deployed: a sequence of heroes in the      *)
(* order of their keys.  Texts, images and addresses are left out but      *)
(* where their absence decides something.                                  *)
(***************************************************************************)
EXTENDS ParserBasics

CONSTANTS
  English,   \* en-us
  NameIn     \* locale -> hero -> the name Blizzard shows, normalised

HasName(names, h, name) == h \in DOMAIN names /\ names[h] = name

\* sorted(): stable, so that a later sort keeps the order of an earlier one.
StableSort(seq, Before(_, _)) ==
  LET place == Arranged(DOMAIN seq, LAMBDA i, j :
                 Before(seq[i], seq[j]) \/ (~Before(seq[j], seq[i]) /\ i <= j))
  IN [n \in DOMAIN place |-> seq[place[n]]]

-----------------------------------------------------------------------------
(* The heroes index: cards [key, role, subrole, stadium] *)

\* A card without address is an error; one of an unknown hero is skipped.  The
\* heroes come in the order of their keys.
ParseHeroes(cards, catalogue) ==
  IF \E i \in DOMAIN cards : cards[i].key = Missing THEN Failure(500)
  ELSE LET known == Picked(cards, {i \in DOMAIN cards : cards[i].key \in Range(catalogue)})
           place(c) == CHOOSE k \in DOMAIN catalogue : catalogue[k] = c.key
       IN [status |-> 200,
           heroes |-> StableSort(known, LAMBDA c, d : place(c) < place(d))]

-----------------------------------------------------------------------------
(* One hero *)

\* The birthday is None when it cannot be read, and when it is "unknown" in the
\* language of the page, where the age may yet be known.
BirthdayAndAge(text) ==
  IF text = None THEN <<None, None>>
  ELSE <<IF text.day = "unknown" THEN None ELSE text.day, text.age>>

\* Mutated form of AbilityVideo: the videos are counted off as they come.
AbilityVideoInOrder(videos, i) ==
  LET usable == Picked(videos, {k \in DOMAIN videos : videos[k].complete})
  IN IF i + 1 \in DOMAIN usable THEN usable[i + 1] ELSE None

\* A video belongs to the ability its group numbers; an incomplete one, or one
\* without a number, belongs to none.  Of several in one group the last is kept.
AbilityVideo(videos, i) ==
  LET mine == {k \in DOMAIN videos : videos[k].complete /\ videos[k].group = i}
  IN IF mine = {} THEN None ELSE videos[Max(mine)]

\* Descriptions go with the tabs by their rank; abilities count from 0.
Abilities(page) ==
  [i \in DOMAIN page.tabs |->
    [name |-> page.tabs[i], video |-> AbilityVideo(page.videos, i - 1)]]

\* A video before a button, and a button only with its address.
StoryMedia(story) ==
  IF story.youtube THEN "video"
  ELSE IF story.button \in {Missing, None} THEN None
  ELSE IF story.button = "short-story" THEN "short-story" ELSE "comic"

Story(story) ==
  IF story = Missing THEN None
  ELSE [media |-> StoryMedia(story), chapters |-> story.titles]

\* What the parser reads by its rank is there.
HeroPageWhole(page) ==
  /\ page.overview # Missing /\ Len(page.overview.items) >= 4
  /\ Len(page.tabs) <= page.descriptions
  /\ page.perks # Missing => page.perks = "four"
  /\ page.story # Missing => Len(page.story.titles) <= page.story.contents

\* parse_hero_html: the abilities make it a hero; perks, story and stadium powers
\* may be missing.
ParseHero(page) ==
  IF page.tabs = Missing THEN Failure(404)
  ELSE IF ~HeroPageWhole(page) THEN Failure(500)
  ELSE [status |-> 200,
        role |-> page.overview.items[1],
        birthday |-> BirthdayAndAge(page.overview.items[4])[1],
        age |-> BirthdayAndAge(page.overview.items[4])[2],
        abilities |-> Abilities(page),
        perks |-> IF page.perks = Missing THEN None ELSE page.perks,
        story |-> Story(page.story)]

\* _merge_hero_data: the portrait from the index, the hitpoints from the catalogue.
MergeHero(hero, heroes, catalogue, key) ==
  LET cards == {i \in DOMAIN heroes : heroes[i].key = key}
  IN [status |-> 200,
      hero |-> hero,
      portrait |-> IF cards = {} THEN None ELSE heroes[Min(cards)],
      hitpoints |-> key \in Range(catalogue)]

\* The fetch and the parse of a hero: nothing is asked of the index, nor stored,
\* for a page that is none of a hero's.
HeroDetail(page, cards, catalogue, key) ==
  LET hero == ParseHero(page) index == ParseHeroes(cards, catalogue)
  IN IF hero.status # 200 THEN hero
     ELSE IF index.status # 200 THEN index
     ELSE MergeHero(hero, index.heroes, catalogue, key)

-----------------------------------------------------------------------------
(* Patch notes: entries [kind, name, details] *)

\* get_hero_key, by the English names of the catalogue.
EnglishHeroKey(catalogue, name) ==
  LET named == {k \in DOMAIN catalogue : HasName(NameIn[English], catalogue[k], name)}
  IN IF named = {} THEN None ELSE catalogue[Min(named)]

\* build_hero_key_index over a list of heroes in that locale.
HeroKeyIndex(heroes, locale) ==
  Dict(heroes, DOMAIN heroes, LAMBDA h : NameIn[locale][h.key], LAMBDA h : h.key)

\* _localized_hero_keys: None means the English names, for English and for a locale
\* whose stored list is missing, unusable or empty.
LocalizedHeroKeys(locale, stored, catalogue) ==
  IF locale = English \/ stored = Missing THEN None
  ELSE LET list == ParseHeroes(stored, catalogue)
       IN IF list.status # 200 THEN None
          ELSE IF list.heroes = <<>> THEN None
          ELSE HeroKeyIndex(list.heroes, locale)

\* Mutated form of ResolveHeroKey: a name the index does not know is looked up among
\* the English ones.
ResolveHeroKeyTwice(name, keys, catalogue) ==
  IF keys = None THEN EnglishHeroKey(catalogue, name)
  ELSE IF name \in DOMAIN keys THEN keys[name] ELSE EnglishHeroKey(catalogue, name)

\* With an index, the index alone decides.
ResolveHeroKey(name, keys, catalogue) ==
  IF keys = None THEN EnglishHeroKey(catalogue, name)
  ELSE IF name \in DOMAIN keys THEN keys[name] ELSE None

PatchEntry(entry, keys, catalogue) ==
  [title |-> entry.name,
   hero |-> IF entry.kind = "hero" THEN ResolveHeroKey(entry.name, keys, catalogue) ELSE None,
   details |-> entry.kind # "map" /\ entry.details]

\* An entry without title and text is left out.
PatchEntries(entries, keys, catalogue) ==
  LET parsed == [i \in DOMAIN entries |-> PatchEntry(entries[i], keys, catalogue)]
  IN Picked(parsed, {i \in DOMAIN parsed : parsed[i].title # None \/ parsed[i].details})

\* parse_patch_notes_html: the date is read off the anchor of the patch.
ParsePatchNotes(patches, keys, catalogue) ==
  IF \E i \in DOMAIN patches : patches[i].date = Missing THEN Failure(500)
  ELSE [status |-> 200,
        patches |-> [i \in DOMAIN patches |->
          [date |-> patches[i].date,
           entries |-> PatchEntries(patches[i].entries, keys, catalogue)]]]

LimitPatchNotes(patches, limit) ==
  IF limit = None THEN patches ELSE Slice(patches, 0, limit)

-----------------------------------------------------------------------------
(* The player search: players [id, name, cased, public, updated] *)

\* Names are compared without case; private players are left out.
FilterPlayers(players, name) ==
  Picked(players, {i \in DOMAIN players : players[i].name = name /\ players[i].public})

ApplyOrdering(players, direction) ==
  StableSort(players, LAMBDA p, q :
    IF direction = "desc" THEN p.updated > q.updated ELSE p.updated < q.updated)

\* Those spelt as searched come first.
PrioritizeExactMatches(players) ==
  StableSort(players, LAMBDA p, q : p.cased /\ ~q.cased)

\* Mutated form of Page: the page starts one too late.
PageShifted(players, offset, limit) ==
  Slice(players, offset + 1, offset + limit)

Page(players, offset, limit) ==
  Slice(players, offset, offset + limit)

\* parse_player_search
SearchPlayers(players, name, direction, offset, limit) ==
  LET found == PrioritizeExactMatches(ApplyOrdering(FilterPlayers(players, name), direction))
  IN [total |-> Len(found), results |-> Page(found, offset, limit)]

\* The public players of exactly that name.
Matching(players, name) ==
  {i \in DOMAIN players : players[i].name = name /\ players[i].cased /\ players[i].public}

\* Mutated form of FindPlayer: one match is taken for the player, whatever its id.
FindPlayerByName(players, name, id) ==
  LET matches == Picked(players, Matching(players, name))
  IN IF Len(matches) = 1 THEN Head(matches) ELSE MatchById(matches, id)

\* parse_player_summary_json: the player of that exact name and that id; without an
\* id nobody, for the search does not show the number of a BattleTag.
FindPlayer(players, name, id) ==
  IF id = None THEN None
  ELSE MatchById(Picked(players, Matching(players, name)), id)
=============================================================================
