----------------------------- MODULE SitePages -----------------------------
(***************************************************************************)
(* Blizzard's site around the careers, and what the API has of it.         *)
(* Blizzard releases a hero: a card of the index, a page, a line in the    *)
(* patch notes, in every language; the API learns of it in another order:  *)
(* the localised list it stores is of some earlier time, and heroes.csv is *)
(* that of its last deployment.                                            *)
(***************************************************************************)
EXTENDS BlizzardPages

CONSTANTS
  HeroOrder,      \* all heroes Blizzard will have, in the order of their keys
  FirstHeroes,    \* how many of them heroes.csv has at first
  Locale,         \* the languages asked for
  Entry, Video,   \* what Blizzard may add to the patch notes and to a hero's page
  Player,         \* players a search may find
  MaxSiteEdits    \* bound: how many steps Blizzard and the API take

\* Heroes, and in every language their names, are told apart.
ASSUME HeroesAssumption ==
  /\ HeroOrder # <<>> /\ HeroOrder \in Seq(Range(HeroOrder) \ {None, Missing})
  /\ \A i, j \in DOMAIN HeroOrder : HeroOrder[i] = HeroOrder[j] => i = j
  /\ \A l \in Locale \cup {English} :
       /\ Range(HeroOrder) \subseteq DOMAIN NameIn[l]
       /\ \A g, h \in Range(HeroOrder) : NameIn[l][g] = NameIn[l][h] => g = h
       /\ \A h \in Range(HeroOrder) : NameIn[l][h] # None

ASSUME SiteAssumption ==
  /\ FirstHeroes \in 1..Len(HeroOrder) /\ MaxSiteEdits \in Nat
  /\ \A e \in Entry : e = [kind |-> e.kind, name |-> e.name, details |-> e.details]
                        /\ e.details \in BOOLEAN
                        /\ (e.kind = "hero" => e.name \in Range(HeroOrder))
  /\ \A p \in Player : /\ p.id # None /\ p.updated \in Int
                        /\ p.cased \in BOOLEAN /\ p.public \in BOOLEAN

VARIABLES
  catalogue,  \* heroes.csv as deployed
  index,      \* the cards of the heroes index
  stored,     \* locale -> the index as stored, Missing before its first request
  notes,      \* the entries of the latest patch
  heroPage,   \* the page of one hero
  found,      \* Blizzard's answer to a search
  siteEdits

siteVars == <<catalogue, index, stored, notes, heroPage, found, siteEdits>>

\* The first hero is a tank.
Card(h) == [key |-> h, role |-> IF h = HeroOrder[1] THEN "tank" ELSE "support",
            subrole |-> "medic", stadium |-> FALSE]

SiteInit ==
  /\ catalogue = Slice(HeroOrder, 0, FirstHeroes)
  /\ index = [i \in 1..FirstHeroes |-> Card(HeroOrder[i])]
  /\ stored = [l \in Locale |-> Missing]
  /\ notes = <<>>
  /\ heroPage = [tabs |-> <<"primary">>, descriptions |-> 1, videos |-> <<>>,
                 overview |-> [items |-> <<"support", "medic", "cairo",
                                           [day |-> "unknown", age |-> 60]>>],
                 perks |-> Missing, story |-> Missing]
  /\ found = <<>>
  /\ siteEdits = 0

Count == siteEdits < MaxSiteEdits /\ siteEdits' = siteEdits + 1

-----------------------------------------------------------------------------
(* Heroes *)

\* The index lists the newest hero first.
ReleaseHero ==
  /\ Len(index) < Len(HeroOrder)
  /\ index' = <<Card(HeroOrder[Len(index) + 1])>> \o index
  /\ Count /\ UNCHANGED <<catalogue, stored, notes, heroPage, found>>

Deploy ==
  /\ Len(catalogue) < Len(index)
  /\ catalogue' = Slice(HeroOrder, 0, Len(index))
  /\ Count /\ UNCHANGED <<index, stored, notes, heroPage, found>>

\* The list of that locale is requested or refreshed.
StoreHeroes(l) ==
  /\ stored' = [stored EXCEPT ![l] = index]
  /\ Count /\ UNCHANGED <<catalogue, index, notes, heroPage, found>>

\* A deployed parser no longer understands what is stored.
OutgrowStored(l) ==
  /\ stored[l] # Missing
  /\ stored' = [stored EXCEPT ![l] = <<[Card(HeroOrder[1]) EXCEPT !.key = Missing]>>]
  /\ Count /\ UNCHANGED <<catalogue, index, notes, heroPage, found>>

-----------------------------------------------------------------------------
(* Patch notes and hero pages grow; searches find another player *)

AnnounceChange(entry) ==
  /\ notes' = Append(notes, entry)
  /\ Count /\ UNCHANGED <<catalogue, index, stored, heroPage, found>>

ShowAbility ==
  /\ heroPage.tabs # Missing
  /\ heroPage' = [heroPage EXCEPT !.tabs = Append(@, "ability"), !.descriptions = @ + 1]
  /\ Count /\ UNCHANGED <<catalogue, index, stored, notes, found>>

ShowVideo(video) ==
  /\ heroPage' = [heroPage EXCEPT !.videos = Append(@, video)]
  /\ Count /\ UNCHANGED <<catalogue, index, stored, notes, found>>

\* A page without its abilities, its overview's list, or the text of its tabs; a
\* story or perks appear, whole or not.
Rearrange ==
  /\ heroPage.tabs # Missing
  /\ \/ heroPage' = [heroPage EXCEPT !.tabs = Missing]
     \/ heroPage' = [heroPage EXCEPT !.overview.items = Slice(@, 0, 3)]
     \/ heroPage' = [heroPage EXCEPT !.descriptions = 0]
     \/ \E perks \in {"four", "three"} : heroPage' = [heroPage EXCEPT !.perks = perks]
     \/ \E contents \in {1, 2} :
          heroPage' = [heroPage EXCEPT !.story =
            [youtube |-> FALSE, button |-> "short-story", titles |-> <<"one", "two">>,
             contents |-> contents]]
  /\ Count /\ UNCHANGED <<catalogue, index, stored, notes, found>>

FindAnother(player) ==
  /\ \A i \in DOMAIN found : found[i].id # player.id
  /\ found' = Append(found, player)
  /\ Count /\ UNCHANGED <<catalogue, index, stored, notes, heroPage>>

HeroesNext ==
  \/ ReleaseHero \/ Deploy
  \/ \E l \in Locale : StoreHeroes(l) \/ OutgrowStored(l)
  \/ \E entry \in Entry : AnnounceChange(entry)

HeroPageNext ==
  ReleaseHero \/ ShowAbility \/ Rearrange \/ \E video \in Video : ShowVideo(video)

SearchNext == \E player \in Player : FindAnother(player)

-----------------------------------------------------------------------------
(* Properties *)

\* The patch notes in a language, of an entry about each hero.
NotesIn(l) ==
  LimitPatchNotes(ParsePatchNotes(<<[date |-> 1,
                     entries |-> [i \in DOMAIN notes |->
                       IF notes[i].kind = "hero"
                       THEN [notes[i] EXCEPT !.name = NameIn[l][notes[i].name]] ELSE notes[i]]]>>,
    LocalizedHeroKeys(l, stored[l], catalogue), catalogue).patches, 1)

\* Patch notes never name a wrong hero, although a localised name may be another
\* hero's English one: an entry has its own hero or none, and its own as soon as the
\* list of that language and heroes.csv have it.  No entry about a hero is lost, they
\* keep their order, and nothing else is said to be about a hero.
\* Left out are languages whose list cannot be used, where English names stand in.
NotesNameTheRightHero ==
  \A l \in Locale :
    LET served == NotesIn(l)[1].entries
        indexed == LocalizedHeroKeys(l, stored[l], catalogue)
        about == {i \in DOMAIN notes : notes[i].kind = "hero"}
        known(h) == /\ h \in Range(catalogue)
                    /\ l # English => NameIn[l][h] \in DOMAIN indexed
        right(h) == IF known(h) THEN h ELSE None
    IN l = English \/ indexed # None =>
         \E place \in [about -> DOMAIN served] :
           /\ \A i \in about :
                /\ served[place[i]].title = NameIn[l][notes[i].name]
                /\ served[place[i]].hero = right(notes[i].name)
                /\ \A j \in about : i < j => place[i] < place[j]
           /\ \A k \in DOMAIN served : k \in Range(place) \/ served[k].hero = None

\* An ability shows its own video or none: a video that is dropped moves no other.
VideosStayWithTheirAbility ==
  LET page == HeroDetail(heroPage, index, catalogue, HeroOrder[1])
  IN page.status = 200 =>
       \A i \in DOMAIN page.hero.abilities :
         LET video == page.hero.abilities[i].video
         IN video = None \/ video.group = i - 1

\* The pages of a search are a partition of its matches, whatever their size: each
\* match is at exactly one spot of one page, those spelt as searched are on the first
\* pages, and within both groups they are in the order asked for.  Whoever is looked up
\* by name and id is the match with that id, however many share the name.
SearchPagesPartition ==
  \A name \in {p.name : p \in Player}, direction \in {"asc", "desc"}, limit \in 1..(Len(found) + 1) :
    LET results == [k \in 0..Len(found) |->
                     SearchPlayers(found, name, direction, limit * k, limit).results]
        spots == {s \in (0..Len(found)) \X (1..limit) : s[2] \in DOMAIN results[s[1]]}
        shown(s) == results[s[1]][s[2]]
        matches == {i \in DOMAIN found : found[i].name = name /\ found[i].public}
    IN /\ SearchPlayers(found, name, direction, 0, limit).total = Cardinality(matches)
       /\ \A i \in matches : \E s \in spots : \A r \in spots : shown(r) = found[i] <=> r = s
       /\ \A s \in spots : \E i \in matches : shown(s) = found[i]
       /\ \A r, s \in spots :
            r[1] < s[1] \/ (r[1] = s[1] /\ r[2] < s[2]) =>
              \/ shown(r).cased /\ ~shown(s).cased
              \/ /\ shown(r).cased = shown(s).cased
                 /\ IF direction = "asc" THEN shown(r).updated <= shown(s).updated
                    ELSE shown(r).updated >= shown(s).updated
       /\ \A id \in {p.id : p \in Player} :
            LET same == {i \in matches : found[i].id = id /\ found[i].cased}
            IN FindPlayer(found, name, id) \in
                 IF same = {} THEN {None} ELSE {found[i] : i \in same}
=============================================================================
