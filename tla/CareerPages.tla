---------------------------- MODULE CareerPages ----------------------------
(***************************************************************************)
(* The career page as Blizzard changes it under the parser's feet: a       *)
(* player plays (cards, rows, bars and ranks appear), Blizzard ships what  *)
(* the API cannot name yet, rewords its labels, or drops a node.  Every    *)
(* reachable page is what a request may get, and `profile' what the parser *)
(* makes of it; every answer is computed from that profile.                *)
(***************************************************************************)
EXTENDS CareerResponses

CONSTANTS
  Block, Bar, StatCard, Row,       \* what may appear on a page: comparison blocks
  Wrapper, Frame,                  \* and bars, career cards and rows, ranks, frames
  MaxEdits                         \* bound: how often Blizzard changes the page

-----------------------------------------------------------------------------
(* What a page may be *)

PageBlock == [id : {b.id : b \in Block} \cup {"0x21"},
              label : {b.label : b \in Block} \cup {"time_played", "minutes_played", "game_won"},
              bars : Seq(Bar)]
PageRow == Row \cup UNION {Range(c.rows) : c \in StatCard}
PageCard == [label : {c.label : c \in StatCard} \cup DOMAIN Localized, rows : Seq(PageRow)]
PageContainer == [hero : Hero \cup {"ana"}, cards : Seq(PageCard)]
PageSection ==
  [select : BOOLEAN, season : {None, 3}, blocks : Seq(PageBlock) \ {<<>>},
   containers : {Missing} \cup (Seq(PageContainer) \ {<<>>})]
CareerPageType ==
  [lang : {None, "en", "de"}, masthead : BOOLEAN, player : {TRUE, Missing},
   title : {"no title"}, updated : {1}, endorsement : {None} \cup [frame : Frame],
   ranks : [Range(Platform) -> Seq(Wrapper)],
   views : [Range(Platform) -> {Missing} \cup [Gamemode -> {Missing} \cup PageSection]]]

\* What is not there is told apart from names and nodes, and a category's English label
\* is no foreign one of another.
ASSUME CareerAssumption ==
  /\ MaxEdits \in Nat /\ None \notin PlayerStatsSummary
  /\ None \notin Role \cup {"minutes_played", "game_won"}
  /\ Missing \notin PageSection /\ Missing \notin Seq(PageContainer)
  /\ Missing \notin [Gamemode -> {Missing} \cup PageSection]
  /\ \A label \in DOMAIN Localized :
       /\ label # Missing /\ Localized[label] # Missing
       /\ Renamed(Localized, Localized[label]) = Localized[label]
  /\ \A b \in Block : b = [id |-> b.id, label |-> b.label, bars |-> b.bars] /\ b.bars \in Seq(Bar)
  /\ \A c \in StatCard : c = [label |-> c.label, rows |-> c.rows] /\ c.rows \in Seq(Range(c.rows))

\* What Blizzard shows: tiers of at most 5 (0 is one that cannot be read), levels of at
\* most 5, and of games and times of play, eliminations and deaths no negative number.
ASSUME BlizzardAssumption ==
  /\ \A w \in Wrapper : w.tier \in 0..5
  /\ \A frame \in Frame : frame \in Nat => frame \in 0..5
  /\ \A bar \in Bar : Unreadable(bar.amount) \/ ComputedStatValue(bar.amount) \in Int
  /\ \A row \in PageRow : Unreadable(row.cell) \/
       IF PluralStatKey(row.label) \in Totals \ {"games_lost", "games_won"}
       THEN ComputedStatValue(row.cell) \in Nat ELSE ComputedStatValue(row.cell) \in Int

VARIABLES
  page,     \* the page as Blizzard shows it
  profile,  \* the page fetched and parsed, without help of a search
  edits     \* bound

careerVars == <<page, profile, edits>>

NoSearch == [title |-> None, updated |-> None]

\* A player who has played one hero in one gamemode, as the page first shows it.
FirstSection ==
  [select |-> TRUE, season |-> None,
   blocks |-> <<[id |-> "0x21", label |-> "time_played", bars |-> <<>>]>>,
   containers |-> <<[hero |-> "ana", cards |-> <<>>]>>]

CareerInit ==
  /\ edits = 0
  /\ page = [lang |-> "en", masthead |-> TRUE, player |-> TRUE, title |-> "no title",
             updated |-> 1, endorsement |-> None,
             ranks |-> [p \in Range(Platform) |-> <<>>],
             views |-> [pc |-> [quickplay |-> FirstSection, competitive |-> Missing],
                        console |-> Missing]]
  /\ profile = FetchProfile(page, NoSearch)

Edit(newPage) == edits < MaxEdits /\ page' = newPage /\ edits' = edits + 1

HasSection(p, g) == page.views[p] # Missing /\ page.views[p][g] # Missing
EditSection(p, g, section) == Edit([page EXCEPT !.views[p][g] = section])

\* The last of the blocks, containers and cards is the one that grows.
Grown(seq, item(_)) == [seq EXCEPT ![Len(seq)] = item(@)]

-----------------------------------------------------------------------------
(* A player plays *)

OpenSection(p, g) ==
  /\ ~HasSection(p, g)
  /\ LET section == [FirstSection EXCEPT !.season = IF g = "competitive" THEN 3 ELSE None]
         view == IF page.views[p] = Missing THEN [m \in Gamemode |-> Missing] ELSE page.views[p]
     IN Edit([page EXCEPT !.views[p] = [view EXCEPT ![g] = section]])

AddBar(p, g, bar) ==
  /\ HasSection(p, g)
  /\ LET s == page.views[p][g]
     IN EditSection(p, g, [s EXCEPT !.blocks =
          Grown(@, LAMBDA b : [b EXCEPT !.bars = Append(@, bar)])])

AddBlock(p, g, block) ==
  /\ HasSection(p, g)
  /\ LET s == page.views[p][g]
     IN /\ \A i \in DOMAIN s.blocks : s.blocks[i].id # block.id
        /\ EditSection(p, g, [s EXCEPT !.blocks = Append(@, block)])

\* A hero has one container, the one its option names.
AddContainer(p, g, hero) ==
  /\ HasSection(p, g) /\ page.views[p][g].containers # Missing
  /\ LET s == page.views[p][g]
     IN /\ \A i \in DOMAIN s.containers : s.containers[i].hero # hero
        /\ EditSection(p, g, [s EXCEPT !.containers =
             Append(@, [hero |-> hero, cards |-> <<>>])])

AddCard(p, g, card) ==
  /\ HasSection(p, g) /\ page.views[p][g].containers # Missing
  /\ LET s == page.views[p][g]
     IN EditSection(p, g, [s EXCEPT !.containers =
          Grown(@, LAMBDA c : [c EXCEPT !.cards = Append(@, card)])])

AddRow(p, g, row) ==
  /\ HasSection(p, g) /\ page.views[p][g].containers # Missing
  /\ LET s == page.views[p][g]
     IN /\ Last(s.containers).cards # <<>>
        /\ EditSection(p, g, [s EXCEPT !.containers =
             Grown(@, LAMBDA c : [c EXCEPT !.cards =
               Grown(@, LAMBDA k : [k EXCEPT !.rows = Append(@, row)])])])

AddWrapper(p, wrapper) == Edit([page EXCEPT !.ranks[p] = Append(@, wrapper)])

Endorse(frame) == Edit([page EXCEPT !.endorsement = [frame |-> frame]])

-----------------------------------------------------------------------------
(* Blizzard rewords a label, or drops a node *)

RewordBlock(p, g, label) ==
  /\ HasSection(p, g)
  /\ LET s == page.views[p][g]
     IN /\ Last(s.blocks).label # None
        /\ Last(s.blocks).id \in DOMAIN CategoryId
        /\ EditSection(p, g, [s EXCEPT !.blocks =
             Grown(@, LAMBDA b : [b EXCEPT !.label = label])])

\* The label of a card, in another language.
TranslateCard(p, g, label) ==
  /\ HasSection(p, g) /\ page.views[p][g].containers # Missing
  /\ LET s == page.views[p][g]
     IN /\ Last(s.containers).cards # <<>>
        /\ Last(Last(s.containers).cards).label = Localized[label]
        /\ EditSection(p, g, [s EXCEPT !.containers =
             Grown(@, LAMBDA c : [c EXCEPT !.cards =
               Grown(@, LAMBDA k : [k EXCEPT !.label = label])])])

Drop(p, g) ==
  \/ page.masthead /\ Edit([page EXCEPT !.masthead = FALSE])
  \/ page.player # Missing /\ Edit([page EXCEPT !.player = Missing])
  \/ page.lang = "en" /\ \E l \in {None, "de"} : Edit([page EXCEPT !.lang = l])
  \/ HasSection(p, g) /\ page.views[p][g].select
     /\ EditSection(p, g, [page.views[p][g] EXCEPT !.select = FALSE])
  \/ HasSection(p, g) /\ page.views[p][g].containers # Missing
     /\ EditSection(p, g, [page.views[p][g] EXCEPT !.containers = Missing])

-----------------------------------------------------------------------------
Genuine(p, g) ==
  \/ OpenSection(p, g)
  \/ \E bar \in Bar : HeroOf(bar) \in Hero /\ ~Unreadable(bar.amount) /\ AddBar(p, g, bar)
  \/ \E block \in Block : AddBlock(p, g, block)
  \/ \E hero \in Hero : AddContainer(p, g, hero)
  \/ \E card \in StatCard : CareerStatCategory(card) # None /\ AddCard(p, g, card)
  \/ \E row \in Row : ~Unreadable(row.cell) /\ AddRow(p, g, row)
  \/ \E w \in Wrapper : RoleOf(w.role) # None /\ Ranked(w) /\ AddWrapper(p, w)
  \/ \E frame \in Frame : Endorse(frame)

\* What the API has no name for, and what it cannot read.
Strange(p, g) ==
  \/ \E bar \in Bar : (HeroOf(bar) \notin Hero \/ Unreadable(bar.amount)) /\ AddBar(p, g, bar)
  \/ \E card \in StatCard : CareerStatCategory(card) = None /\ AddCard(p, g, card)
  \/ \E row \in Row : Unreadable(row.cell) /\ AddRow(p, g, row)
  \/ \E w \in Wrapper : /\ ~WrapperBroken(w) /\ ~(RoleOf(w.role) # None /\ Ranked(w))
                        /\ page.ranks[p] # <<>> /\ AddWrapper(p, w)

Reworded(p, g) ==
  \/ \E label \in {"minutes_played", "game_won"} : RewordBlock(p, g, label)
  \/ \E label \in DOMAIN Localized : TranslateCard(p, g, label)

CareerNext ==
  /\ \E p \in Range(Platform), g \in Gamemode :
       Genuine(p, g) \/ Strange(p, g) \/ Reworded(p, g) \/ Drop(p, g)
  /\ profile' = FetchProfile(page', NoSearch)

-----------------------------------------------------------------------------
(* Properties *)

Served == profile.status = 200

CareerTypeOK ==
  /\ edits \in 0..MaxEdits
  /\ page \in CareerPageType
  /\ profile.status \in {200, 404, 500, 502}
  /\ Served =>
       /\ profile.summary.competitive # None =>
            \A p \in Range(Platform) :
              LET ranks == profile.summary.competitive[p]
              IN Nullable(ranks, \A r \in Role : Nullable(ranks.roles[r],
                   ranks.roles[r].division \in Division /\ ranks.roles[r].tier > 0))
       /\ profile.stats # None =>
            \A p \in Range(Platform) : Nullable(profile.stats[p],
              \A g \in Gamemode : Nullable(profile.stats[p][g],
                KnownComparison \subseteq DOMAIN profile.stats[p][g].heroes_comparisons))

\* What the API cannot name or read costs its own row, role or card, and a reworded
\* or translated label costs nothing: the rest of the profile parses as before.
StrangersCostTheirRow ==
  [][\A p \in Range(Platform), g \in Gamemode :
       Strange(p, g) \/ Reworded(p, g)
       => ParseProfile(page', NoSearch) = ParseProfile(page, NoSearch)]_careerVars

\* A category all of whose rows are unreadable, an endorsement image without address.
EmptiedCategory ==
  \E p \in Range(Platform), g \in Gamemode :
    /\ HasSection(p, g) /\ page.views[p][g].containers # Missing
    /\ \E i \in DOMAIN page.views[p][g].containers :
         \E j \in DOMAIN page.views[p][g].containers[i].cards :
           \A k \in DOMAIN page.views[p][g].containers[i].cards[j].rows :
             Unreadable(page.views[p][g].containers[i].cards[j].rows[k].cell)
BlankFrame == page.endorsement # None /\ page.endorsement.frame = Missing

\* Every profile that parses is accepted by the response models of every route that
\* is computed from it, but for the two cases named above.
EveryAnswerIsServable ==
  Served =>
    /\ EmptiedCategory \/ BlankFrame \/ ServablePlayer(profile)
    /\ \A g \in Gamemode \cup {None}, p \in Range(Platform) \cup {None} :
         LET summary == StatsSummary(profile, g, p)
         IN summary # None => ServableStatsSummary(summary)
    /\ \A g \in Gamemode : ServableCareerTables(ProcessCareerStats(profile, g, None, None))
    /\ LET snapshot == BuildSnapshot(profile)
       IN snapshot # None => ServableSnapshot(snapshot)

\* The time of the summary is the same however it is cut: by platform and gamemode,
\* by hero, by role, and in the stored snapshot.
TimeOf(g, p) ==
  LET summary == StatsSummary(profile, g, p)
  IN IF summary = None THEN 0 ELSE summary.general.time_played
TimeAddsUp ==
  Served =>
    LET summary == StatsSummary(profile, None, None)
        snapshot == BuildSnapshot(profile)
    IN /\ TimeOf(None, None) =
            SumFunction([pg \in Range(Platform) \X Gamemode |-> TimeOf(pg[2], pg[1])])
       /\ \A g \in Gamemode :
            TimeOf(g, None) = SumFunction([p \in Range(Platform) |-> TimeOf(g, p)])
       /\ summary # None =>
            summary.general.time_played =
              SumFunction([h \in DOMAIN summary.heroes |-> summary.heroes[h].time_played])
       /\ snapshot # None =>
            TimeOf(None, None) =
              SumFunction([p \in DOMAIN snapshot.general |->
                SumFunction([g \in DOMAIN snapshot.general[p] |->
                  snapshot.general[p][g].time_played])])

\* And /stats, /stats/career and /stats/summary read the same career: the heroes are
\* those of the profile's own section, and a hero whose page states the time once
\* has that time in both.
RoutesAgree ==
  /\ TimeAddsUp
  /\ Served => \A g \in Gamemode, p \in Range(Platform) :
       LET all == AllStats(profile.stats, p, g)
           tables == ProcessCareerStats(profile, g, p, None)
           summary == StatsSummary(profile, g, p)
           cards(h) == StatsByQuery(profile.stats, g, p, h)[h]
           stated(h) == {i \in DOMAIN cards(h) : cards(h)[i].category = "game"}
       IN
       /\ DOMAIN tables =
            IF profile.stats = None THEN {} ELSE IF profile.stats[p] = None THEN {}
            ELSE IF all[p][g] = None THEN {} ELSE DOMAIN all[p][g].career_stats
       /\ \A h \in DOMAIN tables \cap Hero :
            (\E i \in stated(h) :
               LET stats == cards(h)[i].stats
               IN /\ stated(h) = {i} /\ Len(stats) = 1
                  /\ stats[1].key = "time_played" /\ stats[1].value > 0)
            => summary.heroes[h].time_played = tables[h]["game"]["time_played"]
=============================================================================
