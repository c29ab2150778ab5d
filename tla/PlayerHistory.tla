--------------------------- MODULE PlayerHistory ---------------------------
(***************************************************************************)
(* The snapshot series of one player: Blizzard's page of the career        *)
(* changes as the player plays, requests and background refreshes fetch it *)
(* and record what they fetched in a later step, so an older page may be   *)
(* recorded after a newer one, and retention deletes from the far end.     *)
(***************************************************************************)
EXTENDS Snapshots

CONSTANTS
  Request,   \* requests and refreshes of the player under way at once
  Section,   \* a platform with a gamemode; "competitive" begins anew each season
  PlayedHero,
  Game,      \* games the player may play: section, hero, whether won
  MaxAge,    \* player_snapshot_max_age, in ticks
  MaxNow     \* bound on the clock

ASSUME SeriesAssumption == Request # {} /\ Game # {} /\ MaxNow \in Nat /\ MaxAge \in Nat

VARIABLES
  now,
  page,     \* Blizzard's page: its version stamp, the career, the rank, whether private
  series,   \* player_snapshots, a set of rows
  held,     \* per request the page it fetched, None when it has none
  seasons,  \* seasons begun
  left      \* bound: games and changes of privacy that may still happen

historyVars == <<now, page, series, held, seasons, left>>

(* `played', the games truly played so far, is carried along with a page and a *)
(* row to state the properties; no code reads it.                              *)
NoCareer == [s \in {} |-> <<>>]
Opening == [games_played |-> 2, games_won |-> 1, time_played |-> 2]

\* _build_general: the totals per section.
Totals(career) ==
  [s \in DOMAIN career |->
    [k \in GamesKeys |-> SumFunction([h \in DOMAIN career[s] |-> career[s][h][k]])]]

Payload(p) ==
  [competitive |-> IF p.rank = None THEN <<>> ELSE [pc |-> [tank |-> p.rank]],
   heroes |-> [s \in DOMAIN p.career |->
                [h \in DOMAIN p.career[s] |-> [c \in Counters |-> p.career[s][h][c]]]],
   general |-> Totals(p.career)]

Row(p, data) == [taken |-> now, stamp |-> p.stamp, data |-> data, played |-> p.played]

\* The series is empty, or has a row of before rows had totals.
HistoryInit ==
  /\ now = 0
  /\ page = [stamp |-> 0, career |-> [quickplay |-> [ana |-> Opening]], rank |-> None,
             private |-> FALSE, played |-> 0]
  /\ series \in {{}, {Row(page, [Payload(page) EXCEPT !.general = NoCareer])}}
  /\ held = [q \in Request |-> None]
  /\ seasons = 0

-----------------------------------------------------------------------------
(* Blizzard *)

Tick == now < MaxNow /\ now' = now + 1 /\ UNCHANGED <<page, series, held, seasons, left>>

\* A won game of the competitive section improves the rank by a tier.
RankAfter(section, won) ==
  IF section # "competitive" THEN page.rank
  ELSE IF page.rank = None THEN [division |-> "gold", tier |-> 5]
  ELSE IF won /\ page.rank.tier > 1 THEN [page.rank EXCEPT !.tier = @ - 1] ELSE page.rank

Played(counters, won) ==
  [k \in GamesKeys |-> At(counters, k, 0) + IF k = "games_won" /\ ~won THEN 0 ELSE 1]

Play(game) ==
  /\ left > 0 /\ left' = left - 1
  /\ page.stamp < now
  /\ LET heroes == At(page.career, game.section, <<>>)
         counters == Played(At(heroes, game.hero, <<>>), game.won)
     IN page' = [page EXCEPT !.stamp = now, !.played = @ + 1,
                   !.career = Put(@, game.section, Put(heroes, game.hero, counters)),
                   !.rank = RankAfter(game.section, game.won)]
  /\ UNCHANGED <<now, series, held, seasons>>

\* Competitive counters and ranks begin anew, and the page shows no new version.
NewSeason ==
  /\ seasons = 0 /\ "competitive" \in DOMAIN page.career
  /\ seasons' = 1
  /\ page' = [page EXCEPT !.rank = None,
                !.career = [s \in DOMAIN @ \ {"competitive"} |-> page.career[s]]]
  /\ UNCHANGED <<now, series, held, left>>

\* The player hides the career, or shows it again.
ChangePrivacy ==
  /\ left > 0 /\ left' = left - 1
  /\ page.stamp < now
  /\ page' = [page EXCEPT !.private = ~@, !.stamp = now]
  /\ UNCHANGED <<now, series, held, seasons>>

-----------------------------------------------------------------------------
(* The API *)

Fetch(q) ==
  /\ held[q] = None /\ held' = [held EXCEPT ![q] = page]
  /\ UNCHANGED <<now, page, series, seasons, left>>

\* Mutated form of WithRow: a version that is already recorded is recorded again.
WithRowAlways(p) == IF p.private THEN series ELSE series \cup {Row(p, Payload(p))}

\* build_player_snapshot makes nothing of a private page; ON CONFLICT DO NOTHING.
WithRow(p) ==
  IF p.private \/ \E r \in series : r.stamp = p.stamp THEN series
  ELSE series \cup {Row(p, Payload(p))}

\* _store_snapshot; an error of storage costs the row and nothing else.
Record(q) ==
  /\ held[q] # None
  /\ held' = [held EXCEPT ![q] = None]
  /\ series' \in {series, WithRow(held[q])}
  /\ UNCHANGED <<now, page, seasons, left>>

\* delete_old_player_snapshots
Retain ==
  /\ series' = {r \in series : r.taken >= now - MaxAge}
  /\ series' # series
  /\ UNCHANGED <<now, page, held, seasons, left>>

\* get_player_snapshots: newest first by the time taken, then by stamp.
TakenAfter(a, b) == a.taken > b.taken \/ (a.taken = b.taken /\ a.stamp > b.stamp)
Latest(limit) == {r \in series : Cardinality({s \in series : TakenAfter(s, r)}) < limit}
PlayerSnapshots(limit) == SetToSortSeq(Latest(limit), TakenAfter)

HistoryNext ==
  \/ Tick \/ NewSeason \/ ChangePrivacy \/ Retain
  \/ \E game \in Game : Play(game)
  \/ \E q \in Request : Fetch(q) \/ Record(q)

-----------------------------------------------------------------------------
(* Properties *)

HistoryTypeOK ==
  /\ now \in 0..MaxNow /\ page.stamp \in 0..now
  /\ \A q \in Request : held[q] # None => held[q].stamp <= page.stamp
  \* One row of a version.
  /\ \A r, s \in series : r.stamp = s.stamp => r = s

Oldest(rows) == CHOOSE r \in rows : Earlier(rows, r) = {}
NoMove == [c \in Counters |-> 0]
PlayedAt(stamp) == (CHOOSE r \in series : r.stamp = stamp).played

\* The sessions of a player leave nothing out and count nothing twice, in whatever
\* order the pages were recorded: they do not overlap, and when all of them are listed,
\* what each hero did in them adds up to the difference of the oldest version recorded
\* and the newest.  None counts more games than were played in it; within a season
\* none has more games won than played, and no hero loses time or wins.
SessionsAddUp ==
  LET rows == Latest(500)
      sessions == PlayerSessions(rows, 10)
      whole == DiffHeroes(Oldest(rows).data.heroes, Newest(rows).data.heroes)
      sum(sh, c) == SumFunction([s \in sessions |-> At(s.heroes, sh, NoMove)[c]])
  IN /\ \A s, t \in sessions : s = t \/ s.since >= t.ended_at \/ t.since >= s.ended_at
     /\ rows # {} /\ Cardinality(sessions) < 10 =>
          \A sh \in Section \X PlayedHero, c \in Counters : sum(sh, c) = At(whole, sh, NoMove)[c]
     /\ \A s \in sessions :
          /\ s.games.games_played <= PlayedAt(s.ended_at) - PlayedAt(s.since)
          /\ seasons = 0 => /\ s.games.games_won <= s.games.games_played
                            /\ \A sh \in DOMAIN s.heroes, c \in Counters : s.heroes[sh][c] >= 0

\* Nobody is told of a game that was not played: the difference of two rows that the
\* weekly recap reads counts no more games than lie between them, whatever order the
\* rows were taken in, whether or not they have totals, and across seasons; and, within
\* a season, none when the row taken later is of the older version.
NoGamesInvented ==
  \A before, after \in series :
    seasons = 0 \/ before.stamp < after.stamp =>
      LET games == DiffGames(before.data, after.data).games_played
      IN games = 0 \/ games <= after.played - before.played
=============================================================================
