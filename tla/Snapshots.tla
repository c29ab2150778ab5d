----------------------------- MODULE Snapshots -----------------------------
(***************************************************************************)
(* What the API computes from a player's stored snapshots: the difference  *)
(* of two of them and the sessions a series is grouped into (app/domain/   *)
(* parsers/player_snapshot.py), and what the alerts decide from them       *)
(* (app/domain/push_alerts.py).                                            *)
(*                                                                         *)
(* A snapshot has the time it was taken, the version stamp of its page and *)
(* the payload:                                                            *)
(*   competitive  platform -> role -> rank                                 *)
(*   heroes       section -> hero -> counters                              *)
(*   general      section -> totals                                        *)
(* all partial, a section being a platform with a gamemode.  A series      *)
(* comes newest first, as storage returns it.                              *)
(***************************************************************************)
EXTENDS ParserBasics

CONSTANTS
  DivisionOrder,  \* CompetitiveDivision, weakest first
  SessionGap      \* SESSION_GAP_SECONDS, in ticks

At(table, key, default) == IF key \in DOMAIN table THEN table[key] ELSE default
Put(table, key, value) ==
  [k \in DOMAIN table \cup {key} |-> IF k = key THEN value ELSE table[k]]

\* The keys of a table of tables, and the entry of such a key.
Pairs(tables) == UNION {{<<k, l>> : l \in DOMAIN tables[k]} : k \in DOMAIN tables}
AtPair(tables, kl, default) ==
  IF kl \in Pairs(tables) THEN tables[kl[1]][kl[2]] ELSE default

-----------------------------------------------------------------------------
(* The difference of two payloads *)

Counters == {"time_played", "games_won"}

\* _diff_hero: not clamped, and a counter that is not there counts as 0.
DiffHero(before, after) == [c \in Counters |-> At(after, c, 0) - At(before, c, 0)]

\* Only the heroes that moved.
DiffHeroes(before, after) ==
  LET delta == [sh \in Pairs(before) \cup Pairs(after) |->
                  DiffHero(AtPair(before, sh, <<>>), AtPair(after, sh, <<>>))]
  IN [sh \in {sh \in DOMAIN delta : \E c \in Counters : delta[sh][c] # 0} |-> delta[sh]]

DiffRanks(before, after) ==
  LET rank(ranks, pr) == AtPair(ranks, pr, None)
  IN [pr \in {pr \in Pairs(before) \cup Pairs(after) : rank(before, pr) # rank(after, pr)}
       |-> [before |-> rank(before, pr), after |-> rank(after, pr)]]

NoDiff == [heroes |-> <<>>, ranks |-> <<>>]

\* diff_player_snapshots: the last of the series against the first.
DiffSnapshots(snapshots) ==
  IF Len(snapshots) < 2 THEN NoDiff
  ELSE LET before == Last(snapshots).data after == Head(snapshots).data
       IN [heroes |-> DiffHeroes(before.heroes, after.heroes),
           ranks |-> DiffRanks(before.competitive, after.competitive)]

GamesKeys == {"games_played", "games_won", "time_played"}

\* Mutated form of DiffGames: what is not there counts as 0.
DiffGamesFromZero(before, after) ==
  [k \in GamesKeys |-> SumFunction(
    [s \in DOMAIN after.general |->
      IF s \in DOMAIN before.general
      THEN LET d == after.general[s][k] - before.general[s][k] IN IF d > 0 THEN d ELSE 0
      ELSE after.general[s][k]])]

\* A section missing on either side contributes nothing, nor does a counter that fell.
DiffGames(before, after) ==
  [k \in GamesKeys |-> SumFunction(
    [s \in DOMAIN after.general \cap DOMAIN before.general |->
      LET d == after.general[s][k] - before.general[s][k] IN IF d > 0 THEN d ELSE 0])]

-----------------------------------------------------------------------------
(* Sessions *)

\* Of rows that are each of another version: those of an older version, and the one of
\* the newest.
Earlier(rows, r) == {p \in rows : p.stamp < r.stamp}
Newest(rows) == CHOOSE r \in rows : \A p \in rows : p.stamp <= r.stamp
Previous(rows, r) == Newest(Earlier(rows, r))

\* Where a session begins; the oldest snapshot is a baseline only.
Starts(rows) ==
  {r \in rows : /\ Earlier(rows, r) # {}
                /\ \/ Earlier(rows, Previous(rows, r)) = {}
                   \/ r.stamp - Previous(rows, r).stamp > SessionGap}

\* The rows from one to the next where a session begins.
Group(rows, r) ==
  {e \in rows : /\ r.stamp <= e.stamp
                /\ \A s \in Starts(rows) : s.stamp <= r.stamp \/ e.stamp < s.stamp}

SessionOf(before, after, count) ==
  LET diff == DiffSnapshots(<<after, before>>)
  IN [since |-> before.stamp, ended_at |-> after.stamp, snapshots |-> count,
      games |-> DiffGames(before.data, after.data), ranks |-> diff.ranks,
      heroes |-> diff.heroes]

\* Mutated form of SessionFrom: the session is measured from its own first snapshot.
SessionFromItself(rows, r) ==
  SessionOf(r, Newest(Group(rows, r)), Cardinality(Group(rows, r)))

\* Measured from the snapshot before its first.
SessionFrom(rows, r) ==
  SessionOf(Previous(rows, r), Newest(Group(rows, r)), Cardinality(Group(rows, r)))

Silent(session) ==
  /\ session.games.games_played = 0 /\ session.games.time_played = 0
  /\ DOMAIN session.heroes = {}

\* build_player_sessions: the latest ones, of those that are not silent.
PlayerSessions(rows, limit) ==
  LET sessions == {s \in {SessionFrom(rows, r) : r \in Starts(rows)} : ~Silent(s)}
  IN {s \in sessions : Cardinality({t \in sessions : t.ended_at > s.ended_at}) < limit}

-----------------------------------------------------------------------------
(* The rules of the alerts *)

\* Tier 1 is the top of a division, tier 5 its bottom.
RankStrength(rank) ==
  10 * (CHOOSE i \in DOMAIN DivisionOrder : DivisionOrder[i] = rank.division) + 6 - rank.tier

\* PC before console, whichever is the better; None when unranked.
HighestRank(competitive) ==
  LET filled == SelectSeq(<<"pc", "console">>,
                  LAMBDA p : DOMAIN At(competitive, p, <<>>) # {})
      ranks == IF filled = <<>> THEN {}
               ELSE {competitive[Head(filled)][r] : r \in DOMAIN competitive[Head(filled)]}
  IN IF ranks = {} THEN None
     ELSE CHOOSE r \in ranks : \A q \in ranks : RankStrength(q) <= RankStrength(r)

\* Both ranked, and not alike.
RankMove(before, after) ==
  IF None \in {before, after} \/ before = after THEN None ELSE after

\* The heroes a patch changed: entries the parser could name, with text.
ChangedHeroes(patch) ==
  {e.hero : e \in {e \in Range(patch.entries) : e.hero # None /\ e.details}}

\* A sequence of the keys of a table of numbers, largest first; equals in any order.
MostCommon(table) ==
  SetToSortSeq(DOMAIN table, LAMBDA h, i : table[h] > table[i])

\* The changed heroes played most, over the newest snapshots of the watched players.
HeroAlert(changed, snapshots, limit) ==
  LET time(h) == FoldSeq(LAMBDA s, sum :
                   sum + SumFunction(
                     [sec \in {sec \in DOMAIN s.data.heroes : h \in DOMAIN s.data.heroes[sec]}
                       |-> At(s.data.heroes[sec][h], "time_played", 0)]), 0, snapshots)
      played == {h \in changed : \E i \in DOMAIN snapshots :
                   \E sec \in DOMAIN snapshots[i].data.heroes :
                     h \in DOMAIN snapshots[i].data.heroes[sec]}
  IN Slice(MostCommon([h \in played |-> time(h)]), 0, limit)

\* The numbers of a week's recap; None for a week without a game.
WeeklyRecap(snapshots) ==
  IF Len(snapshots) < 2 THEN None
  ELSE LET before == Last(snapshots).data after == Head(snapshots).data
           games == DiffGames(before, after)
           heroes == DiffSnapshots(snapshots).heroes
           time == [h \in {sh[2] : sh \in DOMAIN heroes} |->
                     SumFunction([sh \in {sh \in DOMAIN heroes : sh[2] = h} |->
                                   heroes[sh]["time_played"]])]
       IN IF games.games_played = 0 THEN None
          ELSE [games_played |-> games.games_played, games_won |-> games.games_won,
                hero |-> IF DOMAIN time = {} THEN None ELSE Head(MostCommon(time)),
                rank |-> RankMove(HighestRank(before.competitive),
                                  HighestRank(after.competitive))]
=============================================================================
