----------------------------- MODULE HeroRates -----------------------------
(***************************************************************************)
(* Hero statistics: Blizzard has renamed its competitive filter several    *)
(* times, so the candidates are tried in turn, the one that last worked    *)
(* first, and what Blizzard selected is compared to what was asked.        *)
(* Requests and the daily recording share the cached filter.               *)
(***************************************************************************)
EXTENDS ParserBasics

CONSTANTS
  KnownRateHero,   \* heroes of heroes.csv
  RatesOf,         \* what Blizzard shows: gamemode -> rows of hero, rate and gamemode
  Slices,          \* HERO_STATS_SNAPSHOT_SLICES, in order
  MaxDay, MaxRenamings \* bounds

\* Blizzard's competitive page shows competitive rates; -1 is one it does not have.
ASSUME RatesAssumption ==
  /\ RatesOf["competitive"] \subseteq
       [hero : STRING, winrate : Nat \cup {-1}, of : {"competitive"}]
  /\ Slices \in Seq(Range(Slices)) /\ MaxDay \in Nat /\ MaxRenamings \in Nat

VARIABLES
  accepted,   \* the value by which Blizzard's filter now means competitive
  filter,     \* the cached working filter of competitive, None when there is none
  query,      \* a request's competitive search: the map, the candidates left, what it has
  daily,      \* the recording's: the slices left, and the search for the first
  day,        \* the day
  recorded,   \* hero_stats_snapshots: (day, slice) -> rows, each with what it is of
  failed,     \* ghost: the slices of today that failed, None before today's recording
  renamings   \* bound

rateVars == <<accepted, filter, query, daily, day, recorded, failed, renamings>>

Candidates == <<"1", "2">>

\* _get_hero_stats_gamemode_filters: of the two, the cached one first.
GamemodeFilters(cached) ==
  IF cached = Last(Candidates) THEN Reverse(Candidates) ELSE Candidates

RateMap == {"all-maps", "oasis"}

\* A search: the filter that worked is not None until it is cached.
NotSearching == [map |-> "all-maps", left |-> <<>>, works |-> None, stats |-> None]

RatesInit ==
  /\ accepted = "1" /\ filter = None
  /\ query = NotSearching
  /\ daily = [slices |-> <<>>, search |-> NotSearching]
  /\ day = 1 /\ recorded = <<>> /\ failed = None /\ renamings = 0

-----------------------------------------------------------------------------
(* Blizzard *)

RenameFilter ==
  /\ renamings < MaxRenamings /\ renamings' = renamings + 1
  /\ accepted' \in {"1", "2", "3"} \ {accepted}
  /\ UNCHANGED <<filter, query, daily, day, recorded, failed>>

\* A value that no longer means anything selects quickplay, "0"; a map that is not
\* played in the gamemode selects them all; and the answer may not be what it was.
Selected(f) == IF f = accepted THEN f ELSE "0"
Answers(f, map) ==
  LET rows(m) == {[hero |-> r.hero, winrate |-> r.winrate, of |-> r.of, map |-> m] :
                    r \in RatesOf[IF f = accepted THEN "competitive" ELSE "quickplay"]}
  IN {[whole |-> whole, selected |-> Selected(f), map |-> m, rows |-> rows(m)] :
        whole \in BOOLEAN, m \in {map, "all-maps"}}

-----------------------------------------------------------------------------
(* parse_hero_stats_json *)

NormalizedRate(rate) == IF rate = -1 THEN 0 ELSE rate

\* Unknown heroes are skipped; a rate Blizzard does not have is 0.
HeroStats(rows) ==
  {[r EXCEPT !.winrate = NormalizedRate(@)] : r \in {r \in rows : r.hero \in KnownRateHero}}

Parsed(outcome, rows) == [outcome |-> outcome, rows |-> rows]

\* Mutated form of ParseHeroStats: the gamemode Blizzard selected is not looked at.
ParseHeroStatsUnchecked(f, map, answer) ==
  IF ~answer.whole \/ answer.map # map THEN Parsed("error", {})
  ELSE Parsed("rates", HeroStats(answer.rows))

\* InvalidGamemodeFilterError has another candidate tried; no other error has.
ParseHeroStats(f, map, answer) ==
  IF ~answer.whole THEN Parsed("error", {})
  ELSE IF answer.selected # f THEN Parsed("refused", {})
  ELSE IF answer.map # map THEN Parsed("error", {})
  ELSE Parsed("rates", HeroStats(answer.rows))

-----------------------------------------------------------------------------
(* _fetch_hero_stats, of a request and of the recording *)

Search(map) ==
  [map |-> map, left |-> GamemodeFilters(filter), works |-> None, stats |-> None]

\* NotSearching is an error: of the answer, or of the last candidate.
AfterAnswer(search, parsed) ==
  CASE parsed.outcome = "rates" ->
         [search EXCEPT !.left = <<>>, !.works = Head(search.left), !.stats = parsed.rows]
    [] parsed.outcome = "refused" /\ Len(search.left) > 1 -> [search EXCEPT !.left = Tail(@)]
    [] OTHER -> NotSearching

\* One candidate is tried.
Tried(search) ==
  LET f == Head(search.left)
  IN {AfterAnswer(search, ParseHeroStats(f, search.map, answer)) :
        answer \in Answers(f, search.map)}

\* set_gamemode_filter is awaited before the answer is used; its errors are swallowed.
CachedBy(search) == filter' \in {filter, search.works}

-----------------------------------------------------------------------------
(* GET /heroes/stats *)

AskStats(map) ==
  /\ query = NotSearching
  /\ query' = Search(map)
  /\ UNCHANGED <<accepted, filter, daily, day, recorded, failed, renamings>>

TryFilter ==
  /\ query.left # <<>>
  /\ query' \in Tried(query)
  /\ UNCHANGED <<accepted, filter, daily, day, recorded, failed, renamings>>

CacheFilter ==
  /\ query.works # None
  /\ CachedBy(query) /\ query' = [query EXCEPT !.works = None]
  /\ UNCHANGED <<accepted, daily, day, recorded, failed, renamings>>

ForgetAnswer ==
  /\ query.works = None /\ query.stats # None
  /\ query' = NotSearching
  /\ UNCHANGED <<accepted, filter, daily, day, recorded, failed, renamings>>

\* evict_volatile_data evicts the filter too.
EvictFilter ==
  /\ filter # None /\ filter' = None
  /\ UNCHANGED <<accepted, query, daily, day, recorded, failed, renamings>>

-----------------------------------------------------------------------------
(* record_hero_stats_snapshots *)

StartRecording ==
  /\ daily.slices = <<>>
  /\ daily' = [slices |-> Slices, search |-> NotSearching]
  /\ failed' = {}
  /\ UNCHANGED <<accepted, filter, query, day, recorded, renamings>>

BeginSlice ==
  /\ daily.slices # <<>> /\ daily.search = NotSearching
  /\ daily' = [daily EXCEPT !.search = Search("all-maps")]
  /\ UNCHANGED <<accepted, filter, query, day, recorded, failed, renamings>>

NextSlice == daily' = [slices |-> Tail(daily.slices), search |-> NotSearching]

\* Every candidate was refused, or Blizzard failed: the next slice.
TrySlice ==
  /\ daily.search.left # <<>>
  /\ \E search \in Tried(daily.search) :
       IF search = NotSearching
       THEN NextSlice /\ failed' = failed \cup {Head(daily.slices)}
       ELSE daily' = [daily EXCEPT !.search = search] /\ UNCHANGED failed
  /\ UNCHANGED <<accepted, filter, query, day, recorded, renamings>>

CacheSlice ==
  /\ daily.search.works # None
  /\ CachedBy(daily.search) /\ daily' = [daily EXCEPT !.search.works = None]
  /\ UNCHANGED <<accepted, query, day, recorded, failed, renamings>>

Fetched == daily.search.works = None /\ daily.search.stats # None

\* add_hero_stats_snapshot: the first reading of a day stays.
RecordSlice ==
  /\ Fetched
  /\ recorded' = [k \in DOMAIN recorded \cup {<<day, Head(daily.slices)>>} |->
                    IF k \in DOMAIN recorded THEN recorded[k] ELSE daily.search.stats]
  /\ NextSlice
  /\ UNCHANGED <<accepted, filter, query, day, failed, renamings>>

\* Storage fails: the next slice.
SliceFails ==
  /\ Fetched /\ NextSlice
  /\ failed' = failed \cup {Head(daily.slices)}
  /\ UNCHANGED <<accepted, filter, query, day, recorded, renamings>>

NextDay ==
  /\ daily.slices = <<>> /\ day < MaxDay /\ day' = day + 1 /\ failed' = None
  /\ UNCHANGED <<accepted, filter, query, daily, recorded, renamings>>

RatesNext ==
  \/ RenameFilter \/ EvictFilter \/ TryFilter \/ CacheFilter \/ ForgetAnswer
  \/ \E map \in RateMap : AskStats(map)
  \/ StartRecording \/ BeginSlice \/ TrySlice \/ CacheSlice \/ RecordSlice \/ SliceFails
  \/ NextDay

-----------------------------------------------------------------------------
(* Properties *)

\* Whatever Blizzard renames or refuses between two requests, competitive rates of the
\* map asked for are served, and those of all maps recorded; and a slice that fails
\* costs its own reading of the day and no other's.
RatesAreCompetitive ==
  /\ query.stats # None => \A r \in query.stats : r.of = "competitive" /\ r.map = query.map
  /\ \A k \in DOMAIN recorded : \A r \in recorded[k] :
       r.of = "competitive" /\ r.map = "all-maps" /\ r.winrate >= 0
  /\ failed # None => \A slice \in Range(Slices) :
       \/ slice \in failed \cup Range(daily.slices)
       \/ <<day, slice>> \in DOMAIN recorded
=============================================================================
