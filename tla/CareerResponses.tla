-------------------------- MODULE CareerResponses --------------------------
(***************************************************************************)
(* What the response models of api/models/players.py accept: an answer     *)
(* outside is a 500, whatever else is right in it.  Fields that are always *)
(* text, and keys a model does not declare (they are dropped), have no     *)
(* conjunct.                                                               *)
(***************************************************************************)
EXTENDS CareerNumbers

Nullable(value, accepted) == value = None \/ accepted

ServableRank(rank) == rank.division \in Division /\ rank.tier \in 1..5

ServableRanks(ranks) ==
  /\ Nullable(ranks.season, ranks.season \in Nat)
  /\ \A r \in Role : Nullable(ranks.roles[r], ServableRank(ranks.roles[r]))

\* An image without address is no HttpUrl.
ServableEndorsement(e) == e.level \in 0..5 /\ e.frame # Missing

ServableSummary(s) ==
  /\ Nullable(s.endorsement, ServableEndorsement(s.endorsement))
  /\ Nullable(s.competitive,
       \A p \in DOMAIN s.competitive :
         Nullable(s.competitive[p], ServableRanks(s.competitive[p])))

\* A category is None or has a value; what is not a known category is dropped.
ServableComparisons(comparisons) ==
  \A c \in KnownComparison :
    Nullable(comparisons[c],
      /\ comparisons[c] # <<>>
      /\ \A i \in DOMAIN comparisons[c] :
           comparisons[c][i].hero \in Hero /\ comparisons[c][i].value \in Int)

\* Every category of a known hero has at least one statistic.
ServableCareer(career) ==
  \A h \in DOMAIN career \cap Hero :
    /\ career[h] # <<>>
    /\ \A i \in DOMAIN career[h] :
         /\ career[h][i].category \in StatCategory
         /\ career[h][i].stats # <<>>

ServableStats(stats) ==
  \A p \in DOMAIN stats : Nullable(stats[p],
    \A g \in Gamemode : Nullable(stats[p][g],
      /\ ServableComparisons(stats[p][g].heroes_comparisons)
      /\ ServableCareer(stats[p][g].career_stats)))

\* GET /players/{id}
ServablePlayer(profile) ==
  ServableSummary(profile.summary) /\ Nullable(profile.stats, ServableStats(profile.stats))

\* PlayerStatsSummary: totals by hero and by role, and of all.
TotalsTable(S) == UNION {[T -> [Totals -> Int]] : T \in SUBSET S}
PlayerStatsSummary ==
  [heroes : TotalsTable(Hero), roles : TotalsTable(HeroRole), general : [Totals -> Int]]

\* One StatsSummary: nothing negative, and a winrate of at most 100 %.
ServableTotals(t) ==
  /\ \A k \in Totals : t[k] >= 0
  /\ Winrate(t)[1] <= Winrate(t)[2]
  /\ Kda(t)[1] >= 0 /\ \A k \in {"eliminations", "deaths"} : Average(t, k)[1] >= 0

\* GET /players/{id}/stats/summary
ServableStatsSummary(summary) ==
  /\ ServableTotals(summary.general)
  /\ \A r \in DOMAIN summary.roles : ServableTotals(summary.roles[r])
  /\ \A h \in DOMAIN summary.heroes : ServableTotals(summary.heroes[h])

\* GET /players/{id}/stats/career: tables of numbers, which may be empty.
ServableCareerTables(career) ==
  \A h \in DOMAIN career \cap Hero : \A c \in DOMAIN career[h] \cap StatCategory :
    \A k \in DOMAIN career[h][c] : career[h][c][k] \in Int

\* GET /players/{id}/history, the payload of one snapshot.
ServableSnapshot(s) ==
  /\ Nullable(s.endorsement, s.endorsement \in 0..5)
  /\ \A p \in DOMAIN s.competitive : \A r \in DOMAIN s.competitive[p] :
       ServableRank(s.competitive[p][r])
  /\ \A p \in DOMAIN s.seasons : s.seasons[p] \in Int
=============================================================================
