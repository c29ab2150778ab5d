-------------------------------- MODULE Edge --------------------------------
(***************************************************************************)
(* Around the core: players Blizzard does not know, the statistics of      *)
(* heroes, and the rollout of a new version.  They share nothing but the   *)
(* eviction when the app stops, which each of them has, so a behaviour     *)
(* looks at one of them.                                                   *)
(***************************************************************************)
EXTENDS UnknownPlayers, HeroRates, Rollout

VARIABLE subject
vars == <<unknownVars, rateVars, rolloutVars, subject>>

Init ==
  /\ UnknownInit /\ RatesInit /\ RolloutInit
  /\ subject \in {"unknown", "rates", "rollout"}
  /\ subject = "rollout" \/ (app["old1"] = "serving" /\ app["old2"] = "none")

Next ==
  /\ UNCHANGED subject
  /\ \/ subject = "unknown" /\ UnknownNext /\ UNCHANGED <<rateVars, rolloutVars>>
     \/ subject = "rates" /\ RatesNext /\ UNCHANGED <<unknownVars, rolloutVars>>
     \/ subject = "rollout" /\ RolloutNext /\ UNCHANGED <<unknownVars, rateVars>>

Fairness == subject = "unknown" => UnknownFairness
Spec == Init /\ [][Next]_vars /\ Fairness

TypeOK ==
  /\ UnknownTypeOK
  /\ filter \in Range(Candidates) \cup {None}
  /\ Len(daily.slices) <= Len(Slices) /\ DOMAIN recorded \subseteq (1..day) \X Range(Slices)
  /\ rendered \subseteq Version /\ resolved \subseteq Container

\* A player unknown to Blizzard who appears is found again.
UnknownIsFoundAgain == subject = "unknown" => FoundAgain
=============================================================================
