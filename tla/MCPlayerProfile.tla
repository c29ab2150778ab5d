--------------------------- MODULE MCPlayerProfile ---------------------------
(* Finite instances of PlayerProfile. *)
EXTENDS PlayerProfile, TLC

Alone == Request \cup Worker

\* One spelling: rows that expire, a player search may not list, a call that fails.
Failing(s) ==
  [cast |-> Alone, spellings |-> {s}, hides |-> TRUE, legacy |-> s = Tag,
   expires |-> TRUE, faults |-> 1]

\* A poll beside a request and a refresh; it has no claim and no lock.
Polled(s) ==
  [cast |-> Actor, spellings |-> {s}, hides |-> FALSE, legacy |-> FALSE,
   expires |-> FALSE, faults |-> 0]

\* Any request and any refresh by either spelling.
Mixed ==
  [cast |-> Alone, spellings |-> Spelling, hides |-> FALSE, legacy |-> FALSE,
   expires |-> FALSE, faults |-> 1]

AllScenes == {Failing(s) : s \in Spelling} \cup {Polled(s) : s \in Spelling} \cup {Mixed}
BothSpellings == {Mixed}
=============================================================================
