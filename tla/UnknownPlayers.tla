--------------------------- MODULE UnknownPlayers ---------------------------
(***************************************************************************)
(* A player Blizzard does not know: nginx turns the next requests away     *)
(* while a cooldown runs, each further miss lengthens it, and the app      *)
(* forgets who was missed seldom when it stops.  The player is asked for   *)
(* by the Blizzard id and by the BattleTag, and may come to exist.         *)
(*                                                                         *)
(* A cooldown is the ticks it has left, so no clock is kept.               *)
(***************************************************************************)
EXTENDS ParserBasics

CONSTANTS
  Key,           \* what the player is asked for by: the id and the BattleTag
  Tag,           \* the BattleTag
  Client,        \* requests under way at once
  InitialRetry, RetryMultiplier, MaxRetry, \* unknown_player_*_retry, in ticks
  MinRetention,  \* unknown_player_min_retention_count
  MaxCount,      \* bound on the count, which changes no wait beyond it
  MaxRaces       \* bound on the requests while others have not finished

ASSUME RetryAssumption ==
  /\ InitialRetry \in 1..MaxRetry /\ MaxRetry \in Nat /\ RetryMultiplier \in Nat \ {0}
  /\ Tag \in Key /\ MaxCount \in Nat \ {0} /\ MinRetention \in Nat
  \* None is no record of what was read.
  /\ None \notin [key : Key, count : Nat] \cup [key : Key, beside : Key \cup {None}]

VARIABLES
  exists,    \* whether Blizzard has the player's page
  status,    \* key -> the count of misses and the BattleTag beside it, None when there is none
  cooldown,  \* key -> the ticks left and the count, None when there is none
  step,      \* client -> where its request is
  asked,     \* client -> the key it asks for
  seen,      \* client -> the count it read
  served,    \* client -> whether its last request was answered with the profile
  seldom,    \* the eviction's batch: keys it found missed seldom and has not deleted
  erased,    \* the key it deletes and the BattleTag it read beside it, None between two
  missed,    \* ghost: misses, up to MaxCount
  races      \* bound: requests begun while another was under way

requestVars == <<step, asked, seen, served, missed, races>>
evictionVars == <<seldom, erased>>
unknownVars == <<exists, status, cooldown, requestVars, evictionVars>>

UnknownInit ==
  /\ exists = FALSE
  /\ status = [k \in Key |-> None] /\ cooldown = [k \in Key |-> None]
  /\ step = [c \in Client |-> "idle"] /\ asked = [c \in Client |-> Tag]
  /\ seen = [c \in Client |-> None] /\ served = [c \in Client |-> FALSE]
  /\ seldom = {} /\ erased = None /\ missed = 0 /\ races = 0

AtMostCount(n) == IF n > MaxCount THEN MaxCount ELSE n

-----------------------------------------------------------------------------
(* Blizzard and time *)

Appear == ~exists /\ exists' = TRUE
          /\ UNCHANGED <<status, cooldown, requestVars, evictionVars>>

Vanish == exists /\ exists' = FALSE
          /\ UNCHANGED <<status, cooldown, requestVars, evictionVars>>

Elapse ==
  /\ \E k \in Key : cooldown[k] # None
  /\ cooldown' = [k \in Key |->
       IF cooldown[k] = None \/ cooldown[k].left = 1 THEN None
       ELSE [cooldown[k] EXCEPT !.left = @ - 1]]
  /\ UNCHANGED <<exists, status, requestVars, evictionVars>>

-----------------------------------------------------------------------------
(* A request *)

\* unknown_player_retry_multiplier ** n
Multiplied[n \in Nat] == IF n = 0 THEN 1 ELSE RetryMultiplier * Multiplied[n - 1]

\* Mutated form of RetryAfter: without the longest wait.
RetryAfterUncapped(count) == InitialRetry * Multiplied[count - 1]

\* _calculate_retry_after
RetryAfter(count) ==
  LET retry == InitialRetry * Multiplied[count - 1]
  IN IF retry > MaxRetry THEN MaxRetry ELSE retry

\* Mutated form of Refused: whoever is turned away waits anew.
RefusedAnew(k) ==
  cooldown' = [cooldown EXCEPT ![k].left = RetryAfter(cooldown[k].count)]

\* check_unknown_player only reads.
Refused(k) == cooldown' = cooldown

\* valkey_handler.lua: a key in cooldown is answered 404 by nginx, and the app is
\* not asked.
Ask(c, k) ==
  /\ step[c] = "idle"
  /\ LET alone == \A d \in Client : step[d] = "idle"
     IN (alone \/ races < MaxRaces) /\ races' = IF alone THEN races ELSE races + 1
  /\ asked' = [asked EXCEPT ![c] = k]
  /\ IF cooldown[k] # None
     THEN /\ served' = [served EXCEPT ![c] = FALSE] /\ Refused(k)
          /\ UNCHANGED step
     ELSE /\ step' = [step EXCEPT ![c] = "blizzard"] /\ UNCHANGED <<cooldown, served>>
  /\ UNCHANGED <<exists, status, seen, missed, evictionVars>>

\* The identity and the page are fetched.
Found(c) ==
  /\ step[c] = "blizzard" /\ exists
  /\ step' = [step EXCEPT ![c] = "idle"]
  /\ served' = [served EXCEPT ![c] = TRUE]
  /\ UNCHANGED <<exists, status, cooldown, asked, seen, missed, races, evictionVars>>

\* _mark_player_unknown reads the count by the id the request came to know, the one
\* asked for or, of a BattleTag that was resolved, the id: get_player_status, the
\* cooldown before the status.
ReadStatus(c, k) ==
  /\ step[c] = "blizzard" /\ ~exists
  /\ k = asked[c] \/ asked[c] = Tag
  /\ LET count == IF cooldown[k] # None THEN cooldown[k].count
                  ELSE IF status[k] # None THEN status[k].count ELSE 0
     IN seen' = [seen EXCEPT ![c] = [key |-> k, count |-> AtMostCount(count + 1)]]
  /\ missed' = AtMostCount(missed + 1)
  /\ step' = [step EXCEPT ![c] = "mark"]
  /\ UNCHANGED <<exists, status, cooldown, asked, served, races, evictionVars>>

\* set_player_status: the BattleTag asked for cools down beside the id; one asked
\* for by the id alone leaves no BattleTag in the status.
MarkUnknown(c) ==
  /\ step[c] = "mark"
  /\ LET k == seen[c].key
         beside == IF asked[c] = k THEN None ELSE asked[c]
         wait == [left |-> RetryAfter(seen[c].count), count |-> seen[c].count]
     IN /\ status' = [status EXCEPT ![k] = [count |-> seen[c].count, beside |-> beside]]
        /\ cooldown' = [l \in Key |-> IF l \in {k, beside} THEN wait ELSE cooldown[l]]
  /\ step' = [step EXCEPT ![c] = "idle"] /\ seen' = [seen EXCEPT ![c] = None]
  /\ served' = [served EXCEPT ![c] = FALSE]
  /\ UNCHANGED <<exists, asked, missed, races, evictionVars>>

\* Blizzard is unreachable, or Valkey, or the throttle refuses: nothing is marked.
Fail(c) ==
  /\ step[c] # "idle" /\ races < MaxRaces /\ races' = races + 1
  /\ step' = [step EXCEPT ![c] = "idle"] /\ seen' = [seen EXCEPT ![c] = None]
  /\ served' = [served EXCEPT ![c] = FALSE]
  /\ UNCHANGED <<exists, status, cooldown, asked, missed, evictionVars>>

-----------------------------------------------------------------------------
(* evict_low_count_player_statuses, when the app stops *)

\* A batch of keys is read at once; then its seldom ones are deleted one by one.
ReadSeldom ==
  /\ seldom = {} /\ erased = None
  /\ seldom' = {k \in Key : status[k] # None /\ status[k].count < MinRetention}
  /\ UNCHANGED <<exists, status, cooldown, requestVars, erased>>

\* delete_player_status reads the BattleTag beside a key, whatever its count is by now;
ReadBeside(k) ==
  /\ k \in seldom /\ erased = None
  /\ seldom' = seldom \ {k}
  /\ erased' = [key |-> k, beside |-> IF status[k] = None THEN None ELSE status[k].beside]
  /\ UNCHANGED <<exists, status, cooldown, requestVars>>

\* then it deletes the status and both cooldowns; a failure of Valkey is swallowed, and
\* an app that is killed deletes no more.
Erase ==
  /\ erased # None /\ erased' = None
  /\ \/ /\ status' = [status EXCEPT ![erased.key] = None]
        /\ cooldown' = [k \in Key |-> IF k \in {erased.key, erased.beside} THEN None
                                      ELSE cooldown[k]]
        /\ UNCHANGED seldom
     \/ seldom' \in {seldom, {}} /\ UNCHANGED <<status, cooldown>>
  /\ UNCHANGED <<exists, requestVars>>

UnknownNext ==
  \/ Appear \/ Vanish \/ Elapse \/ ReadSeldom \/ Erase
  \/ \E k \in Key : ReadBeside(k)
  \/ \E c \in Client : \/ \E k \in Key : Ask(c, k) \/ ReadStatus(c, k)
                       \/ Found(c) \/ MarkUnknown(c) \/ Fail(c)

\* Time passes, requests come to an end, and each client asks again by each key.
UnknownFairness ==
  /\ WF_unknownVars(Elapse)
  /\ \A c \in Client : /\ WF_unknownVars(Found(c) \/ MarkUnknown(c)
                                         \/ \E k \in Key : ReadStatus(c, k))
                       /\ \A k \in Key : SF_unknownVars(Ask(c, k))

-----------------------------------------------------------------------------
(* Properties *)

\* No cooldown outlasts the longest wait, and none counts more misses than Blizzard
\* answered, however the requests for both keys and the eviction interleave.
UnknownTypeOK ==
  /\ \A k \in Key : cooldown[k] # None =>
       cooldown[k].left \in 1..MaxRetry /\ cooldown[k].count \in 1..missed
  /\ \A k \in Key : status[k] # None => status[k].count \in 1..missed
  /\ \A c \in Client : (step[c] = "mark") <=> (seen[c] # None)

\* A player who exists from some time on is served again, whatever the count was:
\* no cooldown is renewed while nobody asks Blizzard.
FoundAgain == <>[]exists => \A c \in Client : []<>served[c]
=============================================================================
