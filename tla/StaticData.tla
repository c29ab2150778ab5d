----------------------------- MODULE StaticData -----------------------------
(***************************************************************************)
(* Stale-while-revalidate for one static resource (heroes, a hero, roles,  *)
(* maps, gamemodes, patch notes): StaticDataService, the refresh tasks     *)
(* that bypass it, the static_data row they share, and the API-cache       *)
(* entries nginx answers from: one for the bare path and one for each      *)
(* filtered variant of it.                                                 *)
(*                                                                         *)
(* A payload is the version of Blizzard's page it was made from; 0 is      *)
(* "nothing".  Each step is what runs between two awaits.  What is queued  *)
(* and running is abstracted to the slot JobSlots describes.               *)
(***************************************************************************)
EXTENDS Naturals

CONSTANTS
  Request,  \* coroutines in get_or_fetch, mostly for what nginx had no entry for
  Worker,   \* slots of the background worker
  Key,      \* cache keys of the resource; each names the filter it asks for
  Bare,     \* the one its refresh writes and keeps
  Warm,     \* whether the row exists from the start
  CallsFail, \* whether Valkey, PostgreSQL, Blizzard or the worker may be down
  LayoutMoves, \* whether a stored page may no longer parse after a deployment
  Announced,   \* whether a cron task reads the resource too (patch notes only)
  MaxVersion, MaxDeploys  \* bounds

ASSUME StaticAssumption ==
  /\ Bare \in Key
  /\ Request \cap Worker = {}
  /\ Warm \in BOOLEAN /\ CallsFail \in BOOLEAN
  /\ LayoutMoves \in BOOLEAN /\ Announced \in BOOLEAN
  /\ MaxVersion \in Nat \ {0} /\ MaxDeploys \in Nat

Version == 1..MaxVersion
Proc == Request \cup Worker

VARIABLES
  source,   \* what Blizzard publishes
  row,      \* the row of static_data
  cache,    \* api-cache:{key}, NoEntry when absent
  job,      \* the refresh job's slot
  deploys,  \* deployments so far
  down,     \* whether calls may fail at present
  pc, key, filter, payload, stale, doomed  \* locals of each process

locals == <<key, filter, payload, stale, doomed>>
staticVars == <<source, row, cache, job, deploys, down, pc, locals>>

\* raw and parsed columns, data_version = DATA_VERSION, and age below the threshold.
Row == [raw : 0..MaxVersion, parsed : 0..MaxVersion, current : BOOLEAN, fresh : BOOLEAN]

\* The page a rendered entry was made from, and the filter it went through.
Entry == [page : 0..MaxVersion, view : Key]
NoEntry == [page |-> 0, view |-> Bare]

StaticTypeOK ==
  /\ source \in Version
  /\ row \in Row
  /\ cache \in [Key -> Entry]
  /\ job \in {"free", "pending", "running", "blocked"}
  /\ deploys \in 0..MaxDeploys /\ down \in BOOLEAN
  /\ pc \in [Proc -> {"idle", "select", "writeBack", "enqueue", "fetch", "store",
                      "cache", "scan", "delete"}]
  /\ key \in [Proc -> Key] /\ filter \in [Proc -> Key]
  /\ payload \in [Proc -> 0..MaxVersion]
  /\ stale \in [Proc -> BOOLEAN]
  /\ doomed \in [Proc -> SUBSET (Key \ {Bare})]

StaticInit ==
  /\ source = 1
  /\ row = IF Warm THEN [raw |-> 1, parsed |-> 1, current |-> TRUE, fresh |-> TRUE]
                   ELSE [raw |-> 0, parsed |-> 0, current |-> FALSE, fresh |-> FALSE]
  /\ cache = [k \in Key |-> NoEntry]
  /\ job = "free"
  /\ deploys = 0 /\ down = FALSE
  /\ pc = [p \in Proc |-> "idle"]
  /\ key = [p \in Proc |-> Bare] /\ filter = [p \in Proc |-> Bare]
  /\ payload = [p \in Proc |-> 0]
  /\ stale = [p \in Proc |-> FALSE]
  /\ doomed = [p \in Proc |-> {}]

-----------------------------------------------------------------------------
Goto(p, from, to) == pc[p] = from /\ pc' = [pc EXCEPT ![p] = to]

\* The end of a process, its locals forgotten.
End(p, from) ==
  /\ Goto(p, from, "idle")
  /\ key' = [key EXCEPT ![p] = Bare] /\ filter' = [filter EXCEPT ![p] = Bare]
  /\ payload' = [payload EXCEPT ![p] = 0]
  /\ stale' = [stale EXCEPT ![p] = FALSE]
  /\ doomed' = [doomed EXCEPT ![p] = {}]

\* A write whose failure is logged and swallowed.
Writes(value, old) == {value} \cup (IF down THEN {old} ELSE {})

(* get_or_fetch *)

\* nginx finds no entry, and passes the request on.
Miss(r, k) ==
  /\ cache[k] = NoEntry
  /\ Goto(r, "idle", "select")
  /\ key' = [key EXCEPT ![r] = k] /\ filter' = [filter EXCEPT ![r] = k]
  /\ UNCHANGED <<source, row, cache, job, deploys, down, payload, stale, doomed>>

\* notify_hero_changes asks for the newest patch only, under the key of the whole list.
Announce(r, k) ==
  /\ Announced /\ k # Bare
  /\ Goto(r, "idle", "select")
  /\ filter' = [filter EXCEPT ![r] = k]
  /\ UNCHANGED <<source, row, cache, job, deploys, down, key, payload, stale, doomed>>

\* No row: fetch.  A row of this DATA_VERSION: serve its parse.  Any other row:
\* parse its source again, and fetch if it no longer parses.
SelectNothing(r) ==
  /\ Goto(r, "select", "fetch")
  /\ row.raw = 0 \/ (LayoutMoves /\ ~row.current)
  /\ UNCHANGED <<source, row, cache, job, deploys, down, locals>>

SelectRow(r) ==
  /\ row.raw # 0
  /\ Goto(r, "select", IF ~row.current THEN "writeBack"
                       ELSE IF row.fresh THEN "cache" ELSE "enqueue")
  /\ payload' = [payload EXCEPT ![r] = IF row.current THEN row.parsed ELSE row.raw]
  /\ stale' = [stale EXCEPT ![r] = ~row.fresh]
  /\ UNCHANGED <<source, row, cache, job, deploys, down, key, filter, doomed>>

\* The UPDATE touches neither raw nor updated_at, and looks at neither.
WriteBack(r) ==
  /\ Goto(r, "writeBack", IF stale[r] THEN "enqueue" ELSE "cache")
  /\ row' \in Writes([row EXCEPT !.parsed = payload[r], !.current = TRUE], row)
  /\ UNCHANGED <<source, cache, job, deploys, down, locals>>

\* Mutated forms of Enqueue: the refresh is never asked for; a job that is running
\* is asked for again.
EnqueueNot(r) ==
  /\ Goto(r, "enqueue", "cache")
  /\ UNCHANGED <<source, row, cache, job, deploys, down, locals>>

EnqueueAgain(r) ==
  /\ Goto(r, "enqueue", "cache")
  /\ job' = "pending"
  /\ UNCHANGED <<source, row, cache, deploys, down, locals>>

\* Ask for a refresh unless one is on its way; then cache the stale payload.
Enqueue(r) ==
  /\ Goto(r, "enqueue", "cache")
  /\ job' \in IF job # "free" THEN {job}
              ELSE {"pending"} \cup (IF down THEN {"free", "blocked"} ELSE {})
  /\ UNCHANGED <<source, row, cache, deploys, down, locals>>

(* _fetch_and_store, by a request or by the worker *)

Fetch(p) ==
  /\ Goto(p, "fetch", "store")
  /\ payload' = [payload EXCEPT ![p] = source]
  /\ UNCHANGED <<source, row, cache, job, deploys, down, key, filter, stale, doomed>>

Store(p) ==
  /\ Goto(p, "store", "cache")
  /\ row' \in Writes([raw |-> payload[p], parsed |-> payload[p], current |-> TRUE,
                      fresh |-> TRUE], row)
  /\ UNCHANGED <<source, cache, job, deploys, down, locals>>

\* _update_api_cache ends a request; a worker goes on to invalidate.
WriteCache(p) ==
  /\ cache' \in Writes([cache EXCEPT ![key[p]] = [page |-> payload[p], view |-> filter[p]]],
                     cache)
  /\ \/ p \in Request /\ End(p, "cache")
     \/ p \in Worker /\ Goto(p, "cache", "scan") /\ UNCHANGED locals
  /\ UNCHANGED <<source, row, job, deploys, down>>

-----------------------------------------------------------------------------
(* The refresh task *)

Begin(w) ==
  /\ job = "pending"
  /\ job' = "running"
  /\ Goto(w, "idle", "fetch")
  /\ UNCHANGED <<source, row, cache, deploys, down, locals>>

\* Mutated form of Scan: the key just written is not kept.
ScanAll(w) ==
  /\ Goto(w, "scan", "delete")
  /\ doomed' = [doomed EXCEPT ![w] = {k \in Key : cache[k] # NoEntry}]
  /\ UNCHANGED <<source, row, cache, job, deploys, down, key, filter, payload, stale>>

\* _invalidate_derived_cache: the keys are listed first and deleted afterwards.
Scan(w) ==
  /\ Goto(w, "scan", "delete")
  /\ doomed' = [doomed EXCEPT ![w] = {k \in Key \ {Bare} : cache[k] # NoEntry}]
  /\ UNCHANGED <<source, row, cache, job, deploys, down, key, filter, payload, stale>>

\* Then the job's claim is released.
Delete(w) ==
  /\ cache' \in Writes([k \in Key |-> IF k \in doomed[w] THEN NoEntry ELSE cache[k]],
                     cache)
  /\ End(w, "delete")
  /\ job' = "free"
  /\ UNCHANGED <<source, row, deploys, down>>

-----------------------------------------------------------------------------
(* What may go wrong, and the environment *)

\* Blizzard does not answer, or with a page that does not parse: the request ends
\* with an error, the task raises and releases its claim.
FetchFails(p) ==
  /\ down
  /\ End(p, "fetch")
  /\ job' = IF p \in Worker THEN "free" ELSE job
  /\ UNCHANGED <<source, row, cache, deploys, down>>

\* The message, or the worker with the task, is lost: the claim stays.
LoseJob ==
  /\ down /\ job \in {"pending", "running"}
  /\ job' = "blocked"
  /\ pc' = [p \in Proc |-> IF p \in Worker THEN "idle" ELSE pc[p]]
  /\ key' = [p \in Proc |-> IF p \in Worker THEN Bare ELSE key[p]]
  /\ filter' = [p \in Proc |-> IF p \in Worker THEN Bare ELSE filter[p]]
  /\ payload' = [p \in Proc |-> IF p \in Worker THEN 0 ELSE payload[p]]
  /\ doomed' = [p \in Proc |-> {}]
  /\ UNCHANGED <<source, row, cache, deploys, down, stale>>

Unblock == job = "blocked" /\ job' = "free"
           /\ UNCHANGED <<source, row, cache, deploys, down, pc, locals>>

\* A new DATA_VERSION: both processes restart, and evict what was rendered.
Deploy ==
  /\ deploys < MaxDeploys
  /\ deploys' = deploys + 1
  /\ row' = [row EXCEPT !.current = FALSE]
  /\ cache' = [k \in Key |-> NoEntry]
  /\ job' = IF job = "running" THEN "blocked" ELSE job
  /\ pc' = [p \in Proc |-> "idle"]
  /\ key' = [p \in Proc |-> Bare] /\ filter' = [p \in Proc |-> Bare]
  /\ payload' = [p \in Proc |-> 0]
  /\ stale' = [p \in Proc |-> FALSE]
  /\ doomed' = [p \in Proc |-> {}]
  /\ UNCHANGED <<source, down>>

Publish ==
  /\ source < MaxVersion
  /\ source' = source + 1
  /\ UNCHANGED <<row, cache, job, deploys, down, pc, locals>>

\* The row reaches its staleness threshold.
Age ==
  /\ row.fresh
  /\ row' = [row EXCEPT !.fresh = FALSE]
  /\ UNCHANGED <<source, cache, job, deploys, down, pc, locals>>

\* The TTL of an entry runs out.
ExpireEntry(k) ==
  /\ cache[k] # NoEntry
  /\ cache' = [cache EXCEPT ![k] = NoEntry]
  /\ UNCHANGED <<source, row, job, deploys, down, pc, locals>>

\* An outage begins or ends.
Outage == CallsFail /\ down' = ~down
          /\ UNCHANGED <<source, row, cache, job, deploys, pc, locals>>

StaticFault == Outage \/ LoseJob \/ \E p \in Proc : FetchFails(p)

Answer(r) == SelectNothing(r) \/ SelectRow(r) \/ WriteBack(r) \/ Enqueue(r)
Refresh(w) == Begin(w) \/ Scan(w) \/ Delete(w)
Source(p) == Fetch(p) \/ Store(p) \/ WriteCache(p)

StaticNext ==
  \/ StaticFault \/ Unblock \/ Deploy \/ Publish \/ Age
  \/ \E k \in Key : ExpireEntry(k) \/ \E r \in Request : Miss(r, k) \/ Announce(r, k)
  \/ \E r \in Request : Answer(r)
  \/ \E w \in Worker : Refresh(w)
  \/ \E p \in Proc : Source(p)

\* Rows age, entries and claims expire, and what has begun goes on; nobody has to
\* ask for anything.
StaticFairness ==
  /\ WF_staticVars(Age) /\ WF_staticVars(Unblock)
  /\ \A k \in Key : WF_staticVars(ExpireEntry(k))
  /\ \A r \in Request : WF_staticVars(Answer(r))
  /\ \A w \in Worker : WF_staticVars(Refresh(w))
  /\ \A p \in Proc : WF_staticVars(Source(p))

StaticSpec == StaticInit /\ [][StaticNext]_staticVars
StaticFairSpec == StaticSpec /\ StaticFairness

-----------------------------------------------------------------------------
(* Properties *)

\* A row that is there is never replaced by an older page, nor emptied: nobody but
\* the one running refresh fetches while the row can be served.
RowNeverRegresses == [][row'.raw >= row.raw]_staticVars

\* Once nothing fails any more and the page no longer changes, every entry nginx
\* can answer from is of the current page, or gone, and stays so, whatever stale
\* payloads, half-done refreshes and mismatched parses there were before.
Converges ==
  <>[]~down => <>[](\A k \in Key : cache[k].page \in {0, source})
=============================================================================
