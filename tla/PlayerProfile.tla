---------------------------- MODULE PlayerProfile ----------------------------
(***************************************************************************)
(* The profile of one player: PlayerService over the player_profiles row   *)
(* and the rendered API-cache entries, and the refreshes the worker and    *)
(* the rank-alert poll run beside the requests.  The series of snapshots,  *)
(* which no step here reads, is left out.                                  *)
(*                                                                         *)
(* The player is asked for as a BattleTag or as a Blizzard id.  A version  *)
(* is a value of Blizzard's lastUpdated stamp; 0 is "none".  What is known *)
(* of the profile is a pair: the version of the page and the stamp the     *)
(* search gave, and the two are read in calls of their own.                *)
(* A behaviour plays one of Scenes: who takes part, under which spellings, *)
(* and how many calls fail.                                                *)
(* Ages are classes: below half the staleness threshold, above it, and     *)
(* above player_max_serve_age, when cleanup may find the row too old.      *)
(* Each step is what runs between two awaits; single_flight appears as the *)
(* holder of its lock (SingleFlight), the queue as slots (JobSlots).       *)
(***************************************************************************)
EXTENDS Naturals

CONSTANTS
  Request,    \* coroutines in _execute_player_request
  Worker,     \* slots of the worker, for refreshes asked for
  Poller,     \* slots of the worker, for rank-alert polls
  Tag, Id,    \* the two spellings of the player
  Nobody,
  Scenes,     \* who takes part, how the player is asked for, what fails
  MaxVersion  \* bound

Spelling == {Tag, Id}
Refresher == Worker \cup Poller
Actor == Request \cup Refresher
Version == 0..MaxVersion

\* hides: whether search may have no public entry for the player; legacy: whether a
\* localised page was stored before the locale was checked; expires: whether a row may
\* get past player_max_serve_age; faults: how many calls may fail.
Scene == [cast : SUBSET Actor, spellings : SUBSET Spelling,
          hides : BOOLEAN, legacy : BOOLEAN, expires : BOOLEAN, faults : Nat]

ASSUME PlayerAssumption ==
  /\ Tag # Id
  /\ Request \cap Refresher = {} /\ Worker \cap Poller = {} /\ Nobody \notin Request
  /\ \A s \in Scenes : s \in Scene
  /\ MaxVersion \in Nat \ {0}

\* What a page and a search result together say; parsing keeps both.
Payload == [page : Version, stamp : Version]
Nothing == [page |-> 0, stamp |-> 0]

VARIABLES
  version,  \* Blizzard's current version of the profile
  row,      \* the player_profiles row, NoRow when absent
  cache,    \* per spelling, the page its API-cache entry shows, 0 when absent
  job,      \* per spelling, the slot of its refresh job
  holder,   \* per spelling, who holds its single-flight lock
  faults,   \* failures so far
  pc, spell, have, stale, doomed,  \* locals of each actor
  scene,    \* which of Scenes is played
  overtaken \* whether a publication has come between a page and its stamp

locals == <<spell, have, stale, doomed>>
frame == <<scene, overtaken>>
vars == <<version, row, cache, job, holder, faults, pc, locals, frame>>

\* foreign: a localised page.
Row == [page : Version, stamp : Version, parsed : Payload, tag : BOOLEAN,
        foreign : BOOLEAN, age : {"fresh", "stale", "expired"}]
NoRow == [page |-> 0, stamp |-> 0, parsed |-> Nothing, tag |-> FALSE,
          foreign |-> FALSE, age |-> "fresh"]
LegacyRow == [NoRow EXCEPT !.page = 1, !.stamp = 1, !.tag = TRUE, !.foreign = TRUE]

TypeOK ==
  /\ version \in Version \ {0}
  /\ row \in Row
  /\ cache \in [Spelling -> Version]
  /\ job \in [Spelling -> {"free", "queued", "running", "blocked"}]
  /\ holder \in [Spelling -> Request \cup {Nobody}]
  /\ scene \in Scenes /\ overtaken \in BOOLEAN
  /\ faults \in 0..scene.faults
  /\ pc \in [Actor -> {"idle", "read", "waiting", "search", "identify", "fetch",
                       "enrich", "store", "writeBack", "answer", "enqueue",
                       "counterpart", "scan", "delete"}]
  /\ spell \in [Actor -> Spelling]
  /\ have \in [Actor -> Payload]
  /\ stale \in [Actor -> BOOLEAN]
  /\ doomed \in [Actor -> SUBSET Spelling]
  \* A lock is held only from inside the block it guards.
  /\ \A r \in Request, s \in Spelling : holder[s] = r =>
       /\ spell[r] = s
       /\ pc[r] \in {"search", "identify", "fetch", "enrich", "store", "writeBack"}

Init ==
  /\ scene \in Scenes /\ overtaken = FALSE
  /\ version = 1
  /\ row = IF scene.legacy THEN LegacyRow ELSE NoRow
  /\ cache = [s \in Spelling |-> 0]
  /\ job = [s \in Spelling |-> "free"]
  /\ holder = [s \in Spelling |-> Nobody]
  /\ faults = 0
  /\ pc = [a \in Actor |-> "idle"]
  /\ spell = [a \in Actor |-> Tag]
  /\ have = [a \in Actor |-> Nothing]
  /\ stale = [a \in Actor |-> FALSE]
  /\ doomed = [a \in Actor |-> {}]

-----------------------------------------------------------------------------
(* Helpers *)

At(a, label) == pc[a] = label
Goto(a, label) == pc' = [pc EXCEPT ![a] = label]

\* The lock is left by every way out of single_flight.
Release(a) ==
  holder' = [s \in Spelling |-> IF holder[s] = a THEN Nobody ELSE holder[s]]

\* An actor that is done forgets its locals.
Forget(a) ==
  /\ have' = [have EXCEPT ![a] = Nothing]
  /\ stale' = [stale EXCEPT ![a] = FALSE]
  /\ doomed' = [doomed EXCEPT ![a] = {}]
  /\ spell' = [spell EXCEPT ![a] = Tag]

Take(a, payload) == have' = [have EXCEPT ![a] = payload]

\* Who may begin, and with which spelling.
Asked(a, s) == a \in scene.cast /\ s \in scene.spellings

\* get_player_id_by_battletag knows the player; the row names its tag.
Named == row.page # 0 /\ row.tag

\* _get_stored_profile: under the id, or under the recorded tag; a foreign page is not served.
Stored(s) == row.page # 0 /\ ~row.foreign /\ (s = Id \/ row.tag)
Servable(s) == Stored(s) /\ row.age \in {"fresh", "stale"}

\* _parse_stored: the stored parse if there is one, else a parse of the stored page.
StoredPayload ==
  IF row.parsed # Nothing THEN row.parsed ELSE [page |-> row.page, stamp |-> row.stamp]

\* _resolve_player_identity asks search first for a tag, the page first for an id.
Resolve(s) == IF s = Id THEN "fetch" ELSE "search"

-----------------------------------------------------------------------------
(* PlayerService._execute_player_request: storage, and the lock for a miss *)

Begin(r, s) ==
  /\ At(r, "idle") /\ Asked(r, s) /\ Goto(r, "read")
  /\ spell' = [spell EXCEPT ![r] = s]
  /\ UNCHANGED <<frame, version, row, cache, job, holder, faults, have, stale, doomed>>

Hit(r) ==
  /\ Servable(spell[r])
  /\ Take(r, StoredPayload)
  /\ stale' = [stale EXCEPT ![r] = (row.age = "stale")]
  /\ Goto(r, IF row.parsed # Nothing THEN "answer" ELSE "writeBack")
  /\ UNCHANGED <<frame, version, row, cache, job, faults, spell, doomed>>

ReadHit(r) == At(r, "read") /\ Hit(r) /\ UNCHANGED holder

ReadMiss(r) ==
  /\ At(r, "read") /\ ~Servable(spell[r])
  /\ Goto(r, "waiting")
  /\ UNCHANGED <<frame, version, row, cache, job, holder, faults, locals>>

\* The lock is free: look again, and keep it while the hit is written back.
RecheckHit(r) ==
  /\ At(r, "waiting") /\ holder[spell[r]] = Nobody
  /\ Hit(r)
  /\ holder' = IF row.parsed # Nothing THEN holder ELSE [holder EXCEPT ![spell[r]] = r]

RecheckMiss(r) ==
  /\ At(r, "waiting") /\ holder[spell[r]] = Nobody
  /\ ~Servable(spell[r])
  /\ holder' = [holder EXCEPT ![spell[r]] = r]
  /\ Goto(r, Resolve(spell[r]))
  /\ UNCHANGED <<frame, version, row, cache, job, faults, locals>>

-----------------------------------------------------------------------------
(* Identity and page: _resolve_player_identity, _get_player_html *)

\* What search says of the player: it lists public profiles only.
Found == IF scene.hides THEN {0, version} ELSE {version}

Search(a) ==
  /\ At(a, "search")
  /\ \E stamp \in Found : Take(a, [page |-> 0, stamp |-> stamp])
  /\ Goto(a, "identify")
  /\ UNCHANGED <<frame, version, row, cache, job, holder, faults, spell, stale, doomed>>

\* force_update: a refresh stores again what it found unchanged.
Forced(a) == a \in Refresher

\* The stored page is taken to be current when its stamp is the one search gave.
Unchanged(a) ==
  /\ have[a].stamp # 0 /\ row.page # 0 /\ row.stamp = have[a].stamp
  /\ ~row.foreign

\* A request leaves the row as it is, its age included, unless a tag is to be filled in.
IdentifyUnchanged(a) ==
  /\ At(a, "identify") /\ Unchanged(a)
  /\ Take(a, [have[a] EXCEPT !.page = row.page])
  /\ Goto(a, IF Forced(a) \/ ~row.tag THEN "store" ELSE "writeBack")
  /\ UNCHANGED <<frame, version, row, cache, job, holder, faults, spell, stale, doomed>>

\* The page is fetched, also when no tag tells which player of that name is meant.
IdentifyChanged(a) ==
  /\ At(a, "identify") /\ (~Unchanged(a) \/ ~row.tag)
  /\ Goto(a, "fetch")
  /\ UNCHANGED <<frame, version, row, cache, job, holder, faults, locals>>

\* The page itself, from its id or through the redirect from the tag.
Fetch(a) ==
  /\ At(a, "fetch")
  /\ Take(a, [have[a] EXCEPT !.page = version])
  /\ Goto(a, IF spell[a] = Id THEN "enrich" ELSE "store")
  /\ UNCHANGED <<frame, version, row, cache, job, holder, faults, spell, stale, doomed>>

\* _enrich_from_blizzard_id: the name on the page is searched for, to stamp that page.
Enrich(a) ==
  /\ At(a, "enrich")
  /\ \E stamp \in Found :
       /\ Take(a, [have[a] EXCEPT !.stamp = stamp])
       /\ overtaken' = (overtaken \/ stamp > have[a].page)
  /\ Goto(a, "store")
  /\ UNCHANGED <<version, row, cache, job, holder, faults, spell, stale, doomed, scene>>

\* Mutated form of Store: the stamp is the one in force when the page is stored.
StoreRestamped(a) ==
  /\ At(a, "store")
  /\ row' = [page |-> have[a].page, stamp |-> version, parsed |-> Nothing,
             tag |-> row.tag \/ spell[a] = Tag, foreign |-> FALSE, age |-> "fresh"]
  /\ Goto(a, "writeBack")
  /\ UNCHANGED <<frame, version, cache, job, holder, faults, locals>>

\* The upsert forgets the parse and keeps a tag that is already there.
Store(a) ==
  /\ At(a, "store")
  /\ row' = [page |-> have[a].page, stamp |-> have[a].stamp, parsed |-> Nothing,
             tag |-> row.tag \/ spell[a] = Tag, foreign |-> FALSE, age |-> "fresh"]
  /\ Goto(a, "writeBack")
  /\ UNCHANGED <<frame, version, cache, job, holder, faults, locals>>

\* The UPDATE puts the parse beside whatever page the row holds by now.
WriteParsed(a) ==
  row' = IF row.page = 0 THEN row ELSE [row EXCEPT !.parsed = have[a]]

\* A request answers with its payload, a refresh evicts.
AfterWriteBack(a) ==
  /\ Goto(a, IF a \in Request THEN "answer" ELSE "counterpart")
  /\ have' = IF a \in Request THEN have ELSE [have EXCEPT ![a] = Nothing]
  /\ UNCHANGED <<spell, stale, doomed>>

WriteBack(a) ==
  /\ At(a, "writeBack")
  /\ WriteParsed(a) /\ Release(a) /\ AfterWriteBack(a)
  /\ UNCHANGED <<frame, version, cache, job, faults>>

-----------------------------------------------------------------------------
(* The API cache, the refresh *)

Answered(r) ==
  \/ ~stale[r] /\ Goto(r, "idle") /\ Forget(r)
  \/ /\ stale[r] /\ Goto(r, "enqueue") /\ Take(r, Nothing)
     /\ UNCHANGED <<spell, stale, doomed>>

\* The entry is written before the refresh is asked for.
Answer(r) ==
  /\ At(r, "answer")
  /\ cache' = [cache EXCEPT ![spell[r]] = have[r].page]
  /\ Answered(r)
  /\ UNCHANGED <<frame, version, row, job, holder, faults>>

\* The history endpoints warm the profile without an entry of their own.
AnswerWarm(r) ==
  /\ At(r, "answer")
  /\ Answered(r)
  /\ UNCHANGED <<frame, version, row, cache, job, holder, faults>>

Enqueue(r) ==
  /\ At(r, "enqueue") /\ Goto(r, "idle") /\ Forget(r)
  /\ job' = [job EXCEPT ![spell[r]] = IF @ = "free" THEN "queued" ELSE @]
  /\ UNCHANGED <<frame, version, row, cache, holder, faults>>

-----------------------------------------------------------------------------
(* PlayerService.refresh_player_profile, by the worker's task and by the poll *)

Start(w, s) ==
  /\ At(w, "idle") /\ Asked(w, s) /\ Goto(w, Resolve(s))
  /\ spell' = [spell EXCEPT ![w] = s]
  /\ UNCHANGED <<frame, version, row, cache, holder, faults, have, stale, doomed>>

BeginRefresh(w, s) ==
  /\ job[s] = "queued"
  /\ Start(w, s)
  /\ job' = [job EXCEPT ![s] = "running"]

\* notify_rank_changes refreshes a watched player without a claim.
Poll(w, s) == Start(w, s) /\ UNCHANGED job

\* The other identifier, if the row has it.
Counterpart(w) ==
  /\ At(w, "counterpart") /\ Goto(w, "scan")
  /\ doomed' = [doomed EXCEPT ![w] = IF Named THEN Spelling ELSE {spell[w]}]
  /\ UNCHANGED <<frame, version, row, cache, job, holder, faults, spell, have, stale>>

ScanKeys(w) ==
  /\ At(w, "scan") /\ Goto(w, "delete")
  /\ doomed' = [doomed EXCEPT ![w] = {s \in @ : cache[s] # 0}]
  /\ UNCHANGED <<frame, version, row, cache, job, holder, faults, spell, have, stale>>

\* A refresh that ends releases its claim; a poll has none.
Finish(w) ==
  /\ Goto(w, "idle") /\ Forget(w)
  /\ job' = IF w \in Poller THEN job ELSE [job EXCEPT ![spell[w]] = "free"]

Delete(w) ==
  /\ At(w, "delete") /\ Finish(w)
  /\ cache' = [s \in Spelling |-> IF s \in doomed[w] THEN 0 ELSE cache[s]]
  /\ UNCHANGED <<frame, version, row, holder, faults>>

-----------------------------------------------------------------------------
(* Failures *)

Fault == faults < scene.faults /\ faults' = faults + 1

\* Mutated form of Fail: the error path does not leave the lock.
FailHolding(a) ==
  /\ Fault
  /\ pc[a] \in {"read", "waiting", "search", "identify", "fetch", "store"}
  /\ UNCHANGED holder
  /\ IF a \in Refresher THEN Finish(a) ELSE Goto(a, "idle") /\ Forget(a) /\ UNCHANGED job
  /\ UNCHANGED <<frame, version, row, cache>>

\* Blizzard or storage fails: the exception leaves the scaffold.
Fail(a) ==
  /\ Fault
  /\ pc[a] \in {"read", "waiting", "search", "identify", "fetch", "store"}
  /\ Release(a)
  /\ IF a \in Refresher THEN Finish(a) ELSE Goto(a, "idle") /\ Forget(a) /\ UNCHANGED job
  /\ UNCHANGED <<frame, version, row, cache>>

\* Calls that are guarded on their own: the error is logged and the flow goes on.
EnrichFails(a) ==
  /\ Fault /\ At(a, "enrich") /\ Goto(a, "store")
  /\ UNCHANGED <<frame, version, row, cache, job, holder, locals>>

WriteBackFails(a) ==
  /\ Fault /\ At(a, "writeBack") /\ Release(a) /\ AfterWriteBack(a)
  /\ UNCHANGED <<frame, version, row, cache, job>>

CounterpartFails(w) ==
  /\ Fault /\ At(w, "counterpart") /\ Goto(w, "scan")
  /\ doomed' = [doomed EXCEPT ![w] = {spell[w]}]
  /\ UNCHANGED <<frame, version, row, cache, job, holder, spell, have, stale>>

\* The claim is taken and its message never pushed.
EnqueueFails(r) ==
  /\ Fault /\ At(r, "enqueue") /\ Goto(r, "idle") /\ Forget(r)
  /\ job' = [job EXCEPT ![spell[r]] = IF @ = "free" THEN "blocked" ELSE @]
  /\ UNCHANGED <<frame, version, row, cache, holder>>

\* The worker dies, or its eviction and its release are lost: the claim waits for its TTL.
Die(w) ==
  /\ Fault /\ ~At(w, "idle")
  /\ Goto(w, "idle") /\ Forget(w)
  /\ job' = IF w \in Poller THEN job ELSE [job EXCEPT ![spell[w]] = "blocked"]
  /\ UNCHANGED <<frame, version, row, cache, holder>>

-----------------------------------------------------------------------------
(* Time and Blizzard *)

Unblock(s) ==
  /\ job[s] = "blocked" /\ job' = [job EXCEPT ![s] = "free"]
  /\ UNCHANGED <<frame, version, row, cache, holder, faults, pc, locals>>

Older(age) == IF age = "fresh" THEN "stale" ELSE "expired"

Age ==
  /\ row.page # 0 /\ (row.age = "fresh" \/ (row.age = "stale" /\ scene.expires))
  /\ row' = [row EXCEPT !.age = Older(@)]
  /\ UNCHANGED <<frame, version, cache, job, holder, faults, pc, locals>>

\* cleanup_stale_players
Cleanup ==
  /\ row.age = "expired" /\ row' = NoRow
  /\ UNCHANGED <<frame, version, cache, job, holder, faults, pc, locals>>

\* Mutated form of ExpireEntry: entries have no TTL.
ExpireEntryNever(s) == cache[s] # 0 /\ FALSE /\ UNCHANGED vars

ExpireEntry(s) ==
  /\ cache[s] # 0 /\ cache' = [cache EXCEPT ![s] = 0]
  /\ UNCHANGED <<frame, version, row, job, holder, faults, pc, locals>>

\* The player played: Blizzard publishes a page with a new stamp.
Publish ==
  /\ version < MaxVersion /\ version' = version + 1
  /\ UNCHANGED <<frame, row, cache, job, holder, faults, pc, locals>>

-----------------------------------------------------------------------------
RequestStep(r) ==
  \/ ReadHit(r) \/ ReadMiss(r) \/ RecheckHit(r) \/ RecheckMiss(r)
  \/ Answer(r) \/ AnswerWarm(r) \/ Enqueue(r)

ProfileStep(a) ==
  \/ Search(a) \/ IdentifyUnchanged(a) \/ IdentifyChanged(a)
  \/ Fetch(a) \/ Enrich(a) \/ Store(a) \/ WriteBack(a)

EvictStep(w) == Counterpart(w) \/ ScanKeys(w) \/ Delete(w)

ActorFault(a) ==
  \/ Fail(a) \/ EnrichFails(a) \/ WriteBackFails(a)

Next ==
  \/ \E r \in Request : RequestStep(r) \/ EnqueueFails(r) \/ \E s \in Spelling : Begin(r, s)
  \/ \E a \in Actor : ProfileStep(a) \/ ActorFault(a)
  \/ \E w \in Refresher : EvictStep(w) \/ CounterpartFails(w) \/ Die(w)
  \/ \E w \in Worker, s \in Spelling : BeginRefresh(w, s)
  \/ \E w \in Poller, s \in Spelling : Poll(w, s)
  \/ \E s \in Spelling : Unblock(s) \/ ExpireEntry(s)
  \/ Age \/ Cleanup \/ Publish

Spec == Init /\ [][Next]_vars

\* Calls return, the worker consumes, TTLs run out, and somebody keeps asking.
FairSpec ==
  /\ Spec
  /\ \A r \in Request : WF_vars(RequestStep(r) \/ ProfileStep(r))
  /\ \A w \in Refresher : WF_vars(ProfileStep(w) \/ EvictStep(w))
  /\ \A r \in Request : WF_vars(\E s \in Spelling : Begin(r, s))
  /\ \A w \in Worker : WF_vars(\E s \in Spelling : BeginRefresh(w, s))
  /\ \A s \in Spelling : WF_vars(Unblock(s)) /\ WF_vars(ExpireEntry(s))
  /\ WF_vars(Age \/ Cleanup)

-----------------------------------------------------------------------------
(* Properties *)

\* _get_player_html's words: a stored page whose lastUpdated is the one search gave has
\* not changed on Blizzard's side, so it is as new as that answer.
MatchIsCurrent ==
  \A a \in Actor : At(a, "identify") /\ Unchanged(a) => row.page >= have[a].stamp

\* The match can be trusted, under both spellings and whoever stored the row, until a
\* publication has come between a page read by id and the search that stamps it: no
\* other order of requests, refreshes, polls and failures gives a row too new a stamp.
MatchTrusted == ~overtaken => MatchIsCurrent

\* What is stored, and on its way there, is as new as its stamp.
Aligned ==
  /\ row.page >= row.stamp /\ row.parsed.page >= row.parsed.stamp
  /\ \A a \in Actor : At(a, "store") \/ At(a, "writeBack") => have[a].page >= have[a].stamp

\* A player somebody keeps asking for is shown as Blizzard last published it: from
\* some time on the stored page, its stored parse and every rendered entry that is
\* there are of the current version (refresh_player_profile, _evict_player_cache_keys).
\* Where both spellings are used, a page with too new a stamp may stay for good: there
\* it is promised when no such page is left.
Current ==
  /\ row.page \in {0, version} /\ row.parsed.page \in {0, version}
  /\ \A s \in Spelling : cache[s] \in {0, version}
OneSpelling == \E s \in Spelling : scene.spellings = {s}
Converges == <>[](Current \/ (~OneSpelling /\ ~Aligned))

=============================================================================
