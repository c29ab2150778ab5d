# OverFast API: formal models, checks and proofs

OverFast API serves Overwatch data that it scrapes from Blizzard's pages. Three things are
hard in it. Every answer comes from a chain of copies (Blizzard's page, a PostgreSQL row, the
parse stored beside it, an entry in Valkey that nginx serves without asking anybody), each
renewed by another party, while Blizzard punishes whoever asks too often. Blizzard's pages
change under the parsers' feet, and what they cannot name must cost its own row and no more.
And what is computed from pages that were recorded in any order must neither invent a game nor
tell anybody of it twice. This directory models that in TLA+: who copies what, when, under
which lock or claim, what a page becomes on its way to an answer, and what happens when a call
fails, comes late or is made twice.

* `<Component>.tla` models a component; `MC<Component>.tla` and the `.cfg` files make it
  finite for TLC; the `*_proofs.tla` hold theorems TLAPS proves for every value of the constants:
  one module for each component, but for `Refresh_proofs` (the job queue and the static data its
  jobs renew), `Parts_proofs` (`Edge` and `Pages`, with their parts) and `Basics_proofs` (lemmas
  on numbers, sequences and sums that others extend).
* `PROJECT.json` relates every definition to its source lines and lists components, runs,
  mutants (a plausible bug for every property, which must break it), hazards, divergences
  found and theorems.

Check a module with `tlc -workers 2 -config X.cfg MCModule`, a proof with `tlapm M_proofs.tla`.

## 1. The system

Three kinds of process share one PostgreSQL and one Valkey: nginx (with a Lua handler that
answers from Valkey), the API process (FastAPI on one asyncio event loop) and one worker
(taskiq, also one event loop), with a scheduler that pushes cron messages. Inside a process,
interleaving happens at `await` only; between processes, anywhere.

| Component | State | Operations | Hard because |
|---|---|---|---|
| `single_flight` (player_service.py) | a dict of asyncio locks and a dict of user counts, per process | enter, leave, be cancelled while waiting | the lock object is created by the first user and dropped by the last, while others may be parked on it |
| Throttle (throttle.py, client.py) | delay, threshold, streak, time of last 403 and of last request in Valkey; a pace lock and a local penalty clock per process | wait before a request, adjust after 200 / 403 / other | every read and write of the shared values is its own await; two processes, one controller |
| Job queue (valkey_task_queue.py, valkey_broker.py, worker.py) | claim keys with a TTL, a list of messages, running tasks | enqueue (claim, push), pop, run, release, cron | claim and push are two calls; delivery is at most once; claims outlive or under-live their jobs |
| Static data (static_data_service.py, base_service.py) | a row with raw page and parse, cache entries per filtered variant, the refresh job | request, stale answer, refresh, invalidate | stale answers are cached while a refresh deletes what was derived from the old row |
| Player profiles (player_service.py) | a row with page, parse, `lastUpdated`, tag and id; rendered entries per spelling; jobs per spelling | request by tag or by id, refresh, alert poll, eviction, cleanup | the page and the stamp that names its version come from different calls; two names for one player |
| Unknown players (player_service.py, valkey_cache.py, Lua) | status and cooldown keys under id and tag | refuse early, mark, back off, evict when the app stops | read-modify-write across calls, two spellings, one party refuses and another marks |
| Career pages (player_profile.py, player_stats.py, player_career_stats.py, models) | none | page to profile, filters, totals, career tables, snapshot, response | rows nobody can name yet; the same career added up in several ways |
| Site pages (heroes.py, hero.py, patch_notes.py, player_search.py) | the localised heroes lists stored | page to list, merge with heroes.csv, hero keys of notes, search | lists that must stay aligned; names that are another hero's |
| Snapshots (player_snapshot.py, storage) | a series per player | record, history, diff, sessions, retention | written as a by-product by many, ordered by arrival, across seasons |
| Rank alerts (push_service.py, push_alerts.py, senders.py) | subscriptions, rank last announced, snapshots | poll, compare, announce, send, drop, register | at-most-once delivery over runs that fail anywhere |
| Hero alerts and recaps (push_service.py) | patch and week last told, per device | daily and hourly runs | as above; local dates; rows replaced while a run goes on |
| Hero statistics (hero_service.py) | the filter that worked, one snapshot a day and slice | compute, record | Blizzard renames its filter and answers an unknown one with something else |
| Edge cache (nginx Lua) | the addresses it resolved | answer from Valkey, refuse, or pass on | serves whatever was written last |
| Start and deployment (lifespan.py, deploy.sh) | containers, rendered entries | switch versions, evict entries | old and new code side by side |

### How they interact

A request reaches nginx, which answers from Valkey when the key exists, and refuses while a
player's cooldown runs. Otherwise the API reads PostgreSQL; a fresh row is rendered and cached;
a stale one too, with a short TTL, and a refresh is *enqueued*: the job's claim key is taken
with `SET NX EX`, then a message is pushed. The worker pops it, fetches from Blizzard through
the throttle, stores the row, renders and caches the main variant and deletes the entries
derived from the old row, then releases the claim. If there is no usable row the request itself
fetches, inside `single_flight`. Every player page that is fetched is recorded in the series of
snapshots. The four-hourly alert run refreshes watched players directly, without a claim; the
daily hero announcement reads patch notes through the request path, and both it and the hourly
recaps read the series. A deployment runs old and new code side by side for a while.

### What must be right

* single_flight: one coroutine per key inside; nobody waits for ever; no entry leaks.
* throttle: requests of a process keep the delay apart; a penalty slows everybody down and is
  never undone during its time; afterwards the delay recovers; every request ends.
* queue: a pending or running job is not queued again; a lost message blocks its id only for a
  while; what is asked for keeps running.
* static data and players: a row never goes back to an older page; whatever stale or mismatched
  copies exist, everything served becomes current once calls succeed; a page kept without
  fetching really is current.
* pages: what cannot be named or read costs its own row; what is served passes its own response
  model; totals agree on every route; nothing appears under another hero, ability or player.
* history: sessions leave nothing out and count nothing twice; no game is invented.
* alerts: one notification for one move, patch or week on each device, and none of the lasting
  moves missed.
* unknown players: the wait is bounded, and a player who comes to exist is found again.
* hero statistics: quickplay rates are never shown as competitive.
* deployment: nginx always knows an app that serves; nothing of the old code is left.

## 2. The modules

A step of an action is what runs between two awaits that suspend, so an action's guard reads
what the code read *before* its await only if the code kept it in a variable, which is then a
variable of the model as well (`have`, `doomed`, `d`, `note`, ...).

### KeyedQueueLock, SingleFlight
`KeyedQueueLock` is what `single_flight(key)` promises: one line of callers for each key, who is
first may be inside, anyone may give up. A line is kept as who stands in it and who is ahead of
whom, not as a sequence, so that leaving it from the middle is a difference of sets. `SingleFlight`
is the code: `locks` and `users` are `_INFLIGHT_LOCKS` and `_INFLIGHT_WAITERS`; `owner`, `waiters`
and `fut` are asyncio.Lock's flag, deque and futures (external, modelled from its documented
algorithm: release wakes the first waiter and leaves the lock *free* until that waiter runs; a
cancelled waiter passes the wake-up on). `LineMap`, `AheadMap` and `InsideMap` are the refinement
mapping.

### ThrottleArithmetic, ThrottleController, Throttle
`ThrottleArithmetic` has the formulas (halving, capped penalty, streak), `ThrottleController` the
controller that the three documented reactions define, atomically. `Throttle` has every await:
`AdmissionCheck`, `AcquirePace`, `ReadDelay`, ..., `Fire`, `WriteLastRequest`, ..., `Got403`,
`PenReadDelay`, `PenWriteDelay`, ... Time is kept as saturating ages (since the last 403, since the
last request), so there is no clock to bound. What a behaviour looks at is fixed at its start by
`Settings`: `overlap`, whether requests are ever under way at once, and `flaky`, whether Valkey
calls fail, in which case a read yields the code's default and a write is lost. What the code keeps
only for one request at a time and an answering Valkey (`Atomic`: `NoRecoveryAlone`,
`ImplementsController`, `Recovers`) is stated for those behaviours, in the same run as the
properties of all: that requests end is asked with a failing Valkey too.

### JobSlots, TaskQueue, OncePerId
`JobSlots` is `TaskQueuePort` as its docstring describes it: a job id is free, pending, running,
or blocked by a lost message until its key expires. The port's promise is off for a job that
outlasts its claim (`Outlast`). `TaskQueue` has claims, the list, the broker's client (`Open`,
`Pop`, `BackOff`), the running tasks, and the faults: push fails after the claim, an answer is lost
after the command took effect, a connection breaks with a message in hand, the worker dies. A claim
may expire while its job waits or runs (`ExpireOverdue`, counted by the ghost `overdue`), after which
the job may be queued again and one task releases the claim of another; `OneLivePerClaim` says what
is left of deduplication then. `OncePerId` puts the lock of a process and the claims
between processes in one specification with one `subject` each.

### StaticData
One resource, its row (`raw` page, parse, age), one entry for the bare path and one for each
filtered variant, requests, worker slots, and the job's slot as in `JobSlots`. `Deploy` is a new
version of the parser (`DATA_VERSION`), with the eviction of rendered entries at start;
`LayoutMoves` lets a stored page stop parsing. `Announce` is the daily hero announcement.

### PlayerProfile
One player under two spellings. A payload is a pair (version of the page, stamp of the search
answer), because the two are read in different calls, and their order differs between the path by
tag (search, then page) and by id (page, then search). What a request does after a miss runs under
the single-flight lock of the *requested* spelling; refreshes (`Worker`) and the alert poll
(`Poller`) do not take it. `Unchanged` is the comparison of lastUpdated, with the check of the
stored page's locale; a match of a row without a BattleTag stores the row again, with it. `Age`,
`Older` are the staleness threshold and the maximum age served. A behaviour plays one of `Scenes`:
who takes part, by which spellings, whether search may hide the player, whether the row is a page of
before the locale was checked, whether rows expire, and how many calls fail. `overtaken` is a ghost:
a publication has come between a page read by id and the search that stamps it.

### ParserBasics, CareerPage, CareerNumbers, CareerResponses, CareerPages
A career page is a record of what the parser looks for in it: a node that is not there is
`Missing`, an attribute `None`, a name a value. `CareerPage` is the parser: `ParseProfile` is a
function from page to profile or failure, one operator for each function of player_profile.py,
with every row, card and role it skips and every node without which it fails. `CareerNumbers`
computes what the routes, the career tables and the stored snapshot make of a profile.
`CareerResponses` is what the pydantic models accept. `CareerPages` has the page as a variable:
a player plays (`AddBar`, `AddCard`, `AddWrapper`, ...), Blizzard ships what the API cannot name,
rewords and translates labels (`Strange`, `Reworded`), or drops a node (`Drop`).

### BlizzardPages, SitePages, Pages
`BlizzardPages` has the parsers of the heroes index, of one hero's page (abilities, videos,
story), of the patch notes with their hero keys, and the search with filter, order and pages.
`SitePages` is the site and what is stored of it: heroes are released, heroes.csv follows with a
deployment, a localised list is stored and outgrown, a search finds another player. `Pages` puts
the careers and the site in one specification whose behaviours look at one `topic`, because
they share no state.

### PushAlerts
`notify_rank_changes` step by step: `Prune`, `Roster`, `Refresh`, `RecordByRun`, `Compare`,
`CheckAnnounced`, `Devices`, `Record`, `Compose`, `Deliver` / `Refused`, `Drop`; beside it requests
that fetched a page earlier and record its snapshot later, and devices that register, unregister and
vanish. A failure of storage costs a player (`PlayerFails`), also after its rank was recorded as
announced; a snapshot that cannot be stored (`RecordFails`) costs nothing but itself. The series is
kept under the Blizzard id (`Canonical`), and read under the id the device sent (`Snapshots`).
`MoveIsAnnounced` asks for the delivery where nothing was lost on the way, and for the record of it
otherwise.

### Snapshots, PlayerHistory, DeviceAlerts, History
`Snapshots` computes: the difference of two payloads, sessions, the rank that is higher, the heroes
of an alert, the numbers of a recap. `PlayerHistory` is the series with its world: a page changed by
games, seasons and privacy, requests that fetch (`Fetch`) and record later (`Record`), retention.
The series is a set of rows, as the table is; its order is that of `PlayerSnapshots`, the query.
Sessions are sets of rows, as no two rows are of one version: `Starts` are the rows more than the
gap behind the `Previous` one, `Group` the rows from a start to the next. `played` is a ghost, the
games truly played by a version. `SessionsAddUp` is about the sessions, `NoGamesInvented` about any
two rows, as a recap or a diff takes them. `DeviceAlerts` has the daily hero run and the hourly
recap run over the rows of push_subscriptions: the roster is read once (`StartHeroes`,
`StartRecap`), each device is decided and marked (`Decide`), told (`Send`) and the dead are dropped
(`Finish`), while devices launch, unregister and uninstall. One delivery may fail alone
(`DeliveryFails`: a timeout, an error of the service, no credentials), and the run goes on. A row
has a `life`, a ghost that tells a device's rows apart. `History` composes them: the devices'
behaviours are over the series that `PlayerHistory` moves.

### UnknownPlayers, HeroRates, Rollout, Edge
`UnknownPlayers` has the status and the cooldown under both keys, a cooldown as the ticks it has
left; `Ask` is nginx (refused while it runs), `ReadStatus` and `MarkUnknown` the app's read and its
write. The eviction reads a batch of keys (`ReadSeldom`), then deletes key by key, each with the tag
it read beside it (`ReadBeside`, `Erase`), while requests mark. `HeroRates` tries the candidates of
Blizzard's competitive filter, one a step (`TryFilter`), for a request and for the daily recording,
which share the cached one (`CacheFilter`); a page of rates is a set of rows, compared to what was
asked by gamemode and by map, and it may be unreadable. `Rollout` is deploy.sh beside everything
that may render meanwhile: it starts from whatever an ended script left (two old containers, running
or exited), may end at any command (`Abort`), may find no new container (`FindNew`), and then leaves
the choice to compose (`ScaleToOne`). `Edge` puts them in one specification with one `subject` each;
they share nothing but the eviction when the app stops, which each has.

### Composition
Components meet through a small interface, and each side uses the other's abstraction:
`StaticData` and `PlayerProfile` have the queue as `JobSlots`, which `TaskQueue` implements
(`ImplementsSlots`), and `PlayerProfile` has single_flight as the holder of a lock, which
`SingleFlight` implements (`ImplementsLine`). The row and entries of `PlayerProfile` and the
series of `PushAlerts` and `PlayerHistory` touch only through "a fetched page is recorded once";
a page is a version in the former and a career in the latter. The parsers are "a page yields
the version it holds, or fails to parse" in the modules of copies, and functions in those of
pages.

## 3. The runs

| Run | Instance | Shows |
|---|---|---|
| `once_per_id` | 3 coroutines, 2 keys, 3 lock objects; 2 jobs, 1 cron task, 2 clients, 2 slots, all faults, 1 claim per job that expires early | the lock: type invariant, mutual exclusion, one shared lock for each key in use, no lost wake-up, refinement of `KeyedQueueLock` (`ImplementsLine`), whose lines also move (`LineKeepsMoving`). The queue: no message beyond those of claims (`OneLivePerClaim`), refinement of `JobSlots` (`ImplementsSlots`), blocked jobs are freed, and what is asked for is served once faults stop (`Served`) |
| `throttle` | two tasks of one process, with and without overlap, with and without failures of Valkey, delays 1 < 2 < 3 < 4 | every request ends; while Valkey answers they stay the delay apart; without overlap the awaits add up to `ThrottleController`, a penalty is not undone in its time, the delay returns to its minimum |
| `throttle_lost_penalty` | two tasks | *violation*: a 200 being counted overwrites the delay of a 403 |
| `static_warm` | 2 requests, 2 workers, 2 keys, 2 versions, 1 deployment | type invariant; the row never regresses |
| `static_converges` | 2 requests, 1 worker, cold start, layout moves | everything nginx can serve becomes current |
| `player_profile` | 1 request, 1 refresh, 1 poll, 2 versions. Scenes: a request and a refresh by either spelling, with private profiles, rows that expire and 1 failure; the same with a poll; both spellings with 1 failure | a match is current unless a publication came between page and stamp (`MatchTrusted`); locks are held only in their block; row, parse and entries become current |
| `profile_mixed` | both spellings with 1 failure | *violation*: a match is not current (6.3) |
| `pages` | 2 heroes, 3 edits of a career; 3 heroes, 2 languages, 4 edits of the site; a search of 5 | every answer passes its response model; times add up and routes agree (`RoutesAgree`); what is unknown costs its row; notes, videos and search pages belong to whom they are shown under |
| `push_alerts` | 1 player by id, 2 devices, 1 run, 1 reader, 3 versions, ranks 0..2, 1 fault | told once; a lasting move is announced |
| `push_by_tag` | the player watched by BattleTag | *violation*: never announced |
| `history` | 2 requests, 3 games in 2 sections, 1 season's end, 4 ticks; 1 device, 3 changes | sessions add up and invent no game; a device is told once of each patch and week |
| `edge` | 2 clients, 2 keys, waits 1 then 2; 2 renamings, 2 maps, 2 slices, 2 days; one rollout beside what two ended ones left | a player who appears is found again; rates are competitive; a rollout keeps serving and ends with the new code only |

**Why the bounds are enough.** The races are between two actors over one object, with a third party
(a deployment, a failure, a new version) once in between. Three coroutines are the least that let a
lock be dropped and recreated while one still waits; three lock objects let a stale one survive. Two
tasks are enough for a lost update; the delays keep the configured order so every branch of the
arithmetic is reached, and `SlowStartN` = `AimdN` = 2 so that a streak has a middle. Two versions of
a page are one old and one new, and no code compares more than two; three stamps and two ranks give
moves there and back. One fault at every possible place covers each await once; the proofs cover any
number. A career's parser treats rows one by one, so what two rows do to one another (same category,
same hero, same label after renaming) is what matters: three edits after the first section put a
genuine, an unreadable and a foreign row beside one another in every order. Three heroes allow a
name of one in another language to be another's. Three games on four ticks make two sessions with a
gap, a recording out of order, and a season between two of them. Two misses reach the longest wait,
and the formula exceeds it there; two renamings lead away from a filter and back, or to a value that
is no candidate. One early expiry lets two messages of a job live at once, the least in which one
task releases the other's claim. Every action fires in some passing run. Deadlock is checked except
in `pages`, `history` and `edge`, whose behaviours end when their bounds are used up.

Bounds by name: `MaxVersion`, `MaxDeploys`, `MaxBacklog`, `MaxOverdue`, `MaxFaults`, `faults` of a
scene, `MaxStamp`, `MaxRank`, `MaxEdits`, `MaxSiteEdits`, `MaxNow`, `MaxGames`, `FewGames`,
`MaxChanges`, `MaxCount`, `MaxRaces`, `MaxDay`, `MaxRenamings`. They are guards of `Publish`,
`Deploy`, `Schedule`, `ExpireOverdue`, `Fault`, `Play`, `Edit`, `Tick`, `Change`, `Ask`, `Fail`,
`NextDay`, `RenameFilter`, so a behaviour that reaches one goes on without that action; `MaxCount`
caps a count that lengthens no wait beyond it.

Two parameters are chosen for what the code's own values rule out. In `throttle` a streak is two
successes a penalty's delay apart and a penalty is no longer than that, as ten successes 10 s
apart outlast 60 s in config.py:158-182 (`Unhurried` of Throttle_proofs; with one success enough,
a penalty would be undone in its time). A recap run is over before the next tick, which is half a
day.

## 4. Fairness

* `SingleFlight`: the event loop runs what is ready, and a body ends, because each await in it is
  a storage or HTTP call with a timeout. Nobody has to call or to be cancelled.
* `Throttle`: time passes, Valkey and Blizzard answer or fail (the HTTP client has a timeout). The pace
  lock is granted with *strong* fairness: asyncio.Lock is first come, first served, which
  `SingleFlight` models in full.
* `TaskQueue`: client, broker and tasks go on, claims expire. `Served` has the demand (strong
  fairness of `Claim`) and the end of faults as *premises* of the property.
* `StaticData`: rows age, entries and claims expire, what has begun goes on. Nobody has to
  ask for anything.
* `PlayerProfile`: also that somebody keeps asking by a spelling in use, and that the nightly cleanup
  runs. A profile nobody asks for stays old, by design. Polls that begin end, but need not begin.
* `PushAlerts`: the scheduled run makes steps; nothing is assumed of devices, players or readers.
* `UnknownPlayers`: time passes, a request that reached the app ends, and each client asks by each
  key again and again: strong fairness, as other requests come between. The eviction need neither
  begin nor end. Nothing is assumed of Blizzard; that the player exists from some time on is the
  premise of `FoundAgain`.
* `Pages`, `History`, and the other two parts of `Edge` have safety properties only.

## 5. The proofs

All are of the specification's safety part, for any sets of processes, keys, jobs, players,
devices, games and versions. The assumptions are the `ASSUME`s of the modules (disjoint sets,
positive bounds, at least one game and one request) and the premises named here.

* **SingleFlight_proofs** (`TypeCorrect`, `Exclusion`, `Sharing`, `Wakeups`, `Implements`). Mutual
  exclusion is not inductive: it needs that everyone who uses a key refers to the dictionary's
  lock (`SharedInv`), which needs that the counter *is* the number of users (`CountInv`); and that
  a woken waiter is at the head of a free lock's deque (`WokenInv`, `WakeupInv`), without which a
  newcomer could overtake into an occupied body. Lemmas about removal from a deque carry it.
  `Implements` is the refinement of `KeyedQueueLock`: each step joins, admits, gives up, exits or
  stutters. Entering into a lock that is free but has a woken waiter parks behind it, so nobody
  overtakes; a cancelled waiter leaves the line when it is cancelled, before it runs.
* **Throttle_proofs** (`TypeCorrect`, `Pacing`, `PacingAcross`, `NoRecovery`, `Implements`). Values
  stay within bounds in every interleaving, whatever Valkey calls fail. Pacing, while Valkey answers,
  rests on the fact that the holder of the pace lock has read a `last_request` no older than the
  process's own last request, and that nobody of this process fires while it sleeps. The write of
  `last_request` is an await of its own after the turn it stands for, so with two processes the late
  write of one can put an older turn over a later one of the other. `Pacing` has one process as its
  premise (`OneProcess`: the worker, or the API beside an idle worker), `PacingAcross` any number of
  them and that time does not pass while a turn is being written (`PromptWrite`). `NoRecovery`
  (premise `Unhurried`, which config.py satisfies) counts: during a penalty the streak is at most the
  number of requests that fit in it at the penalty's delay (`Spaced`), which is fewer than shorten
  the delay. `Implements` is the refinement of `ThrottleController` in the behaviours that are
  `Atomic`: at each place of the one task under way the values it has read are those stored
  (`Single`), and the mapping takes the writes still to come as done.
* **Refresh_proofs, the queue** (`TypeCorrect`, `Deduplication`, `Implements`; no premise).
  `OneLivePerClaim` is proved by counting (`Counted`): a step moves a message from one place to
  another, takes one away, or adds one together with its claim; a claim goes when its message does,
  or its expiry is counted. A task that releases a claim it does not hold takes its own place away as
  well. For the refinement, a job that has not outlasted its claim has messages in at most one place,
  and each has the claim (`Dedup`), so every step moves its slot as `JobSlots` does or not at all: a
  claim is an enqueue, a failed push, a broken connection and a dead worker lose, an expiry unblocks,
  an early one outlasts.
* **Refresh_proofs, static data** (`StaticTypeCorrect`, `RowMonotone`; premises: the row exists and
  parses). Strengthening: who fetches is the one refresh in the job's slot, and what it has read is
  no older than the row.
* **PlayerProfile_proofs** (`TypeCorrect`, `MatchIsTrusted`; both spellings, requests, refreshes and
  polls, no premise). Strengthening `TrustInv`: until a publication has come between a page read by
  id and its search, every payload in flight or stored has a page at least as new as its stamp. By tag
  the search comes first, so the page can only be newer; by id it is `overtaken` that would break it.
  Nothing else does: no order of steps by different actors, no failure, no eviction. Without
  `~overtaken` it is false (see 6.3).
* **PushAlerts_proofs** (`TypeCorrect`, `NoRepeat`; premise `OneRun`). Strengthening `Once`: for
  each player there is an *anchor*, the snapshot last recorded as announced; devices were told of
  snapshots up to it, an alert being decided lies behind it, one being sent is it, and the devices
  left in its batch have not got it, though the run may fail once the anchor is recorded. Versions
  in a series are distinct, so positions and stamps correspond.
* **History_proofs** (`TypeCorrect`, `Once`, `NothingInvented`, `SessionsComplete`; assumptions:
  `None` is no number, time zones are less than a week apart). That nobody is told twice is not
  inductive, as a run decides on a copy of a row that has gone on meanwhile. Strengthening: a row,
  and every copy a run still holds, remembers something at least as late as what its device was
  told, or is about to be told, under that row (`BehindInv`); no row remembers what has not come yet
  (`PatchInv`, `ChosenInv`, `RecapInv`), so a new key is later than all of them; rows of one device
  are told apart by their life (`LifeInv`); what is on its way is not yet shown (`FreshInv`); and
  without failed runs and failed deliveries what a row remembers is shown or on its way (`ToldInv`).
  The series enters through the clock only, so `Once` holds whatever players play and whatever the
  messages say. `NothingInvented` is about the series. That two rows differ by no more games than
  lie between them says nothing of the pages not yet recorded. Strengthening (`ReadingsInv`): it
  holds of any two *readings*, which are the page, the pages requests hold and the rows; no reading
  is newer than the page, and within a season totals only grow and sections only come. A game adds
  at most one to what was gained since any reading, and exactly one to what was played (`PlayStep`);
  a new season takes sections away, and their gain with them (`NewSeasonStep`); recording and
  retention make no new reading. The totals are sums over the heroes of a section and the gain a sum
  over sections, so it rests on lemmas about sums over any finite set (`SumSplit`, `SumMonotone`,
  `SumRaised`). `SessionsComplete` uses both: that no session has more games than lie in it is the
  same fact, for the two rows the session is measured by. Strengthening (`GrowthInv`): within a
  season, of any two versions recorded, held or shown the later one has no hero counter that is
  smaller, and in each section both have at least as many games more as wins more (`PlayGrows`);
  `Payload` has the counters as numbers whatever is played (`PayloadFacts`). The sums need no
  invariant of the steps: the last row of a session is the one the next is measured from
  (`SessionsFollow`), so the differences of a counter telescope over the rows (`Follow`,
  `Telescope`, `SessionsSum`), for any number of rows and whatever the gap; those that are silent
  add nothing (`SumOfTheLoud`), and when fewer than the limit are listed all of the others are
  (`AllListed`).
* **Parts_proofs, Edge** (`TypeCorrect`, `Competitive`, `Uninterrupted`). For the waits: the product
  that `_calculate_retry_after` caps is positive for every count, so each cooldown is within 1 and
  the longest wait (`RetryBounds`). For the rates: what a request or a recording keeps between its
  steps, and what is recorded, are competitive rows (`RatesIInv`), because the parser compares the
  gamemode and the map a page says it selected with those asked for, whatever the filter means by
  then. For the rollout: where the script is says which app serves and which worker runs
  (`RolloutIInv`), for any containers an ended script left. `RolloutServesTheNew` says what the
  script achieves where it finds the container it started; where it does not, see 6.17.
* **Parts_proofs, the site** (`NotesNamedRight`, `VideosStay`, `SearchPartitioned`). The invariant
  (`HeroesIInv`, `HeroPageIInv`, `FoundIInv`) is small: catalogue and index are beginnings of the
  order of release, what is stored in a language was an index once, no two players found have one
  id. The work is in the functions. What a filter leaves is the sequence at the places it keeps
  (`Picked`), what a sort makes is the n-th by rank; so a page of a search is an interval of ranks,
  and intervals of one length partition them (`FoundPartition`). That the sort is stable is what
  makes the rank a total order of the places (`StableFacts`). A note's key comes from an
  aligned pair of lists of equal length, or from English; that no key is wrong needs both the
  alignment check and the names being told apart in each language.
* **Parts_proofs, careers** (`PagesTypeCorrect`, `StrangersCostThem`, `AnswersAreServable`,
  `RoutesAgreeAlways`). The invariant `CareerIInv` says that the page is of its type and the profile
  is the page parsed; every edit keeps that (`CareerStep`).
  - *Strangers*: a row, bar, card or wrapper that is skipped adds a place the parser does not pick,
    so the picked sequence is the same (`PickedSame`); the type is what says that the rest of the
    page is not touched.
  - *Responses*: `EntriesParsed`, `RowsParsed`, `CardsParsed`, `CareerParsed` and `StatsParsed` follow
    the parser upwards and give each part its type. The totals of one hero are `GoodTotals`: natural
    numbers, no more games won than played. That is where `GamesLost` matters, which replaces a
    negative number. Good totals add up to good totals (`SumGood`, by `SumMonotone`) over sections,
    heroes and roles, and are what the models accept (`GoodServable`), so no winrate is above 1.
  - *Routes*: the time of a hero is a sum over sections, that of a section one over heroes, and a
    table adds up by rows as by columns (`SumTable`). So every total is the sum of `TimeCells` (one
    number for each platform and gamemode) over the cells its filters leave (`TimeOfCells`), and the
    equalities are about sets of cells: one cell, those of a gamemode told apart by platform, those of
    a platform by gamemode (`SumGroups`). Leaving out heroes, roles and platforms without time
    changes no sum (`SumTrim`). A page that states a hero's time once has it in the
    first and in the last place of its name (`StatedOnce`), which are what the two routes read.

  Assumed of the constants: `None` is no number, no name and no node (`NoneAssumption`,
  `KeysAssumption`, `CareerAssumption`); the tables of plural keys and of localised labels are
  idempotent, as the ones in player_helpers.py are; heroes.csv is finite and has a role for each hero
  (`HeroAssumption`); heroes are told apart by their names in each language (`HeroesAssumption`);
  players found have addresses and times (`SiteAssumption`). `BlizzardAssumption` is about what is
  on the pages: tiers and endorsements of at most 5, no negative number of games played, of time,
  eliminations and deaths. No code guards these (note 5 of section 6). `AnswersAreServable` and
  `RoutesAgreeAlways` rest on it, `PagesTypeCorrect` only on a tier being a number; negative numbers
  of games lost, which Blizzard does show, are not excluded.
* **Basics_proofs** has the lemmas that several of these need: induction on the naturals (`Induction`)
  and over the subsets of a finite set (`SubsetInduction`), the rank in a finite order
  (`ArrangedFacts`, `PickedFacts`), and sums over finite sets (`SumSplit` ... `SumGroups`).

Recursive functions and folds over sets are proved about by the well-founded orders of the library
on which these rest: a least counterexample is taken apart.

**Model-checked only.** Liveness (`Converges`, `Recovers`, `RequestSettles`, `Served`,
`MoveIsAnnounced`, `UnknownIsFoundAgain`, `LineKeepsMoving`), as liveness under
fairness is outside the prover's reach. Every safety property a passing run checks is a theorem,
the ones named with a premise above under that premise; the runs check them under the same.

## 6. Where the code and its words differ

Shown by a run:

1. `push_by_tag` - snapshots are recorded under the Blizzard id, the alert run reads them under the
   id the device sent, so a device that subscribed a BattleTag (the documented example) is never
   alerted. Hero alerts and recaps read them the same way.
2. `throttle_lost_penalty` - an answer 200 in flight writes its delay over the penalty's.
3. `profile_mixed` - by Blizzard id a profile's page is fetched before the search that stamps it
   (player_service.py:978-996). When Blizzard publishes in between, the old page gets the new stamp,
   and the shortcut of a request by tag, "matching lastUpdated, unchanged", keeps that page until the
   player plays again or a refresh by id fetches it anew. Both spellings are in normal use. The passing
   run and the theorem say that nothing else makes a match wrong (`MatchTrusted`), and `Converges`
   is promised where both spellings are used only when no such page is left.

Seen while modelling, without a run of their own:

4. The daily announcement calls `list_patch_notes` with `limit=1` and the key of the unfiltered
   list (worker.py:307); nginx then serves one patch to everybody for up to an hour.
5. `_parse_career_stats` keeps a category whose rows are all unreadable with an empty list, which
   the response model refuses (`min_length=1`): one unreadable number is a 500 for the profile;
   so is an endorsement image without address. `tests/players/test_unknown_blizzard_values.py:1`
   says "degrade, never 500". `EveryAnswerIsServable` states these as its two exceptions. Tiers
   and endorsements above 5 are not guarded either.
6. A claim's TTL (300 s) starts at the enqueue and includes the wait in the queue. Under a long
   backlog the job is queued again, and the first task's release deletes the second's claim, so it may
   be queued a third time. `OneLivePerClaim` bounds it: an expiry lets one more message in, a foreign
   release none. `StaticData` and `PlayerProfile` assume that jobs end within their claim.
7. The penalty is checked before the wait for the pace lock and the sleep, both of which may
   outlast the arrival of a 403 (throttle.py:95): the request still goes out.
8. A request whose expired row turns out unchanged does not store it again (player_service.py:867),
   so its age stays above the limit and every later request goes to Blizzard until a refresh.
9. `notify_rank_changes` in worker.py says that pruning runs even when nothing can be delivered,
   but returns before it when there are no credentials.
10. `PushService.notify_rank_changes` and `notify_weekly_recaps` say they never raise; their send,
    first query and drop are outside the guard. The hero run marks every device before the one
    send at its end, so an error loses the alerts of all.
11. Two alert runs that overlap (after the worker was down for more than four hours) can both pass
    the comparison and tell a device twice; `NoRepeat` has `OneRun` as its premise for that reason.
12. What was announced to a device is lost when its row is deleted and registered again, so it is
    told of the same patch again: `AlertedOnce` is per row.
13. When a season begins, competitive counters start again and `_diff_hero` does not clamp: the
    session across it shows negative times, and may report more wins than games. A page of before
    the season recorded late makes a recap count games that were not played in that week. These
    are the premises of `NoGamesInvented`.
14. `/stats/diff` orders snapshots by the time taken, sessions by version: a page recorded late
    gives a diff the wrong way round. A recap's window is seven days before `now`, so jitter and
    changes of the clock count games twice or not at all.
15. Patch notes on a localised page fall back to English names when no list of that language is
    stored. A hero of heroes.csv whose role Blizzard names differently is a 500 of `/heroes`.
16. An unknown player asked for by id overwrites the status's BattleTag with nothing, so the
    eviction leaves the tag's cooldown. Counts can be lost, and fall, with requests by both keys;
    a player who is found keeps the count until the app stops.
17. Docker's DNS names new containers before they are healthy. A failed eviction at the end of a
   rollout is only a warning, and entries rendered by a new version that failed stay for their
   TTL. deploy.sh explains its sleep by `valid=5s`; the configuration has 1 s. When
   an ended rollout left two old containers, which `--no-recreate` counts, the script takes one of
   them for the new app; when `docker compose ps` shows it no second one (deploy.sh:130), it goes on
   and compose keeps one at `--scale app=1`. Either way the deployment reports success though an old
   app may be the one that serves. `RolloutServesTheNew` speaks of the new app being there for that
   reason.
18. A response is written to the API cache before its model validates it; a second container of
    one hero overwrites the first; a career key that occurs twice is read differently by
    `/stats/career` and `/stats`.
19. `last_request` is written after the request's turn in a call of its own (throttle.py:112), and the
    last write wins: when one process writes late, the other's later turn is forgotten and the next
    request comes sooner than the delay (the premise `PromptWrite` of `PacingAcross`).

## 7. Not modelled, and why

The parsers of roles, maps and gamemodes (one row at a time, no state, no key of another list),
routers and middlewares (no state; the batch of summaries runs requests of `PlayerProfile` side by
side under a time limit and adds nothing to them), configuration and enumerations (what a property
depends on is a CONSTANT), texts of notifications, token sources, operational scripts. In the
parsers, texts, images and addresses are left out but where their absence decides something, and of
five combat totals two stand for all; in the snapshots, lost games and ratios. Single statements of
PostgreSQL and Valkey commands are atomic, as they are in the servers; a pool that runs dry and a
statement that times out appear as a failing call. In `Rollout` no app that serves crashes by
itself. The memo of parses in player_service.py is not in `PlayerProfile`: it maps one page to its
parse and nothing else.

## 8. What could come next

1. `StaticData`: what an entry may hold while a refresh is under way, and two cold requests that
   store in either order.
2. The rank alerts with runs that overlap: how often a device may be told then.
3. Jobs that outlast their claim in `StaticData` and `PlayerProfile`, which have the slots of
   `JobSlots` without `Outlast`.
