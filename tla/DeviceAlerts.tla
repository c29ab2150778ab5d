---------------------------- MODULE DeviceAlerts ----------------------------
(***************************************************************************)
(* The alerts of a device: the daily run of PushService.notify_hero_       *)
(* changes and the hourly one of notify_weekly_recaps, over the snapshot   *)
(* series and the rows of push_subscriptions, while devices register again *)
(* at every launch, unregister and uninstall.                              *)
(*                                                                         *)
(* A day has two ticks, a week two days; a recap is due on the last tick   *)
(* of a week in the device's zone.  A recap run reads the clock once, at   *)
(* its start, and is over before the next tick.                            *)
(***************************************************************************)
EXTENDS PlayerHistory

CONSTANTS
  Device,
  Registration, \* what a device may send: the ids it watches, the recap's, its zone
  ThePlayer,    \* the player's Blizzard id, under which the series is kept
  PatchEntries, \* what a patch may say
  PatchMaxAge,  \* _PATCH_MAX_AGE_DAYS
  RecapWindow,  \* _RECAP_WINDOW, in ticks
  MaxChanges    \* bound: devices' and Blizzard's changes, and failures

\* Time zones are less than a week apart.
ASSUME ZoneAssumption ==
  \A r, s \in Registration : r.zone \in Int /\ r.zone - s.zone < 4

Job == {"heroes", "recap"}

VARIABLES
  rows,       \* push_subscriptions: per device its row, None when there is none
  lives,      \* rows a device has had
  installed,
  patch,      \* the newest patch the worker knows, None before the first
  at,         \* per run where it is
  roster,     \* per run the rows read at its start and not yet looked at
  chosen,     \* the patch of the hero run
  outbox,     \* per run the notifications composed and not yet sent
  gone,       \* per run the tokens reported dead
  told,       \* per device what it was shown: the row's life and the key told
  changes, failures

deviceVars == <<rows, lives, installed, patch, at, roster, chosen, outbox, gone,
                told, changes, failures>>
runVars == <<at, roster, chosen, outbox, gone, told, failures>>

DevicesInit ==
  /\ rows = [d \in Device |-> None] /\ lives = [d \in Device |-> 0]
  /\ installed = [d \in Device |-> TRUE]
  /\ patch = None /\ chosen = None
  /\ at = [j \in Job |-> "idle"] /\ roster = [j \in Job |-> {}]
  /\ outbox = [j \in Job |-> {}] /\ gone = [j \in Job |-> {}]
  /\ told = [d \in Device |-> <<>>]
  /\ changes = 0 /\ failures = 0

Change == changes < MaxChanges /\ changes' = changes + 1

Day == now \div 2

-----------------------------------------------------------------------------
(* Devices and Blizzard *)

Upserted(d, registration) ==
  [device |-> d, life |-> lives[d] + 1, players |-> registration.players,
   recap |-> registration.recap, zone |-> registration.zone,
   lastPatch |-> None, lastRecap |-> None]

\* Mutated form of Upsert: registering again resets what was announced.
UpsertAll(d, registration) ==
  IF rows[d] = None THEN Upserted(d, registration)
  ELSE [Upserted(d, registration) EXCEPT !.life = rows[d].life]

\* upsert_push_subscription: what was announced is ours, not the client's.
Upsert(d, registration) ==
  IF rows[d] = None THEN Upserted(d, registration)
  ELSE [rows[d] EXCEPT !.players = registration.players, !.recap = registration.recap,
                       !.zone = registration.zone]

Launch(d, registration) ==
  /\ Change /\ installed[d]
  /\ rows' = [rows EXCEPT ![d] = Upsert(d, registration)]
  /\ lives' = [lives EXCEPT ![d] = rows'[d].life]
  /\ UNCHANGED <<installed, patch, runVars>>

\* delete_push_subscription, or the pruning of devices not launched for long.
Unregister(d) ==
  /\ Change /\ rows[d] # None
  /\ rows' = [rows EXCEPT ![d] = None]
  /\ UNCHANGED <<lives, installed, patch, runVars>>

Uninstall(d) ==
  /\ Change /\ installed[d] /\ installed' = [installed EXCEPT ![d] = FALSE]
  /\ UNCHANGED <<rows, lives, patch, runVars>>

\* A new patch, or new entries of the one of today.
PublishPatch(entries) ==
  /\ Change /\ patch' = [date |-> Day, entries |-> entries] /\ patch' # patch
  /\ UNCHANGED <<rows, lives, installed, runVars>>

-----------------------------------------------------------------------------
(* The runs; of each job one at a time *)

\* get_push_subscriptions, once at the start of a run.
Roster == {rows[d] : d \in {d \in Device : rows[d] # None}}

StartHeroes ==
  /\ at["heroes"] = "idle" /\ patch # None
  /\ ChangedHeroes(patch) # {} /\ Day - patch.date <= PatchMaxAge
  /\ chosen' = patch
  /\ at' = [at EXCEPT !["heroes"] = "decide"]
  /\ roster' = [roster EXCEPT !["heroes"] = Roster]
  /\ UNCHANGED <<rows, lives, installed, patch, outbox, gone, told, changes, failures>>

StartRecap ==
  /\ at["recap"] = "idle" /\ at' = [at EXCEPT !["recap"] = "decide"]
  /\ roster' = [roster EXCEPT !["recap"] = Roster]
  /\ UNCHANGED <<rows, lives, installed, patch, chosen, outbox, gone, told, changes, failures>>

\* Snapshots are read under the id as it was subscribed.
SnapshotsOf(id, limit) == IF id = ThePlayer THEN PlayerSnapshots(limit) ELSE <<>>

\* The key a hero run announces to a device: the patch's date; None for nothing.
HeroKeyFor(row) ==
  IF row.lastPatch = chosen.date
     \/ HeroAlert(ChangedHeroes(chosen), FlattenSeq(SetToSeq(
          {SnapshotsOf(id, 1) : id \in row.players})), 3) = <<>>
  THEN None ELSE chosen.date

LocalDate(row) == (now + row.zone) \div 2
Due(row) == row.recap # None /\ (now + row.zone) % 4 = 3

\* The week's snapshots, and the newest from before it.
RecapSnapshots(id) ==
  LET recent == SnapshotsOf(id, 200)
      week == SelectSeq(recent, LAMBDA s : s.taken >= now - RecapWindow)
  IN Slice(recent, 0, Len(week) + 1)

RecapKeyFor(row) ==
  IF ~Due(row) \/ row.lastRecap = LocalDate(row) \/ WeeklyRecap(RecapSnapshots(row.recap)) = None
  THEN None ELSE LocalDate(row)

KeyFor(job, row) == IF job = "heroes" THEN HeroKeyFor(row) ELSE RecapKeyFor(row)

\* The UPDATE changes the row the token has now, if it has one.
Marked(job, d, key) ==
  IF rows[d] = None THEN rows
  ELSE IF job = "heroes" THEN [rows EXCEPT ![d].lastPatch = key]
  ELSE [rows EXCEPT ![d].lastRecap = key]

\* Mutated form of Decide: what is announced is not recorded.
DecideUnrecorded(job, row) ==
  /\ at[job] = "decide" /\ row \in roster[job]
  /\ roster' = [roster EXCEPT ![job] = @ \ {row}]
  /\ LET key == KeyFor(job, row) IN
       /\ outbox' = IF key = None THEN outbox
                    ELSE [outbox EXCEPT ![job] = @ \cup {[row |-> row, key |-> key]}]
       /\ at' = IF job = "recap" /\ key # None THEN [at EXCEPT ![job] = "send"] ELSE at
  /\ UNCHANGED <<rows, lives, installed, patch, chosen, gone, told, changes, failures>>

\* One device: recorded before delivery.  The recap run sends each notification at
\* once, the hero run all of them at its end.
Decide(job, row) ==
  /\ at[job] = "decide" /\ row \in roster[job]
  /\ roster' = [roster EXCEPT ![job] = @ \ {row}]
  /\ LET key == KeyFor(job, row) IN
       /\ rows' = IF key = None THEN rows ELSE Marked(job, row.device, key)
       /\ outbox' = IF key = None THEN outbox
                    ELSE [outbox EXCEPT ![job] = @ \cup {[row |-> row, key |-> key]}]
       /\ at' = IF job = "recap" /\ key # None THEN [at EXCEPT ![job] = "send"] ELSE at
  /\ UNCHANGED <<lives, installed, patch, chosen, gone, told, changes, failures>>

Sending(job) == at[job] = "send" \/ (at[job] = "decide" /\ roster[job] = {} /\ outbox[job] # {})

\* PushSender.send: who uninstalled is reported and told nothing.
Send(job) ==
  /\ Sending(job)
  /\ told' = [d \in Device |-> told[d] \o
       SetToSeq({[job |-> job, life |-> n.row.life, key |-> n.key] :
                   n \in {n \in outbox[job] : n.row.device = d /\ installed[d]}})]
  /\ gone' = [gone EXCEPT ![job] = @ \cup
       {n.row.device : n \in {n \in outbox[job] : ~installed[n.row.device]}}]
  /\ outbox' = [outbox EXCEPT ![job] = {}]
  /\ at' = [at EXCEPT ![job] = "decide"]
  /\ UNCHANGED <<rows, lives, installed, patch, roster, chosen, changes, failures>>

\* _drop, after the last device.
Finish(job) ==
  /\ at[job] = "decide" /\ roster[job] = {} /\ outbox[job] = {}
  /\ rows' = [d \in Device |-> IF d \in gone[job] THEN None ELSE rows[d]]
  /\ gone' = [gone EXCEPT ![job] = {}]
  /\ at' = [at EXCEPT ![job] = "idle"]
  /\ chosen' = IF job = "heroes" THEN None ELSE chosen
  /\ UNCHANGED <<lives, installed, patch, roster, outbox, told, changes, failures>>

\* Building one recap fails: that device's is lost, and the run goes on.
FailRecap(row) ==
  /\ at["recap"] = "decide" /\ row \in roster["recap"] /\ Due(row)
  /\ Change /\ failures' = failures + 1
  /\ roster' = [roster EXCEPT !["recap"] = @ \ {row}]
  /\ rows' \in {rows, Marked("recap", row.device, LocalDate(row))}
  /\ UNCHANGED <<lives, installed, patch, at, chosen, outbox, gone, told>>

\* One delivery fails, times out or has no credentials: the token stays, the run goes on.
DeliveryFails(job, n) ==
  /\ Sending(job) /\ n \in outbox[job]
  /\ Change /\ failures' = failures + 1
  /\ outbox' = [outbox EXCEPT ![job] = @ \ {n}]
  /\ UNCHANGED <<rows, lives, installed, patch, at, roster, chosen, gone, told>>

\* The worker dies or an error leaves the run; what was not sent is lost.
Die(job) ==
  /\ at[job] # "idle" /\ Change /\ failures' = failures + 1
  /\ at' = [at EXCEPT ![job] = "idle"] /\ roster' = [roster EXCEPT ![job] = {}]
  /\ outbox' = [outbox EXCEPT ![job] = {}] /\ gone' = [gone EXCEPT ![job] = {}]
  /\ chosen' = IF job = "heroes" THEN None ELSE chosen
  /\ UNCHANGED <<rows, lives, installed, patch, told>>

DevicesNext ==
  \/ \E d \in Device : Unregister(d) \/ Uninstall(d)
                       \/ \E registration \in Registration : Launch(d, registration)
  \/ \E entries \in PatchEntries : PublishPatch(entries)
  \/ StartHeroes \/ StartRecap
  \/ \E job \in Job : \/ \E row \in roster[job] : Decide(job, row)
                      \/ \E n \in outbox[job] : DeliveryFails(job, n)
                      \/ Send(job) \/ Finish(job) \/ Die(job)
  \/ \E row \in roster["recap"] : FailRecap(row)

-----------------------------------------------------------------------------
(* Properties *)

\* A device is told of a patch, and of its week, once for each row it has had,
\* however often the runs look, the app launches and the patch is edited; and what
\* was recorded as told was told, unless a run or a delivery failed on the way or a second row of
\* the device took the mark.
AlertedOnce ==
  \A d \in Device :
    /\ \A i, j \in DOMAIN told[d] : i # j => told[d][i] # told[d][j]
    /\ LET row == rows[d]
           toldOf(job, key) == \E i \in DOMAIN told[d] :
                                 told[d][i].job = job /\ told[d][i].key = key
       IN row # None /\ failures = 0 /\ installed[d] /\ (\A job \in Job : at[job] = "idle") =>
            /\ row.lastPatch # None => toldOf("heroes", row.lastPatch)
            /\ row.lastRecap # None => toldOf("recap", row.lastRecap)
=============================================================================
