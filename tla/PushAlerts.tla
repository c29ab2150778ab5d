----------------------------- MODULE PushAlerts -----------------------------
(***************************************************************************)
(* Rank alerts: the four-hourly run of PushService.notify_rank_changes     *)
(* over the snapshot series, the rank last announced and the devices that  *)
(* subscribe, beside requests that record snapshots of the same players    *)
(* and devices that register, unregister and vanish.                       *)
(*                                                                         *)
(* A snapshot is a version stamp and the player's best rank, 0 when there  *)
(* is none; a series is in the order the snapshots were taken.  A device   *)
(* names a player by the Blizzard id, under which the series is kept, or   *)
(* by the BattleTag.  A notification is told with the newest snapshot it   *)
(* was decided on.                                                         *)
(***************************************************************************)
EXTENDS Naturals, Sequences

CONSTANTS
  Player,   \* Blizzard ids
  Tag,      \* BattleTags
  Owner,    \* the player a BattleTag belongs to
  Device,
  Run,      \* runs of the scheduled task that may overlap
  Reader,   \* requests that record a snapshot of a profile they fetched
  Nobody,
  MaxRank, MaxStamp, MaxFaults  \* bounds

ASSUME PushAssumption ==
  /\ Run \cap Reader = {} /\ Player \cap Tag = {} /\ Nobody \notin Player \cup Tag
  /\ Owner \in [Tag -> Player]
  /\ MaxRank \in Nat \ {0} /\ MaxStamp \in Nat \ {0} /\ MaxFaults \in Nat

Id == Player \cup Tag
Rank == 0..MaxRank
Stamp == 1..MaxStamp
Snapshot == [stamp : Stamp, rank : Rank]
Note == [player : Id, stamp : Stamp, rank : Rank \ {0}]

VARIABLES
  profile,    \* Blizzard: per player, its current version and rank
  series,     \* player_snapshots, oldest first
  announced,  \* player_rank_alerts.last_announced_rank, 0 when there is no row
  watching,   \* push_subscriptions: per device the ids it sent, {} when there is no row
  installed,  \* whether the device still takes notifications
  told,       \* what each device was shown, in order
  faults,     \* failures so far
  pc, player, held,   \* of a run or a request: where it is, the id it was asked for, its snapshot
  todo, note, batch, gone  \* of a run: ids left, its alert, devices to send to, dead tokens

runLocals == <<todo, note, batch, gone>>
vars == <<profile, series, announced, watching, installed, told, faults,
          pc, player, held, runLocals>>

Actor == Run \cup Reader
NoNote == [stamp |-> 0, rank |-> 0]

TypeOK ==
  /\ profile \in [Player -> Snapshot]
  /\ series \in [Player -> Seq(Snapshot)]
  /\ announced \in [Id -> Rank]
  /\ watching \in [Device -> SUBSET Id]
  /\ installed \in [Device -> BOOLEAN]
  /\ told \in [Device -> Seq(Note)]
  /\ faults \in 0..MaxFaults
  /\ pc \in [Actor -> {"idle", "roster", "player", "fetched", "compare", "announced",
                       "devices", "record", "name", "send", "drop"}]
  /\ player \in [Actor -> Id \cup {Nobody}]
  /\ held \in [Actor -> Snapshot \cup {NoNote}]
  /\ todo \in [Run -> SUBSET Id]
  /\ note \in [Run -> Snapshot \cup {NoNote}]
  /\ batch \in [Run -> SUBSET Device]
  /\ gone \in [Run -> SUBSET Device]
  \* A run sends only what it has an alert for.
  /\ \A n \in Run : pc[n] \in {"announced", "devices", "record", "name", "send"} => note[n].rank # 0

Init ==
  /\ profile \in [Player -> {[stamp |-> 1, rank |-> r] : r \in Rank}]
  /\ series = [p \in Player |-> <<>>]
  /\ announced = [i \in Id |-> 0]
  /\ watching = [d \in Device |-> {}]
  /\ installed = [d \in Device |-> TRUE]
  /\ told = [d \in Device |-> <<>>]
  /\ faults = 0
  /\ pc = [a \in Actor |-> "idle"]
  /\ player = [a \in Actor |-> Nobody] /\ held = [a \in Actor |-> NoNote]
  /\ todo = [n \in Run |-> {}] /\ note = [n \in Run |-> NoNote]
  /\ batch = [n \in Run |-> {}] /\ gone = [n \in Run |-> {}]

-----------------------------------------------------------------------------
(* Deciding: push_alerts.rank_alert *)

\* get_player_snapshots takes the id as it was subscribed, and nothing is recorded
\* under a BattleTag.
Snapshots(i) == IF i \in Player THEN series[i] ELSE <<>>

\* By the time they were taken, not by the version stamp.
Newest(s) == s[Len(s)]
Previous(s) == s[Len(s) - 1]

\* Mutated form of Moved: a rank gained or lost counts as a move.
MovedUnranked(s) == Len(s) >= 2 /\ Newest(s).rank # Previous(s).rank

Moved(s) ==
  /\ Len(s) >= 2
  /\ Newest(s).rank # 0 /\ Previous(s).rank # 0
  /\ Newest(s).rank # Previous(s).rank

Watchers(i) == {d \in Device : i \in watching[d]}

-----------------------------------------------------------------------------
(* Snapshots: a profile is fetched in one step and recorded in a later one *)

\* _canonical_player_id: the series is kept under the Blizzard id.
Canonical(i) == IF i \in Tag THEN Owner[i] ELSE i

Known(p, stamp) == \E i \in 1..Len(series[p]) : series[p][i].stamp = stamp

\* INSERT ... ON CONFLICT DO NOTHING
Insert(a) ==
  LET p == Canonical(player[a]) IN
    series' = IF Known(p, held[a].stamp) THEN series
              ELSE [series EXCEPT ![p] = Append(@, held[a])]

\* A request that fetches a version recorded before changes nothing and is left out.
FetchByReader(q, p) ==
  /\ pc[q] = "idle" /\ ~Known(p, profile[p].stamp)
  /\ pc' = [pc EXCEPT ![q] = "fetched"]
  /\ player' = [player EXCEPT ![q] = p] /\ held' = [held EXCEPT ![q] = profile[p]]
  /\ UNCHANGED <<profile, series, announced, watching, installed, told, faults, runLocals>>

RecordByReader(q) ==
  /\ pc[q] = "fetched"
  /\ Insert(q)
  /\ pc' = [pc EXCEPT ![q] = "idle"]
  /\ player' = [player EXCEPT ![q] = Nobody] /\ held' = [held EXCEPT ![q] = NoNote]
  /\ UNCHANGED <<profile, announced, watching, installed, told, faults, runLocals>>

-----------------------------------------------------------------------------
(* notify_rank_changes: the worker's task and PushService's loop *)

Goto(n, label) == pc' = [pc EXCEPT ![n] = label]

\* The loop goes on with the players that are left.
NextPlayer(n) ==
  /\ Goto(n, "player")
  /\ player' = [player EXCEPT ![n] = Nobody] /\ held' = [held EXCEPT ![n] = NoNote]
  /\ note' = [note EXCEPT ![n] = NoNote] /\ batch' = [batch EXCEPT ![n] = {}]

\* prune_stale_subscriptions: rows no launch has renewed.
Prune(n) ==
  /\ pc[n] = "idle" /\ Goto(n, "roster")
  /\ \E silent \in SUBSET {d \in Device : ~installed[d]} :
       watching' = [d \in Device |-> IF d \in silent THEN {} ELSE watching[d]]
  /\ UNCHANGED <<profile, series, announced, installed, told, faults, player, held, runLocals>>

Roster(n) ==
  /\ pc[n] = "roster" /\ Goto(n, "player")
  /\ todo' = [todo EXCEPT ![n] = UNION {watching[d] : d \in Device}]
  /\ UNCHANGED <<profile, series, announced, watching, installed, told, faults,
                 player, held, note, batch, gone>>

\* _messages_for: refresh_player_profile fetches and records a snapshot.
Refresh(n, i) ==
  /\ pc[n] = "player" /\ i \in todo[n] /\ Goto(n, "fetched")
  /\ todo' = [todo EXCEPT ![n] = @ \ {i}]
  /\ player' = [player EXCEPT ![n] = i]
  /\ held' = [held EXCEPT ![n] = profile[Canonical(i)]]
  /\ UNCHANGED <<profile, series, announced, watching, installed, told, faults,
                 note, batch, gone>>

RecordByRun(n) ==
  /\ pc[n] = "fetched" /\ Goto(n, "compare")
  /\ Insert(n)
  /\ UNCHANGED <<profile, announced, watching, installed, told, faults, player, held, runLocals>>

Compare(n) ==
  /\ pc[n] = "compare"
  /\ LET s == Snapshots(player[n]) IN
       IF Moved(s)
       THEN /\ Goto(n, "announced")
            /\ note' = [note EXCEPT ![n] = Newest(s)]
            /\ UNCHANGED <<player, held, batch>>
       ELSE NextPlayer(n)
  /\ UNCHANGED <<profile, series, announced, watching, installed, told, faults, todo, gone>>

\* Mutated form of CheckAnnounced: the rank last announced is not looked at.
CheckAnnouncedNot(n) ==
  /\ pc[n] = "announced" /\ Goto(n, "devices")
  /\ UNCHANGED <<profile, series, announced, watching, installed, told, faults, player, held, runLocals>>

\* Mutated form of CheckAnnounced: a flag that a player has been announced, not a rank.
CheckAnnouncedSeen(n) ==
  /\ pc[n] = "announced"
  /\ IF announced[player[n]] # 0
     THEN NextPlayer(n)
     ELSE Goto(n, "devices") /\ UNCHANGED <<player, held, note, batch>>
  /\ UNCHANGED <<profile, series, announced, watching, installed, told, faults, todo, gone>>

CheckAnnounced(n) ==
  /\ pc[n] = "announced"
  /\ IF announced[player[n]] = note[n].rank
     THEN NextPlayer(n)
     ELSE Goto(n, "devices") /\ UNCHANGED <<player, held, note, batch>>
  /\ UNCHANGED <<profile, series, announced, watching, installed, told, faults, todo, gone>>

Devices(n) ==
  /\ pc[n] = "devices"
  /\ IF Watchers(player[n]) = {}
     THEN NextPlayer(n)
     ELSE /\ Goto(n, "record")
          /\ batch' = [batch EXCEPT ![n] = Watchers(player[n])]
          /\ UNCHANGED <<player, held, note>>
  /\ UNCHANGED <<profile, series, announced, watching, installed, told, faults, todo, gone>>

\* Recorded before delivery, not after.
Record(n) ==
  /\ pc[n] = "record" /\ Goto(n, "name")
  /\ announced' = [announced EXCEPT ![player[n]] = note[n].rank]
  /\ UNCHANGED <<profile, series, watching, installed, told, faults, player, held, runLocals>>

\* _display_name is read once more before the messages are composed.
Compose(n) ==
  /\ pc[n] = "name" /\ Goto(n, "send")
  /\ UNCHANGED <<profile, series, announced, watching, installed, told, faults, player, held,
                 runLocals>>

Sent(n, d) == batch' = [batch EXCEPT ![n] = @ \ {d}]

\* The service takes the message, or says that the token is gone.
Deliver(n, d) ==
  /\ pc[n] = "send" /\ d \in batch[n] /\ installed[d]
  /\ told' = [told EXCEPT ![d] = Append(@, [player |-> player[n], stamp |-> note[n].stamp,
                                            rank |-> note[n].rank])]
  /\ Sent(n, d)
  /\ UNCHANGED <<profile, series, announced, watching, installed, faults, pc, player, held,
                 todo, note, gone>>

Refused(n, d) ==
  /\ pc[n] = "send" /\ d \in batch[n] /\ ~installed[d]
  /\ gone' = [gone EXCEPT ![n] = @ \cup {d}]
  /\ Sent(n, d)
  /\ UNCHANGED <<profile, series, announced, watching, installed, told, faults, pc, player,
                 held, todo, note>>

AllSent(n) ==
  /\ pc[n] = "send" /\ batch[n] = {}
  /\ NextPlayer(n)
  /\ UNCHANGED <<profile, series, announced, watching, installed, told, faults, todo, gone>>

Polled(n) ==
  /\ pc[n] = "player" /\ todo[n] = {} /\ Goto(n, "drop")
  /\ UNCHANGED <<profile, series, announced, watching, installed, told, faults, player, held, runLocals>>

\* A run that ends, however it does, forgets its locals.
End(n) ==
  /\ Goto(n, "idle")
  /\ player' = [player EXCEPT ![n] = Nobody] /\ held' = [held EXCEPT ![n] = NoNote]
  /\ todo' = [todo EXCEPT ![n] = {}] /\ note' = [note EXCEPT ![n] = NoNote]
  /\ batch' = [batch EXCEPT ![n] = {}] /\ gone' = [gone EXCEPT ![n] = {}]

\* _drop: one DELETE for each dead token.
Drop(n) ==
  /\ pc[n] = "drop" /\ End(n)
  /\ watching' = [d \in Device |-> IF d \in gone[n] THEN {} ELSE watching[d]]
  /\ UNCHANGED <<profile, series, announced, installed, told, faults>>

-----------------------------------------------------------------------------
(* Failures *)

Fault == faults < MaxFaults /\ faults' = faults + 1

\* The profile is stored, its snapshot is not: logged, and the run compares what there is.
RecordFails(n) ==
  /\ Fault
  /\ pc[n] = "fetched" /\ Goto(n, "compare")
  /\ UNCHANGED <<profile, series, announced, watching, installed, told, player, held, runLocals>>

\* An error while one player is looked at costs that player, its rank recorded or not.
PlayerFails(n) ==
  /\ Fault
  /\ pc[n] \in {"fetched", "compare", "announced", "devices", "record", "name"}
  /\ NextPlayer(n)
  /\ UNCHANGED <<profile, series, announced, watching, installed, told, todo, gone>>

\* The service fails or cannot be reached: the message is lost, or it arrived.
SendFails(n, d) ==
  /\ Fault
  /\ pc[n] = "send" /\ d \in batch[n] /\ Sent(n, d)
  /\ UNCHANGED <<profile, series, announced, watching, installed, told, pc, player, held,
                 todo, note, gone>>

\* The sender raises outside the guarded part, or the worker dies.
RunDies(n) ==
  /\ Fault
  /\ pc[n] # "idle" /\ End(n)
  /\ UNCHANGED <<profile, series, announced, watching, installed, told>>

-----------------------------------------------------------------------------
(* Players and devices *)

Play(p) ==
  /\ profile[p].stamp < MaxStamp
  /\ \E r \in Rank : profile' = [profile EXCEPT ![p] = [stamp |-> @.stamp + 1, rank |-> r]]
  /\ UNCHANGED <<series, announced, watching, installed, told, faults, pc, player, held, runLocals>>

\* upsert_push_subscription: the list replaces what was stored.
Register(d, ids) ==
  /\ installed[d] /\ ids # {} /\ watching[d] # ids
  /\ watching' = [watching EXCEPT ![d] = ids]
  /\ UNCHANGED <<profile, series, announced, installed, told, faults, pc, player, held, runLocals>>

Unregister(d) ==
  /\ installed[d] /\ watching[d] # {}
  /\ watching' = [watching EXCEPT ![d] = {}]
  /\ UNCHANGED <<profile, series, announced, installed, told, faults, pc, player, held, runLocals>>

Uninstall(d) ==
  /\ installed[d]
  /\ installed' = [installed EXCEPT ![d] = FALSE]
  /\ UNCHANGED <<profile, series, announced, watching, told, faults, pc, player, held, runLocals>>

-----------------------------------------------------------------------------
PollStep(n) ==
  \/ Prune(n) \/ Roster(n) \/ RecordByRun(n) \/ Compare(n) \/ CheckAnnounced(n) \/ Devices(n)
  \/ Record(n) \/ Compose(n) \/ AllSent(n) \/ Polled(n) \/ Drop(n)
  \/ \E i \in Id : Refresh(n, i)
  \/ \E d \in Device : Deliver(n, d) \/ Refused(n, d)

Next ==
  \/ \E n \in Run : PollStep(n) \/ RecordFails(n) \/ PlayerFails(n) \/ RunDies(n)
  \/ \E n \in Run, d \in Device : SendFails(n, d)
  \/ \E q \in Reader : RecordByReader(q) \/ \E p \in Player : FetchByReader(q, p)
  \/ \E p \in Player : Play(p)
  \/ \E d \in Device : Unregister(d) \/ Uninstall(d) \/ \E ids \in SUBSET Id : Register(d, ids)

Spec == Init /\ [][Next]_vars

\* The schedule fires again and again, and calls return.
FairSpec == Spec /\ \A n \in Run : WF_vars(PollStep(n))

-----------------------------------------------------------------------------
(* Properties *)

\* One move is told to a device once: no two notifications about a player were decided
\* on the same newest snapshot, however runs failed, messages were lost or the device
\* came and went (the rank is recorded before delivery, and compared before that).
ToldOnce ==
  \A d \in Device : \A i, j \in 1..Len(told[d]) :
    i < j /\ told[d][i].player = told[d][j].player => told[d][i].stamp # told[d][j].stamp

\* The last that device d was told of player i is rank r.
Heard(d, i, r) ==
  \E j \in 1..Len(told[d]) :
    /\ told[d][j].player = i /\ told[d][j].rank = r
    /\ \A k \in (j + 1)..Len(told[d]) : told[d][k].player # i

\* The newest move of a watched player is not announced: its rank is not recorded or,
\* though no call failed and no device was given up, no device was last told of it.
Unannounced(i) ==
  LET s == series[Canonical(i)] IN
  /\ Moved(s) /\ Watchers(i) # {}
  /\ ~ /\ announced[i] = Newest(s).rank
       /\ faults = 0 => \E d \in Device : Heard(d, i, Newest(s).rank) \/ ~installed[d]

\* No move stays unannounced, under whichever id the player is watched: sooner or later
\* it is recorded and delivered, or it is no longer the newest or watched by nobody.
MoveIsAnnounced == \A i \in Id : []<>~Unannounced(i)

=============================================================================
