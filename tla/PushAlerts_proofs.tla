-------------------------- MODULE PushAlerts_proofs --------------------------
(* Proofs about PushAlerts, for any players, BattleTags, devices, requests, *)
(* ranks, versions and faults.                                              *)
EXTENDS PushAlerts, SequenceTheorems, TLAPS

USE PushAssumption

-----------------------------------------------------------------------------
(* Types *)

Deciding == {"announced", "devices", "record"}
Sending == {"name", "send"}

USE DEF Sending

\* Who has fetched holds a snapshot, and who compares or alerts has an id to do it for.
Holds(a) == pc[a] = "fetched" => player[a] \in Id /\ held[a] \in Snapshot
Alerts(n) ==
  /\ pc[n] = "compare" => player[n] \in Id
  /\ pc[n] \in Deciding \cup Sending => player[n] \in Id /\ note[n] \in Snapshot

Typed == TypeOK /\ (\A a \in Actor : Holds(a)) /\ (\A n \in Run : Alerts(n))

LEMMA InitTyped == Init => Typed
BY DEF Init, Typed, TypeOK, Holds, Alerts, Deciding, Sending, Actor, NoNote, Snapshot, Rank, Stamp, runLocals

LEMMA CanonicalIsPlayer ==
  ASSUME NEW i \in Id
  PROVE  Canonical(i) \in Player
BY DEF Canonical, Id

\* What recording does to the series: nothing, or one snapshot more at its end.
LEMMA InsertTyped ==
  ASSUME TypeOK, NEW a \in Actor, player[a] \in Id, held[a] \in Snapshot, Insert(a)
  PROVE  series' \in [Player -> Seq(Snapshot)]
<1> DEFINE p == Canonical(player[a])
<1>1. p \in Player
  BY CanonicalIsPlayer
<1>2. series[p] \in Seq(Snapshot)
  BY <1>1 DEF TypeOK
<1>3. Append(series[p], held[a]) \in Seq(Snapshot)
  BY <1>2
<1>4. series' = series \/ series' = [series EXCEPT ![p] = Append(series[p], held[a])]
  BY DEF Insert
<1> HIDE DEF p
<1> QED BY <1>1, <1>3, <1>4 DEF TypeOK

LEMMA NextPlayerTyped ==
  ASSUME Typed, NEW n \in Run, NextPlayer(n), UNCHANGED <<profile, series, announced, watching, installed, told, todo, gone>>,
         faults' \in 0..MaxFaults
  PROVE  Typed'
BY DEF NextPlayer, Goto, Typed, TypeOK, Holds, Alerts, Deciding, Sending, Actor, Id, NoNote

LEMMA EndTyped ==
  ASSUME Typed, NEW n \in Run, End(n), UNCHANGED <<profile, series, announced, installed, told>>,
         watching' \in [Device -> SUBSET Id], faults' \in 0..MaxFaults
  PROVE  Typed'
BY DEF End, Goto, Typed, TypeOK, Holds, Alerts, Deciding, Sending, Actor, Id, NoNote

\* A snapshot chosen for an alert is one of the series, with a rank.
LEMMA MovedNewest ==
  ASSUME NEW s \in Seq(Snapshot), Moved(s)
  PROVE  Len(s) \in 1..Len(s) /\ Newest(s) = s[Len(s)] /\ Newest(s) \in Snapshot /\ Newest(s).rank # 0
<1>1. Len(s) \in Nat /\ Len(s) >= 2
  BY DEF Moved
<1>2. Len(s) \in 1..Len(s)
  BY <1>1
<1>3. s[Len(s)] \in Snapshot
  BY <1>2
<1> QED BY <1>2, <1>3 DEF Moved, Newest

LEMMA StepTyped == Typed /\ [Next]_vars => Typed'
<1> SUFFICES ASSUME Typed, [Next]_vars PROVE Typed'
  OBVIOUS
<1> USE DEF Typed, Fault, Id
<1>1. ASSUME NEW n \in Run, Prune(n) PROVE Typed'
  <2>1. watching' \in [Device -> SUBSET Id]
    BY <1>1 DEF Prune, TypeOK
  <2> QED BY <1>1, <2>1 DEF Prune, Goto, TypeOK, Holds, Alerts, Deciding, Sending, Actor, runLocals
<1>2. ASSUME NEW n \in Run, Roster(n) PROVE Typed'
  <2>1. UNION {watching[d] : d \in Device} \in SUBSET Id
    BY DEF TypeOK
  <2> QED BY <1>2, <2>1 DEF Roster, Goto, TypeOK, Holds, Alerts, Deciding, Sending, Actor, runLocals
<1>3. ASSUME NEW n \in Run, NEW i \in Id, Refresh(n, i) PROVE Typed'
  <2>1. profile[Canonical(i)] \in Snapshot
    BY CanonicalIsPlayer DEF TypeOK
  <2> QED BY <1>3, <2>1 DEF Refresh, Goto, TypeOK, Holds, Alerts, Deciding, Sending, Actor
<1>4. ASSUME NEW n \in Run, RecordByRun(n) PROVE Typed'
  <2>1. player[n] \in Id /\ held[n] \in Snapshot
    BY <1>4 DEF RecordByRun, Holds, Actor
  <2>2. series' \in [Player -> Seq(Snapshot)]
    BY <1>4, <2>1, InsertTyped DEF RecordByRun, Actor
  <2> QED BY <1>4, <2>1, <2>2 DEF RecordByRun, Goto, TypeOK, Holds, Alerts, Deciding, Sending, Actor, runLocals
<1>5. ASSUME NEW n \in Run, Compare(n) PROVE Typed'
  <2> DEFINE s == Snapshots(player[n])
  <2>1. CASE Moved(s)
    <3>1. player[n] \in Player /\ s = series[player[n]]
      BY <2>1 DEF Snapshots, Moved
    <3>2. Newest(s) \in Snapshot /\ Newest(s).rank # 0
      BY <2>1, <3>1, MovedNewest DEF TypeOK
    <3> HIDE DEF s
    <3>3. /\ Goto(n, "announced") /\ note' = [note EXCEPT ![n] = Newest(s)]
          /\ UNCHANGED <<player, held, batch>>
      BY <1>5, <2>1 DEF Compare, s
    <3> QED BY <1>5, <3>1, <3>2, <3>3 DEF Compare, Goto, TypeOK, Holds, Alerts, Deciding, Sending, Actor
  <2>2. CASE ~Moved(s)
    BY <1>5, <2>2, NextPlayerTyped DEF Compare, TypeOK
  <2> QED BY <2>1, <2>2
<1>6. ASSUME NEW n \in Run, CheckAnnounced(n) PROVE Typed'
  <2>1. CASE NextPlayer(n)
    BY <1>6, <2>1, NextPlayerTyped DEF CheckAnnounced, TypeOK
  <2>2. CASE Goto(n, "devices") /\ UNCHANGED <<player, held, note, batch>>
    BY <1>6, <2>2 DEF CheckAnnounced, Goto, TypeOK, Holds, Alerts, Deciding, Sending, Actor
  <2> QED BY <1>6, <2>1, <2>2 DEF CheckAnnounced
<1>7. ASSUME NEW n \in Run, Devices(n) PROVE Typed'
  <2>1. CASE NextPlayer(n)
    BY <1>7, <2>1, NextPlayerTyped DEF Devices, TypeOK
  <2>2. CASE Goto(n, "record") /\ batch' = [batch EXCEPT ![n] = Watchers(player[n])]
             /\ UNCHANGED <<player, held, note>>
    BY <1>7, <2>2 DEF Devices, Goto, Watchers, TypeOK, Holds, Alerts, Deciding, Sending, Actor
  <2> QED BY <1>7, <2>1, <2>2 DEF Devices
<1>8. ASSUME NEW n \in Run, Record(n) PROVE Typed'
  <2>1. player[n] \in Id /\ note[n] \in Snapshot
    BY <1>8 DEF Record, Alerts, Deciding, Sending
  <2>2. note[n].rank \in Rank
    BY <2>1 DEF Snapshot
  <2> QED BY <1>8, <2>1, <2>2 DEF Record, Goto, TypeOK, Holds, Alerts, Deciding, Sending, Actor, runLocals
<1>9. ASSUME NEW n \in Run, NEW d \in Device, Deliver(n, d) PROVE Typed'
  <2> DEFINE m == [player |-> player[n], stamp |-> note[n].stamp, rank |-> note[n].rank]
  <2>1. player[n] \in Id /\ note[n] \in Snapshot /\ note[n].rank # 0
    BY <1>9 DEF Deliver, Alerts, TypeOK
  <2>2. m \in Note
    BY <2>1 DEF Note, Snapshot
  <2>3. told' = [told EXCEPT ![d] = Append(told[d], m)]
    BY <1>9 DEF Deliver
  <2> HIDE DEF m
  <2>4. told' \in [Device -> Seq(Note)]
    BY <2>2, <2>3 DEF TypeOK
  <2> QED BY <1>9, <2>4 DEF Deliver, Sent, TypeOK, Holds, Alerts, Deciding, Sending, Actor
<1>10. ASSUME NEW n \in Run, NEW d \in Device, Refused(n, d) PROVE Typed'
  BY <1>10 DEF Refused, Sent, TypeOK, Holds, Alerts, Deciding, Sending, Actor
<1>11. ASSUME NEW n \in Run, AllSent(n) PROVE Typed'
  BY <1>11, NextPlayerTyped DEF AllSent, TypeOK
<1>12. ASSUME NEW n \in Run, Polled(n) PROVE Typed'
  BY <1>12 DEF Polled, Goto, TypeOK, Holds, Alerts, Deciding, Sending, Actor, runLocals
<1>13. ASSUME NEW n \in Run, Drop(n) PROVE Typed'
  <2>1. watching' \in [Device -> SUBSET Id]
    BY <1>13 DEF Drop, TypeOK
  <2> QED BY <1>13, <2>1, EndTyped DEF Drop, TypeOK
<1>14. ASSUME NEW n \in Run, PlayerFails(n) PROVE Typed'
  <2>1. faults' \in 0..MaxFaults
    BY <1>14 DEF PlayerFails, TypeOK
  <2> QED BY <1>14, <2>1, NextPlayerTyped DEF PlayerFails
<1>15. ASSUME NEW n \in Run, RunDies(n) PROVE Typed'
  <2>1. faults' \in 0..MaxFaults
    BY <1>15 DEF RunDies, TypeOK
  <2> QED BY <1>15, <2>1, EndTyped DEF RunDies, TypeOK
<1>22. ASSUME NEW n \in Run, Compose(n) PROVE Typed'
  BY <1>22 DEF Compose, Goto, TypeOK, Holds, Alerts, Deciding, Sending, Actor, runLocals
<1>23. ASSUME NEW n \in Run, RecordFails(n) PROVE Typed'
  <2>1. player[n] \in Id
    BY <1>23 DEF RecordFails, Holds, Actor
  <2> QED BY <1>23, <2>1 DEF RecordFails, Goto, TypeOK, Holds, Alerts, Deciding, Sending, Actor, runLocals
<1>16. ASSUME NEW n \in Run, NEW d \in Device, SendFails(n, d) PROVE Typed'
  BY <1>16 DEF SendFails, Sent, TypeOK, Holds, Alerts, Deciding, Sending, Actor
<1>17. ASSUME NEW q \in Reader, RecordByReader(q) PROVE Typed'
  <2>1. player[q] \in Id /\ held[q] \in Snapshot
    BY <1>17 DEF RecordByReader, Holds, Actor
  <2>2. series' \in [Player -> Seq(Snapshot)]
    BY <1>17, <2>1, InsertTyped DEF RecordByReader, Actor
  <2> QED BY <1>17, <2>2 DEF RecordByReader, NoNote, TypeOK, Holds, Alerts, Deciding, Sending, Actor, runLocals
<1>18. ASSUME NEW q \in Reader, NEW p \in Player, FetchByReader(q, p) PROVE Typed'
  BY <1>18 DEF FetchByReader, TypeOK, Holds, Alerts, Deciding, Sending, Actor, runLocals
<1>19. ASSUME NEW p \in Player, Play(p) PROVE Typed'
  <2>1. profile' \in [Player -> Snapshot]
    BY <1>19 DEF Play, TypeOK, Snapshot, Stamp
  <2> QED BY <1>19, <2>1 DEF Play, TypeOK, Holds, Alerts, Deciding, Sending, Actor, runLocals
<1>20. ASSUME NEW d \in Device, Unregister(d) \/ Uninstall(d) \/ \E ids \in SUBSET Id : Register(d, ids)
       PROVE  Typed'
  <2>1. watching' \in [Device -> SUBSET Id]
    <3>1. CASE \E ids \in SUBSET Id : Register(d, ids)
      BY <3>1 DEF Register, TypeOK
    <3>2. CASE Unregister(d)
      BY <3>2 DEF Unregister, TypeOK
    <3>3. CASE Uninstall(d)
      BY <3>3 DEF Uninstall, TypeOK
    <3> QED BY <1>20, <3>1, <3>2, <3>3
  <2> QED BY <1>20, <2>1 DEF Unregister, Uninstall, Register, TypeOK, Holds, Alerts, Deciding, Sending, Actor, runLocals
<1>21. CASE UNCHANGED vars
  BY <1>21 DEF vars, TypeOK, Holds, Alerts, Deciding, Sending, Actor, runLocals
<1> QED
  BY <1>1, <1>2, <1>3, <1>4, <1>5, <1>6, <1>7, <1>8, <1>9, <1>10, <1>11, <1>12, <1>13, <1>14,
     <1>15, <1>16, <1>17, <1>18, <1>19, <1>20, <1>21, <1>22, <1>23
  DEF Next, PollStep

\* The type invariant: in particular nothing is sent without a rank to announce, for any
\* number of overlapping runs.
THEOREM TypeCorrect == Spec => []TypeOK
<1>1. Typed => TypeOK
  BY DEF Typed
<1> QED BY <1>1, InitTyped, StepTyped, PTL DEF Spec

-----------------------------------------------------------------------------
(* One notification for one move *)

OneRun == \A m, n \in Run : m = n

\* A version is recorded once.
Distinct(p) == \A i, j \in 1..Len(series[p]) : i # j => series[p][i].stamp # series[p][j].stamp

\* Device d was told of p no later than of the k-th snapshot.
ToldUpTo(d, p, k) ==
  \A j \in 1..Len(told[d]) :
    told[d][j].player = p => \E i \in 1..k : series[p][i].stamp = told[d][j].stamp

\* Run n, at work on p, is past the k-th snapshot, or sends it to who has not got it.
Ahead(n, p, k) ==
  player[n] = p =>
    /\ pc[n] \in Deciding =>
         \E i \in 1..Len(series[p]) :
           i >= k /\ note[n] = series[p][i] /\ (pc[n] # "announced" => i # k)
    /\ pc[n] \in Sending =>
         /\ k > 0 /\ note[n] = series[p][k]
         /\ \A d \in batch[n] : ToldUpTo(d, p, k - 1)

\* The k-th snapshot is the last one recorded as announced; 0 when there is none.
Anchor(p, k) ==
  /\ k > 0 => announced[p] = series[p][k].rank
  /\ \A d \in Device : ToldUpTo(d, p, k)
  /\ \A n \in Run : Ahead(n, p, k)

\* Alerts are about players: a BattleTag has no snapshots.
AboutPlayers ==
  /\ \A n \in Run : pc[n] \in Deciding \cup Sending => player[n] \in Player
  /\ \A d \in Device : \A j \in 1..Len(told[d]) : told[d][j].player \in Player

Once ==
  /\ ToldOnce /\ AboutPlayers
  /\ \A p \in Player : Distinct(p) /\ \E k \in 0..Len(series[p]) : Anchor(p, k)

LEMMA InitOnce == Init => Once
<1> SUFFICES ASSUME Init PROVE Once
  OBVIOUS
<1>1. \A d \in Device : told[d] = <<>> /\ Len(told[d]) = 0
  BY DEF Init
<1>2. \A p \in Player : series[p] = <<>> /\ Len(series[p]) = 0
  <2>1. \A p \in Player : series[p] = <<>>
    BY Zenon DEF Init
  <2>2. Len(<<>>) = 0
    OBVIOUS
  <2> QED BY <2>1, <2>2, Zenon
<1>3. \A n \in Run : pc[n] = "idle"
  BY DEF Init, Actor
<1>4. ASSUME NEW p \in Player PROVE Anchor(p, 0)
  BY <1>1, <1>3 DEF Anchor, ToldUpTo, Ahead, Deciding, Sending
<1>5. ToldOnce /\ AboutPlayers
  BY <1>1, <1>3 DEF ToldOnce, AboutPlayers, Deciding, Sending
<1>6. ASSUME NEW p \in Player PROVE Distinct(p) /\ \E k \in 0..Len(series[p]) : Anchor(p, k)
  BY <1>2, <1>4 DEF Distinct
<1> QED BY <1>5, <1>6 DEF Once

\* A series only grows, at its end, and by versions it has not got.
Grows ==
  \A p \in Player :
    /\ Len(series'[p]) \in Nat /\ Len(series'[p]) >= Len(series[p])
    /\ \A i \in 1..Len(series[p]) : series'[p][i] = series[p][i]
    /\ Distinct(p)'

LEMMA InsertGrows ==
  ASSUME Typed, Once, NEW a \in Actor, player[a] \in Id, held[a] \in Snapshot, Insert(a)
  PROVE  Grows
<1> DEFINE c == Canonical(player[a])
           s == Append(series[c], held[a])
<1>1. c \in Player
  BY CanonicalIsPlayer
<1>2. series \in [Player -> Seq(Snapshot)]
  BY DEF Typed, TypeOK
<1>3. CASE Known(c, held[a].stamp)
  <2>1. series' = series
    BY <1>3 DEF Insert
  <2> QED BY <1>2, <2>1 DEF Grows, Once, Distinct
<1>4. CASE ~Known(c, held[a].stamp)
  <2>1. series' = [series EXCEPT ![c] = s]
    BY <1>4 DEF Insert
  <2>2. /\ s \in Seq(Snapshot) /\ Len(s) = Len(series[c]) + 1 /\ s[Len(series[c]) + 1] = held[a]
        /\ \A i \in 1..Len(series[c]) : s[i] = series[c][i]
    BY <1>1, <1>2
  <2>3. \A i \in 1..Len(series[c]) : series[c][i].stamp # held[a].stamp
    BY <1>4 DEF Known
  <2>4. Distinct(c)
    BY <1>1 DEF Once
  <2> HIDE DEF s, c
  <2>5. \A i, j \in 1..Len(s) : i # j => s[i].stamp # s[j].stamp
    <3> SUFFICES ASSUME NEW i \in 1..Len(s), NEW j \in 1..Len(s), i # j
                 PROVE  s[i].stamp # s[j].stamp
      OBVIOUS
    <3>1. Len(series[c]) \in Nat
      BY <1>1, <1>2
    <3>2. CASE i = Len(series[c]) + 1
      BY <2>2, <2>3, <3>1, <3>2
    <3>3. CASE j = Len(series[c]) + 1
      BY <2>2, <2>3, <3>1, <3>3
    <3>4. CASE i # Len(series[c]) + 1 /\ j # Len(series[c]) + 1
      BY <2>2, <2>4, <3>1, <3>4 DEF Distinct
    <3> QED BY <3>2, <3>3, <3>4
  <2> SUFFICES ASSUME NEW p \in Player
               PROVE  /\ Len(series'[p]) \in Nat /\ Len(series'[p]) >= Len(series[p])
                      /\ \A i \in 1..Len(series[p]) : series'[p][i] = series[p][i]
                      /\ Distinct(p)'
    BY DEF Grows
  <2>6. CASE p = c
    <3>1. series'[p] = s
      BY <1>1, <1>2, <2>1, <2>6
    <3>2. Distinct(p)'
      BY <2>5, <3>1 DEF Distinct
    <3>3. Len(series[p]) \in Nat
      BY <1>2
    <3>4. /\ Len(s) = Len(series[p]) + 1
          /\ \A i \in 1..Len(series[p]) : s[i] = series[p][i]
      BY <2>2, <2>6
    <3> QED BY <3>1, <3>2, <3>3, <3>4
  <2>7. CASE p # c
    <3>1. series'[p] = series[p] /\ Len(series[p]) \in Nat
      BY <1>2, <2>1, <2>7
    <3> QED BY <3>1 DEF Once, Distinct
  <2> QED BY <2>6, <2>7
<1> QED BY <1>3, <1>4

LEMMA SameGrows ==
  ASSUME Typed, Once, UNCHANGED series
  PROVE  Grows
BY DEF Typed, TypeOK, Grows, Once, Distinct

\* A run that has no alert in hand after the step, or the one it had before.
Calm(n) ==
  \/ pc'[n] \notin Deciding \cup Sending
  \/ /\ pc'[n] = pc[n] /\ player'[n] = player[n] /\ note'[n] = note[n]
     /\ batch'[n] \subseteq batch[n]

LEMMA ToldUpToGrows ==
  ASSUME Grows, UNCHANGED told, Typed, NEW d \in Device, NEW p \in Player,
         NEW k \in 0..Len(series[p]), ToldUpTo(d, p, k)
  PROVE  ToldUpTo(d, p, k)'
<1> SUFFICES ASSUME NEW j \in 1..Len(told[d]), told[d][j].player = p
             PROVE  \E i \in 1..k : series'[p][i].stamp = told[d][j].stamp
  BY DEF ToldUpTo
<1>1. PICK i \in 1..k : series[p][i].stamp = told[d][j].stamp
  BY DEF ToldUpTo
<1>2. i \in 1..Len(series[p])
  BY DEF Typed, TypeOK
<1> QED BY <1>1, <1>2 DEF Grows

LEMMA AheadGrows ==
  ASSUME Grows, UNCHANGED told, Typed, NEW p \in Player, NEW n \in Run, Calm(n),
         NEW k \in 0..Len(series[p]), Ahead(n, p, k)
  PROVE  Ahead(n, p, k)'
<1> SUFFICES ASSUME player'[n] = p, pc'[n] \in Deciding \cup Sending
             PROVE  Ahead(n, p, k)'
  BY DEF Ahead
<1>1. /\ pc'[n] = pc[n] /\ player[n] = p /\ note'[n] = note[n]
      /\ batch'[n] \subseteq batch[n] /\ batch[n] \subseteq Device
  BY DEF Calm, Typed, TypeOK
<1>2. Len(series[p]) \in Nat
  BY DEF Typed, TypeOK
<1>3. ASSUME pc[n] \in Deciding
      PROVE  \E i \in 1..Len(series'[p]) :
               i >= k /\ note'[n] = series'[p][i] /\ (pc'[n] # "announced" => i # k)
  <2>1. PICK i \in 1..Len(series[p]) :
               i >= k /\ note[n] = series[p][i] /\ (pc[n] # "announced" => i # k)
    BY <1>1, <1>3 DEF Ahead
  <2>2. i \in 1..Len(series'[p]) /\ series'[p][i] = series[p][i]
    BY <1>2 DEF Grows
  <2> QED BY <1>1, <2>1, <2>2
<1>4. ASSUME pc[n] \in Sending
      PROVE  /\ k > 0 /\ note'[n] = series'[p][k]
             /\ \A d \in batch'[n] : ToldUpTo(d, p, k - 1)'
  <2>1. k > 0 /\ note[n] = series[p][k] /\ \A d \in batch[n] : ToldUpTo(d, p, k - 1)
    BY <1>1, <1>4 DEF Ahead
  <2>2. series'[p][k] = series[p][k] /\ k - 1 \in 0..Len(series[p])
    BY <1>2, <2>1 DEF Grows
  <2> QED BY <1>1, <2>1, <2>2, ToldUpToGrows
<1> QED BY <1>1, <1>3, <1>4 DEF Ahead

\* Steps that announce nothing and tell nobody.
LEMMA CalmOnce ==
  ASSUME Typed, Once, Grows, UNCHANGED <<announced, told>>, \A n \in Run : Calm(n)
  PROVE  Once'
<1>1. ToldOnce'
  BY DEF Once, ToldOnce
<1>2. AboutPlayers'
  BY DEF Once, AboutPlayers, Calm
<1>3. ASSUME NEW p \in Player PROVE Distinct(p)' /\ \E k \in 0..Len(series'[p]) : Anchor(p, k)'
  <2>1. PICK k \in 0..Len(series[p]) : Anchor(p, k)
    BY DEF Once
  <2>2. Len(series[p]) \in Nat
    BY DEF Typed, TypeOK
  <2>3. k \in 0..Len(series'[p]) /\ (k > 0 => series'[p][k] = series[p][k])
    BY <2>2 DEF Grows
  <2>4. (k > 0 => announced[p] = series[p][k].rank)'
    BY <2>1, <2>3 DEF Anchor
  <2>5. \A d \in Device : ToldUpTo(d, p, k)'
    BY <2>1, ToldUpToGrows DEF Anchor
  <2>6. \A n \in Run : Ahead(n, p, k)'
    BY <2>1, AheadGrows DEF Anchor
  <2>7. Anchor(p, k)'
    BY <2>4, <2>5, <2>6 DEF Anchor
  <2> QED BY <2>3, <2>7 DEF Grows
<1> QED BY <1>1, <1>2, <1>3 DEF Once

\* Steps that move an alert on without announcing or telling it.
LEMMA AheadOnce ==
  ASSUME Once, UNCHANGED <<series, announced, told>>, AboutPlayers',
         \A p \in Player : \A k \in 0..Len(series[p]) : Anchor(p, k) => \A n \in Run : Ahead(n, p, k)'
  PROVE  Once'
<1>1. ToldOnce'
  BY DEF Once, ToldOnce
<1>2. ASSUME NEW p \in Player PROVE Distinct(p)' /\ \E k \in 0..Len(series'[p]) : Anchor(p, k)'
  <2>1. PICK k \in 0..Len(series[p]) : Anchor(p, k)
    BY DEF Once
  <2>2. \A d \in Device : ToldUpTo(d, p, k)'
    BY <2>1 DEF Anchor, ToldUpTo
  <2>3. \A n \in Run : Ahead(n, p, k)'
    BY <2>1
  <2>4. Anchor(p, k)'
    BY <2>1, <2>2, <2>3 DEF Anchor
  <2>5. Distinct(p)'
    BY DEF Once, Distinct
  <2> QED BY <2>4, <2>5
<1> QED BY <1>1, <1>2 DEF Once

LEMMA StepOnce == OneRun /\ Typed /\ Once /\ Typed' /\ [Next]_vars => Once'
<1> SUFFICES ASSUME OneRun, Typed, Once, Typed', [Next]_vars PROVE Once'
  OBVIOUS
<1> USE DEF Id
<1>0. /\ pc \in [Actor -> {"idle", "roster", "player", "fetched", "compare", "announced",
                           "devices", "record", "name", "send", "drop"}]
      /\ note \in [Run -> Snapshot \cup {NoNote}] /\ batch \in [Run -> SUBSET Device]
      /\ player \in [Actor -> Id \cup {Nobody}] /\ Run \subseteq Actor
  BY DEF Typed, TypeOK, Actor
\* The steps of a run that move one alert on.
<1>1. ASSUME NEW n \in Run, Compare(n), Moved(Snapshots(player[n])) PROVE Once'
  <2> DEFINE q == player[n]
  <2>1. q \in Player /\ Snapshots(q) = series[q]
    BY <1>1 DEF Snapshots, Moved
  <2>2. /\ Len(series[q]) \in 1..Len(series[q])
        /\ Newest(series[q]) = series[q][Len(series[q])]
    BY <1>1, <2>1, MovedNewest DEF Typed, TypeOK
  <2>3. /\ pc' = [pc EXCEPT ![n] = "announced"] /\ note' = [note EXCEPT ![n] = Newest(series[q])]
        /\ UNCHANGED <<series, announced, told, player, batch>>
    BY <1>1, <2>1 DEF Compare, Goto
  <2> HIDE DEF q
  <2>4. q = player[n]
    BY DEF q
  <2>5. ASSUME NEW p \in Player, NEW k \in 0..Len(series[p]), NEW m \in Run, Ahead(m, p, k)
        PROVE  Ahead(m, p, k)'
    <3>1. CASE m # n
      <4>1. pc'[m] = pc[m] /\ note'[m] = note[m]
        BY <1>0, <2>3, <3>1
      <4> QED BY <2>3, <2>5, <4>1 DEF Ahead, ToldUpTo
    <3>2. CASE m = n /\ p = q
      <4>1. pc'[m] = "announced" /\ note'[m] = series[p][Len(series[p])]
        BY <1>0, <2>2, <2>3, <3>2
      <4>2. Len(series[p]) \in 1..Len(series[p]) /\ Len(series[p]) >= k
        BY <2>2, <3>2
      <4> QED BY <2>3, <4>1, <4>2 DEF Ahead
    <3>3. CASE m = n /\ p # q
      BY <2>3, <2>4, <3>3 DEF Ahead
    <3> QED BY <3>1, <3>2, <3>3
  <2>6. AboutPlayers'
    BY <1>0, <2>1, <2>3, <2>4 DEF Once, AboutPlayers
  <2> QED BY <2>3, <2>5, <2>6, AheadOnce DEF Anchor
<1>2. ASSUME NEW n \in Run, CheckAnnounced(n), announced[player[n]] # note[n].rank PROVE Once'
  <2>1. /\ pc[n] = "announced" /\ pc' = [pc EXCEPT ![n] = "devices"]
        /\ UNCHANGED <<series, announced, told, player, note, batch>>
    BY <1>2 DEF CheckAnnounced, Goto
  <2>2. ASSUME NEW p \in Player, NEW k \in 0..Len(series[p]), NEW m \in Run, Ahead(m, p, k),
               k > 0 => announced[p] = series[p][k].rank
        PROVE  Ahead(m, p, k)'
    <3>1. CASE m # n
      <4>1. pc'[m] = pc[m]
        BY <1>0, <2>1, <3>1
      <4> QED BY <2>1, <2>2, <4>1 DEF Ahead, ToldUpTo
    <3>2. CASE m = n /\ player[n] = p
      <4>1. PICK i \in 1..Len(series[p]) : i >= k /\ note[n] = series[p][i]
        BY <2>1, <2>2, <3>2 DEF Ahead, Deciding, Sending
      <4>2. i # k
        BY <1>2, <2>2, <3>2, <4>1
      <4>3. pc'[m] = "devices"
        BY <1>0, <2>1, <3>2
      <4> QED BY <2>1, <3>2, <4>1, <4>2, <4>3 DEF Ahead
    <3>3. CASE m = n /\ player[n] # p
      BY <2>1, <3>3 DEF Ahead
    <3> QED BY <3>1, <3>2, <3>3
  <2>3. AboutPlayers'
    BY <1>0, <2>1 DEF Once, AboutPlayers, Deciding, Sending
  <2> QED BY <2>1, <2>2, <2>3, AheadOnce DEF Anchor
<1>3. ASSUME NEW n \in Run, Devices(n), Watchers(player[n]) # {} PROVE Once'
  <2>1. /\ pc[n] = "devices" /\ pc' = [pc EXCEPT ![n] = "record"]
        /\ UNCHANGED <<series, announced, told, player, note>>
        /\ \A m \in Run \ {n} : batch'[m] = batch[m]
    BY <1>0, <1>3 DEF Devices, Goto
  <2>2. ASSUME NEW p \in Player, NEW k \in 0..Len(series[p]), NEW m \in Run, Ahead(m, p, k)
        PROVE  Ahead(m, p, k)'
    <3>1. CASE m # n
      <4>1. pc'[m] = pc[m] /\ batch'[m] = batch[m]
        BY <1>0, <2>1, <3>1
      <4> QED BY <2>1, <2>2, <4>1 DEF Ahead, ToldUpTo
    <3>2. CASE m = n
      <4>1. pc'[m] = "record"
        BY <1>0, <2>1, <3>2
      <4> QED BY <2>1, <2>2, <3>2, <4>1 DEF Ahead, Deciding, Sending
    <3> QED BY <3>1, <3>2
  <2>3. AboutPlayers'
    BY <1>0, <2>1 DEF Once, AboutPlayers, Deciding, Sending
  <2> QED BY <2>1, <2>2, <2>3, AheadOnce DEF Anchor
<1>4. ASSUME NEW n \in Run, Record(n) PROVE Once'
  <2> DEFINE q == player[n]
  <2>1. /\ pc[n] = "record" /\ pc' = [pc EXCEPT ![n] = "name"]
        /\ announced' = [announced EXCEPT ![q] = note[n].rank]
        /\ UNCHANGED <<series, told, player, note, batch>>
    BY <1>4 DEF Record, Goto, runLocals
  <2>2. q \in Player /\ announced \in [Id -> Rank]
    BY <2>1 DEF Once, AboutPlayers, Deciding, Sending, Typed, TypeOK
  <2>3. pc'[n] = "name" /\ \A m \in Run : m = n
    BY <1>0, <2>1 DEF OneRun
  <2> HIDE DEF q
  <2>4. q = player[n]
    BY DEF q
  <2>5. ASSUME NEW p \in Player, NEW k \in 0..Len(series[p]), Anchor(p, k)
        PROVE  \E l \in 0..Len(series[p]) : Anchor(p, l)'
    <3>1. CASE p # q
      <4>1. announced'[p] = announced[p]
        BY <2>1, <2>2, <3>1
      <4>2. \A m \in Run : Ahead(m, p, k)'
        BY <2>1, <2>3, <2>4, <3>1 DEF Ahead
      <4> QED BY <2>1, <2>5, <4>1, <4>2 DEF Anchor, ToldUpTo
    <3>2. CASE p = q
      <4>1. Ahead(n, p, k)
        BY <2>5 DEF Anchor
      <4>2. PICK i \in 1..Len(series[p]) : i >= k /\ note[n] = series[p][i] /\ i # k
        BY <2>1, <2>4, <3>2, <4>1 DEF Ahead, Deciding, Sending
      <4>3. announced'[p] = series[p][i].rank
        BY <2>1, <2>2, <3>2, <4>2
      <4>4. ASSUME NEW d \in Device PROVE ToldUpTo(d, p, i - 1)' /\ ToldUpTo(d, p, i)'
        <5>1. ToldUpTo(d, p, k) /\ 1..k \subseteq 1..(i - 1) /\ 1..k \subseteq 1..i
          BY <2>5, <4>2 DEF Anchor
        <5> QED BY <2>1, <5>1 DEF ToldUpTo
      <4>5. \A m \in Run : Ahead(m, p, i)'
        BY <1>0, <2>1, <2>3, <4>2, <4>4 DEF Ahead, Deciding, Sending
      <4>6. Anchor(p, i)'
        BY <2>1, <4>3, <4>4, <4>5 DEF Anchor
      <4> QED BY <4>2, <4>6
    <3> QED BY <3>1, <3>2
  <2>6. AboutPlayers'
    BY <2>1, <2>2, <2>3, <2>4 DEF Once, AboutPlayers
  <2>7. ToldOnce'
    BY <2>1 DEF Once, ToldOnce
  <2> QED BY <2>1, <2>5, <2>6, <2>7 DEF Once, Distinct
<1>18. ASSUME NEW n \in Run, Compose(n) PROVE Once'
  <2>1. /\ pc[n] = "name" /\ pc' = [pc EXCEPT ![n] = "send"]
        /\ UNCHANGED <<series, announced, told, player, note, batch>>
    BY <1>18 DEF Compose, Goto, runLocals
  <2>2. ASSUME NEW p \in Player, NEW k \in 0..Len(series[p]), NEW m \in Run, Ahead(m, p, k)
        PROVE  Ahead(m, p, k)'
    <3>1. CASE m # n
      <4>1. pc'[m] = pc[m]
        BY <1>0, <2>1, <3>1
      <4> QED BY <2>1, <2>2, <4>1 DEF Ahead, ToldUpTo
    <3>2. CASE m = n
      <4>1. pc'[m] = "send"
        BY <1>0, <2>1, <3>2
      <4> QED BY <2>1, <2>2, <3>2, <4>1 DEF Ahead, ToldUpTo, Deciding, Sending
    <3> QED BY <3>1, <3>2
  <2>3. AboutPlayers'
    BY <1>0, <2>1 DEF Once, AboutPlayers, Deciding, Sending
  <2> QED BY <2>1, <2>2, <2>3, AheadOnce DEF Anchor
<1>5. ASSUME NEW n \in Run, NEW d \in Device, Deliver(n, d) PROVE Once'
  <2>0. PICK q \in Player : q = player[n]
    BY <1>5 DEF Deliver, Once, AboutPlayers
  <2> DEFINE m == [player |-> q, stamp |-> note[n].stamp, rank |-> note[n].rank]
  <2>1. /\ pc[n] = "send" /\ d \in batch[n]
        /\ told' = [told EXCEPT ![d] = Append(told[d], m)]
        /\ batch' = [batch EXCEPT ![n] = batch[n] \ {d}]
        /\ UNCHANGED <<series, announced, pc, player, note>>
    BY <1>5, <2>0 DEF Deliver, Sent
  <2>2. q \in Player /\ \A r \in Run : r = n
    BY <2>1 DEF Once, AboutPlayers, OneRun
  <2>3. told \in [Device -> Seq(Note)] /\ m \in Note
    <3>1. note[n] \in Snapshot /\ note[n].rank # 0
      BY <2>1 DEF Typed, TypeOK, Alerts
    <3> QED BY <2>2, <3>1 DEF Typed, TypeOK, Note, Snapshot
  <2>4. m.player = q /\ m.stamp = note[n].stamp
    OBVIOUS
  <2> HIDE DEF m
  <2>5. /\ Len(told[d]) \in Nat /\ Len(told'[d]) = Len(told[d]) + 1
        /\ told'[d][Len(told[d]) + 1] = m
        /\ \A j \in 1..Len(told[d]) : told'[d][j] = told[d][j]
        /\ \A e \in Device \ {d} : told'[e] = told[e]
    BY <2>1, <2>3
  <2>7. PICK k \in 0..Len(series[q]) : Anchor(q, k)
    BY <2>2 DEF Once
  <2>8. Len(series[q]) \in Nat
    BY <2>2 DEF Typed, TypeOK
  <2>9. /\ k > 0 /\ note[n] = series[q][k]
        /\ \A e \in batch[n] : ToldUpTo(e, q, k - 1)
    BY <2>1, <2>0, <2>7 DEF Anchor, Ahead
  <2>10. \A j \in 1..Len(told[d]) : told[d][j].player = q => told[d][j].stamp # m.stamp
    <3> SUFFICES ASSUME NEW j \in 1..Len(told[d]), told[d][j].player = q
                 PROVE  told[d][j].stamp # m.stamp
      OBVIOUS
    <3>1. PICK i \in 1..(k - 1) : series[q][i].stamp = told[d][j].stamp
      BY <2>1, <2>9 DEF ToldUpTo
    <3>2. Distinct(q)
      BY <2>2 DEF Once
    <3> QED BY <2>4, <2>8, <2>9, <3>1, <3>2 DEF Distinct
  <2>11. ToldOnce'
    <3> SUFFICES ASSUME NEW e \in Device, NEW i \in 1..Len(told'[e]), NEW j \in 1..Len(told'[e]),
                        i < j, told'[e][i].player = told'[e][j].player
                 PROVE  told'[e][i].stamp # told'[e][j].stamp
      BY DEF ToldOnce
    <3>1. CASE e # d
      <4>1. told'[e] = told[e]
        BY <2>5, <3>1
      <4>2. i \in 1..Len(told[e]) /\ j \in 1..Len(told[e]) /\ told[e][i].player = told[e][j].player
        BY <4>1
      <4>3. told[e][i].stamp # told[e][j].stamp
        BY <4>2 DEF Once, ToldOnce
      <4> QED BY <4>1, <4>3
    <3>2. CASE e = d /\ j <= Len(told[d])
      <4>1. i \in 1..Len(told[d]) /\ j \in 1..Len(told[d])
        BY <2>5, <3>2
      <4>2. told'[e][i] = told[d][i] /\ told'[e][j] = told[d][j]
        BY <2>5, <3>2, <4>1
      <4>3. told[d][i].player = told[d][j].player => told[d][i].stamp # told[d][j].stamp
        BY <4>1 DEF Once, ToldOnce
      <4> QED BY <4>2, <4>3
    <3>3. CASE e = d /\ j = Len(told[d]) + 1
      <4>1. i \in 1..Len(told[d])
        BY <2>5, <3>3
      <4> QED BY <2>4, <2>5, <2>10, <3>3, <4>1
    <3> QED BY <2>5, <3>1, <3>2, <3>3
  <2>12. AboutPlayers'
    <3>1. ASSUME NEW e \in Device, NEW j \in 1..Len(told'[e]) PROVE told'[e][j].player \in Player
      <4>1. CASE e = d /\ j = Len(told[d]) + 1
        BY <2>2, <2>4, <2>5, <4>1
      <4>2. CASE e # d \/ j \in 1..Len(told[d])
        BY <2>5, <4>2 DEF Once, AboutPlayers
      <4> QED BY <2>5, <4>1, <4>2
    <3> QED BY <2>1, <3>1 DEF Once, AboutPlayers
  <2>13. ASSUME NEW p \in Player, NEW l \in Nat, NEW e \in Device, ToldUpTo(e, p, l),
                e # d \/ p # q
         PROVE  ToldUpTo(e, p, l)'
    <3> SUFFICES ASSUME NEW j \in 1..Len(told'[e]), told'[e][j].player = p
                 PROVE  \E i \in 1..l : series[p][i].stamp = told'[e][j].stamp
      BY <2>1 DEF ToldUpTo
    <3>1. j \in 1..Len(told[e]) /\ told'[e][j] = told[e][j]
      BY <2>4, <2>5, <2>13
    <3> QED BY <2>13, <3>1 DEF ToldUpTo
  <2>14. ASSUME NEW p \in Player, p # q, NEW l \in 0..Len(series[p]), Anchor(p, l)
         PROVE  Anchor(p, l)'
    <3>1. \A e \in Device : ToldUpTo(e, p, l)'
      BY <2>13, <2>14 DEF Anchor
    <3>2. \A r \in Run : Ahead(r, p, l)'
      BY <2>1, <2>2, <2>0, <2>14 DEF Ahead
    <3> QED BY <2>1, <2>14, <3>1, <3>2 DEF Anchor
  <2>15. Anchor(q, k)'
    <3>1. ToldUpTo(d, q, k)'
      <4> SUFFICES ASSUME NEW j \in 1..Len(told'[d]), told'[d][j].player = q
                   PROVE  \E i \in 1..k : series[q][i].stamp = told'[d][j].stamp
        BY <2>1 DEF ToldUpTo
      <4>1. CASE j = Len(told[d]) + 1
        BY <2>4, <2>5, <2>8, <2>9, <4>1
      <4>2. CASE j \in 1..Len(told[d])
        <5>1. ToldUpTo(d, q, k)
          BY <2>7 DEF Anchor
        <5> QED BY <2>5, <4>2, <5>1 DEF ToldUpTo
      <4> QED BY <2>5, <4>1, <4>2
    <3>2. \A e \in Device : ToldUpTo(e, q, k)'
      <4>1. k \in Nat /\ \A e \in Device : ToldUpTo(e, q, k)
        BY <2>7, <2>8 DEF Anchor
      <4> QED BY <2>2, <2>13, <3>1, <4>1
    <3>3. \A e \in batch'[n] : ToldUpTo(e, q, k - 1)'
      <4>1. k - 1 \in Nat /\ \A e \in batch'[n] : e \in Device /\ e # d /\ e \in batch[n]
        BY <1>0, <2>1, <2>8, <2>9
      <4> QED BY <2>2, <2>9, <2>13, <4>1
    <3>4. \A r \in Run : Ahead(r, q, k)'
      BY <2>1, <2>2, <2>0, <2>9, <3>3 DEF Ahead, Deciding, Sending
    <3> QED BY <2>1, <2>7, <3>2, <3>4 DEF Anchor
  <2>16. ASSUME NEW p \in Player PROVE Distinct(p)' /\ \E l \in 0..Len(series'[p]) : Anchor(p, l)'
    BY <2>1, <2>7, <2>14, <2>15 DEF Once, Distinct
  <2> QED BY <2>11, <2>12, <2>16 DEF Once
\* Every other step.
<1>6. ASSUME NEW n \in Run, NextPlayer(n), UNCHANGED <<series, announced, told>> PROVE Once'
  <2>1. \A m \in Run : Calm(m)
    BY <1>0, <1>6 DEF NextPlayer, Goto, Calm, Deciding, Sending
  <2> QED BY <1>6, <2>1, CalmOnce, SameGrows
<1>7. ASSUME NEW n \in Run, NEW x \in {"roster", "player", "fetched", "drop", "idle"}, Goto(n, x),
             UNCHANGED <<series, announced, told, note>>, \A m \in Run \ {n} : player'[m] = player[m],
             UNCHANGED batch
      PROVE  Once'
  <2>1. \A m \in Run : Calm(m)
    BY <1>0, <1>7 DEF Goto, Calm, Deciding, Sending
  <2> QED BY <1>7, <2>1, CalmOnce, SameGrows
<1>8. ASSUME NEW n \in Run, End(n), UNCHANGED <<series, announced, told>> PROVE Once'
  <2>1. \A m \in Run : Calm(m)
    BY <1>0, <1>8 DEF End, Goto, Calm, Deciding, Sending
  <2> QED BY <1>8, <2>1, CalmOnce, SameGrows
<1>9. ASSUME NEW n \in Run, RecordByRun(n) PROVE Once'
  <2>1. player[n] \in Id /\ held[n] \in Snapshot /\ Insert(n)
    BY <1>0, <1>9 DEF RecordByRun, Typed, Holds
  <2>2. \A m \in Run : Calm(m)
    BY <1>0, <1>9 DEF RecordByRun, Goto, Calm, Deciding, Sending, runLocals
  <2> QED BY <1>0, <1>9, <2>1, <2>2, CalmOnce, InsertGrows DEF RecordByRun
<1>10. ASSUME NEW a \in Reader, RecordByReader(a) PROVE Once'
  <2>1. a \in Actor /\ player[a] \in Id /\ held[a] \in Snapshot /\ Insert(a)
    BY <1>10 DEF RecordByReader, Typed, Holds, Actor
  <2>2. \A m \in Run : m # a
    BY PushAssumption
  <2>3. \A m \in Run : Calm(m)
    BY <1>0, <1>10, <2>1, <2>2 DEF RecordByReader, Calm, runLocals
  <2> QED BY <1>10, <2>1, <2>3, CalmOnce, InsertGrows DEF RecordByReader
<1>11. ASSUME NEW a \in Reader, NEW p \in Player, FetchByReader(a, p) PROVE Once'
  <2>1. \A m \in Run : m # a
    BY PushAssumption
  <2>2. a \in Actor
    BY DEF Actor
  <2>3. \A m \in Run : Calm(m)
    BY <1>0, <1>11, <2>1, <2>2 DEF FetchByReader, Calm, runLocals
  <2> QED BY <1>11, <2>3, CalmOnce, SameGrows DEF FetchByReader
<1>12. ASSUME UNCHANGED <<series, announced, told, pc, player, note>>, \A m \in Run : batch'[m] \subseteq batch[m]
       PROVE  Once'
  <2>1. \A m \in Run : Calm(m)
    BY <1>12 DEF Calm
  <2> QED BY <1>12, <2>1, CalmOnce, SameGrows
<1>13. ASSUME NEW n \in Run, PollStep(n) PROVE Once'
  <2>1. CASE Prune(n) \/ Roster(n) \/ Polled(n) \/ \E i \in Id : Refresh(n, i)
    BY <1>0, <1>7, <2>1 DEF Prune, Roster, Polled, Refresh, runLocals
  <2>2. CASE Compare(n)
    BY <1>1, <1>6, <2>2 DEF Compare
  <2>3. CASE CheckAnnounced(n)
    BY <1>2, <1>6, <2>3 DEF CheckAnnounced
  <2>4. CASE Devices(n)
    BY <1>3, <1>6, <2>4 DEF Devices
  <2>5. CASE AllSent(n)
    BY <1>6, <2>5 DEF AllSent
  <2>6. CASE Drop(n)
    BY <1>8, <2>6 DEF Drop
  <2>7. CASE \E d \in Device : Refused(n, d)
    BY <1>0, <1>12, <2>7 DEF Refused, Sent
  <2> QED BY <1>4, <1>5, <1>9, <1>13, <1>18, <2>1, <2>2, <2>3, <2>4, <2>5, <2>6, <2>7 DEF PollStep
<1>14. ASSUME NEW n \in Run,
              \/ RecordFails(n) \/ PlayerFails(n) \/ RunDies(n)
              \/ \E d \in Device : SendFails(n, d)
       PROVE  Once'
  <2>1. CASE PlayerFails(n)
    BY <1>6, <2>1 DEF PlayerFails
  <2>2. CASE RunDies(n)
    BY <1>8, <2>2 DEF RunDies
  <2>3. CASE \E d \in Device : SendFails(n, d)
    BY <1>0, <1>12, <2>3 DEF SendFails, Sent
  <2>4. CASE RecordFails(n)
    <3>1. \A m \in Run : Calm(m)
      BY <1>0, <2>4 DEF RecordFails, Goto, Calm, Deciding, Sending, runLocals
    <3> QED BY <2>4, <3>1, CalmOnce, SameGrows DEF RecordFails, runLocals
  <2> QED BY <1>14, <2>1, <2>2, <2>3, <2>4
<1>15. ASSUME NEW p \in Player, Play(p) PROVE Once'
  BY <1>12, <1>15 DEF Play, runLocals
<1>16. ASSUME NEW d \in Device, Unregister(d) \/ Uninstall(d) \/ \E ids \in SUBSET Id : Register(d, ids)
       PROVE  Once'
  BY <1>12, <1>16 DEF Unregister, Uninstall, Register, runLocals
<1>17. CASE UNCHANGED vars
  BY <1>12, <1>17 DEF vars, runLocals
<1> QED BY <1>10, <1>11, <1>13, <1>14, <1>15, <1>16, <1>17 DEF Next

\* As long as runs do not overlap, no device is told of one move twice: whatever the
\* number of players, devices, requests and versions, and however messages are lost,
\* players fail, the worker dies and devices come and go.
THEOREM NoRepeat == OneRun => (Spec => []ToldOnce)
<1> SUFFICES ASSUME OneRun PROVE Spec => []ToldOnce
  OBVIOUS
<1>1. Init => Typed /\ Once
  BY InitTyped, InitOnce
<1>2. Typed /\ Once /\ [Next]_vars => (Typed /\ Once)'
  BY StepTyped, StepOnce
<1>3. Typed /\ Once => ToldOnce
  BY DEF Once
<1> QED BY <1>1, <1>2, <1>3, PTL DEF Spec
=============================================================================
