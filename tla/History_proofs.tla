--------------------------- MODULE History_proofs ---------------------------
(***************************************************************************)
(* A device is told of a patch, and of its week, once for each row it has  *)
(* had; and the rows of a series never differ by a game that was not       *)
(* played: proved for any devices, registrations, patches, games, requests *)
(* and retention.                                                          *)
(***************************************************************************)
EXTENDS History, Basics_proofs, FiniteSetTheorems, TLAPS

-----------------------------------------------------------------------------
(* The inductive invariant *)

Zones == {r.zone : r \in Registration}
Mark == Int \cup {None}

RowRec ==
  [device : Device, life : Nat, players : {r.players : r \in Registration},
   recap : {r.recap : r \in Registration}, zone : Zones,
   lastPatch : Mark, lastRecap : Mark]

Notification == [row : RowRec, key : Int]
Notice == [job : Job, life : Nat, key : Int]

Types ==
  /\ now \in Nat
  /\ rows \in [Device -> RowRec \cup {None}]
  /\ \A d \in Device : rows[d] # None => rows[d] \in RowRec
  /\ lives \in [Device -> Nat]
  /\ installed \in [Device -> BOOLEAN]
  /\ at \in [Job -> {"idle", "decide", "send"}] /\ at["heroes"] # "send"
  /\ roster \in [Job -> SUBSET RowRec]
  /\ outbox \in [Job -> SUBSET Notification]
  /\ \A job \in Job : IsFiniteSet(outbox[job])
  /\ \A job \in Job : at[job] = "idle" => outbox[job] = {}
  /\ told \in [Device -> Seq(Notice)]
  /\ failures \in Nat

\* A notice as the device is shown it.
NoticeOf(job, n) == [job |-> job, life |-> n.row.life, key |-> n.key]

\* The notices a job has for a device: shown, or on their way.
Shown(job, d) == {e \in Range(told[d]) : e.job = job}
Coming(job, d) == {NoticeOf(job, n) : n \in {n \in outbox[job] : n.row.device = d}}
Notices(job, d) == Shown(job, d) \cup Coming(job, d)

\* Lives only grow, and a run looks at each device once.
LifeInv ==
  /\ \A d \in Device : rows[d] # None => rows[d].device = d /\ rows[d].life = lives[d]
  /\ \A job \in Job : \A r \in roster[job] : r.life <= lives[r.device]
  /\ \A job \in Job, d \in Device : \A e \in Notices(job, d) : e.life <= lives[d]
  /\ \A job \in Job : \A r, s \in roster[job] : r.device = s.device => r = s

\* What a row remembers of a job.
Remembered(job, row) == IF job = "heroes" THEN row.lastPatch ELSE row.lastRecap

\* A week that has ended somewhere: an odd date whose last tick has come.
Ended(key) == key % 2 = 1 /\ \E z \in Zones : 2 * key + 1 <= now + z

\* No row remembers what has not come yet.
PatchInv ==
  \/ /\ patch = None /\ at["heroes"] = "idle"
     /\ \A d \in Device : rows[d] # None => rows[d].lastPatch \notin Int
  \/ /\ patch.date \in Int /\ patch.date <= Day
     /\ \A d \in Device : rows[d] # None /\ rows[d].lastPatch \in Int
                            => rows[d].lastPatch <= patch.date

ChosenInv ==
  at["heroes"] # "idle" =>
    /\ patch.date \in Int /\ chosen.date \in Int /\ chosen.date <= patch.date
    /\ \A d \in Device : rows[d] # None /\ rows[d].lastPatch \in Int
                           => rows[d].lastPatch <= chosen.date
    /\ \A r \in roster["heroes"] : r.lastPatch \in Int => r.lastPatch <= chosen.date

RecapInv ==
  /\ \A d \in Device : rows[d] # None /\ rows[d].lastRecap \in Int => Ended(rows[d].lastRecap)
  /\ \A r \in roster["recap"] : r.lastRecap \in Int => Ended(r.lastRecap)

\* A row remembers something at least as late as what its device has been told
\* under it; a run's copy of a row likewise.
Behind(job, row) ==
  \A e \in Notices(job, row.device) :
    e.life = row.life => Remembered(job, row) \in Int /\ e.key <= Remembered(job, row)

BehindInv ==
  /\ \A job \in Job, d \in Device : rows[d] # None => Behind(job, rows[d])
  /\ \A job \in Job : \A r \in roster[job] : Behind(job, r)

\* What is on its way has not been shown.
FreshInv ==
  /\ \A job \in Job, d \in Device : Shown(job, d) \cap Coming(job, d) = {}
  /\ \A d \in Device : IsInjective(told[d])

\* What a row remembers was told, or will be at the end of the run.
ToldInv ==
  failures = 0 => \A job \in Job, d \in Device :
    rows[d] # None /\ installed[d] /\ Remembered(job, rows[d]) # None =>
      \E e \in Notices(job, d) : e.key = Remembered(job, rows[d])

IInv ==
  /\ Types /\ LifeInv /\ PatchInv /\ ChosenInv /\ RecapInv
  /\ BehindInv /\ FreshInv /\ ToldInv

-----------------------------------------------------------------------------
(* Sequences of the elements of a set *)

\* The image of a finite set of notifications is finite.
LEMMA NoticesFinite ==
  ASSUME NEW S, IsFiniteSet(S), NEW job
  PROVE  IsFiniteSet({NoticeOf(job, n) : n \in S})
<1> DEFINE f == [n \in S |-> NoticeOf(job, n)]
           T == {NoticeOf(job, n) : n \in S}
<1>1. f \in Surjection(S, T)
  BY DEF Surjection
<1> HIDE DEF f, T
<1> QED BY <1>1, FS_Surjection DEF T

\* SetToSeq has each element of a finite set once, and nothing else.
LEMMA SetToSeqFacts ==
  ASSUME NEW S, IsFiniteSet(S)
  PROVE  /\ \A T : S \subseteq T => SetToSeq(S) \in Seq(T)
         /\ Range(SetToSeq(S)) = S /\ IsInjective(SetToSeq(S))
<1> DEFINE n == Cardinality(S)
           f == SetToSeq(S)
<1>1. n \in Nat /\ ExistsBijection(1..n, S)
  BY FS_CardinalityType
<1>2. \E g \in [1..n -> S] : IsInjective(g)
  BY <1>1 DEF ExistsBijection, Bijection, Injection
<1>3. f \in [1..n -> S] /\ IsInjective(f)
  BY <1>2 DEF SetToSeq
<1> HIDE DEF f
<1>4. f \in Injection(1..n, S)
  BY <1>3 DEF Injection
<1>5. Cardinality(1..n) = n
  BY <1>1, FS_Interval
<1> HIDE DEF n
<1>6. Cardinality(1..n) = Cardinality(S)
  BY <1>5 DEF n
<1>7. f \in Surjection(1..n, S)
  BY <1>4, <1>6, FS_Injection
<1>8. Range(f) = S
  BY <1>3, <1>7 DEF Surjection, Range
<1>9. \A T : S \subseteq T => f \in Seq(T)
  BY <1>1, <1>3
<1> QED BY <1>3, <1>8, <1>9 DEF f

\* Appending one sequence to another, of other elements.
LEMMA Appended ==
  ASSUME NEW T, NEW s \in Seq(T), NEW t \in Seq(T), IsInjective(s), IsInjective(t),
         Range(s) \cap Range(t) = {}
  PROVE  /\ s \o t \in Seq(T)
         /\ Range(s \o t) = Range(s) \cup Range(t)
         /\ IsInjective(s \o t)
<1> DEFINE r == s \o t
<1>1. r \in Seq(T) /\ Len(r) = Len(s) + Len(t)
  OBVIOUS
<1>2. \A i \in 1..Len(s) : r[i] = s[i]
  OBVIOUS
<1>3. \A i \in 1..Len(t) : r[Len(s) + i] = t[i]
  OBVIOUS
<1>4. \A i \in DOMAIN r : \/ i \in DOMAIN s /\ r[i] = s[i]
                          \/ i - Len(s) \in DOMAIN t /\ r[i] = t[i - Len(s)]
  BY <1>1, <1>2, <1>3
<1> HIDE DEF r
<1>5. Range(r) \subseteq Range(s) \cup Range(t)
  BY <1>4 DEF Range
<1>6. Range(s) \subseteq Range(r)
  BY <1>1, <1>2 DEF Range
<1>7. Range(t) \subseteq Range(r)
  <2> SUFFICES ASSUME NEW i \in DOMAIN t PROVE t[i] \in Range(r)
    BY DEF Range
  <2>1. i \in 1..Len(t) /\ Len(s) \in Nat /\ Len(t) \in Nat /\ DOMAIN r = 1..Len(r)
    BY <1>1
  <2>2. Len(s) + i \in DOMAIN r /\ r[Len(s) + i] = t[i]
    BY <1>1, <1>3, <2>1
  <2> QED BY <2>2 DEF Range
<1>8. IsInjective(r)
  <2> SUFFICES ASSUME NEW i \in DOMAIN r, NEW j \in DOMAIN r, r[i] = r[j] PROVE i = j
    BY DEF IsInjective
  <2>1. i \in Nat /\ j \in Nat /\ Len(s) \in Nat
    BY <1>1
  <2>2. CASE i \in DOMAIN s /\ j \in DOMAIN s /\ r[i] = s[i] /\ r[j] = s[j]
    BY <2>2 DEF IsInjective
  <2>3. CASE /\ i - Len(s) \in DOMAIN t /\ r[i] = t[i - Len(s)]
             /\ j - Len(s) \in DOMAIN t /\ r[j] = t[j - Len(s)]
    <3>1. i - Len(s) = j - Len(s)
      BY <2>3 DEF IsInjective
    <3> QED BY <3>1, <2>1
  <2>4. CASE /\ i \in DOMAIN s /\ r[i] = s[i]
             /\ j - Len(s) \in DOMAIN t /\ r[j] = t[j - Len(s)]
    BY <2>4 DEF Range
  <2>5. CASE /\ j \in DOMAIN s /\ r[j] = s[j]
             /\ i - Len(s) \in DOMAIN t /\ r[i] = t[i - Len(s)]
    BY <2>5 DEF Range
  <2> QED BY <1>4, <2>2, <2>3, <2>4, <2>5
<1> QED BY <1>1, <1>5, <1>6, <1>7, <1>8 DEF r

-----------------------------------------------------------------------------
(* Initial states and the world *)

\* The initial states.
LEMMA InitIInv == Init => IInv
<1> SUFFICES ASSUME Init PROVE IInv
  OBVIOUS
<1> USE DEF Init, HistoryInit, DevicesInit
<1>1. \A d \in Device : told[d] = <<>> /\ Range(told[d]) = {}
  BY DEF Range
<1>2. \A job \in Job : outbox[job] = {} /\ roster[job] = {}
  BY DEF Job
<1>3. \A job \in Job, d \in Device : Shown(job, d) = {} /\ Coming(job, d) = {} /\ Notices(job, d) = {}
  BY <1>1, <1>2 DEF Shown, Coming, Notices
<1>4. Types
  <2>1. IsFiniteSet({})
    BY FS_EmptySet
  <2> QED BY <2>1, <1>2 DEF Types, Job
<1>5. LifeInv /\ BehindInv
  BY <1>2, <1>3 DEF LifeInv, BehindInv
<1>6. PatchInv /\ ChosenInv /\ RecapInv
  BY <1>2 DEF PatchInv, ChosenInv, RecapInv, Job
<1>7. FreshInv
  BY <1>1, <1>3 DEF FreshInv, IsInjective
<1>8. ToldInv
  BY DEF ToldInv
<1> QED BY <1>4, <1>5, <1>6, <1>7, <1>8 DEF IInv

\* Notices are notices.
LEMMA NoticesTyped ==
  ASSUME Types, NEW job \in Job, NEW d \in Device
  PROVE  Notices(job, d) \subseteq Notice
<1>1. Shown(job, d) \subseteq Notice
  <2>1. told[d] \in Seq(Notice)
    BY DEF Types
  <2>2. \A i \in DOMAIN told[d] : told[d][i] \in Notice
    BY <2>1
  <2> QED BY <2>2 DEF Shown, Range
<1>2. Coming(job, d) \subseteq Notice
  <2> SUFFICES ASSUME NEW n \in outbox[job] PROVE NoticeOf(job, n) \in Notice
    BY DEF Coming
  <2>1. n \in Notification /\ n.row \in RowRec
    BY DEF Types, Notification
  <2> QED BY <2>1 DEF NoticeOf, Notification, RowRec, Notice
<1> QED BY <1>1, <1>2 DEF Notices

\* A date that has come stays so.
LEMMA DatesStay ==
  ASSUME now \in Nat, now' \in {now, now + 1}
  PROVE  /\ Day \in Int /\ Day' \in Int /\ Day <= Day'
         /\ \A key \in Int : Ended(key) => Ended(key)'
<1>1. Day \in Int /\ Day' \in Int /\ Day <= Day'
  BY DEF Day
<1>2. \A z \in Zones : z \in Int
  BY ZoneAssumption DEF Zones
<1>3. ASSUME NEW key \in Int, Ended(key) PROVE Ended(key)'
  BY <1>2, <1>3 DEF Ended
<1> QED BY <1>1, <1>3

\* Nothing is told or composed, so nobody has other notices.
LEMMA SameNotices ==
  ASSUME UNCHANGED <<told, outbox>>
  PROVE  /\ \A job \in Job, d \in Device :
              /\ Shown(job, d)' = Shown(job, d) /\ Coming(job, d)' = Coming(job, d)
              /\ Notices(job, d)' = Notices(job, d)
         /\ FreshInv' <=> FreshInv
BY DEF Shown, Coming, Notices, FreshInv

\* The player's world moves: only the clock is read by the runs.
LEMMA WorldStep ==
  ASSUME IInv, UNCHANGED deviceVars, now' \in {now, now + 1}
  PROVE  IInv'
<1> USE DEF deviceVars
<1>1. Types'
  BY DEF IInv, Types
<1>2. LifeInv' /\ BehindInv' /\ FreshInv' /\ ToldInv'
  BY DEF IInv, LifeInv, BehindInv, Behind, FreshInv, ToldInv, Notices, Shown, Coming, Remembered
<1>3. now \in Nat
  BY DEF IInv, Types
<1>4. PatchInv' /\ ChosenInv'
  BY <1>3, DatesStay DEF IInv, PatchInv, ChosenInv
<1>5. RecapInv'
  BY <1>3, DatesStay DEF IInv, RecapInv
<1> QED BY <1>1, <1>2, <1>4, <1>5 DEF IInv

\* Steps of the series let at most one tick pass.
LEMMA HistoryClock ==
  ASSUME HistoryNext \/ WatchedNext
  PROVE  now' \in {now, now + 1}
BY DEF HistoryNext, WatchedNext, Tick, NewSeason, ChangePrivacy, Retain, Play, Fetch, Record

-----------------------------------------------------------------------------
(* Devices and Blizzard *)

\* The row after a registration: the old one's marks, or a new life.
LEMMA UpsertFacts ==
  ASSUME IInv, NEW d \in Device, NEW registration \in Registration
  PROVE  LET new == Upsert(d, registration)
         IN /\ new \in RowRec /\ new.device = d
            /\ \/ /\ rows[d] = None /\ new.life = lives[d] + 1
                  /\ new.lastPatch = None /\ new.lastRecap = None
               \/ /\ rows[d] # None /\ new.life = lives[d]
                  /\ new.lastPatch = rows[d].lastPatch /\ new.lastRecap = rows[d].lastRecap
<1> DEFINE new == Upsert(d, registration)
<1>1. lives[d] \in Nat /\ lives[d] + 1 \in Nat
  BY DEF IInv, Types
<1>2. CASE rows[d] = None
  <2>1. new = [device |-> d, life |-> lives[d] + 1, players |-> registration.players,
               recap |-> registration.recap, zone |-> registration.zone,
               lastPatch |-> None, lastRecap |-> None]
    BY <1>2 DEF Upsert, Upserted
  <2>2. /\ registration.players \in {r.players : r \in Registration}
        /\ registration.recap \in {r.recap : r \in Registration}
        /\ registration.zone \in Zones
    BY DEF Zones
  <2>3. new \in RowRec
    BY <1>1, <2>1, <2>2 DEF RowRec, Mark
  <2> QED BY <1>2, <2>1, <2>3
<1>3. CASE rows[d] # None
  <2>1. new = [[[rows[d] EXCEPT !.players = registration.players]
                  EXCEPT !.recap = registration.recap] EXCEPT !.zone = registration.zone]
    BY <1>3 DEF Upsert
  <2>2. rows[d] \in RowRec /\ rows[d].device = d /\ rows[d].life = lives[d]
    BY <1>3 DEF IInv, Types, LifeInv
  <2>3. /\ registration.players \in {r.players : r \in Registration}
        /\ registration.recap \in {r.recap : r \in Registration}
        /\ registration.zone \in Zones
    BY DEF Zones
  <2> HIDE DEF new
  <2>4. /\ new \in RowRec /\ new.device = d /\ new.life = lives[d]
        /\ new.lastPatch = rows[d].lastPatch /\ new.lastRecap = rows[d].lastRecap
    BY <2>1, <2>2, <2>3 DEF RowRec
  <2> QED BY <1>3, <2>4 DEF new
<1> QED BY <1>2, <1>3

\* An app registers: a new row, or the old one with its marks.
LEMMA LaunchStep ==
  ASSUME IInv, NEW d \in Device, NEW registration \in Registration,
         Launch(d, registration), now' = now
  PROVE  IInv'
<1> DEFINE new == Upsert(d, registration)
<1>1. /\ new \in RowRec /\ new.device = d
      /\ \/ /\ rows[d] = None /\ new.life = lives[d] + 1
            /\ new.lastPatch = None /\ new.lastRecap = None
         \/ /\ rows[d] # None /\ new.life = lives[d]
            /\ new.lastPatch = rows[d].lastPatch /\ new.lastRecap = rows[d].lastRecap
  BY UpsertFacts
<1>2. /\ rows \in [Device -> RowRec \cup {None}] /\ lives \in [Device -> Nat]
      /\ rows' = [rows EXCEPT ![d] = new] /\ lives' = [lives EXCEPT ![d] = rows'[d].life]
  BY DEF IInv, Types, Launch
<1> HIDE DEF new
<1>3. /\ rows' \in [Device -> RowRec \cup {None}] /\ lives' \in [Device -> Nat]
      /\ rows'[d] = new /\ lives'[d] = new.life /\ lives[d] <= new.life
      /\ \A e \in Device : e # d => rows'[e] = rows[e] /\ lives'[e] = lives[e]
  BY <1>1, <1>2 DEF RowRec
<1>4. UNCHANGED <<installed, patch, at, roster, chosen, outbox, gone, told, failures>>
  BY DEF Launch, runVars
<1>5. \A job \in Job, e \in Device : Notices(job, e)' = Notices(job, e)
  BY <1>4, SameNotices
<1>6. Types'
  BY <1>1, <1>3, <1>4 DEF IInv, Types
<1>7. \A e \in Device : lives[e] \in Nat /\ lives'[e] \in Nat /\ lives[e] <= lives'[e]
  BY <1>2, <1>3
<1>8. LifeInv'
  <2>1. \A e \in Device : rows'[e] # None => rows'[e].device = e /\ rows'[e].life = lives'[e]
    BY <1>1, <1>3 DEF IInv, LifeInv
  <2>2. \A job \in Job : \A r \in roster'[job] : r.life <= lives'[r.device]
    <3> SUFFICES ASSUME NEW job \in Job, NEW r \in roster[job] PROVE r.life <= lives'[r.device]
      BY <1>4
    <3>1. r.device \in Device /\ r.life \in Nat /\ r.life <= lives[r.device]
      BY DEF IInv, Types, LifeInv, RowRec
    <3> QED BY <3>1, <1>7
  <2>3. \A job \in Job, e \in Device : \A n \in Notices(job, e)' : n.life <= lives'[e]
    <3> SUFFICES ASSUME NEW job \in Job, NEW e \in Device, NEW n \in Notices(job, e)
                 PROVE  n.life <= lives'[e]
      BY <1>5
    <3>1. n \in Notice
      BY NoticesTyped DEF IInv
    <3> QED BY <3>1, <1>7 DEF IInv, LifeInv, Notice
  <2> QED BY <2>1, <2>2, <2>3, <1>4 DEF IInv, LifeInv
<1>9. PatchInv' /\ ChosenInv' /\ RecapInv'
  BY <1>1, <1>3, <1>4, NoneAssumption DEF IInv, PatchInv, ChosenInv, RecapInv, Day, Ended
<1>10. BehindInv'
  <2>1. \A job \in Job : \A r \in roster'[job] : Behind(job, r)'
    BY <1>4, <1>5 DEF IInv, Types, BehindInv, Behind, Remembered, RowRec
  <2>2. ASSUME NEW job \in Job, NEW e \in Device, rows'[e] # None PROVE Behind(job, rows[e])'
    <3>1. CASE e # d
      <4>1. rows'[e] = rows[e] /\ rows[e].device = e /\ Behind(job, rows[e])
        BY <3>1, <2>2, <1>3 DEF IInv, LifeInv, BehindInv
      <4> QED BY <4>1, <1>5 DEF Behind, Remembered
    <3>2. CASE e = d /\ rows[d] # None
      BY <3>2, <1>1, <1>3, <1>5 DEF IInv, LifeInv, BehindInv, Behind, Remembered
    <3>3. CASE e = d /\ rows[d] = None
      <4>1. \A n \in Notices(job, d) : n.life # new.life
        <5> SUFFICES ASSUME NEW n \in Notices(job, d) PROVE n.life # new.life
          OBVIOUS
        <5>1. n \in Notice /\ n.life <= lives[d]
          BY NoticesTyped DEF IInv, LifeInv
        <5> QED BY <5>1, <3>3, <1>1, <1>7 DEF Notice
      <4> QED BY <3>3, <4>1, <1>1, <1>3, <1>5 DEF Behind
    <3> QED BY <3>1, <3>2, <3>3
  <2> QED BY <2>1, <2>2 DEF BehindInv
<1>11. FreshInv'
  BY <1>4, SameNotices DEF IInv
<1>12. ToldInv'
  BY <1>1, <1>3, <1>4, <1>5 DEF IInv, ToldInv, Remembered
<1> QED BY <1>6, <1>8, <1>9, <1>10, <1>11, <1>12 DEF IInv

\* Rows may go, notices may be dropped, and a run may read the rows.
LEMMA Kept ==
  ASSUME IInv, lives' = lives, now' = now,
         \A d \in Device : rows'[d] \in {None, rows[d]},
         \A job \in Job : roster'[job] \subseteq roster[job] \/ roster'[job] \subseteq Roster,
         \A job \in Job, d \in Device : Notices(job, d)' \subseteq Notices(job, d)
  PROVE  LifeInv' /\ BehindInv' /\ RecapInv'
<1>1. \A job \in Job : \A r \in roster'[job] :
        \/ r \in roster[job]
        \/ \E d \in Device : r = rows[d] /\ rows[d] # None
  BY DEF Roster
<1>2. \A job \in Job : \A r \in roster'[job] : r.device \in Device
  BY <1>1 DEF IInv, Types, LifeInv, RowRec
<1>3. LifeInv'
  <2>1. \A d \in Device : rows'[d] # None => rows'[d].device = d /\ rows'[d].life = lives'[d]
    BY DEF IInv, LifeInv
  <2>2. \A job \in Job : \A r \in roster'[job] : r.life <= lives'[r.device]
    BY <1>1 DEF IInv, Types, LifeInv
  <2>3. \A job \in Job, d \in Device : \A e \in Notices(job, d)' : e.life <= lives'[d]
    BY DEF IInv, LifeInv
  <2>4. \A job \in Job : \A r, s \in roster'[job] : r.device = s.device => r = s
    <3> SUFFICES ASSUME NEW job \in Job, NEW r \in roster'[job], NEW s \in roster'[job],
                        r.device = s.device
                 PROVE  r = s
      OBVIOUS
    <3>1. CASE roster'[job] \subseteq roster[job]
      BY <3>1 DEF IInv, LifeInv
    <3>2. CASE roster'[job] \subseteq Roster
      BY <3>2 DEF IInv, LifeInv, Roster
    <3> QED BY <3>1, <3>2
  <2> QED BY <2>1, <2>2, <2>3, <2>4 DEF LifeInv
<1>4. BehindInv'
  <2>1. ASSUME NEW job \in Job, NEW r, Behind(job, r), r.device \in Device PROVE Behind(job, r)'
    BY <2>1 DEF Behind, Remembered
  <2>2. ASSUME NEW job \in Job, NEW d \in Device, rows'[d] # None PROVE Behind(job, rows[d])'
    <3>1. rows'[d] = rows[d] /\ rows[d] # None
      BY <2>2
    <3>2. Behind(job, rows[d]) /\ rows[d].device \in Device
      BY <3>1 DEF IInv, BehindInv, LifeInv
    <3> QED BY <3>1, <3>2 DEF Behind, Remembered
  <2>3. ASSUME NEW job \in Job, NEW r \in roster'[job] PROVE Behind(job, r)'
    <3>1. Behind(job, r)
      BY <1>1, <2>3 DEF IInv, BehindInv
    <3> QED BY <3>1, <1>2, <2>1, <2>3
  <2> QED BY <2>2, <2>3 DEF BehindInv
<1>5. RecapInv'
  BY <1>1 DEF IInv, RecapInv, Ended, Job
<1> QED BY <1>3, <1>4, <1>5

\* A row goes.
LEMMA UnregisterStep ==
  ASSUME IInv, NEW d \in Device, Unregister(d), now' = now
  PROVE  IInv'
<1> USE DEF Unregister, runVars
<1>1. \A e \in Device : rows'[e] \in {None, rows[e]}
  BY DEF IInv, Types
<1>2. \A job \in Job, e \in Device : Notices(job, e)' = Notices(job, e)
  BY SameNotices
<1>3. LifeInv' /\ BehindInv' /\ RecapInv'
  BY <1>1, <1>2, Kept
<1>4. Types'
  BY <1>1 DEF IInv, Types
<1>5. PatchInv' /\ ChosenInv'
  BY <1>1 DEF IInv, PatchInv, ChosenInv, Day
<1>6. FreshInv'
  BY SameNotices DEF IInv
<1>7. ToldInv'
  BY <1>1, <1>2 DEF IInv, ToldInv, Remembered
<1> QED BY <1>3, <1>4, <1>5, <1>6, <1>7 DEF IInv

\* An app goes; its row stays.
LEMMA UninstallStep ==
  ASSUME IInv, NEW d \in Device, Uninstall(d), now' = now
  PROVE  IInv'
<1> USE DEF Uninstall, runVars
<1>1. \A job \in Job, e \in Device : Notices(job, e)' = Notices(job, e)
  BY SameNotices
<1>2. LifeInv' /\ BehindInv' /\ RecapInv'
  BY <1>1, Kept
<1>3. Types'
  BY DEF IInv, Types
<1>4. PatchInv' /\ ChosenInv'
  BY DEF IInv, PatchInv, ChosenInv, Day
<1>5. FreshInv'
  BY SameNotices DEF IInv
<1>6. ToldInv'
  BY <1>1 DEF IInv, Types, ToldInv, Remembered
<1> QED BY <1>2, <1>3, <1>4, <1>5, <1>6 DEF IInv

\* The newest patch is of today.
LEMMA PublishPatchStep ==
  ASSUME IInv, NEW entries \in PatchEntries, PublishPatch(entries), now' = now
  PROVE  IInv'
<1> USE DEF PublishPatch, runVars
<1>1. \A job \in Job, e \in Device : Notices(job, e)' = Notices(job, e)
  BY SameNotices
<1>2. LifeInv' /\ BehindInv' /\ RecapInv'
  BY <1>1, Kept
<1>3. Types'
  BY DEF IInv, Types
<1>4. Day \in Int /\ Day' = Day /\ patch'.date = Day
  BY DEF IInv, Types, Day
<1>5. \A d \in Device : rows[d] # None /\ rows[d].lastPatch \in Int => rows[d].lastPatch <= Day
  BY <1>4 DEF IInv, PatchInv
<1>6. PatchInv'
  BY <1>4, <1>5 DEF IInv, PatchInv
<1>7. ChosenInv'
  BY <1>4 DEF IInv, PatchInv, ChosenInv
<1>8. FreshInv'
  BY SameNotices DEF IInv
<1>9. ToldInv'
  BY <1>1 DEF IInv, ToldInv, Remembered
<1> QED BY <1>2, <1>3, <1>6, <1>7, <1>8, <1>9 DEF IInv

-----------------------------------------------------------------------------
(* The runs *)

\* What a run reads are rows.
LEMMA RosterTyped ==
  ASSUME IInv
  PROVE  Roster \in SUBSET RowRec
BY DEF IInv, Types, Roster

\* The hero run reads the patch and the rows.
LEMMA StartHeroesStep ==
  ASSUME IInv, StartHeroes, now' = now
  PROVE  IInv'
<1> USE DEF StartHeroes
<1>1. \A job \in Job, e \in Device : Notices(job, e)' = Notices(job, e)
  BY SameNotices
<1>2. \A job \in Job : roster'[job] \subseteq roster[job] \/ roster'[job] \subseteq Roster
  BY DEF IInv, Types, Job
<1>3. LifeInv' /\ BehindInv' /\ RecapInv'
  BY <1>1, <1>2, Kept DEF IInv, Types
<1>4. Types'
  BY RosterTyped DEF IInv, Types, Job
<1>5. /\ at'["heroes"] = "decide" /\ roster'["heroes"] = Roster
      /\ patch.date \in Int
      /\ \A d \in Device : rows[d] # None /\ rows[d].lastPatch \in Int
                             => rows[d].lastPatch <= patch.date
  BY DEF IInv, Types, PatchInv, Job
<1>6. PatchInv'
  BY <1>5 DEF IInv, PatchInv, Day
<1>7. ChosenInv'
  BY <1>5 DEF ChosenInv, Roster
<1>8. FreshInv'
  BY SameNotices DEF IInv
<1>9. ToldInv'
  BY <1>1 DEF IInv, ToldInv, Remembered
<1> QED BY <1>3, <1>4, <1>6, <1>7, <1>8, <1>9 DEF IInv

\* The recap run reads the rows.
LEMMA StartRecapStep ==
  ASSUME IInv, StartRecap, now' = now
  PROVE  IInv'
<1> USE DEF StartRecap
<1>1. \A job \in Job, e \in Device : Notices(job, e)' = Notices(job, e)
  BY SameNotices
<1>2. \A job \in Job : roster'[job] \subseteq roster[job] \/ roster'[job] \subseteq Roster
  BY DEF IInv, Types, Job
<1>3. LifeInv' /\ BehindInv' /\ RecapInv'
  BY <1>1, <1>2, Kept DEF IInv, Types
<1>4. Types'
  BY RosterTyped DEF IInv, Types, Job
<1>5. at'["heroes"] = at["heroes"] /\ roster'["heroes"] = roster["heroes"]
  BY DEF IInv, Types, Job
<1>6. PatchInv' /\ ChosenInv'
  BY <1>5 DEF IInv, PatchInv, ChosenInv, Day
<1>7. FreshInv'
  BY SameNotices DEF IInv
<1>8. ToldInv'
  BY <1>1 DEF IInv, ToldInv, Remembered
<1> QED BY <1>3, <1>4, <1>6, <1>7, <1>8 DEF IInv

\* A run ends: the rows of dead tokens go.
LEMMA FinishStep ==
  ASSUME IInv, NEW job \in Job, Finish(job), now' = now
  PROVE  IInv'
<1> USE DEF Finish
<1>1. \A j \in Job, e \in Device : Notices(j, e)' = Notices(j, e)
  BY SameNotices
<1>2. \A e \in Device : rows'[e] \in {None, rows[e]}
  OBVIOUS
<1>3. LifeInv' /\ BehindInv' /\ RecapInv'
  BY <1>1, <1>2, Kept DEF IInv, Types
<1>4. Types'
  BY <1>2 DEF IInv, Types
<1>5. at'["heroes"] # "idle" => at["heroes"] # "idle" /\ job # "heroes"
  BY DEF IInv, Types, Job
<1>6. ChosenInv'
  BY <1>2, <1>5 DEF IInv, ChosenInv
<1>7. PatchInv'
  <2>1. at["heroes"] = "idle" => at'["heroes"] = "idle"
    BY DEF IInv, Types, Job
  <2> QED BY <1>2, <2>1 DEF IInv, PatchInv, Day
<1>8. FreshInv'
  BY SameNotices DEF IInv
<1>9. ToldInv'
  BY <1>1, <1>2 DEF IInv, ToldInv, Remembered
<1> QED BY <1>3, <1>4, <1>6, <1>7, <1>8, <1>9 DEF IInv

\* A run ends early: what it had composed is lost.
LEMMA DieStep ==
  ASSUME IInv, NEW job \in Job, Die(job), now' = now
  PROVE  IInv'
<1> USE DEF Die
<1>1. \A j \in Job : outbox'[j] \subseteq outbox[j] /\ roster'[j] \subseteq roster[j]
  BY DEF IInv, Types
<1>2. \A j \in Job, e \in Device :
        /\ Shown(j, e)' = Shown(j, e) /\ Coming(j, e)' \subseteq Coming(j, e)
        /\ Notices(j, e)' \subseteq Notices(j, e)
  BY <1>1 DEF Shown, Coming, Notices
<1>3. LifeInv' /\ BehindInv' /\ RecapInv'
  BY <1>1, <1>2, Kept DEF IInv, Types
<1>4. Types'
  <2>1. \A j \in Job : IsFiniteSet(outbox'[j])
    BY <1>1, FS_Subset DEF IInv, Types
  <2>2. /\ at' \in [Job -> {"idle", "decide", "send"}] /\ at'["heroes"] # "send"
        /\ \A j \in Job : at'[j] = "idle" => outbox'[j] = {}
    BY <1>1 DEF IInv, Types, Job
  <2>3. roster' \in [Job -> SUBSET RowRec] /\ outbox' \in [Job -> SUBSET Notification]
    BY <1>1 DEF IInv, Types
  <2>4. failures' \in Nat
    BY DEF IInv, Types
  <2> QED BY <2>1, <2>2, <2>3, <2>4 DEF IInv, Types
<1>5. at'["heroes"] # "idle" => at["heroes"] # "idle" /\ job # "heroes"
  BY DEF IInv, Types, Job
<1>6. ChosenInv'
  BY <1>1, <1>5 DEF IInv, ChosenInv, Job
<1>7. PatchInv'
  BY <1>5 DEF IInv, PatchInv, Day
<1>8. FreshInv'
  BY <1>2 DEF IInv, FreshInv
<1>9. failures' # 0
  BY DEF IInv, Types
<1>10. ToldInv'
  BY <1>9 DEF ToldInv
<1> QED BY <1>3, <1>4, <1>6, <1>7, <1>8, <1>10 DEF IInv

\* A delivery fails: what it was to say is lost.
LEMMA DeliveryFailsStep ==
  ASSUME IInv, NEW job \in Job, NEW n \in outbox[job], DeliveryFails(job, n), now' = now
  PROVE  IInv'
<1> USE DEF DeliveryFails
<1>1. \A j \in Job : outbox'[j] \subseteq outbox[j] /\ roster'[j] \subseteq roster[j]
  BY DEF IInv, Types
<1>2. \A j \in Job, e \in Device :
        /\ Shown(j, e)' = Shown(j, e) /\ Coming(j, e)' \subseteq Coming(j, e)
        /\ Notices(j, e)' \subseteq Notices(j, e)
  BY <1>1 DEF Shown, Coming, Notices
<1>3. LifeInv' /\ BehindInv' /\ RecapInv'
  BY <1>1, <1>2, Kept DEF IInv, Types
<1>4. Types'
  <2>1. \A j \in Job : IsFiniteSet(outbox'[j])
    BY <1>1, FS_Subset DEF IInv, Types
  <2>2. /\ at' \in [Job -> {"idle", "decide", "send"}] /\ at'["heroes"] # "send"
        /\ \A j \in Job : at'[j] = "idle" => outbox'[j] = {}
    BY <1>1 DEF IInv, Types, Job
  <2>3. roster' \in [Job -> SUBSET RowRec] /\ outbox' \in [Job -> SUBSET Notification]
    BY <1>1 DEF IInv, Types
  <2>4. failures' \in Nat
    BY DEF IInv, Types
  <2> QED BY <2>1, <2>2, <2>3, <2>4 DEF IInv, Types
<1>5. at' = at
  OBVIOUS
<1>6. ChosenInv'
  BY <1>1, <1>5 DEF IInv, ChosenInv, Job
<1>7. PatchInv'
  BY <1>5 DEF IInv, PatchInv, Day
<1>8. FreshInv'
  BY <1>2 DEF IInv, FreshInv
<1>9. failures' # 0
  BY DEF IInv, Types
<1>10. ToldInv'
  BY <1>9 DEF ToldInv
<1> QED BY <1>3, <1>4, <1>6, <1>7, <1>8, <1>10 DEF IInv

\* What is sent leaves the outbox and is shown, where the app is installed.
LEMMA SendStep ==
  ASSUME IInv, NEW job \in Job, Send(job), now' = now
  PROVE  IInv'
<1> USE DEF Send, Sending
<1> DEFINE to(d) == {n \in outbox[job] : n.row.device = d /\ installed[d]}
           new(d) == {[job |-> job, life |-> n.row.life, key |-> n.key] : n \in to(d)}
<1>1. /\ \A j \in Job : outbox'[j] = IF j = job THEN {} ELSE outbox[j]
      /\ told \in [Device -> Seq(Notice)]
      /\ outbox \in [Job -> SUBSET Notification]
  BY DEF IInv, Types
<1>2. ASSUME NEW d \in Device
      PROVE  /\ new(d) \subseteq Coming(job, d) /\ new(d) \subseteq Notice
             /\ installed[d] => new(d) = Coming(job, d)
             /\ IsFiniteSet(new(d)) /\ \A e \in new(d) : e.job = job
  <2>1. new(d) = {NoticeOf(job, n) : n \in to(d)}
    BY DEF NoticeOf
  <2>2. IsFiniteSet(to(d))
    BY FS_Subset DEF IInv, Types
  <2>3. IsFiniteSet(new(d))
    <3> HIDE DEF to
    <3>1. IsFiniteSet({NoticeOf(job, n) : n \in to(d)})
      BY <2>2, NoticesFinite
    <3> QED BY <3>1, <2>1
  <2>4. new(d) \subseteq Coming(job, d) /\ (installed[d] => new(d) = Coming(job, d))
    BY <2>1 DEF Coming
  <2>5. Coming(job, d) \subseteq Notice
    BY NoticesTyped DEF IInv, Notices
  <2>6. \A e \in new(d) : e.job = job
    OBVIOUS
  <2> QED BY <2>3, <2>4, <2>5, <2>6
<1>0. told' = [d \in Device |-> told[d] \o SetToSeq(new(d))]
  OBVIOUS
<1> HIDE DEF new, to
<1>3. ASSUME NEW d \in Device
      PROVE  /\ told'[d] \in Seq(Notice) /\ IsInjective(told'[d])
             /\ Range(told'[d]) = Range(told[d]) \cup new(d)
  <2>1. SetToSeq(new(d)) \in Seq(Notice) /\ Range(SetToSeq(new(d))) = new(d)
        /\ IsInjective(SetToSeq(new(d)))
    BY <1>2, SetToSeqFacts
  <2>3. Range(told[d]) \cap new(d) = {}
    BY <1>2 DEF IInv, FreshInv, Shown
  <2>4. told[d] \in Seq(Notice) /\ IsInjective(told[d])
    BY <1>1 DEF IInv, FreshInv
  <2>5. told'[d] = told[d] \o SetToSeq(new(d))
    BY <1>0
  <2> HIDE DEF Send
  <2>6. /\ told[d] \o SetToSeq(new(d)) \in Seq(Notice)
        /\ Range(told[d] \o SetToSeq(new(d))) = Range(told[d]) \cup new(d)
        /\ IsInjective(told[d] \o SetToSeq(new(d)))
    BY <2>1, <2>3, <2>4, Appended
  <2> QED BY <2>5, <2>6
<1>4. ASSUME NEW j \in Job, NEW d \in Device
      PROVE  /\ Shown(j, d)' = Shown(j, d) \cup (IF j = job THEN new(d) ELSE {})
             /\ Coming(j, d)' = IF j = job THEN {} ELSE Coming(j, d)
  <2>1. Shown(j, d)' = Shown(j, d) \cup (IF j = job THEN new(d) ELSE {})
    BY <1>2, <1>3 DEF Shown
  <2>2. Coming(j, d)' = IF j = job THEN {} ELSE Coming(j, d)
    BY <1>1 DEF Coming
  <2> QED BY <2>1, <2>2
<1>5. \A j \in Job, d \in Device :
        /\ Notices(j, d)' \subseteq Notices(j, d)
        /\ installed[d] => Notices(j, d)' = Notices(j, d)
  BY <1>2, <1>4 DEF Notices
<1>6. LifeInv' /\ BehindInv' /\ RecapInv'
  BY <1>5, Kept DEF IInv, Types
<1>7. Types'
  <2>1. told' \in [Device -> Seq(Notice)]
    <3> HIDE DEF Send
    <3> QED BY <1>0, <1>3
  <2>2. \A j \in Job : IsFiniteSet(outbox'[j])
    BY <1>1, FS_EmptySet DEF IInv, Types
  <2>3. /\ at' \in [Job -> {"idle", "decide", "send"}] /\ at'["heroes"] # "send"
        /\ \A j \in Job : at'[j] = "idle" => outbox'[j] = {}
    BY <1>1 DEF IInv, Types, Job
  <2>4. outbox' \in [Job -> SUBSET Notification]
    BY <1>1
  <2> QED BY <2>1, <2>2, <2>3, <2>4 DEF IInv, Types
<1>8. at'["heroes"] # "idle" <=> at["heroes"] # "idle"
  BY DEF IInv, Types, Job
<1>9. PatchInv' /\ ChosenInv'
  BY <1>8 DEF IInv, PatchInv, ChosenInv, Day
<1>10. FreshInv'
  <2>1. ASSUME NEW j \in Job, NEW d \in Device PROVE Shown(j, d)' \cap Coming(j, d)' = {}
    BY <1>4 DEF IInv, FreshInv
  <2>2. \A d \in Device : IsInjective(told'[d])
    BY <1>3
  <2> QED BY <2>1, <2>2 DEF FreshInv
<1>11. ToldInv'
  BY <1>5 DEF IInv, ToldInv, Remembered
<1> QED BY <1>6, <1>7, <1>9, <1>10, <1>11 DEF IInv

\* The week that ends now where the row is, is later than, or the same as, any that
\* has ended elsewhere: zones are less than a week apart.
LEMMA DueLast ==
  ASSUME now \in Nat, NEW row \in RowRec, Due(row)
  PROVE  /\ LocalDate(row) \in Int /\ Ended(LocalDate(row))
         /\ \A key \in Int : Ended(key) => key <= LocalDate(row)
<1>1. row.zone \in Zones /\ row.zone \in Int /\ \A z \in Zones : z \in Int /\ z - row.zone < 4
  BY ZoneAssumption DEF RowRec, Zones
<1>2. (now + row.zone) % 4 = 3
  BY DEF Due
<1>3. PICK week \in Int : now + row.zone = 4 * week + 3
  BY <1>1, <1>2
<1>4. LocalDate(row) = 2 * week + 1
  BY <1>3 DEF LocalDate
<1>5. Ended(LocalDate(row))
  BY <1>1, <1>3, <1>4 DEF Ended
<1>6. ASSUME NEW key \in Int, Ended(key) PROVE key <= LocalDate(row)
  <2>1. PICK z \in Zones : key % 2 = 1 /\ 2 * key + 1 <= now + z
    BY <1>6 DEF Ended
  <2>2. z \in Int /\ z - row.zone < 4
    BY <1>1
  <2>3. key < 2 * week + 3
    BY <1>1, <1>3, <2>1, <2>2
  <2>4. key % 2 = 1
    BY <2>1
  <2> QED BY <1>4, <2>3, <2>4
<1> QED BY <1>4, <1>5, <1>6

\* What a run announces is later than what the row it read remembers, and not earlier
\* than what any row does.
LEMMA KeyFacts ==
  ASSUME IInv, NEW job \in Job, at[job] = "decide", NEW row \in roster[job],
         NEW key, key = KeyFor(job, row), key # None
  PROVE  /\ key \in Int
         /\ Remembered(job, row) \in Int => Remembered(job, row) < key
         /\ \A d \in Device : rows[d] # None /\ Remembered(job, rows[d]) \in Int
                                => Remembered(job, rows[d]) <= key
         /\ IF job = "heroes" THEN key = chosen.date ELSE Ended(key)
<1>1. now \in Nat /\ row \in RowRec
  BY DEF IInv, Types
<1>2. CASE job = "heroes"
  <2>1. key = chosen.date /\ row.lastPatch # chosen.date
    BY <1>2 DEF KeyFor, HeroKeyFor
  <2>2. /\ chosen.date \in Int
        /\ \A d \in Device : rows[d] # None /\ rows[d].lastPatch \in Int
                               => rows[d].lastPatch <= chosen.date
        /\ row.lastPatch \in Int => row.lastPatch <= chosen.date
    BY <1>2 DEF IInv, ChosenInv
  <2> QED BY <1>2, <2>1, <2>2 DEF Remembered
<1>3. CASE job = "recap"
  <2>1. Due(row) /\ row.lastRecap # LocalDate(row) /\ key = LocalDate(row)
    BY <1>3 DEF KeyFor, RecapKeyFor
  <2>2. /\ \A d \in Device : rows[d] # None /\ rows[d].lastRecap \in Int
                               => Ended(rows[d].lastRecap)
        /\ row.lastRecap \in Int => Ended(row.lastRecap)
    BY <1>3 DEF IInv, RecapInv
  <2>3. /\ key \in Int /\ Ended(key)
        /\ \A k \in Int : Ended(k) => k <= key
    BY <1>1, <2>1, DueLast
  <2> QED BY <1>3, <2>1, <2>2, <2>3 DEF Remembered
<1> QED BY <1>2, <1>3 DEF Job

\* The row of a device after its mark: the job's is the key, all else as before.
LEMMA MarkedFacts ==
  ASSUME Types, NEW job \in Job, NEW d \in Device, NEW key \in Int
  PROVE  LET new == Marked(job, d, key)
         IN /\ new \in [Device -> RowRec \cup {None}]
            /\ \A e \in Device : e # d => new[e] = rows[e]
            /\ rows[d] = None => new[d] = None
            /\ rows[d] # None =>
                 /\ new[d] # None => new[d] \in RowRec
                 /\ new[d].device = rows[d].device /\ new[d].life = rows[d].life
                 /\ \A j \in Job : Remembered(j, new[d])
                                     = IF j = job THEN key ELSE Remembered(j, rows[d])
<1> DEFINE new == Marked(job, d, key)
<1>1. rows \in [Device -> RowRec \cup {None}]
  BY DEF Types
<1>2. CASE rows[d] = None
  BY <1>1, <1>2 DEF Marked
<1>3. CASE rows[d] # None
  <2>1. rows[d] \in RowRec
    BY <1>3 DEF Types
  <2>2. new = [rows EXCEPT ![d] = IF job = "heroes" THEN [rows[d] EXCEPT !.lastPatch = key]
                                  ELSE [rows[d] EXCEPT !.lastRecap = key]]
    BY <1>1, <1>3, <2>1 DEF Marked, RowRec
  <2>3. [rows[d] EXCEPT !.lastPatch = key] \in RowRec
        /\ [rows[d] EXCEPT !.lastRecap = key] \in RowRec
    BY <2>1 DEF RowRec, Mark
  <2> HIDE DEF new
  <2>4. new \in [Device -> RowRec \cup {None}] /\ \A e \in Device : e # d => new[e] = rows[e]
    BY <1>1, <2>2, <2>3
  <2>5. new[d] = IF job = "heroes" THEN [rows[d] EXCEPT !.lastPatch = key]
                 ELSE [rows[d] EXCEPT !.lastRecap = key]
    BY <1>1, <2>2
  <2>6. /\ new[d] \in RowRec
        /\ new[d].device = rows[d].device /\ new[d].life = rows[d].life
        /\ \A j \in Job : Remembered(j, new[d]) = IF j = job THEN key ELSE Remembered(j, rows[d])
    BY <2>1, <2>3, <2>5 DEF RowRec, Remembered, Job
  <2> QED BY <1>3, <2>4, <2>6 DEF new
<1> QED BY <1>2, <1>3

\* A device nothing is announced to.
LEMMA DecideNothingStep ==
  ASSUME IInv, NEW job \in Job, NEW row \in roster[job], Decide(job, row),
         KeyFor(job, row) = None, now' = now
  PROVE  IInv'
<1>1. /\ UNCHANGED <<rows, lives, installed, patch, chosen, told, failures, outbox, at>>
      /\ roster' = [roster EXCEPT ![job] = @ \ {row}]
  BY DEF Decide
<1>2. \A j \in Job, e \in Device : Notices(j, e)' = Notices(j, e)
  BY <1>1, SameNotices
<1>3. \A j \in Job : roster'[j] \subseteq roster[j]
  BY <1>1 DEF IInv, Types
<1>4. LifeInv' /\ BehindInv' /\ RecapInv'
  BY <1>1, <1>2, <1>3, Kept DEF IInv, Types
<1>5. Types'
  BY <1>1 DEF IInv, Types
<1>6. PatchInv' /\ ChosenInv'
  BY <1>1, <1>3 DEF IInv, PatchInv, ChosenInv, Day, Job
<1>7. FreshInv'
  BY <1>1, SameNotices DEF IInv
<1>8. ToldInv'
  BY <1>1, <1>2 DEF IInv, ToldInv, Remembered
<1> QED BY <1>4, <1>5, <1>6, <1>7, <1>8 DEF IInv

\* A device something is announced to: recorded, and on its way.
LEMMA DecideStep ==
  ASSUME IInv, NEW job \in Job, NEW row \in roster[job], Decide(job, row), now' = now
  PROVE  IInv'
<1> DEFINE key == KeyFor(job, row)
           d == row.device
           note == [row |-> row, key |-> key]
           marked == Marked(job, d, key)
<1> SUFFICES ASSUME key # None PROVE IInv'
  BY DecideNothingStep
<1>1. /\ UNCHANGED <<lives, installed, patch, chosen, told, failures>>
      /\ roster' = [roster EXCEPT ![job] = @ \ {row}]
      /\ rows' = marked
      /\ outbox' = [outbox EXCEPT ![job] = @ \cup {note}]
      /\ at' = IF job = "recap" THEN [at EXCEPT ![job] = "send"] ELSE at
      /\ at[job] = "decide"
  BY DEF Decide
<1>2. /\ key \in Int
      /\ Remembered(job, row) \in Int => Remembered(job, row) < key
      /\ \A e \in Device : rows[e] # None /\ Remembered(job, rows[e]) \in Int
                             => Remembered(job, rows[e]) <= key
      /\ IF job = "heroes" THEN key = chosen.date ELSE Ended(key)
  BY <1>1, KeyFacts
<1>3. row \in RowRec /\ d \in Device /\ row.life \in Nat /\ row.life <= lives[d]
  BY DEF IInv, Types, LifeInv, RowRec
<1>4. /\ marked \in [Device -> RowRec \cup {None}]
      /\ \A e \in Device : e # d => marked[e] = rows[e]
      /\ rows[d] = None => marked[d] = None
      /\ rows[d] # None =>
           /\ marked[d] # None => marked[d] \in RowRec
           /\ marked[d].device = rows[d].device /\ marked[d].life = rows[d].life
           /\ \A j \in Job : Remembered(j, marked[d])
                               = IF j = job THEN key ELSE Remembered(j, rows[d])
  BY <1>2, <1>3, MarkedFacts DEF IInv
<1> HIDE DEF key, marked
<1>5. \A j \in Job : /\ roster'[j] \subseteq roster[j]
                     /\ outbox'[j] = outbox[j] \cup (IF j = job THEN {note} ELSE {})
  BY <1>1 DEF IInv, Types
<1>6. NoticeOf(job, note) = [job |-> job, life |-> row.life, key |-> key]
  BY DEF NoticeOf
<1> DEFINE new == NoticeOf(job, note)
<1>7. ASSUME NEW j \in Job, NEW e \in Device
      PROVE  /\ Shown(j, e)' = Shown(j, e)
             /\ Coming(j, e)' = Coming(j, e) \cup (IF j = job /\ e = d THEN {new} ELSE {})
             /\ Notices(j, e)' = Notices(j, e) \cup (IF j = job /\ e = d THEN {new} ELSE {})
             /\ e # d \/ j # job => Notices(j, e)' = Notices(j, e)
  <2>1. Shown(j, e)' = Shown(j, e)
    BY <1>1 DEF Shown
  <2>2. Coming(j, e)' = Coming(j, e) \cup (IF j = job /\ e = d THEN {new} ELSE {})
    <3> HIDE DEF new
    <3>1. CASE j = job /\ e = d
      <4>1. {n \in outbox'[j] : n.row.device = e} = {n \in outbox[j] : n.row.device = e} \cup {note}
        BY <3>1, <1>5
      <4> QED BY <3>1, <4>1 DEF Coming, new
    <3>2. CASE ~(j = job /\ e = d)
      <4>1. {n \in outbox'[j] : n.row.device = e} = {n \in outbox[j] : n.row.device = e}
        BY <3>2, <1>5
      <4> QED BY <3>2, <4>1 DEF Coming
    <3> QED BY <3>1, <3>2
  <2>3. Notices(j, e)' = Notices(j, e) \cup (IF j = job /\ e = d THEN {new} ELSE {})
    BY <2>1, <2>2 DEF Notices
  <2>4. e # d \/ j # job => Notices(j, e)' = Notices(j, e)
    <3> SUFFICES ASSUME e # d \/ j # job PROVE Notices(j, e)' = Notices(j, e)
      OBVIOUS
    <3>1. Coming(j, e)' = Coming(j, e)
      BY <2>2
    <3> QED BY <2>1, <3>1 DEF Notices
  <2> QED BY <2>1, <2>2, <2>3, <2>4
<1>8. new.job = job /\ new.life = row.life /\ new.key = key
  BY <1>6
<1> HIDE DEF new, note
<1>9. Types'
  <2>1. note \in Notification
    BY <1>2, <1>3 DEF note, Notification
  <2>2. ASSUME NEW j \in Job PROVE IsFiniteSet(outbox'[j])
    <3>1. IsFiniteSet(outbox[j]) /\ IsFiniteSet(outbox[j] \cup {note})
      BY FS_AddElement DEF IInv, Types
    <3>2. outbox'[j] = outbox[j] \/ outbox'[j] = outbox[j] \cup {note}
      BY <1>5
    <3> QED BY <3>1, <3>2
  <2>3. outbox' \in [Job -> SUBSET Notification]
    BY <1>1, <1>5, <2>1 DEF IInv, Types
  <2>4. /\ at' \in [Job -> {"idle", "decide", "send"}] /\ at'["heroes"] # "send"
        /\ \A j \in Job : at'[j] = "idle" => outbox'[j] = {}
    BY <1>1, <1>5 DEF IInv, Types, Job
  <2>5. roster' \in [Job -> SUBSET RowRec]
    BY <1>1 DEF IInv, Types
  <2>6. rows' \in [Device -> RowRec \cup {None}] /\ \A e \in Device : rows'[e] # None => rows'[e] \in RowRec
    BY <1>1, <1>4 DEF IInv, Types
  <2> QED BY <1>1, <2>2, <2>3, <2>4, <2>5, <2>6 DEF IInv, Types
<1>10. LifeInv'
  <2>1. \A e \in Device : rows'[e] # None => rows'[e].device = e /\ rows'[e].life = lives'[e]
    BY <1>1, <1>4 DEF IInv, LifeInv
  <2>2. \A j \in Job : \A r \in roster'[j] : r.life <= lives'[r.device]
    BY <1>1, <1>5 DEF IInv, LifeInv
  <2>3. \A j \in Job, e \in Device : \A n \in Notices(j, e)' : n.life <= lives'[e]
    BY <1>1, <1>3, <1>7, <1>8 DEF IInv, LifeInv
  <2>4. \A j \in Job : \A r, s \in roster'[j] : r.device = s.device => r = s
    BY <1>5 DEF IInv, LifeInv
  <2> QED BY <2>1, <2>2, <2>3, <2>4 DEF LifeInv
<1>11. BehindInv'
  <2>1. ASSUME NEW j \in Job, NEW e \in Device, rows'[e] # None PROVE Behind(j, rows[e])'
    <3>1. rows[e] # None /\ Behind(j, rows[e]) /\ rows[e].device = e /\ rows'[e].device = e
          /\ rows'[e].life = rows[e].life
      BY <2>1, <1>1, <1>4 DEF IInv, BehindInv, LifeInv
    <3>2. CASE e # d \/ j # job
      <4>1. Notices(j, e)' = Notices(j, e)
        BY <3>2, <1>7
      <4>2. CASE e # d
        <5>1. rows'[e] = rows[e]
          BY <4>2, <1>1, <1>4
        <5> QED BY <3>1, <4>1, <5>1 DEF Behind, Remembered
      <4>3. CASE e = d /\ j # job
        <5>1. Remembered(j, rows[e])' = Remembered(j, rows[e])
          BY <3>1, <4>3, <1>1, <1>4 DEF Remembered
        <5> QED BY <3>1, <4>1, <5>1 DEF Behind
      <4> QED BY <3>2, <4>2, <4>3
    <3>3. CASE e = d /\ j = job
      <4>1. Remembered(j, rows[e])' = key
        BY <3>1, <3>3, <1>1, <1>4 DEF Remembered
      <4>2. \A n \in Notices(j, e) : n.life = rows[e].life => n.key <= key
        <5> SUFFICES ASSUME NEW n \in Notices(j, e), n.life = rows[e].life PROVE n.key <= key
          OBVIOUS
        <5>1. n \in Notice
          BY NoticesTyped DEF IInv
        <5>2. Remembered(j, rows[e]) \in Int /\ n.key <= Remembered(j, rows[e])
          BY <3>1 DEF Behind
        <5> QED BY <5>1, <5>2, <3>1, <3>3, <1>2 DEF Notice
      <4> QED BY <3>1, <3>3, <4>1, <4>2, <1>2, <1>7, <1>8 DEF Behind
    <3> QED BY <3>2, <3>3
  <2>2. ASSUME NEW j \in Job, NEW r \in roster'[j] PROVE Behind(j, r)'
    <3>1. Behind(j, r) /\ r \in roster[j] /\ r.device \in Device
      BY <2>2, <1>5 DEF IInv, Types, BehindInv, RowRec
    <3>2. j = job => r.device # d
      BY <2>2, <3>1, <1>1 DEF IInv, Types, LifeInv
    <3>3. PICK e \in Device : e = r.device
      BY <3>1
    <3>4. Notices(j, e)' = Notices(j, e)
      BY <3>2, <3>3, <1>7
    <3> QED BY <3>1, <3>3, <3>4 DEF Behind, Remembered
  <2> QED BY <2>1, <2>2 DEF BehindInv
<1>12. FreshInv'
  <2>1. new \notin Shown(job, d)
    <3> SUFFICES ASSUME new \in Shown(job, d) PROVE FALSE
      OBVIOUS
    <3>1. new \in Notices(job, d)
      BY DEF Notices
    <3>2. Behind(job, row)
      BY DEF IInv, BehindInv
    <3>3. Remembered(job, row) \in Int /\ key <= Remembered(job, row)
      BY <3>1, <3>2, <1>8 DEF Behind
    <3> QED BY <3>3, <1>2
  <2>2. \A j \in Job, e \in Device : Shown(j, e)' \cap Coming(j, e)' = {}
    BY <2>1, <1>7 DEF IInv, FreshInv
  <2> QED BY <2>2, <1>1 DEF IInv, FreshInv
<1>13. PatchInv' /\ ChosenInv'
  <2>1. CASE job = "heroes"
    <3>1. at' = at /\ key = chosen.date /\ at["heroes"] # "idle"
      BY <2>1, <1>1, <1>2
    <3>2. patch.date \in Int /\ chosen.date <= patch.date /\ chosen.date \in Int
      BY <3>1 DEF IInv, ChosenInv
    <3>3. \A e \in Device : rows'[e] # None /\ rows'[e].lastPatch \in Int
                              => rows'[e].lastPatch <= chosen.date
      BY <2>1, <3>1, <3>2, <1>1, <1>4 DEF IInv, ChosenInv, Remembered
    <3>4. patch.date <= Day /\ Day' = Day /\ Day \in Int
      BY <3>1 DEF IInv, PatchInv, Types, Day
    <3>5. \A e \in Device : rows'[e] # None /\ rows'[e].lastPatch \in Int
                              => rows'[e].lastPatch <= patch.date
      BY <3>2, <3>3
    <3> QED BY <2>1, <3>1, <3>2, <3>3, <3>4, <3>5, <1>1, <1>5 DEF IInv, PatchInv, ChosenInv, Job
  <2>2. CASE job = "recap"
    <3>1. at'["heroes"] = at["heroes"] /\ roster'["heroes"] = roster["heroes"]
      BY <2>2, <1>1 DEF IInv, Types, Job
    <3>2. \A e \in Device : rows'[e] # None => rows[e] # None /\ rows'[e].lastPatch = rows[e].lastPatch
      BY <2>2, <1>1, <1>4 DEF Remembered, Job
    <3> QED BY <3>1, <3>2, <1>1 DEF IInv, PatchInv, ChosenInv, Day
  <2> QED BY <2>1, <2>2 DEF Job
<1>14. RecapInv'
  <2>1. \A k : Ended(k)' <=> Ended(k)
    BY DEF Ended
  <2>2. ASSUME NEW e \in Device, rows'[e] # None, rows'[e].lastRecap \in Int
        PROVE  Ended(rows'[e].lastRecap)
    <3>1. /\ rows[e] # None
          /\ \/ rows'[e].lastRecap = rows[e].lastRecap
             \/ job = "recap" /\ rows'[e].lastRecap = key
      BY <2>2, <1>1, <1>4 DEF Remembered, Job
    <3> QED BY <2>2, <3>1, <1>2 DEF IInv, RecapInv
  <2> QED BY <2>1, <2>2, <1>5 DEF IInv, RecapInv, Job
<1>15. ToldInv'
  <2> SUFFICES ASSUME failures' = 0, NEW j \in Job, NEW e \in Device, rows'[e] # None,
                      installed'[e], Remembered(j, rows[e])' # None
               PROVE  \E n \in Notices(j, e)' : n.key = Remembered(j, rows[e])'
    BY DEF ToldInv
  <2>1. rows[e] # None
    BY <1>1, <1>4
  <2>2. CASE e = d /\ j = job
    <3>1. Remembered(j, rows[e])' = key
      BY <2>1, <2>2, <1>1, <1>4 DEF Remembered
    <3> QED BY <2>2, <3>1, <1>7, <1>8
  <2>3. CASE ~(e = d /\ j = job)
    <3>1. Remembered(j, rows[e])' = Remembered(j, rows[e])
      BY <2>1, <2>3, <1>1, <1>4 DEF Remembered
    <3>2. \E n \in Notices(j, e) : n.key = Remembered(j, rows[e])
      BY <2>1, <3>1, <1>1 DEF IInv, ToldInv
    <3> QED BY <3>1, <3>2, <1>7
  <2> QED BY <2>2, <2>3
<1> QED BY <1>9, <1>10, <1>11, <1>12, <1>13, <1>14, <1>15 DEF IInv

\* One recap fails, before or after it was recorded.
LEMMA FailRecapStep ==
  ASSUME IInv, NEW row \in roster["recap"], FailRecap(row), now' = now
  PROVE  IInv'
<1> DEFINE key == LocalDate(row)
           d == row.device
           marked == Marked("recap", d, key)
<1>1. /\ UNCHANGED <<lives, installed, patch, at, chosen, outbox, told>>
      /\ failures' = failures + 1
      /\ roster' = [roster EXCEPT !["recap"] = @ \ {row}]
      /\ rows' = rows \/ rows' = marked
      /\ Due(row)
  BY DEF FailRecap
<1>2. "recap" \in Job /\ now \in Nat /\ row \in RowRec /\ d \in Device
  BY DEF IInv, Types, RowRec, Job
<1>3. key \in Int /\ Ended(key) /\ \A k \in Int : Ended(k) => k <= key
  BY <1>1, <1>2, DueLast
<1>4. /\ marked \in [Device -> RowRec \cup {None}]
      /\ \A e \in Device : e # d => marked[e] = rows[e]
      /\ rows[d] = None => marked[d] = None
      /\ rows[d] # None =>
           /\ marked[d] # None => marked[d] \in RowRec
           /\ marked[d].device = rows[d].device /\ marked[d].life = rows[d].life
           /\ \A j \in Job : Remembered(j, marked[d])
                               = IF j = "recap" THEN key ELSE Remembered(j, rows[d])
  BY <1>2, <1>3, MarkedFacts DEF IInv
<1> HIDE DEF key, marked, d
<1>5. \A j \in Job, e \in Device : Notices(j, e)' = Notices(j, e)
  BY <1>1, SameNotices
<1>6. \A j \in Job : roster'[j] \subseteq roster[j]
  BY <1>1 DEF IInv, Types
\* The other mark stays, and the recap's is the old one or the new.
<1>7. ASSUME NEW e \in Device, rows'[e] # None
      PROVE  /\ rows[e] # None /\ rows'[e] \in RowRec
             /\ rows'[e].device = rows[e].device /\ rows'[e].life = rows[e].life
             /\ rows'[e].lastPatch = rows[e].lastPatch
             /\ rows'[e].lastRecap = rows[e].lastRecap \/ rows'[e].lastRecap = key
  <2>1. CASE rows'[e] = rows[e]
    BY <1>7, <2>1 DEF IInv, Types
  <2>2. CASE e = d /\ rows' = marked
    BY <1>4, <1>7, <2>2 DEF Remembered, Job
  <2> QED BY <1>1, <1>4, <2>1, <2>2
<1>8. Types'
  <2>1. rows' \in [Device -> RowRec \cup {None}] /\ \A e \in Device : rows'[e] # None => rows'[e] \in RowRec
    BY <1>1, <1>4, <1>7 DEF IInv, Types
  <2>2. roster' \in [Job -> SUBSET RowRec]
    <3>1. roster \in [Job -> SUBSET RowRec]
      BY DEF IInv, Types
    <3>2. \A j \in Job : roster'[j] \in SUBSET RowRec
      BY <3>1, <1>6
    <3>3. \E r : roster' = [roster EXCEPT !["recap"] = r]
      BY <1>1
    <3> QED BY <3>1, <3>2, <3>3
  <2>3. failures' \in Nat
    BY <1>1 DEF IInv, Types
  <2> QED BY <1>1, <2>1, <2>2, <2>3 DEF IInv, Types
<1>9. LifeInv'
  <2>1. \A e \in Device : rows'[e] # None => rows'[e].device = e /\ rows'[e].life = lives'[e]
    BY <1>1, <1>7 DEF IInv, LifeInv
  <2>2. \A j \in Job : \A r \in roster'[j] : r.life <= lives'[r.device]
    BY <1>1, <1>6 DEF IInv, LifeInv
  <2>3. \A j \in Job, e \in Device : \A n \in Notices(j, e)' : n.life <= lives'[e]
    BY <1>1, <1>5 DEF IInv, LifeInv
  <2>4. \A j \in Job : \A r, s \in roster'[j] : r.device = s.device => r = s
    BY <1>6 DEF IInv, LifeInv
  <2> QED BY <2>1, <2>2, <2>3, <2>4 DEF LifeInv
<1>10. PatchInv' /\ ChosenInv'
  BY <1>1, <1>6, <1>7 DEF IInv, PatchInv, ChosenInv, Day, Job
<1>11. RecapInv'
  <2>1. \A k : Ended(k)' <=> Ended(k)
    BY DEF Ended
  <2> QED BY <1>3, <1>6, <1>7, <2>1 DEF IInv, RecapInv, Job
<1>12. BehindInv'
  <2>1. ASSUME NEW j \in Job, NEW e \in Device, rows'[e] # None PROVE Behind(j, rows[e])'
    <3>1. /\ rows[e] # None /\ Behind(j, rows[e]) /\ rows[e].device = e /\ rows'[e].device = e
          /\ rows'[e].life = rows[e].life
      BY <2>1, <1>7 DEF IInv, BehindInv, LifeInv
    <3>2. Notices(j, e)' = Notices(j, e)
      BY <1>5
    <3>3. CASE Remembered(j, rows[e])' = Remembered(j, rows[e])
      BY <3>1, <3>2, <3>3 DEF Behind
    <3>4. CASE j = "recap" /\ Remembered(j, rows[e])' = key
      <4>1. rows[e].lastRecap \in Int => rows[e].lastRecap <= key
        BY <3>1, <1>3 DEF IInv, RecapInv
      <4>2. \A n \in Notices(j, e) : n.life = rows[e].life => n.key <= key
        <5> SUFFICES ASSUME NEW n \in Notices(j, e), n.life = rows[e].life PROVE n.key <= key
          OBVIOUS
        <5>1. n \in Notice
          BY NoticesTyped DEF IInv
        <5>2. Remembered(j, rows[e]) \in Int /\ n.key <= Remembered(j, rows[e])
          BY <3>1 DEF Behind
        <5>3. rows[e].lastRecap \in Int /\ n.key <= rows[e].lastRecap
          BY <5>2, <3>4 DEF Remembered
        <5> QED BY <5>1, <5>3, <4>1, <1>3 DEF Notice
      <4> QED BY <3>1, <3>2, <3>4, <4>2, <1>3 DEF Behind
    <3> QED BY <2>1, <3>3, <3>4, <1>7 DEF Remembered, Job
  <2>2. \A j \in Job : \A r \in roster'[j] : Behind(j, r)'
    BY <1>5, <1>6 DEF IInv, Types, BehindInv, Behind, Remembered, RowRec
  <2> QED BY <2>1, <2>2 DEF BehindInv
<1>13. FreshInv'
  BY <1>1, SameNotices DEF IInv
<1>14. failures' # 0
  BY <1>1 DEF IInv, Types
<1>15. ToldInv'
  BY <1>14 DEF ToldInv
<1> QED BY <1>8, <1>9, <1>10, <1>11, <1>12, <1>13, <1>15 DEF IInv

-----------------------------------------------------------------------------
(* The specification *)

\* Every step keeps the inductive invariant.
LEMMA NextIInv ==
  ASSUME IInv, [Next]_vars
  PROVE  IInv'
<1>1. CASE HistoryNext /\ UNCHANGED deviceVars
  BY <1>1, HistoryClock, WorldStep
<1>2. CASE WatchedNext /\ UNCHANGED deviceVars
  BY <1>2, HistoryClock, WorldStep
<1>3. CASE DevicesNext /\ UNCHANGED historyVars
  <2>1. now' = now
    BY <1>3 DEF historyVars
  <2>2. ASSUME NEW d \in Device, Unregister(d) PROVE IInv'
    BY <2>1, <2>2, UnregisterStep
  <2>3. ASSUME NEW d \in Device, Uninstall(d) PROVE IInv'
    BY <2>1, <2>3, UninstallStep
  <2>4. ASSUME NEW d \in Device, NEW registration \in Registration, Launch(d, registration)
        PROVE IInv'
    BY <2>1, <2>4, LaunchStep
  <2>5. ASSUME NEW entries \in PatchEntries, PublishPatch(entries) PROVE IInv'
    BY <2>1, <2>5, PublishPatchStep
  <2>6. CASE StartHeroes
    BY <2>1, <2>6, StartHeroesStep
  <2>7. CASE StartRecap
    BY <2>1, <2>7, StartRecapStep
  <2>8. ASSUME NEW job \in Job, NEW row \in roster[job], Decide(job, row) PROVE IInv'
    BY <2>1, <2>8, DecideStep
  <2>9. ASSUME NEW job \in Job, Send(job) PROVE IInv'
    BY <2>1, <2>9, SendStep
  <2>10. ASSUME NEW job \in Job, Finish(job) PROVE IInv'
    BY <2>1, <2>10, FinishStep
  <2>11. ASSUME NEW job \in Job, Die(job) PROVE IInv'
    BY <2>1, <2>11, DieStep
  <2>12. ASSUME NEW row \in roster["recap"], FailRecap(row) PROVE IInv'
    BY <2>1, <2>12, FailRecapStep
  <2>13. ASSUME NEW job \in Job, NEW n \in outbox[job], DeliveryFails(job, n) PROVE IInv'
    BY <2>1, <2>13, DeliveryFailsStep
  <2> QED BY <1>3, <2>2, <2>3, <2>4, <2>5, <2>6, <2>7, <2>8, <2>9, <2>10, <2>11, <2>12, <2>13
          DEF DevicesNext
<1>4. CASE UNCHANGED vars
  <2>1. UNCHANGED deviceVars /\ now' = now
    BY <1>4 DEF vars, historyVars
  <2> QED BY <2>1, WorldStep
<1> QED BY <1>1, <1>2, <1>3, <1>4 DEF Next

\* What the inductive invariant is for.
LEMMA IInvAlertedOnce == IInv => AlertedOnce
<1> SUFFICES ASSUME IInv PROVE AlertedOnce
  OBVIOUS
<1>1. \A d \in Device : \A i, j \in DOMAIN told[d] : i # j => told[d][i] # told[d][j]
  BY DEF IInv, FreshInv, IsInjective
<1>2. ASSUME NEW d \in Device, rows[d] # None, failures = 0, installed[d],
             \A job \in Job : at[job] = "idle",
             NEW job \in Job, Remembered(job, rows[d]) # None
      PROVE  \E i \in DOMAIN told[d] :
               told[d][i].job = job /\ told[d][i].key = Remembered(job, rows[d])
  <2>1. PICK e \in Notices(job, d) : e.key = Remembered(job, rows[d])
    BY <1>2 DEF IInv, ToldInv
  <2>2. outbox[job] = {}
    BY <1>2 DEF IInv, Types
  <2>3. Coming(job, d) = {}
    BY <2>2 DEF Coming
  <2>4. e \in Range(told[d]) /\ e.job = job
    BY <2>3 DEF Notices, Shown
  <2> QED BY <2>1, <2>4 DEF Range
<1>3. ASSUME NEW d \in Device, rows[d] # None, failures = 0, installed[d],
             \A job \in Job : at[job] = "idle"
      PROVE  /\ rows[d].lastPatch # None =>
                  \E i \in DOMAIN told[d] :
                    told[d][i].job = "heroes" /\ told[d][i].key = rows[d].lastPatch
             /\ rows[d].lastRecap # None =>
                  \E i \in DOMAIN told[d] :
                    told[d][i].job = "recap" /\ told[d][i].key = rows[d].lastRecap
  BY <1>2, <1>3 DEF Remembered, Job
<1> QED BY <1>1, <1>3 DEF AlertedOnce

\* PushService.notify_hero_changes and notify_weekly_recaps: however the runs, the
\* launches, the patches and the failures follow one another, no device is told twice
\* under one row, and a mark without a failed run was told.
THEOREM Once == Spec => []AlertedOnce
<1>1. Init => IInv
  BY InitIInv
<1>2. IInv /\ [Next]_vars => IInv'
  BY NextIInv
<1>3. IInv => AlertedOnce
  BY IInvAlertedOnce
<1> QED BY <1>1, <1>2, <1>3, PTL DEF Spec

-----------------------------------------------------------------------------
(* Careers and their totals *)

Career(c) ==
  /\ IsFiniteSet(DOMAIN c)
  /\ \A s \in DOMAIN c : /\ IsFiniteSet(DOMAIN c[s])
                         /\ \A h \in DOMAIN c[s] : \A k \in GamesKeys :
                              k \in DOMAIN c[s][h] /\ c[s][h][k] \in Nat

General(g) ==
  /\ IsFiniteSet(DOMAIN g)
  /\ \A s \in DOMAIN g : \A k \in GamesKeys : g[s][k] \in Nat

\* What the totals of a section gained, and the games gained in all.
Gain(before, after, s) ==
  LET d == after[s]["games_played"] - before[s]["games_played"] IN IF d > 0 THEN d ELSE 0

Gains(before, after) == [s \in DOMAIN after \cap DOMAIN before |-> Gain(before, after, s)]

Gained(before, after) == SumFunctionOnSet(Gains(before, after), DOMAIN after \cap DOMAIN before)

\* No section of the first has more games than the same of the second.
Within(a, b) ==
  \A s \in DOMAIN a \cap DOMAIN b : a[s]["games_played"] <= b[s]["games_played"]

\* DiffGames counts what the totals of the sections on both sides gained.
LEMMA DiffIsGained ==
  \A before, after :
    DiffGames(before, after).games_played = Gained(before.general, after.general)
<1> SUFFICES ASSUME NEW before, NEW after
             PROVE  DiffGames(before, after).games_played = Gained(before.general, after.general)
  OBVIOUS
<1>1. "games_played" \in GamesKeys
  BY DEF GamesKeys
<1>2. DiffGames(before, after)["games_played"] = SumFunction(Gains(before.general, after.general))
  BY <1>1, Zenon DEF DiffGames, Gains, Gain
<1>3. DOMAIN Gains(before.general, after.general)
        = DOMAIN after.general \cap DOMAIN before.general
  BY DEF Gains
<1> QED BY <1>2, <1>3 DEF SumFunction, Gained

\* A gain is a natural, and zero where a counter fell.
LEMMA GainNat ==
  ASSUME NEW a, NEW b, General(a), General(b), NEW s \in DOMAIN b \cap DOMAIN a
  PROVE  /\ Gains(a, b)[s] = Gain(a, b, s) /\ Gain(a, b, s) \in Nat
         /\ b[s]["games_played"] \in Nat /\ a[s]["games_played"] \in Nat
         /\ b[s]["games_played"] <= a[s]["games_played"] => Gain(a, b, s) = 0
<1>1. PICK x \in Nat, y \in Nat : x = b[s]["games_played"] /\ y = a[s]["games_played"]
  <2>1. "games_played" \in GamesKeys
    BY DEF GamesKeys
  <2> QED BY <2>1 DEF General
<1>2. Gain(a, b, s) = IF x - y > 0 THEN x - y ELSE 0
  BY <1>1 DEF Gain
<1> QED BY <1>1, <1>2 DEF Gains

\* The sections on both sides are finitely many.
LEMMA BothFinite ==
  ASSUME NEW a, NEW b, General(a), General(b)
  PROVE  IsFiniteSet(DOMAIN b \cap DOMAIN a)
BY FS_Intersection DEF General

\* What was gained is a natural.
LEMMA GainedNat ==
  ASSUME NEW a, NEW b, General(a), General(b)
  PROVE  Gained(a, b) \in Nat
BY GainNat, BothFinite, SumNat DEF Gained

\* Nothing is gained where no total grew.
LEMMA GainedNothing ==
  ASSUME NEW a, NEW b, General(a), General(b), Within(b, a)
  PROVE  Gained(a, b) = 0
<1>1. ASSUME NEW s \in DOMAIN b \cap DOMAIN a PROVE Gains(a, b)[s] = 0
  <2>1. b[s]["games_played"] <= a[s]["games_played"]
    BY DEF Within
  <2> QED BY <2>1, GainNat
<1> QED BY <1>1, BothFinite, SumZero DEF Gained

\* Nothing is gained on itself.
LEMMA GainedFromItself ==
  ASSUME NEW a, General(a)
  PROVE  Gained(a, a) = 0 /\ Within(a, a)
<1>1. \A s \in DOMAIN a : a[s]["games_played"] \in Nat
  BY DEF General, GamesKeys
<1>2. Within(a, a)
  BY <1>1 DEF Within
<1> QED BY <1>2, GainedNothing

\* A section that is gone takes its gain with it.
LEMMA GainedOfFewer ==
  ASSUME NEW a, NEW b, NEW c, General(a), General(b), General(c),
         DOMAIN c \subseteq DOMAIN b, \A s \in DOMAIN c : c[s] = b[s]
  PROVE  Gained(a, c) <= Gained(a, b)
<1>1. DOMAIN c \cap DOMAIN a \in SUBSET (DOMAIN b \cap DOMAIN a)
  OBVIOUS
<1>2. ASSUME NEW s \in DOMAIN c \cap DOMAIN a
      PROVE  Gains(a, c)[s] \in Nat /\ Gains(a, c)[s] <= Gains(a, b)[s]
  <2>1. s \in DOMAIN b \cap DOMAIN a /\ c[s] = b[s]
    OBVIOUS
  <2>2. Gain(a, c, s) = Gain(a, b, s)
    BY <2>1 DEF Gain
  <2>3. /\ Gains(a, c)[s] = Gain(a, c, s) /\ Gain(a, c, s) \in Nat
        /\ Gains(a, b)[s] = Gain(a, b, s)
    BY <2>1, GainNat
  <2> QED BY <2>2, <2>3
<1>3. \A s \in DOMAIN b \cap DOMAIN a : Gains(a, b)[s] \in Nat
  BY GainNat
<1> HIDE DEF Gains
<1> QED BY <1>1, <1>2, <1>3, BothFinite, SumMonotone DEF Gained

\* A section that has one game more, or is new with one, raises the gain by one at most.
LEMMA GainedOfOneMore ==
  ASSUME NEW a, NEW b, NEW c, General(a), General(b), General(c), NEW x,
         DOMAIN c = DOMAIN b \cup {x}, \A s \in DOMAIN b \ {x} : c[s] = b[s],
         c[x]["games_played"] <= 1 + IF x \in DOMAIN b THEN b[x]["games_played"] ELSE 0
  PROVE  Gained(a, c) <= Gained(a, b) + 1
<1>1. ASSUME NEW s \in (DOMAIN c \cap DOMAIN a) \ {x}
      PROVE  s \in DOMAIN b \cap DOMAIN a /\ Gains(a, c)[s] <= Gains(a, b)[s]
  <2>1. s \in DOMAIN b \cap DOMAIN a /\ c[s] = b[s]
    OBVIOUS
  <2>2. Gain(a, c, s) = Gain(a, b, s)
    BY <2>1 DEF Gain
  <2>3. /\ Gains(a, c)[s] = Gain(a, c, s) /\ Gain(a, c, s) \in Nat
        /\ Gains(a, b)[s] = Gain(a, b, s)
    BY <2>1, GainNat
  <2> QED BY <2>1, <2>2, <2>3
<1>2. ASSUME x \in DOMAIN c \cap DOMAIN a
      PROVE  Gains(a, c)[x] <= 1 + IF x \in DOMAIN b \cap DOMAIN a THEN Gains(a, b)[x] ELSE 0
  <2>1. PICK n \in Nat, m \in Nat : n = c[x]["games_played"] /\ m = a[x]["games_played"]
    BY <1>2, GainNat
  <2>2. Gains(a, c)[x] = IF n - m > 0 THEN n - m ELSE 0
    BY <1>2, <2>1, GainNat DEF Gain
  <2>3. CASE x \in DOMAIN b
    <3>1. PICK o \in Nat : o = b[x]["games_played"]
      BY <1>2, <2>3, GainNat
    <3>2. Gains(a, b)[x] = IF o - m > 0 THEN o - m ELSE 0
      BY <1>2, <2>1, <2>3, <3>1, GainNat DEF Gain
    <3>3. n <= 1 + o
      BY <2>1, <2>3, <3>1
    <3>4. Gains(a, c)[x] <= 1 + Gains(a, b)[x]
      BY <2>2, <3>2, <3>3
    <3> QED BY <1>2, <2>3, <3>4
  <2>4. CASE x \notin DOMAIN b
    <3>1. n <= 1
      BY <2>1, <2>4
    <3>2. Gains(a, c)[x] <= 1
      BY <2>2, <3>1
    <3> QED BY <2>4, <3>2
  <2> QED BY <2>3, <2>4
<1>3. /\ \A s \in DOMAIN b \cap DOMAIN a : Gains(a, b)[s] \in Nat
      /\ \A s \in DOMAIN c \cap DOMAIN a : Gains(a, c)[s] \in Nat
  BY GainNat
<1> HIDE DEF Gains
<1> QED BY <1>1, <1>2, <1>3, BothFinite, SumRaised DEF Gained

-----------------------------------------------------------------------------
(* What a game does to the totals *)

\* The totals of a career: per section the sum over its heroes.
LEMMA TotalsFacts ==
  ASSUME NEW c, Career(c)
  PROVE  /\ DOMAIN Totals(c) = DOMAIN c
         /\ General(Totals(c))
         /\ \A s \in DOMAIN c : \A k \in GamesKeys :
              Totals(c)[s][k] = SumFunctionOnSet([h \in DOMAIN c[s] |-> c[s][h][k]], DOMAIN c[s])
<1>1. DOMAIN Totals(c) = DOMAIN c
  BY DEF Totals
<1>2. ASSUME NEW s \in DOMAIN c, NEW k \in GamesKeys
      PROVE  /\ Totals(c)[s][k]
                  = SumFunctionOnSet([h \in DOMAIN c[s] |-> c[s][h][k]], DOMAIN c[s])
             /\ Totals(c)[s][k] \in Nat
  <2> DEFINE f == [h \in DOMAIN c[s] |-> c[s][h][k]]
  <2>1. Totals(c)[s][k] = SumFunction(f)
    BY Zenon DEF Totals
  <2>2. DOMAIN f = DOMAIN c[s]
    OBVIOUS
  <2>3. \A h \in DOMAIN c[s] : f[h] \in Nat
    BY DEF Career
  <2>4. IsFiniteSet(DOMAIN c[s])
    BY DEF Career
  <2> HIDE DEF f
  <2>5. SumFunction(f) = SumFunctionOnSet(f, DOMAIN c[s])
    BY <2>2 DEF SumFunction
  <2>6. SumFunctionOnSet(f, DOMAIN c[s]) \in Nat
    BY <2>3, <2>4, SumNat
  <2> QED BY <2>1, <2>5, <2>6 DEF f
<1> QED BY <1>1, <1>2 DEF General, Career

\* What a game adds to a counter, and the counter of a section and hero in a table.
Counts(k, won) == IF k = "games_won" /\ ~won THEN 0 ELSE 1
Value(table, sh, k) == At(AtPair(table, sh, <<>>), k, 0)

\* One game counts in its section, and in no other.
LEMMA TotalsPlayed ==
  ASSUME NEW c, Career(c), NEW x, NEW hero, NEW won,
         NEW heroes, heroes = At(c, x, <<>>),
         NEW counters, counters = Played(At(heroes, hero, <<>>), won),
         NEW d, d = Put(c, x, Put(heroes, hero, counters))
  PROVE  /\ Career(d)
         /\ \A s \in DOMAIN c \ {x} : Totals(d)[s] = Totals(c)[s]
         /\ \A k \in GamesKeys :
              Totals(d)[x][k] = (IF x \in DOMAIN c THEN Totals(c)[x][k] ELSE 0) + Counts(k, won)
         /\ \A sh : \A k \in GamesKeys : Value(c, sh, k) \in Nat /\ Value(c, sh, k) <= Value(d, sh, k)
<1>1. /\ IsFiniteSet(DOMAIN heroes)
      /\ \A h \in DOMAIN heroes : \A k \in GamesKeys :
           k \in DOMAIN heroes[h] /\ heroes[h][k] \in Nat
  <2>1. CASE x \in DOMAIN c
    BY <2>1 DEF At, Career
  <2>2. CASE x \notin DOMAIN c
    <3>1. heroes = <<>> /\ DOMAIN heroes = {}
      BY <2>2 DEF At
    <3> QED BY <3>1, FS_EmptySet
  <2> QED BY <2>1, <2>2
<1>2. /\ DOMAIN counters = GamesKeys
      /\ \A k \in GamesKeys :
           /\ counters[k] \in Nat
           /\ counters[k] = (IF hero \in DOMAIN heroes THEN heroes[hero][k] ELSE 0) + Counts(k, won)
  <2>1. PICK old : old = At(heroes, hero, <<>>)
    OBVIOUS
  <2>2. counters = [k \in GamesKeys |->
                      At(old, k, 0) + IF k = "games_won" /\ ~won THEN 0 ELSE 1]
    BY <2>1, Zenon DEF Played
  <2>3. ASSUME NEW k \in GamesKeys
        PROVE  At(old, k, 0) = IF hero \in DOMAIN heroes THEN heroes[hero][k] ELSE 0
    <3>1. CASE hero \in DOMAIN heroes
      <4>1. old = heroes[hero] /\ k \in DOMAIN old
        BY <1>1, <2>1, <3>1 DEF At
      <4> QED BY <3>1, <4>1 DEF At
    <3>2. CASE hero \notin DOMAIN heroes
      <4>1. old = <<>> /\ DOMAIN old = {}
        BY <2>1, <3>2 DEF At
      <4> QED BY <3>2, <4>1 DEF At
    <3> QED BY <3>1, <3>2
  <2>4. ASSUME NEW k \in GamesKeys
        PROVE  /\ counters[k] \in Nat
               /\ counters[k] = (IF hero \in DOMAIN heroes THEN heroes[hero][k] ELSE 0) + Counts(k, won)
    <3>1. PICK n \in Nat : n = At(old, k, 0)
      BY <1>1, <2>3
    <3>2. counters[k] = n + Counts(k, won) /\ Counts(k, won) \in Nat
      BY <2>2, <3>1 DEF Counts
    <3> QED BY <2>3, <3>1, <3>2
  <2> QED BY <2>2, <2>4
<1>3. PICK team : team = Put(heroes, hero, counters)
  OBVIOUS
<1>4. /\ DOMAIN team = DOMAIN heroes \cup {hero} /\ team[hero] = counters
      /\ \A h \in DOMAIN heroes \ {hero} : team[h] = heroes[h]
  BY <1>3 DEF Put
<1>5. /\ DOMAIN d = DOMAIN c \cup {x} /\ d[x] = team
      /\ \A s \in DOMAIN c \ {x} : d[s] = c[s]
  BY <1>3 DEF Put
<1>6. IsFiniteSet(DOMAIN team)
  BY <1>1, <1>4, FS_AddElement
<1>7. \A h \in DOMAIN team : \A k \in GamesKeys : k \in DOMAIN team[h] /\ team[h][k] \in Nat
  BY <1>1, <1>2, <1>4
<1>8. Career(d)
  <2>1. IsFiniteSet(DOMAIN d)
    BY <1>5, FS_AddElement DEF Career
  <2>2. ASSUME NEW s \in DOMAIN d
        PROVE  /\ IsFiniteSet(DOMAIN d[s])
               /\ \A h \in DOMAIN d[s] : \A k \in GamesKeys :
                    k \in DOMAIN d[s][h] /\ d[s][h][k] \in Nat
    <3>1. CASE s = x
      BY <1>5, <1>6, <1>7, <3>1
    <3>2. CASE s # x
      <4>1. s \in DOMAIN c /\ d[s] = c[s]
        BY <1>5, <3>2
      <4> QED BY <4>1 DEF Career
    <3> QED BY <3>1, <3>2
  <2> QED BY <2>1, <2>2 DEF Career
<1>9. ASSUME NEW s \in DOMAIN c \ {x} PROVE Totals(d)[s] = Totals(c)[s]
  <2>1. s \in DOMAIN c /\ s \in DOMAIN d /\ d[s] = c[s]
    BY <1>5
  <2> QED BY <2>1, Zenon DEF Totals
<1>10. ASSUME NEW k \in GamesKeys
       PROVE  Totals(d)[x][k] = (IF x \in DOMAIN c THEN Totals(c)[x][k] ELSE 0) + Counts(k, won)
  <2> DEFINE new == [h \in DOMAIN team |-> team[h][k]]
             old == [h \in DOMAIN heroes |-> heroes[h][k]]
             was == IF hero \in DOMAIN heroes THEN heroes[hero][k] ELSE 0
  <2>1. Totals(d)[x][k] = SumFunctionOnSet(new, DOMAIN team)
    BY <1>5, <1>8, TotalsFacts
  <2>2. SumFunctionOnSet(old, DOMAIN heroes) = IF x \in DOMAIN c THEN Totals(c)[x][k] ELSE 0
    <3>1. CASE x \in DOMAIN c
      <4>1. heroes = c[x]
        BY <3>1 DEF At
      <4> QED BY <3>1, <4>1, TotalsFacts
    <3>2. CASE x \notin DOMAIN c
      <4>1. DOMAIN heroes = {}
        BY <3>2 DEF At
      <4> QED BY <3>2, <4>1, SumEmpty
    <3> QED BY <3>1, <3>2
  <2>3. /\ \A h \in DOMAIN heroes : old[h] = heroes[h][k] /\ old[h] \in Int
        /\ \A h \in DOMAIN team : new[h] = team[h][k] /\ new[h] \in Int
        /\ \A h \in DOMAIN heroes \ {hero} : new[h] = old[h]
        /\ hero \in DOMAIN team /\ new[hero] = was + Counts(k, won)
    BY <1>1, <1>2, <1>4, <1>7
  <2>4. DOMAIN team \ {hero} = DOMAIN heroes \ {hero}
    BY <1>4
  <2>5. was = IF hero \in DOMAIN heroes THEN old[hero] ELSE 0
    BY <2>3
  <2>6. was \in Int /\ Counts(k, won) \in Int
    BY <1>1 DEF Counts
  <2> HIDE DEF old, new, was
  <2>7. SumFunctionOnSet(new, DOMAIN team)
          = SumFunctionOnSet(old, DOMAIN heroes) + (new[hero] - was)
    BY <1>1, <1>6, <2>3, <2>4, <2>5, SumOneChanged
  <2>8. new[hero] - was = Counts(k, won)
    BY <2>3, <2>6
  <2> QED BY <2>1, <2>2, <2>7, <2>8
<1>11. ASSUME NEW sh, NEW k \in GamesKeys
       PROVE  Value(c, sh, k) \in Nat /\ Value(c, sh, k) <= Value(d, sh, k)
  <2>1. CASE sh = <<x, hero>>
    <3>1. Value(d, sh, k) = counters[k]
      BY <1>2, <1>4, <1>5, <2>1 DEF Value, AtPair, At, Pairs
    <3>2. Value(c, sh, k) = IF hero \in DOMAIN heroes THEN heroes[hero][k] ELSE 0
      <4>1. sh \in Pairs(c) <=> x \in DOMAIN c /\ hero \in DOMAIN c[x]
        BY <2>1 DEF Pairs
      <4>2. CASE x \in DOMAIN c
        <5>1. heroes = c[x]
          BY <4>2 DEF At
        <5> QED BY <1>1, <2>1, <4>1, <4>2, <5>1 DEF Value, AtPair, At
      <4>3. CASE x \notin DOMAIN c
        <5>1. DOMAIN heroes = {}
          BY <4>3 DEF At
        <5> QED BY <4>1, <4>3, <5>1 DEF Value, AtPair, At
      <4> QED BY <4>2, <4>3
    <3>3. Value(c, sh, k) \in Nat /\ Counts(k, won) \in Nat
      BY <1>1, <3>2 DEF Counts
    <3>4. Value(d, sh, k) = Value(c, sh, k) + Counts(k, won)
      BY <1>2, <3>1, <3>2
    <3> QED BY <3>3, <3>4
  <2>2. CASE sh # <<x, hero>>
    <3>1. CASE sh \in Pairs(c)
      <4>0. PICK s \in DOMAIN c : \E h \in DOMAIN c[s] : sh = <<s, h>>
        BY <3>1 DEF Pairs
      <4>1. PICK h \in DOMAIN c[s] : sh = <<s, h>>
        BY <4>0
      <4>2. s \in DOMAIN d /\ h \in DOMAIN d[s] /\ d[s][h] = c[s][h]
        <5>1. CASE s = x
          BY <1>4, <1>5, <2>2, <4>1, <5>1 DEF At
        <5>2. CASE s # x
          BY <1>5, <5>2
        <5> QED BY <5>1, <5>2
      <4>3. sh \in Pairs(d)
        BY <4>1, <4>2 DEF Pairs
      <4>4. c[s][h][k] \in Nat /\ k \in DOMAIN c[s][h]
        BY DEF Career
      <4>5. Value(c, sh, k) = c[s][h][k] /\ Value(d, sh, k) = c[s][h][k]
        BY <3>1, <4>1, <4>2, <4>3, <4>4 DEF Value, AtPair, At
      <4> QED BY <4>4, <4>5
    <3>2. CASE sh \notin Pairs(c)
      <4>1. sh \notin Pairs(d)
        <5> SUFFICES ASSUME sh \in Pairs(d) PROVE FALSE
          OBVIOUS
        <5>0. PICK s \in DOMAIN d : \E h \in DOMAIN d[s] : sh = <<s, h>>
          BY DEF Pairs
        <5>1. PICK h \in DOMAIN d[s] : sh = <<s, h>>
          BY <5>0
        <5>2. CASE s = x
          <6>1. h \in DOMAIN heroes
            BY <1>4, <1>5, <2>2, <5>1, <5>2
          <6>2. x \in DOMAIN c /\ heroes = c[x]
            BY <6>1 DEF At
          <6> QED BY <3>2, <5>1, <5>2, <6>1, <6>2 DEF Pairs
        <5>3. CASE s # x
          <6>1. s \in DOMAIN c /\ d[s] = c[s]
            BY <1>5, <5>3
          <6> QED BY <3>2, <5>1, <6>1 DEF Pairs
        <5> QED BY <5>2, <5>3
      <4>2. Value(c, sh, k) = 0 /\ Value(d, sh, k) = 0
        BY <3>2, <4>1 DEF Value, AtPair, At
      <4> QED BY <4>2
    <3> QED BY <3>1, <3>2
  <2> QED BY <2>1, <2>2
<1> QED BY <1>8, <1>9, <1>10, <1>11

\* So a section has one game more at most, and none has fewer.
LEMMA GamesPlayed ==
  ASSUME NEW c, Career(c), NEW x, NEW hero, NEW won,
         NEW heroes, heroes = At(c, x, <<>>),
         NEW counters, counters = Played(At(heroes, hero, <<>>), won),
         NEW d, d = Put(c, x, Put(heroes, hero, counters))
  PROVE  /\ Career(d)
         /\ \A s \in DOMAIN c \ {x} : Totals(d)[s] = Totals(c)[s]
         /\ Totals(d)[x]["games_played"]
              <= 1 + IF x \in DOMAIN c THEN Totals(c)[x]["games_played"] ELSE 0
         /\ Within(Totals(c), Totals(d))
<1> DEFINE k == "games_played"
<1>1. k \in GamesKeys /\ Counts(k, won) = 1
  BY DEF GamesKeys, Counts
<1>2. DOMAIN Totals(c) = DOMAIN c /\ \A s \in DOMAIN c : Totals(c)[s][k] \in Nat
  BY <1>1, TotalsFacts DEF General
<1>3. /\ Career(d)
      /\ \A s \in DOMAIN c \ {x} : Totals(d)[s] = Totals(c)[s]
      /\ Totals(d)[x][k] = (IF x \in DOMAIN c THEN Totals(c)[x][k] ELSE 0) + Counts(k, won)
  BY <1>1, TotalsPlayed
<1> HIDE DEF k
<1>4. PICK n \in Nat : n = IF x \in DOMAIN c THEN Totals(c)[x][k] ELSE 0
  BY <1>2
<1>5. Totals(d)[x][k] = n + 1
  BY <1>1, <1>3, <1>4
<1>6. Totals(d)[x][k] <= 1 + IF x \in DOMAIN c THEN Totals(c)[x][k] ELSE 0
  BY <1>4, <1>5
<1>7. ASSUME NEW s \in DOMAIN c PROVE Totals(c)[s][k] <= Totals(d)[s][k]
  <2>1. CASE s = x
    BY <1>4, <1>5, <2>1
  <2>2. CASE s # x
    BY <1>2, <1>3, <2>2
  <2> QED BY <2>1, <2>2
<1>8. Within(Totals(c), Totals(d))
  BY <1>2, <1>7 DEF Within, k
<1> QED BY <1>3, <1>6, <1>8 DEF k

-----------------------------------------------------------------------------
(* How rows fall into sessions *)

\* Finitely many rows, each of another version.
Versions(R) ==
  /\ IsFiniteSet(R) /\ \A r \in R : r.stamp \in Int
  /\ \A r, s \in R : r.stamp = s.stamp => r = s

\* Of some of the rows one is the newest, and one the oldest.
LEMMA NewestIn ==
  ASSUME NEW R, Versions(R), NEW T \in SUBSET R, T # {}
  PROVE  /\ Newest(T) \in T /\ \A p \in T : p.stamp <= Newest(T).stamp
         /\ \E m \in T : \A p \in T : m.stamp <= p.stamp
<1>1. IsFiniteSet(T) /\ \A p \in T : p.stamp \in Int
  BY FS_Subset DEF Versions
<1>2. \E m \in T : \A p \in T : p.stamp <= m.stamp
  <2> DEFINE key == [p \in T |-> -p.stamp]
  <2>1. \A p \in T : key[p] \in Int
    BY <1>1
  <2>2. PICK m \in T : \A p \in T : key[m] <= key[p]
    <3> HIDE DEF key
    <3> QED BY <1>1, <2>1, LeastKey
  <2>3. \A p \in T : p.stamp <= m.stamp
    BY <1>1, <2>2
  <2> QED BY <2>3
<1>3. \E m \in T : \A p \in T : m.stamp <= p.stamp
  <2> DEFINE key == [p \in T |-> p.stamp]
  <2>1. \A p \in T : key[p] \in Int
    BY <1>1
  <2>2. PICK m \in T : \A p \in T : key[m] <= key[p]
    <3> HIDE DEF key
    <3> QED BY <1>1, <2>1, LeastKey
  <2> QED BY <2>2
<1> QED BY <1>2, <1>3, Zenon DEF Newest

\* The row before a row, with none between.
LEMMA PreviousFacts ==
  ASSUME NEW R, Versions(R), NEW r \in R, Earlier(R, r) # {}
  PROVE  /\ Previous(R, r) \in R /\ Previous(R, r).stamp < r.stamp
         /\ \A q \in R : q.stamp < r.stamp => q.stamp <= Previous(R, r).stamp
<1>1. Earlier(R, r) \in SUBSET R
  BY DEF Earlier
<1>2. /\ Previous(R, r) \in Earlier(R, r)
      /\ \A q \in Earlier(R, r) : q.stamp <= Previous(R, r).stamp
  BY <1>1, NewestIn DEF Previous
<1> QED BY <1>2 DEF Earlier

\* A row after which there are rows comes before one of them, with none between.
LEMMA NextRow ==
  ASSUME NEW R, Versions(R), NEW e \in R, NEW q \in R, e.stamp < q.stamp
  PROVE  \E n \in R : /\ e.stamp < n.stamp /\ Earlier(R, n) # {} /\ Previous(R, n) = e
                      /\ \A p \in R : e.stamp < p.stamp => n.stamp <= p.stamp
<1>1. PICK T \in SUBSET R : T = {p \in R : e.stamp < p.stamp}
  OBVIOUS
<1>2. PICK n \in T : \A p \in T : n.stamp <= p.stamp
  BY <1>1, NewestIn
<1>3. n \in R /\ e.stamp < n.stamp /\ \A p \in R : e.stamp < p.stamp => n.stamp <= p.stamp
  BY <1>1, <1>2
<1>4. e \in Earlier(R, n)
  BY <1>3 DEF Earlier
<1>5. PICK m : m = Previous(R, n)
  OBVIOUS
<1>6. m \in R /\ m.stamp < n.stamp /\ e.stamp <= m.stamp
  BY <1>3, <1>4, <1>5, PreviousFacts
<1>7. ~ (e.stamp < m.stamp)
  BY <1>3, <1>6 DEF Versions
<1>8. m = e
  BY <1>6, <1>7 DEF Versions
<1> QED BY <1>3, <1>4, <1>5, <1>8

\* A session ends before the next beginning, with the newest row or the one before it.
LEMMA GroupFacts ==
  ASSUME NEW R, Versions(R), NEW r \in Starts(R), NEW e, e = Newest(Group(R, r))
  PROVE  /\ e \in R /\ r.stamp <= e.stamp
         /\ \A s \in Starts(R) : s.stamp <= r.stamp \/ e.stamp < s.stamp
         /\ (\A q \in R : q.stamp <= e.stamp) \/ \E s \in Starts(R) : Previous(R, s) = e
<1>1. r \in R /\ r.stamp \in Int /\ Starts(R) \subseteq R
  BY DEF Starts, Versions
<1>2. r \in Group(R, r) /\ Group(R, r) \in SUBSET R
  <2>1. \A s \in Starts(R) : s.stamp <= r.stamp \/ r.stamp < s.stamp
    BY <1>1 DEF Versions
  <2> QED BY <1>1, <2>1 DEF Group
<1>3. e \in Group(R, r) /\ \A q \in Group(R, r) : q.stamp <= e.stamp
  BY <1>2, NewestIn
<1>4. /\ e \in R /\ r.stamp <= e.stamp
      /\ \A s \in Starts(R) : s.stamp <= r.stamp \/ e.stamp < s.stamp
  BY <1>3 DEF Group
<1>5. ASSUME NEW q \in R, ~ (q.stamp <= e.stamp) PROVE \E s \in Starts(R) : Previous(R, s) = e
  <2>1. e.stamp < q.stamp
    BY <1>4, <1>5 DEF Versions
  <2>2. PICK n \in R : /\ e.stamp < n.stamp /\ Previous(R, n) = e
                       /\ \A p \in R : e.stamp < p.stamp => n.stamp <= p.stamp
    BY <1>4, <2>1, NextRow
  <2>3. n \notin Group(R, r)
    BY <1>3, <1>4, <2>2 DEF Versions
  <2>4. r.stamp <= n.stamp
    BY <1>1, <1>4, <2>2 DEF Versions
  <2>5. PICK s \in Starts(R) : ~ (s.stamp <= r.stamp) /\ ~ (n.stamp < s.stamp)
    BY <2>3, <2>4 DEF Group
  <2>6. e.stamp < s.stamp /\ s \in R
    BY <1>1, <1>4, <2>5
  <2>7. n.stamp = s.stamp
    BY <2>2, <2>5, <2>6 DEF Versions
  <2>8. s = n
    BY <2>6, <2>7 DEF Versions
  <2> QED BY <2>2, <2>8
<1> QED BY <1>4, <1>5

\* Of two sessions the earlier ends by the row the later is measured from.
LEMMA SessionsApart ==
  ASSUME NEW R, Versions(R), NEW r \in Starts(R), NEW s \in Starts(R), r.stamp < s.stamp
  PROVE  Newest(Group(R, r)).stamp <= Previous(R, s).stamp
<1>1. PICK e : e = Newest(Group(R, r))
  OBVIOUS
<1>2. r \in R /\ s \in R /\ Earlier(R, s) # {} /\ r.stamp \in Int /\ s.stamp \in Int
  BY DEF Starts, Versions
<1>3. e \in R /\ (s.stamp <= r.stamp \/ e.stamp < s.stamp)
  BY <1>1, GroupFacts
<1>4. e.stamp < s.stamp
  BY <1>2, <1>3
<1> QED BY <1>1, <1>2, <1>3, <1>4, PreviousFacts

\* The first session is measured from the oldest row.
LEMMA FirstSession ==
  ASSUME NEW R, Versions(R), NEW p \in R, NEW q \in R, p # q
  PROVE  \E s \in Starts(R) : Earlier(R, Previous(R, s)) = {}
<1>1. PICK o \in R : \A x \in R : o.stamp <= x.stamp
  BY NewestIn
<1>2. Earlier(R, o) = {}
  BY <1>1 DEF Earlier, Versions
<1>3. PICK x \in R : o.stamp < x.stamp
  <2>1. PICK x \in R : x # o
    OBVIOUS
  <2>2. o.stamp < x.stamp
    BY <1>1, <2>1 DEF Versions
  <2> QED BY <2>2
<1>4. PICK n \in R : Earlier(R, n) # {} /\ Previous(R, n) = o
  BY <1>3, NextRow
<1>5. n \in Starts(R)
  BY <1>2, <1>4 DEF Starts
<1> QED BY <1>2, <1>4, <1>5

\* The counters of a table of heroes are numbers.
Counted(table) == \A sh : \A c \in Counters : Value(table, sh, c) \in Int

\* The difference of two tables has, hero by hero, the difference of their counters.
LEMMA DiffHeroesAt ==
  ASSUME NEW a, NEW b, Counted(a), Counted(b), NEW sh, NEW c \in Counters
  PROVE  At(DiffHeroes(a, b), sh, NoMove)[c] = Value(b, sh, c) - Value(a, sh, c)
<1> DEFINE delta == [x \in Pairs(a) \cup Pairs(b) |->
                       DiffHero(AtPair(a, x, <<>>), AtPair(b, x, <<>>))]
           moved == {x \in DOMAIN delta : \E k \in Counters : delta[x][k] # 0}
<1>1. DiffHeroes(a, b) = [x \in moved |-> delta[x]]
  BY Zenon DEF DiffHeroes
<1>2. PICK n \in Int, m \in Int : n = Value(b, sh, c) /\ m = Value(a, sh, c)
  BY DEF Counted
<1>3. NoMove[c] = 0
  BY DEF NoMove
<1>4. CASE sh \in DOMAIN delta
  <2>1. delta[sh] = DiffHero(AtPair(a, sh, <<>>), AtPair(b, sh, <<>>))
    BY <1>4
  <2>2. delta[sh][c] = n - m
    BY <1>2, <2>1 DEF DiffHero, Value
  <2> HIDE DEF delta
  <2>3. CASE sh \in moved
    BY <1>1, <1>2, <2>2, <2>3 DEF At
  <2>4. CASE sh \notin moved
    <3>1. delta[sh][c] = 0
      BY <1>4, <2>4
    <3>2. At(DiffHeroes(a, b), sh, NoMove) = NoMove
      BY <1>1, <2>4 DEF At
    <3> QED BY <1>2, <1>3, <2>2, <3>1, <3>2
  <2> QED BY <2>3, <2>4
<1>5. CASE sh \notin DOMAIN delta
  <2>1. sh \notin Pairs(a) /\ sh \notin Pairs(b)
    BY <1>5
  <2>2. n = 0 /\ m = 0
    BY <1>2, <2>1 DEF Value, AtPair, At
  <2>3. At(DiffHeroes(a, b), sh, NoMove) = NoMove
    BY <1>1, <1>5 DEF At
  <2> QED BY <1>2, <1>3, <2>2, <2>3
<1> QED BY <1>4, <1>5

\* What a session says.
LEMMA SessionSays ==
  ASSUME NEW R, NEW r
  PROVE  LET w == SessionFrom(R, r) before == Previous(R, r) after == Newest(Group(R, r))
         IN /\ w.since = before.stamp /\ w.ended_at = after.stamp
            /\ w.games = DiffGames(before.data, after.data)
            /\ w.heroes = DiffHeroes(before.data.heroes, after.data.heroes)
<1> DEFINE before == Previous(R, r)
           after == Newest(Group(R, r))
           diff == DiffSnapshots(<<after, before>>)
<1>1. SessionFrom(R, r)
        = [since |-> before.stamp, ended_at |-> after.stamp, snapshots |-> Cardinality(Group(R, r)),
           games |-> DiffGames(before.data, after.data), ranks |-> diff.ranks,
           heroes |-> diff.heroes]
  BY Zenon DEF SessionFrom, SessionOf
<1> HIDE DEF before, after
<1>2. /\ Len(<<after, before>>) = 2 /\ ~ (2 < 2)
      /\ Last(<<after, before>>) = before /\ Head(<<after, before>>) = after
  BY DEF Last
<1>3. diff = [heroes |-> DiffHeroes(before.data.heroes, after.data.heroes),
              ranks |-> DiffRanks(before.data.competitive, after.data.competitive)]
  BY <1>2, Zenon DEF DiffSnapshots
<1>4. diff.heroes = DiffHeroes(before.data.heroes, after.data.heroes)
  BY <1>3
<1> HIDE DEF diff
<1> QED BY <1>1, <1>4 DEF before, after

\* The sessions of some rows, the silent ones among them.
Sessions(R) == {SessionFrom(R, r) : r \in Starts(R)}

\* They are measured between rows, one stretch after another up to the newest row.
LEMMA SessionsFollow ==
  ASSUME NEW R, Versions(R)
  PROVE  /\ IsFiniteSet(Sessions(R))
         /\ \A w \in Sessions(R) : \E p, e \in R :
              /\ w.since = p.stamp /\ w.ended_at = e.stamp /\ p.stamp < e.stamp
              /\ w.games = DiffGames(p.data, e.data)
              /\ w.heroes = DiffHeroes(p.data.heroes, e.data.heroes)
         /\ \A v, w \in Sessions(R) : v = w \/ v.since >= w.ended_at \/ w.since >= v.ended_at
         /\ \A w \in Sessions(R) : \/ \A q \in R : q.stamp <= w.ended_at
                                   \/ \E v \in Sessions(R) : v.since = w.ended_at
<1>1. IsFiniteSet(Sessions(R))
  <2>1. IsFiniteSet(Starts(R))
    BY FS_Subset DEF Starts, Versions
  <2> DEFINE from == [r \in Starts(R) |-> SessionFrom(R, r)]
  <2>2. from \in Surjection(Starts(R), Sessions(R))
    BY DEF Sessions, Surjection
  <2> QED BY <2>1, <2>2, FS_Surjection
<1>2. ASSUME NEW r \in Starts(R)
      PROVE  LET p == Previous(R, r) e == Newest(Group(R, r)) w == SessionFrom(R, r)
             IN /\ p \in R /\ e \in R /\ r \in R /\ p.stamp < e.stamp
                /\ p.stamp \in Int /\ e.stamp \in Int
                /\ w.since = p.stamp /\ w.ended_at = e.stamp
                /\ w.games = DiffGames(p.data, e.data)
                /\ w.heroes = DiffHeroes(p.data.heroes, e.data.heroes)
                /\ (\A q \in R : q.stamp <= e.stamp) \/ \E s \in Starts(R) : Previous(R, s) = e
  <2>1. PICK p : p = Previous(R, r)
    OBVIOUS
  <2>2. PICK e : e = Newest(Group(R, r))
    OBVIOUS
  <2>3. r \in R /\ Earlier(R, r) # {}
    BY DEF Starts
  <2>4. p \in R /\ p.stamp < r.stamp
    BY <2>1, <2>3, PreviousFacts
  <2>5. /\ e \in R /\ r.stamp <= e.stamp
        /\ (\A q \in R : q.stamp <= e.stamp) \/ \E s \in Starts(R) : Previous(R, s) = e
    BY <2>2, GroupFacts
  <2>6. p.stamp \in Int /\ e.stamp \in Int /\ p.stamp < e.stamp
    BY <2>3, <2>4, <2>5 DEF Versions
  <2> QED BY <2>1, <2>2, <2>3, <2>4, <2>5, <2>6, SessionSays
<1>3. ASSUME NEW r \in Starts(R), NEW s \in Starts(R), r.stamp < s.stamp
      PROVE  SessionFrom(R, s).since >= SessionFrom(R, r).ended_at
  <2>1. Newest(Group(R, r)).stamp <= Previous(R, s).stamp
    BY <1>3, SessionsApart
  <2> QED BY <1>2, <2>1
<1>4. ASSUME NEW v \in Sessions(R), NEW w \in Sessions(R), v # w
      PROVE  v.since >= w.ended_at \/ w.since >= v.ended_at
  <2>1. PICK r \in Starts(R), s \in Starts(R) : v = SessionFrom(R, r) /\ w = SessionFrom(R, s)
    BY DEF Sessions
  <2>2. r.stamp < s.stamp \/ s.stamp < r.stamp
    BY <1>2, <1>4, <2>1 DEF Versions
  <2> QED BY <1>3, <2>1, <2>2
<1>5. ASSUME NEW w \in Sessions(R)
      PROVE  \/ \A q \in R : q.stamp <= w.ended_at
             \/ \E v \in Sessions(R) : v.since = w.ended_at
  <2>1. PICK r \in Starts(R) : w = SessionFrom(R, r)
    BY DEF Sessions
  <2>2. CASE \A q \in R : q.stamp <= Newest(Group(R, r)).stamp
    BY <1>2, <2>1, <2>2
  <2>3. ASSUME NEW s \in Starts(R), Previous(R, s) = Newest(Group(R, r))
        PROVE  \E v \in Sessions(R) : v.since = w.ended_at
    <3>1. SessionFrom(R, s) \in Sessions(R)
      BY DEF Sessions
    <3> QED BY <1>2, <2>1, <2>3, <3>1
  <2> QED BY <1>2, <2>2, <2>3
<1>6. ASSUME NEW w \in Sessions(R)
      PROVE  \E p, e \in R :
              /\ w.since = p.stamp /\ w.ended_at = e.stamp /\ p.stamp < e.stamp
              /\ w.games = DiffGames(p.data, e.data)
              /\ w.heroes = DiffHeroes(p.data.heroes, e.data.heroes)
  BY <1>2 DEF Sessions
<1> QED BY <1>1, <1>4, <1>5, <1>6

\* What a hero did in the sessions, silent ones included, is what lies between the oldest
\* row and the newest.
LEMMA SessionsSum ==
  ASSUME NEW R, Versions(R), R # {}, \A r \in R : Counted(r.data.heroes),
         NEW sh, NEW c \in Counters,
         NEW f, \A w \in Sessions(R) : f[w] = At(w.heroes, sh, NoMove)[c]
  PROVE  SumFunctionOnSet(f, Sessions(R))
           = At(DiffHeroes(Oldest(R).data.heroes, Newest(R).data.heroes), sh, NoMove)[c]
<1> DEFINE RowOf(x) == CHOOSE r \in R : r.stamp = x
           Stamps == {r.stamp : r \in R}
           g == [x \in Stamps |-> Value(RowOf(x).data.heroes, sh, c)]
           W == Sessions(R)
           lo == [w \in W |-> w.since]
           hi == [w \in W |-> w.ended_at]
<1>1. PICK top \in R : top = Newest(R) /\ \A q \in R : q.stamp <= top.stamp
  BY NewestIn
<1>2. \A r, q \in R : Earlier(R, r) = {} /\ Earlier(R, q) = {} => r = q
  BY DEF Earlier, Versions
<1>3. PICK bottom \in R : bottom = Oldest(R) /\ Earlier(R, bottom) = {}
  <2>1. PICK m \in R : \A p \in R : m.stamp <= p.stamp
    BY NewestIn
  <2>2. Earlier(R, m) = {}
    BY <2>1 DEF Earlier, Versions
  <2> QED BY <2>2, Zenon DEF Oldest
<1>4. \A r \in R : RowOf(r.stamp) = r
  BY DEF Versions
<1>5. ASSUME NEW r \in R
      PROVE  g[r.stamp] = Value(r.data.heroes, sh, c) /\ g[r.stamp] \in Int /\ r.stamp \in Int
  <2>1. r.stamp \in Stamps /\ r.stamp \in Int
    BY DEF Versions
  <2>2. Value(r.data.heroes, sh, c) \in Int
    BY DEF Counted
  <2> HIDE DEF RowOf, Stamps
  <2> QED BY <1>4, <2>1, <2>2
<1> HIDE DEF g, RowOf, Stamps
<1>6. At(DiffHeroes(bottom.data.heroes, top.data.heroes), sh, NoMove)[c]
        = g[top.stamp] - g[bottom.stamp]
  BY <1>5, DiffHeroesAt
<1>7. CASE \A r \in R : r = bottom
  <2>1. top = bottom
    BY <1>7
  <2>2. W = {}
    <3> SUFFICES ASSUME NEW w \in W PROVE FALSE
      OBVIOUS
    <3>1. PICK p \in R, e \in R : p.stamp < e.stamp
      BY SessionsFollow
    <3>2. p = e
      BY <1>7
    <3> QED BY <1>5, <3>1, <3>2
  <2>3. SumFunctionOnSet(f, W) = 0
    BY <2>2, SumEmpty
  <2>4. g[top.stamp] - g[bottom.stamp] = 0
    BY <1>5, <2>1
  <2> QED BY <1>1, <1>3, <1>6, <2>3, <2>4
<1>8. CASE \E r \in R : r # bottom
  <2>1. PICK s \in Starts(R) : Earlier(R, Previous(R, s)) = {}
    BY <1>8, FirstSession
  <2>2. Previous(R, s) \in R
    BY PreviousFacts DEF Starts
  <2>3. Previous(R, s) = bottom
    BY <1>2, <1>3, <2>1, <2>2
  <2>4. PICK first \in W : first = SessionFrom(R, s)
    BY DEF Sessions
  <2>5. lo[first] = bottom.stamp
    BY <2>3, <2>4, SessionSays
  <2>6. ASSUME NEW w \in W
        PROVE  /\ lo[w] \in Int /\ hi[w] \in Int /\ lo[w] < hi[w] /\ hi[w] <= top.stamp
               /\ g[lo[w]] \in Int /\ g[hi[w]] \in Int
               /\ f[w] = g[hi[w]] - g[lo[w]]
               /\ lo[first] <= lo[w]
    <3>1. PICK p \in R, e \in R :
            /\ w.since = p.stamp /\ w.ended_at = e.stamp /\ p.stamp < e.stamp
            /\ w.heroes = DiffHeroes(p.data.heroes, e.data.heroes)
      BY SessionsFollow
    <3>2. f[w] = Value(e.data.heroes, sh, c) - Value(p.data.heroes, sh, c)
      BY <3>1, DiffHeroesAt
    <3>3. lo[w] = p.stamp /\ hi[w] = e.stamp
      BY <3>1
    <3>4. bottom.stamp <= p.stamp
      BY <1>3, <1>5 DEF Earlier
    <3> QED BY <1>1, <1>5, <2>5, <3>1, <3>2, <3>3, <3>4
  <2>7. \A v, w \in W : v = w \/ lo[v] >= hi[w] \/ lo[w] >= hi[v]
    BY SessionsFollow
  <2>8. \A w \in W : hi[w] = top.stamp \/ \E v \in W : lo[v] = hi[w]
    <3> SUFFICES ASSUME NEW w \in W PROVE hi[w] = top.stamp \/ \E v \in W : lo[v] = hi[w]
      OBVIOUS
    <3>1. CASE \A q \in R : q.stamp <= w.ended_at
      <4>1. top.stamp <= hi[w]
        BY <3>1
      <4> QED BY <1>5, <2>6, <4>1
    <3>2. CASE \E v \in W : v.since = w.ended_at
      BY <3>2
    <3> QED BY <3>1, <3>2, SessionsFollow
  <2>9. IsFiniteSet(W)
    BY SessionsFollow
  <2>10. top.stamp \in Int /\ g[top.stamp] \in Int
    BY <1>5
  <2>11. PICK last : last = top.stamp
    OBVIOUS
  <2> HIDE DEF W, lo, hi
  <2>12. Follow(W, lo, hi, last, g, f)
    BY <2>6, <2>7, <2>8, <2>10, <2>11 DEF Follow
  <2>13. \A w \in W : lo[first] <= lo[w]
    BY <2>6
  <2>14. SumFunctionOnSet(f, W) = g[last] - g[lo[first]]
    BY <2>9, <2>12, <2>13, Telescope
  <2> QED BY <1>1, <1>3, <1>6, <2>5, <2>11, <2>14 DEF W
<1> QED BY <1>7, <1>8

\* A session that is silent adds nothing.
LEMMA SumOfTheLoud ==
  ASSUME NEW f, NEW W, IsFiniteSet(W), NEW T \in SUBSET W,
         \A w \in W : f[w] \in Int, \A w \in W \ T : f[w] = 0
  PROVE  SumFunctionOnSet(f, T) = SumFunctionOnSet(f, W)
<1> DEFINE G == {U \in SUBSET W : SumFunctionOnSet(f, U \cap T) = SumFunctionOnSet(f, U)}
<1>1. ASSUME NEW U \in SUBSET W, \A V \in SUBSET U : V # U => V \in G
      PROVE  U \in G
  <2>1. CASE U \subseteq T
    <3>1. U \cap T = U
      BY <2>1
    <3> QED BY <3>1
  <2>2. CASE ~ (U \subseteq T)
    <3>1. PICK x \in U : x \notin T
      BY <2>2
    <3>2. U \ {x} \in G /\ (U \ {x}) \cap T = U \cap T
      BY <1>1, <3>1
    <3>3. IsFiniteSet(U) /\ IsFiniteSet(U \ {x})
      BY FS_Subset
    <3>4. SumFunctionOnSet(f, U) = f[x] + SumFunctionOnSet(f, U \ {x})
      BY <3>3, SumSplit
    <3>5. SumFunctionOnSet(f, U \ {x}) \in Int
      BY <3>3, SumInt
    <3>6. f[x] = 0
      BY <3>1
    <3>7. SumFunctionOnSet(f, U \ {x}) = SumFunctionOnSet(f, U)
      BY <3>4, <3>5, <3>6
    <3>8. SumFunctionOnSet(f, U \cap T) = SumFunctionOnSet(f, U \ {x})
      BY <3>2
    <3> QED BY <3>7, <3>8
  <2> QED BY <2>1, <2>2
<1> HIDE DEF G
<1>2. SUBSET W \subseteq G
  BY <1>1, SubsetInduction
<1>3. W \in G /\ W \cap T = T
  BY <1>2
<1> QED BY <1>3 DEF G

\* When fewer sessions are listed than asked for, all are listed that are not silent.
LEMMA AllListed ==
  ASSUME NEW R, Versions(R), NEW limit \in Nat,
         Cardinality(PlayerSessions(R, limit)) < limit
  PROVE  PlayerSessions(R, limit) = {w \in Sessions(R) : ~ Silent(w)}
<1> DEFINE S == {w \in Sessions(R) : ~ Silent(w)}
           After(w) == {t \in S : t.ended_at > w.ended_at}
           L == PlayerSessions(R, limit)
<1>1. L = {w \in S : Cardinality(After(w)) < limit}
  BY Zenon DEF PlayerSessions, Sessions
<1>2. S \in SUBSET Sessions(R) /\ L \in SUBSET S /\ IsFiniteSet(S) /\ IsFiniteSet(L)
      /\ IsFiniteSet(S \ L)
  <2>1. S \in SUBSET Sessions(R)
    OBVIOUS
  <2>2. L \in SUBSET S
    BY <1>1
  <2> HIDE DEF S, L
  <2>3. L \in SUBSET Sessions(R) /\ S \ L \in SUBSET Sessions(R)
    BY <2>1, <2>2
  <2> QED BY <2>1, <2>2, <2>3, SessionsFollow, FS_Subset
<1>3. \A w \in S : w.ended_at \in Int
  BY SessionsFollow DEF Versions
<1> HIDE DEF S, L
<1>4. ASSUME S # L PROVE FALSE
  <2> DEFINE key == [w \in S \ L |-> -w.ended_at]
  <2>1. S \ L # {}
    BY <1>2, <1>4
  <2>2. PICK w \in S \ L : \A t \in S \ L : key[w] <= key[t]
    <3>1. \A t \in S \ L : key[t] \in Int
      BY <1>3
    <3> HIDE DEF key
    <3> QED BY <1>2, <2>1, <3>1, LeastKey
  <2>3. \A t \in S \ L : t.ended_at <= w.ended_at
    BY <1>3, <2>2
  <2>4. After(w) \in SUBSET L
    BY <1>3, <2>3
  <2>5. IsFiniteSet(After(w)) /\ Cardinality(After(w)) <= Cardinality(L)
    BY <1>2, <2>4, FS_Subset
  <2>6. Cardinality(After(w)) \in Nat /\ Cardinality(L) \in Nat
    BY <1>2, <2>5, FS_CardinalityType
  <2>7. ~ (Cardinality(After(w)) < limit)
    BY <1>1
  <2> QED BY <2>5, <2>6, <2>7 DEF L
<1> QED BY <1>4 DEF S, L

-----------------------------------------------------------------------------
(* The series.  A reading is what a page or a row says of the games played *)
(* in each section, beside the games truly played.                         *)

Reading(p) == [stamp |-> p.stamp, general |-> Totals(p.career), played |-> p.played]
RowReading(r) == [stamp |-> r.stamp, general |-> r.data.general, played |-> r.played]

Current == Reading(page)
Held == {q \in Request : held[q] # None}
Readings == {Current} \cup {Reading(held[q]) : q \in Held} \cup {RowReading(r) : r \in series}

\* An older reading has no more stamps and games than the current page, and what the
\* totals gained since is no more than what was played.
Older(e) ==
  /\ General(e.general) /\ e.played \in Nat /\ e.stamp \in 0..page.stamp
  /\ Gained(e.general, Totals(page.career)) <= page.played - e.played

ReadingsInv ==
  /\ \A e \in Readings : Older(e)
  /\ \A a, b \in Readings : a.stamp < b.stamp => Gained(a.general, b.general) <= b.played - a.played
  \* Within a season no section goes, and totals only grow.
  /\ seasons = 0 => /\ \A e \in Readings : DOMAIN e.general \subseteq DOMAIN page.career
                     /\ \A a, b \in Readings : a.stamp <= b.stamp => Within(a.general, b.general)

SeriesIInv ==
  /\ now \in 0..MaxNow /\ seasons \in {0, 1}
  /\ page = [stamp |-> page.stamp, career |-> page.career, rank |-> page.rank,
             private |-> page.private, played |-> page.played]
  /\ page.stamp \in 0..now /\ page.played \in Nat /\ Career(page.career)
  /\ DOMAIN held = Request
  /\ \A q \in Held : held[q].stamp <= page.stamp
  /\ \A r, s \in series : r.stamp = s.stamp => r = s
  /\ ReadingsInv

\* What keeps the readings: a new page that is the old one, or gained since every
\* reading no more than was played since.
LEMMA ReadingsStep ==
  ASSUME SeriesIInv, Readings' \subseteq Readings \cup {Current'},
         General(Totals(page'.career)), page'.played \in Nat, page'.stamp \in Nat,
         page.stamp <= page'.stamp,
         \A e \in Readings :
           Gained(e.general, Totals(page'.career)) <= page'.played - e.played,
         seasons' = 0 => /\ seasons = 0 /\ DOMAIN page.career \subseteq DOMAIN page'.career
                         /\ Current' = Current \/ page.stamp < page'.stamp
                         /\ \A e \in Readings : Within(e.general, Totals(page'.career))
  PROVE  ReadingsInv'
<1> USE DEF SeriesIInv, ReadingsInv
<1>1. /\ Current'.stamp = page'.stamp /\ Current'.played = page'.played
      /\ Current'.general = Totals(page'.career)
  BY DEF Current, Reading
<1>2. PICK g : g = Totals(page'.career)
  OBVIOUS
<1>3. PICK stamp \in Nat, played \in Nat : stamp = page'.stamp /\ played = page'.played
  OBVIOUS
<1>4. Gained(g, g) = 0 /\ Within(g, g)
  BY <1>2, GainedFromItself
<1>5. ASSUME NEW e \in Readings
      PROVE  /\ General(e.general) /\ e.played \in Nat /\ e.stamp \in 0..stamp
             /\ Gained(e.general, g) <= played - e.played
             /\ e.stamp \in 0..page.stamp
  BY <1>2, <1>3 DEF Older
<1>6. ASSUME NEW e \in Readings' PROVE Older(e)'
  <2>1. CASE e \in Readings
    BY <1>2, <1>3, <1>5, <2>1 DEF Older
  <2>2. CASE e = Current'
    <3>1. Gained(e.general, g) <= played - e.played
      BY <1>1, <1>2, <1>3, <1>4, <2>2
    <3>2. General(e.general) /\ e.played \in Nat /\ e.stamp \in 0..stamp
      BY <1>1, <1>2, <1>3, <2>2
    <3> QED BY <1>2, <1>3, <3>1, <3>2 DEF Older
  <2> QED BY <2>1, <2>2
<1>7. ASSUME NEW a \in Readings', NEW b \in Readings', a.stamp < b.stamp
      PROVE  Gained(a.general, b.general) <= b.played - a.played
  <2>1. CASE a \in Readings /\ b \in Readings
    BY <1>7, <2>1
  <2>2. CASE a \in Readings /\ b = Current'
    <3>1. Gained(a.general, g) <= played - a.played
      BY <1>5, <2>2
    <3> QED BY <1>1, <1>2, <1>3, <2>2, <3>1
  <2>3. CASE a = Current'
    <3>1. a.stamp = stamp
      BY <1>1, <1>3, <2>3
    <3>2. b.stamp <= stamp
      BY <1>1, <1>3, <1>5
    <3>3. b.stamp \in Nat
      BY <1>1, <1>3, <1>5
    <3> QED BY <1>7, <3>1, <3>2, <3>3
  <2> QED BY <2>1, <2>2, <2>3
<1>8. ASSUME seasons' = 0, NEW a \in Readings', NEW b \in Readings', a.stamp <= b.stamp
      PROVE  Within(a.general, b.general)
  <2>1. CASE a \in Readings /\ b \in Readings
    BY <1>8, <2>1
  <2>2. CASE a \in Readings /\ b = Current'
    BY <1>1, <1>8, <2>2
  <2>3. CASE a = Current' /\ b = Current'
    BY <1>1, <1>2, <1>4, <2>3
  <2>4. CASE a = Current' /\ b \in Readings
    <3>1. CASE Current' = Current
      <4>1. Current \in Readings
        BY DEF Readings
      <4> QED BY <1>8, <2>4, <3>1, <4>1
    <3>2. CASE page.stamp < page'.stamp
      <4>1. a.stamp = stamp /\ page.stamp < stamp
        BY <1>1, <1>3, <2>4, <3>2
      <4>2. b.stamp \in 0..page.stamp
        BY <1>5, <2>4
      <4>3. page.stamp \in Nat
        OBVIOUS
      <4> QED BY <1>8, <4>1, <4>2, <4>3
    <3> QED BY <1>8, <3>1, <3>2
  <2> QED BY <2>1, <2>2, <2>3, <2>4
<1>9. ASSUME seasons' = 0, NEW e \in Readings'
      PROVE  DOMAIN e.general \subseteq DOMAIN page'.career
  <2>1. CASE e \in Readings
    BY <1>9, <2>1
  <2>2. CASE e = Current'
    BY <1>1, <2>2 DEF Totals
  <2> QED BY <2>1, <2>2
<1> QED BY <1>6, <1>7, <1>8, <1>9

\* A step that leaves the page and the season alone keeps the readings if it makes none
\* up.
LEMMA SameReadings ==
  ASSUME SeriesIInv, UNCHANGED <<page, seasons>>, Readings' \subseteq Readings
  PROVE  ReadingsInv'
<1>1. Current \in Readings /\ Current' = Current
  BY DEF Readings, Current, Reading
<1>2. General(Totals(page.career))
  BY TotalsFacts DEF SeriesIInv
<1>3. \A e \in Readings : Gained(e.general, Totals(page.career)) <= page.played - e.played
  BY DEF SeriesIInv, ReadingsInv, Older
<1>4. seasons = 0 => \A e \in Readings : Within(e.general, Totals(page.career))
  <2>1. /\ Current.general = Totals(page.career) /\ Current.stamp = page.stamp
        /\ page.stamp \in Nat
    BY DEF Current, Reading, SeriesIInv
  <2>2. \A e \in Readings : e.stamp <= page.stamp
    BY <2>1 DEF SeriesIInv, ReadingsInv, Older
  <2> QED BY <1>1, <2>1, <2>2 DEF SeriesIInv, ReadingsInv
<1>5. page.stamp <= page.stamp /\ page.stamp \in Nat /\ page.played \in Nat
  BY DEF SeriesIInv
<1> QED BY <1>1, <1>2, <1>3, <1>4, <1>5, ReadingsStep

\* The initial states.
LEMMA SeriesInitial == HistoryInit => SeriesIInv
<1> SUFFICES ASSUME HistoryInit PROVE SeriesIInv
  OBVIOUS
<1>1. PICK career : career = [quickplay |-> [ana |-> Opening]]
  OBVIOUS
<1>2. page = [stamp |-> 0, career |-> career, rank |-> None, private |-> FALSE, played |-> 0]
  BY <1>1 DEF HistoryInit
<1>3. Career(career)
  <2>1. DOMAIN career = {"quickplay"} /\ DOMAIN career["quickplay"] = {"ana"}
        /\ career["quickplay"]["ana"] = Opening
    BY <1>1
  <2>2. \A k \in GamesKeys : k \in DOMAIN Opening /\ Opening[k] \in Nat
    BY DEF GamesKeys, Opening
  <2>3. IsFiniteSet({"quickplay"}) /\ IsFiniteSet({"ana"})
    BY FS_Singleton
  <2>4. IsFiniteSet(DOMAIN career)
    BY <2>1, <2>3
  <2>5. ASSUME NEW s \in DOMAIN career
        PROVE  /\ IsFiniteSet(DOMAIN career[s])
               /\ \A h \in DOMAIN career[s] : \A k \in GamesKeys :
                    k \in DOMAIN career[s][h] /\ career[s][h][k] \in Nat
    <3>1. s = "quickplay"
      BY <2>1
    <3>2. IsFiniteSet(DOMAIN career[s])
      BY <2>1, <2>3, <3>1
    <3>3. \A h \in DOMAIN career[s] : career[s][h] = Opening
      BY <2>1, <3>1
    <3> QED BY <2>2, <3>2, <3>3
  <2> QED BY <2>4, <2>5 DEF Career
<1>4. General(Totals(career))
  BY <1>3, TotalsFacts
<1>5. General(NoCareer) /\ DOMAIN NoCareer = {}
  <2>1. DOMAIN NoCareer = {}
    BY DEF NoCareer
  <2> QED BY <2>1, FS_EmptySet DEF General
<1>6. ASSUME NEW r \in series
      PROVE  r.stamp = 0 /\ r.played = 0 /\ r.data.general = NoCareer
  <2>1. r = Row(page, [Payload(page) EXCEPT !.general = NoCareer])
    BY DEF HistoryInit
  <2>2. [Payload(page) EXCEPT !.general = NoCareer].general = NoCareer
    BY DEF Payload
  <2> QED BY <1>2, <2>1, <2>2 DEF Row
<1>7. \A r, s \in series : r = s
  BY DEF HistoryInit
<1>8. Held = {}
  BY DEF Held, HistoryInit
<1>9. ASSUME NEW e \in Readings
      PROVE  e.stamp = 0 /\ e.played = 0 /\ e.general \in {Totals(career), NoCareer}
  <2>1. CASE e = Current
    BY <1>2, <2>1 DEF Current, Reading
  <2>2. CASE e \in {RowReading(r) : r \in series}
    BY <1>6, <2>2 DEF RowReading
  <2> QED BY <1>8, <2>1, <2>2 DEF Readings
<1>10. ASSUME NEW g \in {Totals(career), NoCareer}, NEW h \in {Totals(career), NoCareer}
       PROVE  General(g) /\ Within(g, h) /\ Gained(g, h) = 0
  <2>1. Within(g, h) /\ Within(h, g)
    <3>1. CASE g = h
      BY <1>4, <1>5, <3>1, GainedFromItself
    <3>2. CASE g # h
      BY <1>5, <3>2 DEF Within
    <3> QED BY <3>1, <3>2
  <2> QED BY <1>4, <1>5, <2>1, GainedNothing
<1>11. ReadingsInv
  <2>1. page.stamp = 0 /\ page.played = 0 /\ page.career = career
    BY <1>2
  <2>2. \A e \in Readings : Older(e)
    BY <1>9, <1>10, <2>1 DEF Older
  <2>3. \A a, b \in Readings : a.stamp = b.stamp /\ Within(a.general, b.general)
    BY <1>9, <1>10
  <2>4. \A a, b \in Readings : ~ (a.stamp < b.stamp)
    BY <1>9
  <2>5. \A e \in Readings : DOMAIN e.general \subseteq DOMAIN page.career
    <3>1. DOMAIN Totals(career) = DOMAIN career
      BY DEF Totals
    <3> QED BY <1>5, <1>9, <2>1, <3>1
  <2> QED BY <2>2, <2>3, <2>4, <2>5 DEF ReadingsInv
<1>12. /\ now = 0 /\ seasons = 0 /\ DOMAIN held = Request
  BY DEF HistoryInit
<1>13. /\ page = [stamp |-> page.stamp, career |-> page.career, rank |-> page.rank,
                 private |-> page.private, played |-> page.played]
       /\ page.stamp \in 0..now /\ page.played \in Nat /\ Career(page.career)
  BY <1>2, <1>3, <1>12
<1> QED BY <1>7, <1>8, <1>11, <1>12, <1>13, SeriesAssumption DEF SeriesIInv

-----------------------------------------------------------------------------
(* The steps of the series *)

\* Time passes, a page is fetched or rows go: nothing is said that was not said before.
LEMMA QuietStep ==
  ASSUME SeriesIInv, UNCHANGED <<page, seasons>>, now' \in now..MaxNow,
         DOMAIN held' = Request, \A q \in Held' : held'[q].stamp <= page.stamp,
         \A r, s \in series' : r.stamp = s.stamp => r = s,
         Readings' \subseteq Readings
  PROVE  SeriesIInv'
<1>1. ReadingsInv'
  BY SameReadings
<1>2. page.stamp \in 0..now'
  BY SeriesAssumption DEF SeriesIInv
<1> QED BY <1>1, <1>2, SeriesAssumption DEF SeriesIInv

\* The clock.
LEMMA TickStep ==
  ASSUME SeriesIInv, Tick
  PROVE  SeriesIInv'
<1>1. UNCHANGED <<page, series, held, seasons>> /\ now' = now + 1 /\ now < MaxNow
  BY DEF Tick
<1>2. now' \in now..MaxNow
  BY <1>1, SeriesAssumption DEF SeriesIInv
<1>3. Readings' = Readings /\ Held' = Held
  BY <1>1 DEF Readings, Current, Held
<1> QED BY <1>1, <1>2, <1>3, QuietStep DEF SeriesIInv

\* A request holds the page of its moment.
LEMMA FetchStep ==
  ASSUME SeriesIInv, NEW q \in Request, Fetch(q)
  PROVE  SeriesIInv'
<1>1. UNCHANGED <<now, page, series, seasons>> /\ held' = [held EXCEPT ![q] = page]
  BY DEF Fetch
<1>2. /\ DOMAIN held' = Request /\ held'[q] = page
      /\ \A p \in Request \ {q} : held'[p] = held[p]
  BY <1>1 DEF SeriesIInv
<1>3. \A p \in Held' : p = q \/ (p \in Held /\ held'[p] = held[p])
  BY <1>2 DEF Held
<1>4. \A p \in Held' : held'[p].stamp <= page.stamp
  BY <1>2, <1>3 DEF SeriesIInv
<1>5. \A p \in Held' : Reading(held'[p]) \in Readings
  BY <1>2, <1>3 DEF Readings, Current
<1>6. Readings' \subseteq Readings
  BY <1>1, <1>5 DEF Readings, Current
<1>7. now' \in now..MaxNow
  BY <1>1, SeriesAssumption DEF SeriesIInv
<1> QED BY <1>1, <1>2, <1>4, <1>6, <1>7, QuietStep DEF SeriesIInv

\* What is recorded is what was fetched, and a version is recorded once.
LEMMA RecordStep ==
  ASSUME SeriesIInv, NEW q \in Request, Record(q)
  PROVE  SeriesIInv'
<1>1. /\ UNCHANGED <<now, page, seasons>> /\ held[q] # None
      /\ held' = [held EXCEPT ![q] = None] /\ series' \in {series, WithRow(held[q])}
  BY DEF Record
<1>2. /\ DOMAIN held' = Request
      /\ \A p \in Held' : p \in Held /\ held'[p] = held[p]
  BY <1>1 DEF SeriesIInv, Held
<1>3. q \in Held
  BY <1>1 DEF Held
<1>4. PICK row : row = Row(held[q], Payload(held[q]))
  OBVIOUS
<1>5. row.stamp = held[q].stamp /\ RowReading(row) = Reading(held[q])
  BY <1>4 DEF Row, Payload, RowReading, Reading
<1>6. \/ series' = series
      \/ series' = series \cup {row} /\ \A r \in series : r.stamp # row.stamp
  BY <1>1, <1>4, <1>5 DEF WithRow
<1>7. \A r, s \in series' : r.stamp = s.stamp => r = s
  BY <1>6 DEF SeriesIInv
<1>8. \A r \in series' : RowReading(r) \in Readings
  BY <1>3, <1>5, <1>6 DEF Readings
<1>9. Readings' \subseteq Readings
  BY <1>1, <1>2, <1>8 DEF Readings, Current
<1>10. now' \in now..MaxNow
  BY <1>1, SeriesAssumption DEF SeriesIInv
<1>11. \A p \in Held' : held'[p].stamp <= page.stamp
  BY <1>2 DEF SeriesIInv
<1> QED BY <1>1, <1>2, <1>7, <1>9, <1>10, <1>11, QuietStep

\* Retention only deletes.
LEMMA RetainStep ==
  ASSUME SeriesIInv, Retain
  PROVE  SeriesIInv'
<1>1. UNCHANGED <<now, page, held, seasons>> /\ series' \subseteq series
  BY DEF Retain
<1>2. Held' = Held
  BY <1>1 DEF Held
<1>3. Readings' \subseteq Readings
  BY <1>1, <1>2 DEF Readings, Current
<1>4. now' \in now..MaxNow
  BY <1>1, SeriesAssumption DEF SeriesIInv
<1> QED BY <1>1, <1>2, <1>3, <1>4, QuietStep DEF SeriesIInv

\* Blizzard's page changes.
LEMMA PageStep ==
  ASSUME SeriesIInv, UNCHANGED <<now, series, held>>, seasons' \in {seasons, 1},
         page' = [stamp |-> page'.stamp, career |-> page'.career, rank |-> page'.rank,
                  private |-> page'.private, played |-> page'.played],
         page'.stamp \in 0..now, page.stamp <= page'.stamp, page'.played \in Nat,
         Career(page'.career),
         \A e \in Readings :
           Gained(e.general, Totals(page'.career)) <= page'.played - e.played,
         seasons' = 0 => /\ page.stamp < page'.stamp
                         /\ DOMAIN page.career \subseteq DOMAIN page'.career
                         /\ \A e \in Readings : Within(e.general, Totals(page'.career))
  PROVE  SeriesIInv'
<1>1. Held' = Held
  BY DEF Held
<1>2. Readings' \subseteq Readings \cup {Current'}
  BY <1>1 DEF Readings
<1>3. General(Totals(page'.career))
  BY TotalsFacts
<1>4. seasons' = 0 => seasons = 0
  BY DEF SeriesIInv
<1>5. ReadingsInv'
  BY <1>2, <1>3, <1>4, ReadingsStep
<1>6. \A q \in Held : held[q].stamp <= page'.stamp
  <2> SUFFICES ASSUME NEW q \in Held PROVE held[q].stamp <= page'.stamp
    OBVIOUS
  <2>1. Reading(held[q]) \in Readings
    BY DEF Readings
  <2>2. held[q].stamp \in 0..page.stamp
    BY <2>1 DEF SeriesIInv, ReadingsInv, Older, Reading
  <2> QED BY <2>2 DEF SeriesIInv
<1>7. now' = now /\ seasons' \in {0, 1}
  BY DEF SeriesIInv
<1> QED BY <1>1, <1>5, <1>6, <1>7 DEF SeriesIInv

\* What a page says is within what the readings allow.
LEMMA ReadingsOfThePage ==
  ASSUME SeriesIInv
  PROVE  /\ General(Totals(page.career))
         /\ \A e \in Readings : /\ General(e.general) /\ e.played \in Nat
                                /\ Gained(e.general, Totals(page.career)) \in Nat
                                /\ Gained(e.general, Totals(page.career)) <= page.played - e.played
         /\ seasons = 0 => \A e \in Readings : /\ DOMAIN e.general \subseteq DOMAIN page.career
                                               /\ Within(e.general, Totals(page.career))
<1>1. General(Totals(page.career))
  BY TotalsFacts DEF SeriesIInv
<1>2. \A e \in Readings : /\ General(e.general) /\ e.played \in Nat /\ e.stamp <= page.stamp
                          /\ Gained(e.general, Totals(page.career)) <= page.played - e.played
  BY DEF SeriesIInv, ReadingsInv, Older
<1>3. \A e \in Readings : Gained(e.general, Totals(page.career)) \in Nat
  BY <1>1, <1>2, GainedNat
<1>4. /\ Current \in Readings /\ Current.general = Totals(page.career)
      /\ Current.stamp = page.stamp
  BY DEF Readings, Current, Reading
<1> QED BY <1>1, <1>2, <1>3, <1>4 DEF SeriesIInv, ReadingsInv

\* A new version of the page, of the same games.
LEMMA ChangePrivacyStep ==
  ASSUME SeriesIInv, ChangePrivacy
  PROVE  SeriesIInv'
<1>1. /\ UNCHANGED <<now, series, held, seasons>> /\ page.stamp < now
      /\ page' = [page EXCEPT !.private = ~@, !.stamp = now]
  BY DEF ChangePrivacy
<1>2. /\ page'.stamp = now /\ page'.career = page.career /\ page'.played = page.played
      /\ page' = [stamp |-> page'.stamp, career |-> page'.career, rank |-> page'.rank,
                  private |-> page'.private, played |-> page'.played]
  BY <1>1 DEF SeriesIInv
<1>3. now \in Nat /\ page.stamp \in Nat /\ page.played \in Nat /\ Career(page.career)
  BY DEF SeriesIInv
<1> QED BY <1>1, <1>2, <1>3, ReadingsOfThePage, PageStep

\* A new season: what is gone from the page takes its games with it.
LEMMA NewSeasonStep ==
  ASSUME SeriesIInv, NewSeason
  PROVE  SeriesIInv'
<1>1. /\ UNCHANGED <<now, series, held>> /\ seasons' = 1
      /\ page' = [page EXCEPT !.rank = None,
                    !.career = [s \in DOMAIN @ \ {"competitive"} |-> page.career[s]]]
  BY DEF NewSeason
<1>2. PICK career : career = [s \in DOMAIN page.career \ {"competitive"} |-> page.career[s]]
  OBVIOUS
<1>3. /\ page'.stamp = page.stamp /\ page'.career = career /\ page'.played = page.played
      /\ page' = [stamp |-> page'.stamp, career |-> page'.career, rank |-> page'.rank,
                  private |-> page'.private, played |-> page'.played]
  BY <1>1, <1>2 DEF SeriesIInv
<1>4. /\ page.stamp \in 0..now /\ page.stamp \in Nat /\ now \in Nat /\ page.played \in Nat
      /\ Career(page.career)
  BY DEF SeriesIInv
<1>5. DOMAIN career \subseteq DOMAIN page.career /\ \A s \in DOMAIN career : career[s] = page.career[s]
  BY <1>2
<1>6. Career(career)
  <2>1. IsFiniteSet(DOMAIN career)
    BY <1>4, <1>5, FS_Subset DEF Career
  <2> QED BY <1>4, <1>5, <2>1 DEF Career
<1>7. /\ General(Totals(career)) /\ General(Totals(page.career))
      /\ DOMAIN Totals(career) \subseteq DOMAIN Totals(page.career)
  BY <1>4, <1>5, <1>6, TotalsFacts
<1>8. \A s \in DOMAIN Totals(career) : Totals(career)[s] = Totals(page.career)[s]
  <2> SUFFICES ASSUME NEW s \in DOMAIN Totals(career)
               PROVE  Totals(career)[s] = Totals(page.career)[s]
    OBVIOUS
  <2>1. s \in DOMAIN career /\ s \in DOMAIN page.career /\ career[s] = page.career[s]
    BY <1>5, <1>6, TotalsFacts
  <2> QED BY <2>1, Zenon DEF Totals
<1>9. ASSUME NEW e \in Readings
      PROVE  Gained(e.general, Totals(career)) <= page.played - e.played
  <2>1. General(e.general) /\ e.played \in Nat
    BY ReadingsOfThePage
  <2>2. Gained(e.general, Totals(career)) <= Gained(e.general, Totals(page.career))
    BY <1>7, <1>8, <2>1, GainedOfFewer
  <2>3. PICK n \in Nat, m \in Nat :
          n = Gained(e.general, Totals(career)) /\ m = Gained(e.general, Totals(page.career))
    BY <1>7, <2>1, GainedNat
  <2>4. n <= m /\ m <= page.played - e.played
    BY <2>2, <2>3, ReadingsOfThePage
  <2> QED BY <1>4, <2>1, <2>3, <2>4
<1>10. \A e \in Readings : Gained(e.general, Totals(page'.career)) <= page'.played - e.played
  BY <1>3, <1>9
<1> QED BY <1>1, <1>3, <1>4, <1>6, <1>10, PageStep

\* A game: its section has one game more, and one game more was played.
LEMMA PlayStep ==
  ASSUME SeriesIInv, NEW game, Play(game)
  PROVE  SeriesIInv'
<1>1. PICK heroes : heroes = At(page.career, game.section, <<>>)
  OBVIOUS
<1>2. PICK counters : counters = Played(At(heroes, game.hero, <<>>), game.won)
  OBVIOUS
<1>3. PICK career : career = Put(page.career, game.section, Put(heroes, game.hero, counters))
  OBVIOUS
<1>4. /\ UNCHANGED <<now, series, held, seasons>> /\ page.stamp < now
      /\ page' = [page EXCEPT !.stamp = now, !.played = @ + 1, !.career = career,
                              !.rank = RankAfter(game.section, game.won)]
  BY <1>1, <1>2, <1>3 DEF Play
<1>5. /\ page'.stamp = now /\ page'.career = career /\ page'.played = page.played + 1
      /\ page' = [stamp |-> page'.stamp, career |-> page'.career, rank |-> page'.rank,
                  private |-> page'.private, played |-> page'.played]
  BY <1>4 DEF SeriesIInv
<1>6. now \in Nat /\ page.stamp \in Nat /\ page.played \in Nat /\ Career(page.career)
  BY DEF SeriesIInv
<1> DEFINE x == game.section
           old == Totals(page.career)
           new == Totals(career)
<1>7. /\ Career(career)
      /\ DOMAIN new = DOMAIN page.career \cup {x}
      /\ \A s \in DOMAIN page.career \ {x} : new[s] = old[s]
      /\ new[x]["games_played"] <= 1 + IF x \in DOMAIN page.career THEN old[x]["games_played"] ELSE 0
      /\ Within(old, new)
  <2> PICK section, hero, won : section = game.section /\ hero = game.hero /\ won = game.won
    OBVIOUS
  <2>1. /\ heroes = At(page.career, section, <<>>)
        /\ counters = Played(At(heroes, hero, <<>>), won)
        /\ career = Put(page.career, section, Put(heroes, hero, counters))
    BY <1>1, <1>2, <1>3
  <2>2. /\ Career(career)
        /\ DOMAIN new = DOMAIN page.career \cup {section}
        /\ \A s \in DOMAIN page.career \ {section} : new[s] = old[s]
        /\ new[section]["games_played"]
             <= 1 + IF section \in DOMAIN page.career THEN old[section]["games_played"] ELSE 0
        /\ Within(old, new)
    <3>1. PICK before : before = page.career
      OBVIOUS
    <3>2. Career(before)
      BY <1>6, <3>1
    <3>3. heroes = At(before, section, <<>>)
      BY <2>1, <3>1
    <3>4. career = Put(before, section, Put(heroes, hero, counters))
      BY <2>1, <3>1
    <3>5. /\ Career(career)
          /\ \A s \in DOMAIN before \ {section} : Totals(career)[s] = Totals(before)[s]
          /\ Totals(career)[section]["games_played"]
               <= 1 + IF section \in DOMAIN before THEN Totals(before)[section]["games_played"] ELSE 0
          /\ Within(Totals(before), Totals(career))
      BY <2>1, <3>2, <3>3, <3>4, GamesPlayed
    <3>6. DOMAIN new = DOMAIN page.career \cup {section}
      BY <3>1, <3>4 DEF Put, Totals
    <3> QED BY <3>1, <3>5, <3>6
  <2> QED BY <2>2
<1>8. /\ DOMAIN old = DOMAIN page.career /\ General(old) /\ General(new)
      /\ DOMAIN new = DOMAIN old \cup {x}
      /\ \A s \in DOMAIN old \ {x} : new[s] = old[s]
      /\ new[x]["games_played"] <= 1 + IF x \in DOMAIN old THEN old[x]["games_played"] ELSE 0
  <2>1. DOMAIN old = DOMAIN page.career /\ General(old) /\ General(new)
    BY <1>6, <1>7, TotalsFacts
  <2> HIDE DEF old, new, x
  <2> QED BY <1>7, <2>1
<1>9. ASSUME NEW e \in Readings
      PROVE  /\ Gained(e.general, new) <= (page.played + 1) - e.played
             /\ seasons = 0 => Within(e.general, new)
  <2>1. General(e.general) /\ e.played \in Nat
    BY ReadingsOfThePage
  <2>2. Gained(e.general, new) <= Gained(e.general, old) + 1
    <3> HIDE DEF old, new, x
    <3> QED BY <1>8, <2>1, GainedOfOneMore
  <2>3. PICK n \in Nat, m \in Nat : n = Gained(e.general, new) /\ m = Gained(e.general, old)
    BY <1>8, <2>1, GainedNat
  <2>4. n <= m + 1 /\ m <= page.played - e.played
    BY <2>2, <2>3, ReadingsOfThePage
  <2>5. n <= (page.played + 1) - e.played
    BY <1>6, <2>1, <2>3, <2>4
  <2>6. ASSUME seasons = 0 PROVE Within(e.general, new)
    <3>1. Within(e.general, old)
      BY <2>6, ReadingsOfThePage
    <3>2. DOMAIN e.general \subseteq DOMAIN old
      BY <1>8, <2>6, ReadingsOfThePage
    <3>3. ASSUME NEW s \in DOMAIN e.general \cap DOMAIN new
          PROVE  e.general[s]["games_played"] <= new[s]["games_played"]
      <4>1. s \in DOMAIN old
        BY <3>2
      <4>2. PICK a \in Nat, b \in Nat, c \in Nat :
              /\ a = e.general[s]["games_played"] /\ b = old[s]["games_played"]
              /\ c = new[s]["games_played"]
        BY <1>8, <2>1, <3>3, <4>1 DEF General, GamesKeys
      <4>3. a <= b /\ b <= c
        BY <1>7, <3>1, <3>3, <4>1, <4>2 DEF Within
      <4> QED BY <4>2, <4>3
    <3> QED BY <3>3 DEF Within
  <2> QED BY <2>3, <2>5, <2>6
<1>10. DOMAIN page.career \subseteq DOMAIN career
  BY <1>7 DEF Totals
<1> HIDE DEF old
<1>11. /\ \A e \in Readings : Gained(e.general, Totals(page'.career)) <= page'.played - e.played
       /\ seasons' = 0 => \A e \in Readings : Within(e.general, Totals(page'.career))
  BY <1>4, <1>5, <1>9
<1> QED BY <1>4, <1>5, <1>6, <1>7, <1>10, <1>11, PageStep

\* Every step keeps the series right.
LEMMA SeriesNext ==
  ASSUME SeriesIInv, [Next]_vars
  PROVE  SeriesIInv'
<1>1. ASSUME UNCHANGED historyVars PROVE SeriesIInv'
  <2>1. UNCHANGED <<now, page, series, held, seasons>>
    BY <1>1 DEF historyVars
  <2>2. Held' = Held /\ Readings' = Readings
    BY <2>1 DEF Held, Readings, Current
  <2>3. now' \in now..MaxNow
    BY <2>1, SeriesAssumption DEF SeriesIInv
  <2> QED BY <2>1, <2>2, <2>3, QuietStep DEF SeriesIInv
<1>2. CASE HistoryNext
  BY <1>2, TickStep, NewSeasonStep, ChangePrivacyStep, RetainStep, PlayStep, FetchStep,
     RecordStep DEF HistoryNext
<1>3. CASE WatchedNext
  <2>1. PICK q \in Request : q = CHOOSE p \in Request : TRUE
    BY SeriesAssumption
  <2>2. Tick \/ (\E game : Play(game)) \/ Fetch(q) \/ Record(q)
    BY <1>3, <2>1 DEF WatchedNext
  <2> QED BY <2>2, TickStep, PlayStep, FetchStep, RecordStep
<1> QED BY <1>1, <1>2, <1>3 DEF Next, vars

-----------------------------------------------------------------------------
(* What the sessions rest on: within a season the counters of a hero only  *)
(* grow, and no section is won more often than it is played.               *)

Version(p) == [stamp |-> p.stamp, data |-> Payload(p)]
RowVersion(r) == [stamp |-> r.stamp, data |-> r.data]
Recorded ==
  {Version(page)} \cup {Version(held[q]) : q \in Held} \cup {RowVersion(r) : r \in series}

Typed(d) == Counted(d.heroes) /\ General(d.general)

Grows(a, b) ==
  /\ \A sh : \A c \in Counters : Value(a.heroes, sh, c) <= Value(b.heroes, sh, c)
  /\ \A s \in DOMAIN a.general \cap DOMAIN b.general :
       b.general[s]["games_won"] - a.general[s]["games_won"]
         <= b.general[s]["games_played"] - a.general[s]["games_played"]

GrowthInv ==
  /\ IsFiniteSet(series)
  /\ \A e \in Recorded : Typed(e.data)
  /\ seasons = 0 =>
       /\ \A e \in Recorded : /\ Grows(e.data, Payload(page))
                              /\ DOMAIN e.data.general \subseteq DOMAIN page.career
       /\ \A a, b \in Recorded : a.stamp < b.stamp => Grows(a.data, b.data)

\* A payload says what the career says.
LEMMA PayloadFacts ==
  ASSUME NEW p, Career(p.career)
  PROVE  /\ Typed(Payload(p)) /\ Payload(p).general = Totals(p.career)
         /\ DOMAIN Payload(p).general = DOMAIN p.career
         /\ \A sh : \A c \in Counters : Value(Payload(p).heroes, sh, c) = Value(p.career, sh, c)
<1>1. PICK c : c = p.career
  OBVIOUS
<1>2. PICK t : t = [s \in DOMAIN c |-> [h \in DOMAIN c[s] |-> [k \in Counters |-> c[s][h][k]]]]
  OBVIOUS
<1>3. Payload(p).heroes = t /\ Payload(p).general = Totals(c)
  BY <1>1, <1>2 DEF Payload
<1>4. General(Totals(c)) /\ DOMAIN Totals(c) = DOMAIN c
  BY <1>1, TotalsFacts
<1>5. Counters \subseteq GamesKeys
  BY DEF Counters, GamesKeys
<1>6. ASSUME NEW sh, NEW k \in Counters
      PROVE  Value(t, sh, k) = Value(c, sh, k) /\ Value(c, sh, k) \in Int
  <2>1. CASE sh \in Pairs(c)
    <3>0. PICK s \in DOMAIN c : \E h \in DOMAIN c[s] : sh = <<s, h>>
      BY <2>1 DEF Pairs
    <3>1. PICK h \in DOMAIN c[s] : sh = <<s, h>>
      BY <3>0
    <3>2. s \in DOMAIN t /\ h \in DOMAIN t[s] /\ t[s][h] = [l \in Counters |-> c[s][h][l]]
      BY <1>2
    <3>3. sh \in Pairs(t)
      BY <3>1, <3>2 DEF Pairs
    <3>4. c[s][h][k] \in Nat /\ k \in DOMAIN c[s][h]
      BY <1>1, <1>5 DEF Career
    <3>5. Value(c, sh, k) = c[s][h][k]
      BY <2>1, <3>1, <3>4 DEF Value, AtPair, At
    <3>6. Value(t, sh, k) = t[s][h][k]
      BY <3>1, <3>2, <3>3 DEF Value, AtPair, At
    <3> QED BY <3>2, <3>4, <3>5, <3>6
  <2>2. CASE sh \notin Pairs(c)
    <3>1. sh \notin Pairs(t)
      BY <1>2, <2>2 DEF Pairs
    <3> QED BY <2>2, <3>1 DEF Value, AtPair, At
  <2> QED BY <2>1, <2>2
<1>7. Counted(t)
  BY <1>6 DEF Counted
<1> QED BY <1>1, <1>3, <1>4, <1>6, <1>7 DEF Typed

\* Growth is growth of what has grown.
LEMMA GrowsOn ==
  ASSUME NEW a, NEW b, NEW c, Typed(a), Typed(b), Typed(c), Grows(a, b), Grows(b, c),
         DOMAIN a.general \subseteq DOMAIN b.general
  PROVE  Grows(a, c)
<1>1. ASSUME NEW sh, NEW k \in Counters
      PROVE  Value(a.heroes, sh, k) <= Value(c.heroes, sh, k)
  <2>1. PICK l \in Int, m \in Int, n \in Int :
          /\ l = Value(a.heroes, sh, k) /\ m = Value(b.heroes, sh, k)
          /\ n = Value(c.heroes, sh, k)
    BY DEF Typed, Counted
  <2>2. l <= m /\ m <= n
    BY <2>1 DEF Grows
  <2> QED BY <2>1, <2>2
<1>2. ASSUME NEW s \in DOMAIN a.general \cap DOMAIN c.general
      PROVE  c.general[s]["games_won"] - a.general[s]["games_won"]
               <= c.general[s]["games_played"] - a.general[s]["games_played"]
  <2>1. s \in DOMAIN b.general
    OBVIOUS
  <2>2. "games_won" \in GamesKeys /\ "games_played" \in GamesKeys
    BY DEF GamesKeys
  <2>3. PICK aw \in Nat, ap \in Nat, bw \in Nat, bp \in Nat, cw \in Nat, cp \in Nat :
          /\ aw = a.general[s]["games_won"] /\ ap = a.general[s]["games_played"]
          /\ bw = b.general[s]["games_won"] /\ bp = b.general[s]["games_played"]
          /\ cw = c.general[s]["games_won"] /\ cp = c.general[s]["games_played"]
    BY <2>1, <2>2 DEF Typed, General
  <2>4. bw - aw <= bp - ap /\ cw - bw <= cp - bp
    BY <2>1, <2>3 DEF Grows
  <2>5. cw - aw <= cp - ap
    BY <2>4
  <2> QED BY <2>3, <2>5
<1> QED BY <1>1, <1>2 DEF Grows

\* What has not changed has grown.
LEMMA GrowsFromItself ==
  ASSUME NEW a, NEW b, Typed(a), Typed(b), b.heroes = a.heroes, b.general = a.general \/ DOMAIN a.general = {}
  PROVE  Grows(a, b)
<1>1. ASSUME NEW sh, NEW k \in Counters
      PROVE  Value(a.heroes, sh, k) <= Value(b.heroes, sh, k)
  BY DEF Typed, Counted
<1>2. ASSUME NEW s \in DOMAIN a.general \cap DOMAIN b.general
      PROVE  b.general[s]["games_won"] - a.general[s]["games_won"]
               <= b.general[s]["games_played"] - a.general[s]["games_played"]
  <2>1. a.general[s]["games_won"] \in Nat /\ a.general[s]["games_played"] \in Nat
    BY DEF Typed, General, GamesKeys
  <2>2. b.general = a.general
    OBVIOUS
  <2> QED BY <2>1, <2>2
<1> QED BY <1>1, <1>2 DEF Grows

\* A game makes the page grow.
LEMMA PlayGrows ==
  ASSUME SeriesIInv, NEW game, Play(game)
  PROVE  /\ Career(page'.career) /\ Grows(Payload(page), Payload(page'))
         /\ DOMAIN page.career \subseteq DOMAIN page'.career
         /\ page.stamp < page'.stamp
<1>1. PICK x, hero, won : x = game.section /\ hero = game.hero /\ won = game.won
  OBVIOUS
<1>2. PICK heroes : heroes = At(page.career, x, <<>>)
  OBVIOUS
<1>3. PICK counters : counters = Played(At(heroes, hero, <<>>), won)
  OBVIOUS
<1>4. PICK career : career = Put(page.career, x, Put(heroes, hero, counters))
  OBVIOUS
<1>5. /\ page.stamp < now
      /\ page' = [page EXCEPT !.stamp = now, !.played = @ + 1, !.career = career,
                              !.rank = RankAfter(game.section, game.won)]
  BY <1>1, <1>2, <1>3, <1>4 DEF Play
<1>6. page'.career = career /\ page'.stamp = now
  BY <1>5 DEF SeriesIInv
<1>7. PICK before : before = page.career
  OBVIOUS
<1>8. Career(before)
  BY <1>7 DEF SeriesIInv
<1>9. /\ Career(career)
      /\ \A s \in DOMAIN before \ {x} : Totals(career)[s] = Totals(before)[s]
      /\ \A k \in GamesKeys :
           Totals(career)[x][k]
             = (IF x \in DOMAIN before THEN Totals(before)[x][k] ELSE 0) + Counts(k, won)
      /\ \A sh : \A k \in GamesKeys :
           Value(before, sh, k) \in Nat /\ Value(before, sh, k) <= Value(career, sh, k)
  <2>1. heroes = At(before, x, <<>>) /\ career = Put(before, x, Put(heroes, hero, counters))
    BY <1>2, <1>4, <1>7
  <2> QED BY <1>3, <1>8, <2>1, TotalsPlayed
<1>10. DOMAIN before \subseteq DOMAIN career
  BY <1>4, <1>7 DEF Put
<1>11. /\ DOMAIN Totals(before) = DOMAIN before /\ General(Totals(before))
  BY <1>8, TotalsFacts
<1>12. ASSUME NEW s \in DOMAIN before
       PROVE  Totals(career)[s]["games_won"] - Totals(before)[s]["games_won"]
                <= Totals(career)[s]["games_played"] - Totals(before)[s]["games_played"]
  <2>1. "games_won" \in GamesKeys /\ "games_played" \in GamesKeys
    BY DEF GamesKeys
  <2>2. PICK w \in Nat, p \in Nat :
          w = Totals(before)[s]["games_won"] /\ p = Totals(before)[s]["games_played"]
    BY <1>11, <2>1 DEF General
  <2>3. CASE s = x
    <3>1. /\ Totals(career)[s]["games_won"] = w + Counts("games_won", won)
          /\ Totals(career)[s]["games_played"] = p + Counts("games_played", won)
      BY <1>9, <2>1, <2>2, <2>3
    <3>2. Counts("games_won", won) \in {0, 1} /\ Counts("games_played", won) = 1
      BY DEF Counts
    <3> QED BY <2>2, <3>1, <3>2
  <2>4. CASE s # x
    BY <1>9, <2>2, <2>4
  <2> QED BY <2>3, <2>4
<1>13. ASSUME NEW sh, NEW k \in Counters
       PROVE  Value(before, sh, k) <= Value(career, sh, k)
  <2>1. k \in GamesKeys
    BY DEF Counters, GamesKeys
  <2> QED BY <1>9, <2>1
<1>14. PICK p : p = page'
  OBVIOUS
<1>15. /\ Payload(page).general = Totals(before) /\ Payload(p).general = Totals(career)
       /\ \A sh : \A c \in Counters :
            /\ Value(Payload(page).heroes, sh, c) = Value(before, sh, c)
            /\ Value(Payload(p).heroes, sh, c) = Value(career, sh, c)
  BY <1>6, <1>7, <1>8, <1>9, <1>14, PayloadFacts
<1>16. Grows(Payload(page), Payload(p))
  BY <1>11, <1>12, <1>13, <1>15 DEF Grows
<1> QED BY <1>5, <1>6, <1>7, <1>9, <1>10, <1>14, <1>16

\* No version recorded or held is newer than the page's.
LEMMA RecordedFacts ==
  ASSUME SeriesIInv
  PROVE  /\ Version(page) \in Recorded /\ Typed(Payload(page))
         /\ DOMAIN Payload(page).general = DOMAIN page.career
         /\ page.stamp \in Nat
         /\ \A e \in Recorded : e.stamp \in 0..page.stamp
<1>1. Typed(Payload(page)) /\ DOMAIN Payload(page).general = DOMAIN page.career
  BY PayloadFacts DEF SeriesIInv
<1>2. ASSUME NEW e \in Recorded PROVE e.stamp \in 0..page.stamp
  <2>1. PICK d \in Readings : d.stamp = e.stamp
    <3>1. CASE e = Version(page)
      <4>1. Current \in Readings /\ Current.stamp = e.stamp
        BY <3>1 DEF Version, Readings, Current, Reading
      <4> QED BY <4>1
    <3>2. CASE e \in {Version(held[q]) : q \in Held}
      <4>1. PICK q \in Held : e = Version(held[q])
        BY <3>2
      <4>2. Reading(held[q]) \in Readings /\ Reading(held[q]).stamp = e.stamp
        BY <4>1 DEF Version, Readings, Reading
      <4> QED BY <4>2
    <3>3. CASE e \in {RowVersion(r) : r \in series}
      <4>1. PICK r \in series : e = RowVersion(r)
        BY <3>3
      <4>2. RowReading(r) \in Readings /\ RowReading(r).stamp = e.stamp
        BY <4>1 DEF RowVersion, Readings, RowReading
      <4> QED BY <4>2
    <3> QED BY <3>1, <3>2, <3>3 DEF Recorded
  <2> QED BY <2>1 DEF SeriesIInv, ReadingsInv, Older
<1>3. page.stamp \in Nat
  BY DEF SeriesIInv
<1> QED BY <1>1, <1>2, <1>3 DEF Recorded

\* Nothing is recorded or held that was not.
LEMMA GrowthKept ==
  ASSUME GrowthInv, IsFiniteSet(series'), Recorded' \subseteq Recorded,
         UNCHANGED <<page, seasons>>
  PROVE  GrowthInv'
<1>1. Payload(page)' = Payload(page)
  BY DEF Payload, Totals
<1> QED BY <1>1 DEF GrowthInv

\* The page changes.
LEMMA GrowthOfThePage ==
  ASSUME SeriesIInv, GrowthInv, UNCHANGED <<series, held>>, Career(page'.career),
         page'.stamp \in Nat, page.stamp <= page'.stamp,
         seasons' = 0 => /\ seasons = 0 /\ Grows(Payload(page), Payload(page'))
                         /\ DOMAIN page.career \subseteq DOMAIN page'.career
  PROVE  GrowthInv'
<1>1. PICK p : p = page'
  OBVIOUS
<1>2. PICK new : new = Version(p)
  OBVIOUS
<1>3. Recorded' \subseteq Recorded \cup {new}
  <2>1. Held' = Held
    BY DEF Held
  <2>2. Version(page)' = new
    BY <1>1, <1>2 DEF Version, Payload, Totals
  <2> QED BY <2>1, <2>2 DEF Recorded
<1>4. new.data = Payload(p) /\ new.stamp = p.stamp
  BY <1>2 DEF Version
<1>5. Typed(Payload(p)) /\ DOMAIN Payload(p).general = DOMAIN p.career
  BY <1>1, PayloadFacts
<1>6. \A e \in Recorded' : Typed(e.data)
  BY <1>3, <1>4, <1>5 DEF GrowthInv
<1>7. ASSUME seasons' = 0
      PROVE  /\ \A e \in Recorded : /\ Grows(e.data, Payload(p))
                                    /\ DOMAIN e.data.general \subseteq DOMAIN p.career
             /\ Grows(Payload(p), Payload(p))
  <2>1. seasons = 0 /\ Grows(Payload(page), Payload(p)) /\ DOMAIN page.career \subseteq DOMAIN p.career
    BY <1>1, <1>7
  <2>2. ASSUME NEW e \in Recorded
        PROVE  /\ Grows(e.data, Payload(p))
               /\ DOMAIN e.data.general \subseteq DOMAIN p.career
    <3>1. /\ Typed(e.data) /\ Grows(e.data, Payload(page))
          /\ DOMAIN e.data.general \subseteq DOMAIN page.career
      BY <2>1 DEF GrowthInv
    <3>2. Typed(Payload(page)) /\ DOMAIN Payload(page).general = DOMAIN page.career
      BY RecordedFacts
    <3> QED BY <1>5, <2>1, <3>1, <3>2, GrowsOn
  <2> QED BY <1>5, <2>2, GrowsFromItself
<1>8. ASSUME seasons' = 0, NEW e \in Recorded'
      PROVE  /\ Grows(e.data, Payload(p))
             /\ DOMAIN e.data.general \subseteq DOMAIN p.career
  BY <1>3, <1>4, <1>5, <1>7, <1>8
<1>9. ASSUME seasons' = 0, NEW a \in Recorded', NEW b \in Recorded', a.stamp < b.stamp
      PROVE  Grows(a.data, b.data)
  <2>1. CASE b = new
    BY <1>4, <1>8, <1>9, <2>1
  <2>2. CASE b \in Recorded /\ a = new
    <3>1. b.stamp \in 0..page.stamp /\ page.stamp \in Nat
      BY <2>2, RecordedFacts
    <3> QED BY <1>1, <1>4, <1>9, <2>2, <3>1
  <2>3. CASE a \in Recorded /\ b \in Recorded
    BY <1>9, <2>3 DEF GrowthInv
  <2> QED BY <1>3, <2>1, <2>2, <2>3
<1>10. Payload(page)' = Payload(p)
  BY <1>1 DEF Payload, Totals
<1> QED BY <1>1, <1>6, <1>8, <1>9, <1>10 DEF GrowthInv

\* The initial states.
LEMMA GrowthInitial == HistoryInit => GrowthInv
<1> SUFFICES ASSUME HistoryInit PROVE GrowthInv
  OBVIOUS
<1>1. SeriesIInv /\ page.stamp = 0
  BY SeriesInitial DEF HistoryInit
<1>2. IsFiniteSet(series)
  <2>1. PICK row : series = {} \/ series = {row}
    BY DEF HistoryInit
  <2> QED BY <2>1, FS_EmptySet, FS_Singleton
<1>3. Held = {}
  BY DEF Held, HistoryInit
<1>4. Career(page.career) /\ General(NoCareer) /\ DOMAIN NoCareer = {}
  <2>1. DOMAIN NoCareer = {}
    BY DEF NoCareer
  <2> QED BY <1>1, <2>1, FS_EmptySet DEF General, SeriesIInv
<1>5. PICK d : d = Payload(page)
  OBVIOUS
<1>6. Typed(d) /\ DOMAIN d.general = DOMAIN page.career
  BY <1>4, <1>5, PayloadFacts
<1>7. ASSUME NEW e \in Recorded
      PROVE  /\ e.stamp = 0 /\ e.data.heroes = d.heroes
             /\ e.data.general = d.general \/ e.data.general = NoCareer
  <2>1. CASE e = Version(page)
    BY <1>1, <1>5, <2>1 DEF Version
  <2>2. CASE e \in {RowVersion(r) : r \in series}
    <3>1. PICK r \in series : e = RowVersion(r)
      BY <2>2
    <3>2. r = Row(page, [Payload(page) EXCEPT !.general = NoCareer])
      BY DEF HistoryInit
    <3>3. /\ [Payload(page) EXCEPT !.general = NoCareer].general = NoCareer
          /\ [Payload(page) EXCEPT !.general = NoCareer].heroes = Payload(page).heroes
      BY DEF Payload
    <3> QED BY <1>1, <1>5, <3>1, <3>2, <3>3 DEF Row, RowVersion
  <2> QED BY <1>3, <2>1, <2>2 DEF Recorded
<1>8. \A e \in Recorded : Typed(e.data)
  BY <1>4, <1>6, <1>7 DEF Typed
<1>9. \A e \in Recorded : /\ Grows(e.data, d)
                          /\ DOMAIN e.data.general \subseteq DOMAIN page.career
  BY <1>4, <1>6, <1>7, <1>8, GrowsFromItself
<1>10. \A a, b \in Recorded : ~ (a.stamp < b.stamp)
  BY <1>7
<1> QED BY <1>2, <1>5, <1>8, <1>9, <1>10 DEF GrowthInv

\* Every step keeps the growth.
LEMMA GrowthNext ==
  ASSUME SeriesIInv, GrowthInv, [Next]_vars
  PROVE  GrowthInv'
<1>1. IsFiniteSet(series)
  BY DEF GrowthInv
<1>2. ASSUME UNCHANGED historyVars PROVE GrowthInv'
  <2>1. UNCHANGED <<page, series, held, seasons>>
    BY <1>2 DEF historyVars
  <2>2. Held' = Held /\ Version(page)' = Version(page)
    BY <2>1 DEF Held, Version, Payload, Totals
  <2>3. Recorded' = Recorded
    BY <2>1, <2>2 DEF Recorded
  <2> QED BY <1>1, <2>1, <2>3, GrowthKept
<1>3. ASSUME Tick PROVE GrowthInv'
  <2>1. UNCHANGED <<page, series, held, seasons>>
    BY <1>3 DEF Tick
  <2>2. Held' = Held /\ Version(page)' = Version(page)
    BY <2>1 DEF Held, Version, Payload, Totals
  <2>3. Recorded' = Recorded
    BY <2>1, <2>2 DEF Recorded
  <2> QED BY <1>1, <2>1, <2>3, GrowthKept
<1>4. ASSUME NewSeason PROVE GrowthInv'
  <2>1. UNCHANGED <<series, held>> /\ seasons' = 1 /\ SeriesIInv'
    BY <1>4, NewSeasonStep DEF NewSeason
  <2>2. page'.stamp = page.stamp
    BY <1>4 DEF NewSeason, SeriesIInv
  <2>3. Career(page'.career) /\ page'.stamp \in Nat /\ page.stamp <= page'.stamp
    BY <2>1, <2>2, RecordedFacts DEF SeriesIInv
  <2> QED BY <2>1, <2>3, GrowthOfThePage
<1>5. ASSUME ChangePrivacy PROVE GrowthInv'
  <2>1. /\ UNCHANGED <<series, held, seasons>> /\ page.stamp < now
        /\ page' = [page EXCEPT !.private = ~@, !.stamp = now]
    BY <1>5 DEF ChangePrivacy
  <2>2. page'.career = page.career /\ page'.rank = page.rank /\ page'.stamp = now
    BY <2>1 DEF SeriesIInv
  <2>3. PICK p : p = page'
    OBVIOUS
  <2>4. Payload(p) = Payload(page)
    BY <2>2, <2>3 DEF Payload
  <2>5. Grows(Payload(page), Payload(p))
    BY <2>4, RecordedFacts, GrowsFromItself
  <2>6. Career(page'.career) /\ page'.stamp \in Nat /\ page.stamp <= page'.stamp
    BY <2>1, <2>2, RecordedFacts DEF SeriesIInv
  <2> QED BY <2>1, <2>2, <2>3, <2>5, <2>6, GrowthOfThePage
<1>6. ASSUME Retain PROVE GrowthInv'
  <2>1. UNCHANGED <<page, held, seasons>> /\ series' \subseteq series
    BY <1>6 DEF Retain
  <2>2. Held' = Held /\ Version(page)' = Version(page)
    BY <2>1 DEF Held, Version, Payload, Totals
  <2>3. Recorded' \subseteq Recorded
    BY <2>1, <2>2 DEF Recorded
  <2>4. IsFiniteSet(series')
    BY <1>1, <2>1, FS_Subset
  <2> QED BY <2>1, <2>3, <2>4, GrowthKept
<1>7. ASSUME NEW game, Play(game) PROVE GrowthInv'
  <2>1. UNCHANGED <<series, held, seasons>> /\ SeriesIInv'
    BY <1>7, PlayStep DEF Play
  <2>2. /\ Career(page'.career) /\ Grows(Payload(page), Payload(page'))
        /\ DOMAIN page.career \subseteq DOMAIN page'.career
        /\ page.stamp < page'.stamp
    BY <1>7, PlayGrows
  <2>3. page'.stamp \in Nat /\ page.stamp <= page'.stamp
    BY <2>1, <2>2, RecordedFacts DEF SeriesIInv
  <2> QED BY <2>1, <2>2, <2>3, GrowthOfThePage
<1>8. ASSUME NEW q \in Request, Fetch(q) PROVE GrowthInv'
  <2>1. UNCHANGED <<page, series, seasons>> /\ held' = [held EXCEPT ![q] = page]
    BY <1>8 DEF Fetch
  <2>2. held'[q] = page /\ \A p \in Request \ {q} : held'[p] = held[p]
    BY <2>1 DEF SeriesIInv
  <2>3. \A p \in Held' : held'[p] = page \/ (p \in Held /\ held'[p] = held[p])
    BY <2>2 DEF Held
  <2>4. Version(page)' = Version(page)
    BY <2>1 DEF Version, Payload, Totals
  <2>5. Recorded' \subseteq Recorded
    BY <2>1, <2>3, <2>4 DEF Recorded
  <2> QED BY <1>1, <2>1, <2>5, GrowthKept
<1>9. ASSUME NEW q \in Request, Record(q) PROVE GrowthInv'
  <2>1. /\ UNCHANGED <<now, page, seasons>> /\ held[q] # None
        /\ held' = [held EXCEPT ![q] = None] /\ series' \in {series, WithRow(held[q])}
    BY <1>9 DEF Record
  <2>2. \A p \in Held' : p \in Held /\ held'[p] = held[p]
    BY <2>1 DEF SeriesIInv, Held
  <2>3. PICK row : row = Row(held[q], Payload(held[q]))
    OBVIOUS
  <2>4. RowVersion(row) = Version(held[q]) /\ q \in Held
    BY <2>1, <2>3 DEF Row, RowVersion, Version, Held
  <2>5. series' = series \/ series' = series \cup {row}
    BY <2>1, <2>3 DEF WithRow
  <2>6. IsFiniteSet(series')
    BY <1>1, <2>5, FS_AddElement
  <2>7. Version(page)' = Version(page)
    BY <2>1 DEF Version, Payload, Totals
  <2>8. \A r \in series' : RowVersion(r) \in Recorded
    BY <2>4, <2>5 DEF Recorded
  <2>9. \A p \in Held' : Version(held'[p]) \in Recorded
    BY <2>2 DEF Recorded
  <2>10. Recorded' \subseteq Recorded
    BY <2>7, <2>8, <2>9 DEF Recorded
  <2> QED BY <2>1, <2>6, <2>10, GrowthKept
<1>10. CASE HistoryNext
  BY <1>3, <1>4, <1>5, <1>6, <1>7, <1>8, <1>9, <1>10 DEF HistoryNext
<1>11. CASE WatchedNext
  <2>1. PICK q \in Request : q = CHOOSE p \in Request : TRUE
    BY SeriesAssumption
  <2>2. Tick \/ (\E game : Play(game)) \/ Fetch(q) \/ Record(q)
    BY <1>11, <2>1 DEF WatchedNext
  <2> QED BY <1>3, <1>7, <1>8, <1>9, <2>2
<1> QED BY <1>2, <1>10, <1>11 DEF Next, vars

\* What the series' invariant is for.
LEMMA SeriesIsRight == SeriesIInv => HistoryTypeOK /\ NoGamesInvented
<1> SUFFICES ASSUME SeriesIInv PROVE HistoryTypeOK /\ NoGamesInvented
  OBVIOUS
<1>1. HistoryTypeOK
  BY DEF SeriesIInv, HistoryTypeOK, Held
<1>2. ASSUME NEW before \in series, NEW after \in series,
             seasons = 0 \/ before.stamp < after.stamp,
             NEW games, games = DiffGames(before.data, after.data).games_played
      PROVE  games = 0 \/ games <= after.played - before.played
  <2>1. PICK a \in Readings : a = RowReading(before)
    BY DEF Readings
  <2>2. PICK b \in Readings : b = RowReading(after)
    BY DEF Readings
  <2>3. /\ a.general = before.data.general /\ a.stamp = before.stamp /\ a.played = before.played
        /\ b.general = after.data.general /\ b.stamp = after.stamp /\ b.played = after.played
    BY <2>1, <2>2 DEF RowReading
  <2>4. games = Gained(a.general, b.general)
    BY <1>2, <2>3, DiffIsGained
  <2>5. CASE a.stamp < b.stamp
    BY <2>3, <2>4, <2>5 DEF SeriesIInv, ReadingsInv
  <2>6. CASE ~ (a.stamp < b.stamp)
    <3>1. a.stamp \in Nat /\ b.stamp \in Nat /\ General(a.general) /\ General(b.general)
      BY DEF SeriesIInv, ReadingsInv, Older
    <3>2. b.stamp <= a.stamp /\ seasons = 0
      BY <1>2, <2>3, <2>6, <3>1
    <3>3. Within(b.general, a.general)
      BY <3>2 DEF SeriesIInv, ReadingsInv
    <3> QED BY <2>4, <3>1, <3>3, GainedNothing
  <2> QED BY <2>5, <2>6
<1>3. NoGamesInvented
  BY <1>2 DEF NoGamesInvented
<1> QED BY <1>1, <1>3

\* diff_player_snapshots and build_weekly_recap: whatever order pages are fetched and
\* recorded in, whatever retention deletes and whether or not a season ends, no two
\* rows differ by a game that was not played.
THEOREM NothingInvented == Spec => []NoGamesInvented
<1>1. Init => SeriesIInv
  BY SeriesInitial DEF Init
<1>2. SeriesIInv /\ [Next]_vars => SeriesIInv'
  BY SeriesNext
<1>3. SeriesIInv => NoGamesInvented
  BY SeriesIsRight
<1> QED BY <1>1, <1>2, <1>3, PTL DEF Spec

\* No version has more games won than played since an older one, where none has fewer.
LEMMA WonWithinPlayed ==
  ASSUME NEW a, NEW b, Typed(a), Typed(b), Grows(a, b)
  PROVE  DiffGames(a, b).games_won <= DiffGames(a, b).games_played
<1> DEFINE Both == DOMAIN b.general \cap DOMAIN a.general
           Rise(k) == [s \in Both |-> LET d == b.general[s][k] - a.general[s][k]
                                      IN IF d > 0 THEN d ELSE 0]
<1>1. "games_won" \in GamesKeys /\ "games_played" \in GamesKeys
  BY DEF GamesKeys
<1>2. DiffGames(a, b) = [k \in GamesKeys |-> SumFunction(Rise(k))]
  BY Zenon DEF DiffGames
<1>3. /\ DiffGames(a, b)["games_won"] = SumFunctionOnSet(Rise("games_won"), Both)
      /\ DiffGames(a, b)["games_played"] = SumFunctionOnSet(Rise("games_played"), Both)
  <2>1. DOMAIN Rise("games_won") = Both /\ DOMAIN Rise("games_played") = Both
    OBVIOUS
  <2>2. /\ DiffGames(a, b)["games_won"] = SumFunction(Rise("games_won"))
        /\ DiffGames(a, b)["games_played"] = SumFunction(Rise("games_played"))
    BY <1>1, <1>2
  <2> HIDE DEF Rise, Both
  <2> QED BY <2>1, <2>2 DEF SumFunction
<1>4. ASSUME NEW s \in Both
      PROVE  /\ Rise("games_won")[s] \in Nat /\ Rise("games_played")[s] \in Nat
             /\ Rise("games_won")[s] <= Rise("games_played")[s]
  <2>1. PICK aw \in Nat, ap \in Nat, bw \in Nat, bp \in Nat :
          /\ aw = a.general[s]["games_won"] /\ ap = a.general[s]["games_played"]
          /\ bw = b.general[s]["games_won"] /\ bp = b.general[s]["games_played"]
    BY <1>1 DEF Typed, General
  <2>2. bw - aw <= bp - ap
    BY <2>1 DEF Grows
  <2>3. /\ Rise("games_won")[s] = IF bw - aw > 0 THEN bw - aw ELSE 0
        /\ Rise("games_played")[s] = IF bp - ap > 0 THEN bp - ap ELSE 0
    BY <2>1
  <2> HIDE DEF Rise
  <2> QED BY <2>2, <2>3
<1>5. IsFiniteSet(Both)
  BY BothFinite DEF Typed
<1> HIDE DEF Rise, Both
<1>6. SumFunctionOnSet(Rise("games_won"), Both) <= SumFunctionOnSet(Rise("games_played"), Both)
  BY <1>4, <1>5, SumMonotone
<1> QED BY <1>3, <1>6

\* What hero counters a session has are the differences of the rows it is measured by.
LEMMA NothingFell ==
  ASSUME NEW a, NEW b, Typed(a), Typed(b), Grows(a, b),
         NEW t, t = DiffHeroes(a.heroes, b.heroes), NEW sh \in DOMAIN t, NEW c \in Counters
  PROVE  t[sh][c] >= 0
<1>1. At(t, sh, NoMove)[c] = Value(b.heroes, sh, c) - Value(a.heroes, sh, c)
  BY DiffHeroesAt DEF Typed
<1>2. At(t, sh, NoMove) = t[sh]
  BY DEF At
<1>3. PICK n \in Int, m \in Int : n = Value(b.heroes, sh, c) /\ m = Value(a.heroes, sh, c)
  BY DEF Typed, Counted
<1>4. m <= n
  BY <1>3 DEF Grows
<1> QED BY <1>1, <1>2, <1>3, <1>4

\* What the invariants say of the sessions.
LEMMA SessionsAreRight ==
  ASSUME SeriesIInv, GrowthInv
  PROVE  SessionsAddUp
<1> DEFINE R == Latest(500)
           L == PlayerSessions(R, 10)
           whole == DiffHeroes(Oldest(R).data.heroes, Newest(R).data.heroes)
           done(sh, c) == [s \in L |-> At(s.heroes, sh, NoMove)[c]]
<1>1. R \subseteq series
  BY DEF Latest
<1>2. \A r \in series : Typed(r.data) /\ r.stamp \in Int
  <2> SUFFICES ASSUME NEW r \in series PROVE Typed(r.data) /\ r.stamp \in Int
    OBVIOUS
  <2>1. RowVersion(r) \in Recorded /\ RowVersion(r).data = r.data /\ RowVersion(r).stamp = r.stamp
    BY DEF Recorded, RowVersion
  <2>2. r.stamp \in 0..page.stamp /\ page.stamp \in Nat
    BY <2>1, RecordedFacts
  <2> QED BY <2>1, <2>2 DEF GrowthInv
<1>3. Versions(R)
  <2>1. IsFiniteSet(R)
    BY <1>1, FS_Subset DEF GrowthInv
  <2> QED BY <1>1, <1>2, <2>1 DEF Versions, SeriesIInv
<1>4. \A r \in R : Typed(r.data) /\ Counted(r.data.heroes)
  BY <1>1, <1>2 DEF Typed
<1>5. L \subseteq Sessions(R)
  BY DEF PlayerSessions, Sessions
<1> HIDE DEF R, L
<1>6. \A s, t \in L : s = t \/ s.since >= t.ended_at \/ t.since >= s.ended_at
  BY <1>3, <1>5, SessionsFollow
<1>7. ASSUME R # {}, Cardinality(L) < 10, NEW sh, NEW c \in Counters
      PROVE  SumFunction(done(sh, c)) = At(whole, sh, NoMove)[c]
  <2> DEFINE f == [w \in Sessions(R) |-> At(w.heroes, sh, NoMove)[c]]
  <2>1. SumFunctionOnSet(f, Sessions(R)) = At(whole, sh, NoMove)[c]
    BY <1>3, <1>4, <1>7, SessionsSum
  <2>2. L = {w \in Sessions(R) : ~ Silent(w)}
    BY <1>3, <1>7, AllListed DEF L
  <2>3. \A w \in Sessions(R) \ L : f[w] = 0
    <3> SUFFICES ASSUME NEW w \in Sessions(R), Silent(w) PROVE f[w] = 0
      BY <2>2
    <3>1. At(w.heroes, sh, NoMove) = NoMove
      BY DEF Silent, At
    <3> QED BY <3>1 DEF NoMove
  <2>4. ASSUME NEW w \in Sessions(R) PROVE f[w] \in Int
    <3>1. PICK p \in R, e \in R : w.heroes = DiffHeroes(p.data.heroes, e.data.heroes)
      BY <1>3, SessionsFollow
    <3>2. f[w] = Value(e.data.heroes, sh, c) - Value(p.data.heroes, sh, c)
      BY <1>4, <3>1, DiffHeroesAt
    <3>3. Value(e.data.heroes, sh, c) \in Int /\ Value(p.data.heroes, sh, c) \in Int
      BY <1>4 DEF Counted
    <3> QED BY <3>2, <3>3
  <2>5. IsFiniteSet(Sessions(R)) /\ IsFiniteSet(L)
    BY <1>3, <1>5, SessionsFollow, FS_Subset
  <2>6. \A w \in L : f[w] = done(sh, c)[w]
    BY <1>5
  <2>7. DOMAIN done(sh, c) = L
    OBVIOUS
  <2> HIDE DEF f, done
  <2>8. SumFunctionOnSet(f, L) = SumFunctionOnSet(f, Sessions(R))
    BY <1>5, <2>3, <2>4, <2>5, SumOfTheLoud
  <2>9. SumFunctionOnSet(done(sh, c), L) = SumFunctionOnSet(f, L)
    BY <2>5, <2>6, SumSame
  <2> QED BY <2>1, <2>7, <2>8, <2>9 DEF SumFunction
<1>8. ASSUME NEW s \in L
      PROVE  /\ s.games.games_played <= PlayedAt(s.ended_at) - PlayedAt(s.since)
             /\ seasons = 0 => /\ s.games.games_won <= s.games.games_played
                               /\ \A sh \in DOMAIN s.heroes, c \in Counters : s.heroes[sh][c] >= 0
  <2>1. PICK p \in R, e \in R :
          /\ s.since = p.stamp /\ s.ended_at = e.stamp /\ p.stamp < e.stamp
          /\ s.games = DiffGames(p.data, e.data)
          /\ s.heroes = DiffHeroes(p.data.heroes, e.data.heroes)
    BY <1>3, <1>5, SessionsFollow
  <2>2. p \in series /\ e \in series
    BY <1>1
  <2>3. PlayedAt(s.since) = p.played /\ PlayedAt(s.ended_at) = e.played
    BY <2>1, <2>2 DEF PlayedAt, SeriesIInv
  <2>4. s.games.games_played <= e.played - p.played
    <3>1. RowReading(p) \in Readings /\ RowReading(e) \in Readings
      BY <2>2 DEF Readings
    <3>2. Gained(p.data.general, e.data.general) <= e.played - p.played
      BY <2>1, <3>1 DEF SeriesIInv, ReadingsInv, RowReading
    <3> QED BY <2>1, <3>2, DiffIsGained
  <2>5. ASSUME seasons = 0
        PROVE  /\ s.games.games_won <= s.games.games_played
               /\ \A sh \in DOMAIN s.heroes, c \in Counters : s.heroes[sh][c] >= 0
    <3>1. /\ RowVersion(p) \in Recorded /\ RowVersion(e) \in Recorded
          /\ RowVersion(p).stamp < RowVersion(e).stamp
          /\ RowVersion(p).data = p.data /\ RowVersion(e).data = e.data
      BY <2>1, <2>2 DEF Recorded, RowVersion
    <3>2. Grows(p.data, e.data)
      BY <2>5, <3>1 DEF GrowthInv
    <3>3. Typed(p.data) /\ Typed(e.data)
      BY <1>4
    <3> QED BY <2>1, <3>2, <3>3, WonWithinPlayed, NothingFell
  <2> QED BY <2>3, <2>4, <2>5
<1>9. \A sh \in Section \X PlayedHero, c \in Counters :
        R # {} /\ Cardinality(L) < 10 => SumFunction(done(sh, c)) = At(whole, sh, NoMove)[c]
  BY <1>7
<1>10. R # {} /\ Cardinality(L) < 10 =>
         \A sh \in Section \X PlayedHero, c \in Counters : SumFunction(done(sh, c)) = At(whole, sh, NoMove)[c]
  BY <1>9
<1> QED BY <1>6, <1>8, <1>10 DEF SessionsAddUp, R, L

\* build_player_sessions: in whatever order pages are fetched and recorded, whatever
\* retention deletes, the sessions of a player do not overlap and leave nothing out.
THEOREM SessionsComplete == Spec => []SessionsAddUp
<1>1. Init => SeriesIInv /\ GrowthInv
  BY SeriesInitial, GrowthInitial DEF Init
<1>2. SeriesIInv /\ GrowthInv /\ [Next]_vars => SeriesIInv' /\ GrowthInv'
  BY SeriesNext, GrowthNext
<1>3. SeriesIInv /\ GrowthInv => SessionsAddUp
  BY SessionsAreRight
<1> QED BY <1>1, <1>2, <1>3, PTL DEF Spec

\* An idle run has no rows to look at, and the hero run a patch while it is at work.
RunsInv ==
  /\ \A job \in Job : at[job] = "idle" => roster[job] = {}
  /\ chosen # None <=> at["heroes"] # "idle"

\* Every step keeps what the runs hold in order.
LEMMA RunsStep ==
  ASSUME IInv, RunsInv, [Next]_vars
  PROVE  RunsInv'
<1> USE DEF RunsInv, Job
<1>1. at \in [Job -> {"idle", "decide", "send"}] /\ DOMAIN roster = Job
  BY DEF IInv, Types
<1>2. ASSUME UNCHANGED <<at, roster, chosen>> PROVE RunsInv'
  BY <1>2
<1>3. CASE DevicesNext
  <2>1. ASSUME NEW d \in Device, Unregister(d) PROVE RunsInv'
    BY <1>2, <2>1 DEF Unregister, runVars
  <2>2. ASSUME NEW d \in Device, Uninstall(d) PROVE RunsInv'
    BY <1>2, <2>2 DEF Uninstall, runVars
  <2>3. ASSUME NEW d \in Device, NEW registration \in Registration, Launch(d, registration)
        PROVE  RunsInv'
    BY <1>2, <2>3 DEF Launch, runVars
  <2>4. ASSUME NEW entries \in PatchEntries, PublishPatch(entries) PROVE RunsInv'
    BY <1>2, <2>4 DEF PublishPatch, runVars
  <2>5. CASE StartHeroes
    BY <1>1, <2>5 DEF StartHeroes
  <2>6. CASE StartRecap
    BY <1>1, <2>6 DEF StartRecap
  <2>7. ASSUME NEW job \in Job, NEW row \in roster[job], Decide(job, row) PROVE RunsInv'
    BY <1>1, <2>7 DEF Decide
  <2>8. ASSUME NEW job \in Job, Send(job) PROVE RunsInv'
    BY <1>1, <2>8 DEF Send, Sending
  <2>9. ASSUME NEW job \in Job, Finish(job) PROVE RunsInv'
    BY <1>1, <2>9 DEF Finish
  <2>10. ASSUME NEW job \in Job, Die(job) PROVE RunsInv'
    BY <1>1, <2>10 DEF Die
  <2>11. ASSUME NEW row \in roster["recap"], FailRecap(row) PROVE RunsInv'
    BY <1>1, <2>11 DEF FailRecap
  <2>12. ASSUME NEW job \in Job, NEW n \in outbox[job], DeliveryFails(job, n) PROVE RunsInv'
    BY <1>2, <2>12 DEF DeliveryFails
  <2> QED BY <1>3, <2>1, <2>2, <2>3, <2>4, <2>5, <2>6, <2>7, <2>8, <2>9, <2>10, <2>11, <2>12
          DEF DevicesNext
<1> QED BY <1>2, <1>3 DEF Next, vars, deviceVars

\* The series and the devices keep the types: among them, one row of a version, and no
\* run that is over holds rows, notifications or a patch.
THEOREM TypeCorrect == Spec => []TypeOK
<1>1. Init => IInv /\ SeriesIInv /\ RunsInv
  <2>1. Init => RunsInv
    BY DEF Init, DevicesInit, RunsInv, Job
  <2> QED BY <2>1, InitIInv, SeriesInitial DEF Init
<1>2. IInv /\ SeriesIInv /\ RunsInv /\ [Next]_vars => IInv' /\ SeriesIInv' /\ RunsInv'
  BY NextIInv, SeriesNext, RunsStep
<1>3. IInv /\ SeriesIInv /\ RunsInv => TypeOK
  BY SeriesIsRight DEF IInv, Types, LifeInv, RunsInv, TypeOK, Job
<1> QED BY <1>1, <1>2, <1>3, PTL DEF Spec
=============================================================================
