---------------------------- MODULE Parts_proofs ----------------------------
(***************************************************************************)
(* Proofs about Edge and Pages, for any values of the constants: the       *)
(* back-off of unknown players, the hero rates, the deployments and the    *)
(* edge cache; the career pages, the heroes, the patch notes, the page of  *)
(* a hero and the player search.                                           *)
(***************************************************************************)
EXTENDS Edge, Pages, Basics_proofs, FiniteSetTheorems, TLAPS

-----------------------------------------------------------------------------
(* The retry schedule *)

\* The first powers, up to the n-th.
Powers(n) ==
  {f \in [0..n -> Nat \ {0}] :
    f[0] = 1 /\ \A i \in 1..n : f[i] = RetryMultiplier * f[i - 1]}

LEMMA PowersExist == \A n \in Nat : Powers(n) # {}
<1> DEFINE S == {n \in Nat : Powers(n) # {}}
<1>1. 0 \in S
  <2>1. [i \in 0..0 |-> 1] \in Powers(0) BY DEF Powers
  <2> QED BY <2>1
<1>2. ASSUME NEW n \in Nat, n \in S PROVE n + 1 \in S
  <2>1. PICK f : f \in Powers(n) BY <1>2
  <2>2. PICK k \in Nat \ {0} : k = RetryMultiplier * f[n]
    <3>1. f[n] \in Nat \ {0} BY <2>1 DEF Powers
    <3>2. PICK x \in Nat \ {0} : x = f[n] BY <3>1
    <3>3. RetryMultiplier * x \in Nat \ {0} BY RetryAssumption
    <3> QED BY <3>2, <3>3
  <2> DEFINE g == [i \in 0..(n + 1) |-> IF i = n + 1 THEN k ELSE f[i]]
  <2>3. g \in [0..(n + 1) -> Nat \ {0}] /\ g[0] = 1 BY <2>1, <2>2 DEF Powers
  <2>4. ASSUME NEW i \in 1..(n + 1) PROVE g[i] = RetryMultiplier * g[i - 1]
    <3>1. CASE i = n + 1
      <4>1. g[i] = k /\ g[i - 1] = f[n] BY <3>1
      <4> QED BY <4>1, <2>2
    <3>2. CASE i # n + 1
      <4>1. i \in 1..n /\ i - 1 \in 0..n /\ g[i] = f[i] /\ g[i - 1] = f[i - 1] BY <3>2
      <4> QED BY <4>1, <2>1 DEF Powers
    <3> QED BY <3>1, <3>2
  <2>5. g \in Powers(n + 1)
    <3> HIDE DEF g
    <3> QED BY <2>3, <2>4 DEF Powers
  <2> QED BY <2>5
<1> HIDE DEF S
<1>3. Nat \subseteq S BY <1>1, <1>2, Induction
<1> QED BY <1>3 DEF S

\* Two beginnings of one schedule agree.
LEMMA PowersAgree ==
  ASSUME NEW m \in Nat, NEW n \in Nat, m <= n, NEW f \in Powers(m), NEW g \in Powers(n)
  PROVE  \A i \in 0..m : f[i] = g[i]
<1> DEFINE S == {i \in Nat : i <= m => f[i] = g[i]}
<1>1. 0 \in S BY DEF Powers
<1>2. ASSUME NEW i \in Nat, i \in S PROVE i + 1 \in S
  <2> SUFFICES ASSUME i + 1 <= m PROVE f[i + 1] = g[i + 1] OBVIOUS
  <2>1. f[i] = g[i] BY <1>2
  <2>2. PICK j \in 1..m : j = i + 1 /\ j - 1 = i /\ j \in 1..n OBVIOUS
  <2>3. f[j] = RetryMultiplier * f[j - 1] /\ g[j] = RetryMultiplier * g[j - 1]
    BY <2>2 DEF Powers
  <2> QED BY <2>1, <2>2, <2>3
<1> HIDE DEF S
<1>3. Nat \subseteq S BY <1>1, <1>2, Induction
<1> QED BY <1>3 DEF S

\* The powers are what their recursive definition says, and positive.
LEMMA MultipliedIsPositive == Multiplied \in [Nat -> Nat \ {0}]
<1> DEFINE P == [n \in Nat |-> (CHOOSE h \in Powers(n) : TRUE)[n]]
           Body(f) == [n \in Nat |-> IF n = 0 THEN 1 ELSE RetryMultiplier * f[n - 1]]
<1>1. \A n \in Nat : (CHOOSE h \in Powers(n) : TRUE) \in Powers(n) BY PowersExist
<1>2. P \in [Nat -> Nat \ {0}]
  <2> SUFFICES ASSUME NEW n \in Nat
               PROVE  (CHOOSE h \in Powers(n) : TRUE)[n] \in Nat \ {0}
    OBVIOUS
  <2>1. PICK f \in Powers(n) : f = (CHOOSE h \in Powers(n) : TRUE) BY <1>1
  <2>2. f[n] \in Nat \ {0} BY DEF Powers
  <2> QED BY <2>1, <2>2
<1>3. ASSUME NEW n \in Nat
      PROVE  P[n] = IF n = 0 THEN 1 ELSE RetryMultiplier * P[n - 1]
  <2>1. PICK f \in Powers(n) : f = (CHOOSE h \in Powers(n) : TRUE) BY <1>1
  <2>2. P[n] = f[n] BY <2>1
  <2>3. CASE n = 0 BY <2>2, <2>3 DEF Powers
  <2>4. CASE n # 0
    <3>1. PICK m \in Nat : m = n - 1 BY <2>4
    <3>2. PICK g \in Powers(m) : g = (CHOOSE h \in Powers(m) : TRUE) BY <1>1
    <3>3. P[m] = g[m] BY <3>2
    <3>4. g[m] = f[m] BY <3>1, PowersAgree
    <3>5. f[n] = RetryMultiplier * f[n - 1] BY <2>4 DEF Powers
    <3> QED BY <2>2, <2>4, <3>1, <3>3, <3>4, <3>5
  <2> QED BY <2>3, <2>4
<1>4. P = Body(P)
  <2>1. \A n \in Nat : P[n] = Body(P)[n] BY <1>3
  <2>2. P = [n \in Nat |-> P[n]] OBVIOUS
  <2>3. Body(P) = [n \in Nat |-> Body(P)[n]] OBVIOUS
  <2> HIDE DEF P, Body
  <2> QED BY <2>1, <2>2, <2>3
<1>5. Multiplied = (CHOOSE f : f = Body(f)) BY Zenon DEF Multiplied
<1>6. Multiplied = Body(Multiplied)
  <2> HIDE DEF P, Body
  <2> QED BY <1>4, <1>5, Zenon
<1> DEFINE S == {n \in Nat : Multiplied[n] \in Nat \ {0}}
<1>7. 0 \in S BY <1>6
<1>8. ASSUME NEW n \in Nat, n \in S PROVE n + 1 \in S
  <2>1. Multiplied[n + 1] = RetryMultiplier * Multiplied[n] BY <1>6
  <2>2. PICK x \in Nat \ {0} : x = Multiplied[n] BY <1>8
  <2>3. RetryMultiplier * x \in Nat \ {0} BY RetryAssumption
  <2> QED BY <2>1, <2>2, <2>3
<1>9. Nat \subseteq S
  <2> HIDE DEF S
  <2> QED BY <1>7, <1>8, Induction
<1> QED BY <1>6, <1>9

\* A wait is at least a tick and at most the longest.
LEMMA RetryBounds == \A count \in Nat \ {0} : RetryAfter(count) \in 1..MaxRetry
<1> SUFFICES ASSUME NEW count \in Nat \ {0} PROVE RetryAfter(count) \in 1..MaxRetry
  OBVIOUS
<1>1. PICK x \in Nat \ {0} : x = Multiplied[count - 1] BY MultipliedIsPositive
<1>2. PICK retry \in Nat \ {0} : retry = InitialRetry * x
  <2>1. InitialRetry * x \in Nat \ {0} BY RetryAssumption
  <2> QED BY <2>1
<1> QED BY <1>1, <1>2, RetryAssumption DEF RetryAfter
-----------------------------------------------------------------------------
(* Players Blizzard does not know *)

Wait == [left : 1..MaxRetry, count : 1..missed]

UnknownIInv ==
  /\ missed \in 0..MaxCount
  /\ step \in [Client -> {"idle", "blizzard", "mark"}]
  /\ asked \in [Client -> Key]
  /\ DOMAIN seen = Client /\ DOMAIN cooldown = Key /\ DOMAIN status = Key
  /\ \A k \in Key : cooldown[k] # None => cooldown[k] \in Wait
  /\ \A k \in Key : status[k] # None => status[k].count \in 1..missed
  /\ \A c \in Client : seen[c] # None => seen[c] \in [key : Key, count : 1..missed]
  /\ \A c \in Client : (step[c] = "mark") <=> (seen[c] # None)

LEMMA UnknownInitial == UnknownInit => UnknownIInv
<1> SUFFICES ASSUME UnknownInit PROVE UnknownIInv OBVIOUS
<1> USE DEF UnknownInit
<1>1. missed \in 0..MaxCount BY RetryAssumption
<1>2. /\ step \in [Client -> {"idle", "blizzard", "mark"}] /\ asked \in [Client -> Key]
      /\ DOMAIN seen = Client /\ DOMAIN cooldown = Key /\ DOMAIN status = Key
  BY RetryAssumption
<1> QED BY <1>1, <1>2 DEF UnknownIInv

\* What was read after so many misses has counted one at least, and no more than
\* there are now.
LEMMA ReadStatusStep ==
  ASSUME UnknownIInv, NEW c \in Client, NEW k \in Key, ReadStatus(c, k)
  PROVE  UnknownIInv'
<1> DEFINE count == IF cooldown[k] # None THEN cooldown[k].count
                    ELSE IF status[k] # None THEN status[k].count ELSE 0
<1>1. PICK n \in Nat : n = count /\ n <= missed BY DEF UnknownIInv, Wait
<1>2. PICK m \in 1..MaxCount : m = AtMostCount(n + 1)
  BY <1>1, RetryAssumption DEF AtMostCount
<1>3. PICK many \in 1..MaxCount : /\ many = AtMostCount(missed + 1) /\ m <= many
                                  /\ missed <= many
  BY <1>1, <1>2, RetryAssumption DEF AtMostCount, UnknownIInv
<1>4. /\ missed' = many
      /\ seen' = [seen EXCEPT ![c] = [key |-> k, count |-> m]]
      /\ step' = [step EXCEPT ![c] = "mark"]
      /\ UNCHANGED <<status, cooldown, asked>>
  BY <1>1, <1>2, <1>3 DEF ReadStatus
<1>5. missed' \in 0..MaxCount /\ missed <= missed' BY <1>3, <1>4
<1>6. \A x \in 1..missed : x \in 1..missed'
  <2>1. PICK old \in Nat : old = missed BY DEF UnknownIInv
  <2> QED BY <1>3, <1>4, <2>1
<1>7. \A l \in Key : cooldown'[l] # None => cooldown'[l] \in Wait'
  BY <1>4, <1>6 DEF UnknownIInv, Wait
<1>8. \A l \in Key : status'[l] # None => status'[l].count \in 1..missed'
  BY <1>4, <1>6 DEF UnknownIInv
<1>9. ASSUME NEW d \in Client
      PROVE  /\ seen'[d] # None => seen'[d] \in [key : Key, count : 1..missed']
             /\ (step'[d] = "mark") <=> (seen'[d] # None)
  <2>1. CASE d = c
    <3>1. seen'[c] = [key |-> k, count |-> m] /\ step'[c] = "mark"
      BY <1>4 DEF UnknownIInv
    <3>2. m \in Nat /\ m \in 1..missed' BY <1>2, <1>3, <1>4
    <3>3. seen'[c] \in [key : Key, count : Nat] BY <3>1, <3>2
    <3> QED BY <2>1, <3>1, <3>2, <3>3, RetryAssumption
  <2>2. CASE d # c
    <3>1. seen'[d] = seen[d] /\ step'[d] = step[d] BY <1>4, <2>2 DEF UnknownIInv
    <3>2. /\ seen[d] # None => seen[d] \in [key : Key, count : 1..missed]
          /\ (step[d] = "mark") <=> (seen[d] # None)
      BY DEF UnknownIInv
    <3>3. [key : Key, count : 1..missed] \subseteq [key : Key, count : 1..missed']
      BY <1>6
    <3> QED BY <3>1, <3>2, <3>3
  <2> QED BY <2>1, <2>2
<1>10. /\ step' \in [Client -> {"idle", "blizzard", "mark"}] /\ asked' \in [Client -> Key]
       /\ DOMAIN seen' = Client /\ DOMAIN cooldown' = Key /\ DOMAIN status' = Key
  BY <1>4 DEF UnknownIInv
<1> QED BY <1>5, <1>7, <1>8, <1>9, <1>10 DEF UnknownIInv

LEMMA MarkUnknownStep ==
  ASSUME UnknownIInv, NEW c \in Client, MarkUnknown(c)
  PROVE  UnknownIInv'
<1>1. seen[c] \in [key : Key, count : 1..missed] BY DEF MarkUnknown, UnknownIInv
<1>2. PICK k \in Key, n \in 1..missed : k = seen[c].key /\ n = seen[c].count BY <1>1
<1>3. PICK left \in 1..MaxRetry : left = RetryAfter(n)
  <2>1. n \in Nat \ {0} BY DEF UnknownIInv
  <2> QED BY <2>1, RetryBounds
<1>4. [left |-> left, count |-> n] \in Wait BY DEF Wait
<1>5. /\ step' = [step EXCEPT ![c] = "idle"] /\ seen' = [seen EXCEPT ![c] = None]
      /\ UNCHANGED <<asked, missed>>
  BY DEF MarkUnknown
<1>6. PICK beside : /\ status' = [status EXCEPT ![k] = [count |-> n, beside |-> beside]]
                    /\ cooldown' = [l \in Key |-> IF l \in {k, beside}
                                      THEN [left |-> left, count |-> n] ELSE cooldown[l]]
  BY <1>2, <1>3 DEF MarkUnknown
<1>7. \A l \in Key : cooldown'[l] # None => cooldown'[l] \in Wait'
  BY <1>4, <1>5, <1>6 DEF UnknownIInv, Wait
<1>8. \A l \in Key : status'[l] # None => status'[l].count \in 1..missed'
  BY <1>5, <1>6 DEF UnknownIInv
<1>9. \A d \in Client : /\ seen'[d] # None => seen'[d] \in [key : Key, count : 1..missed']
                        /\ (step'[d] = "mark") <=> (seen'[d] # None)
  BY <1>5 DEF UnknownIInv
<1>10. /\ step' \in [Client -> {"idle", "blizzard", "mark"}] /\ asked' \in [Client -> Key]
       /\ DOMAIN seen' = Client /\ DOMAIN cooldown' = Key /\ DOMAIN status' = Key
       /\ missed' \in 0..MaxCount
  BY <1>5, <1>6 DEF UnknownIInv
<1> QED BY <1>7, <1>8, <1>9, <1>10 DEF UnknownIInv

LEMMA UnknownStep == UnknownIInv /\ [UnknownNext]_unknownVars => UnknownIInv'
<1> SUFFICES ASSUME UnknownIInv, [UnknownNext]_unknownVars PROVE UnknownIInv' OBVIOUS
<1> USE DEF requestVars, evictionVars
<1>1. CASE Appear BY <1>1 DEF Appear, UnknownIInv, Wait
<1>2. CASE Vanish BY <1>2 DEF Vanish, UnknownIInv, Wait
<1>3. CASE Elapse
  <2>1. /\ cooldown' = [k \in Key |-> IF cooldown[k] = None \/ cooldown[k].left = 1 THEN None
                                      ELSE [cooldown[k] EXCEPT !.left = @ - 1]]
        /\ UNCHANGED <<exists, status, step, asked, seen, served, missed, races>>
    BY <1>3 DEF Elapse
  <2>2. ASSUME NEW k \in Key, cooldown'[k] # None PROVE cooldown'[k] \in Wait
    <3>1. cooldown[k] \in Wait /\ cooldown[k].left # 1
          /\ cooldown'[k] = [cooldown[k] EXCEPT !.left = @ - 1]
      BY <2>1, <2>2 DEF UnknownIInv
    <3>2. PICK x \in 1..MaxRetry, n \in 1..missed : cooldown[k] = [left |-> x, count |-> n]
      BY <3>1 DEF Wait
    <3>3. cooldown'[k] = [left |-> x - 1, count |-> n] /\ x - 1 \in 1..MaxRetry
      BY <3>1, <3>2, RetryAssumption
    <3> QED BY <3>3 DEF Wait
  <2> QED BY <2>1, <2>2 DEF UnknownIInv, Wait
<1>4. CASE Erase
  <2>1. /\ DOMAIN cooldown' = Key /\ DOMAIN status' = Key
        /\ \A k \in Key : cooldown'[k] \in {None, cooldown[k]} /\ status'[k] \in {None, status[k]}
        /\ UNCHANGED <<step, asked, seen, missed>>
    BY <1>4 DEF Erase, UnknownIInv
  <2> QED BY <2>1 DEF UnknownIInv, Wait
<1>5. ASSUME NEW c \in Client, NEW k \in Key, Ask(c, k) PROVE UnknownIInv'
  <2>1. /\ asked' = [asked EXCEPT ![c] = k] /\ cooldown' = cooldown
        /\ step' \in {step, [step EXCEPT ![c] = "blizzard"]} /\ step[c] = "idle"
        /\ UNCHANGED <<status, seen, missed>>
    BY <1>5 DEF Ask, Refused
  <2> QED BY <2>1 DEF UnknownIInv, Wait
<1>6. ASSUME NEW c \in Client, NEW k \in Key, ReadStatus(c, k) PROVE UnknownIInv'
  BY <1>6, ReadStatusStep
<1>7. ASSUME NEW c \in Client, Found(c) PROVE UnknownIInv'
  BY <1>7 DEF Found, UnknownIInv, Wait
<1>8. ASSUME NEW c \in Client, MarkUnknown(c) PROVE UnknownIInv'
  BY <1>8, MarkUnknownStep
<1>9. ASSUME NEW c \in Client, Fail(c) PROVE UnknownIInv'
  BY <1>9 DEF Fail, UnknownIInv, Wait
<1>10. CASE ReadSeldom BY <1>10 DEF ReadSeldom, UnknownIInv, Wait
<1>11. ASSUME NEW k \in Key, ReadBeside(k) PROVE UnknownIInv'
  BY <1>11 DEF ReadBeside, UnknownIInv, Wait
<1>12. CASE UNCHANGED unknownVars BY <1>12 DEF unknownVars, UnknownIInv, Wait
<1> QED
  BY <1>1, <1>2, <1>3, <1>4, <1>5, <1>6, <1>7, <1>8, <1>9, <1>10, <1>11, <1>12
  DEF UnknownNext
-----------------------------------------------------------------------------
(* The rates of heroes *)

Filter == {"1", "2"}

\* Each slice of today is recorded, failed or yet to come.
Covered ==
  \A slice \in Range(Slices) :
    \/ slice \in failed \cup Range(daily.slices)
    \/ <<day, slice>> \in DOMAIN recorded

CompetitiveRow(r, map) == r.of = "competitive" /\ r.map = map /\ r.winrate >= 0

\* What a search has is competitive, and of its map.
GoodSearch(search) ==
  /\ search = [map |-> search.map, left |-> search.left, works |-> search.works,
               stats |-> search.stats]
  /\ search.left \in Seq(Filter) /\ search.works \in Filter \cup {None}
  /\ search.stats # None => \A r \in search.stats : CompetitiveRow(r, search.map)

RatesIInv ==
  /\ filter \in Filter \cup {None}
  /\ GoodSearch(query)
  /\ daily = [slices |-> daily.slices, search |-> daily.search]
  /\ GoodSearch(daily.search) /\ daily.search.map = "all-maps"
  /\ daily.slices = <<>> => daily.search = NotSearching
  /\ daily.slices \in Seq(Range(Slices)) /\ Len(daily.slices) <= Len(Slices)
  /\ day \in Nat \ {0}
  /\ DOMAIN recorded \subseteq (1..day) \X Range(Slices)
  /\ \A k \in DOMAIN recorded : \A r \in recorded[k] : CompetitiveRow(r, "all-maps")
  /\ failed # None \/ daily.slices # <<>> => Covered

LEMMA FilterRange == Range(Candidates) = Filter
<1>1. DOMAIN Candidates = {1, 2} /\ Candidates[1] = "1" /\ Candidates[2] = "2"
  BY DEF Candidates
<1> QED BY <1>1 DEF Range, Filter

LEMMA GamemodeFiltersTyped == \A cached : GamemodeFilters(cached) \in Seq(Filter)
<1>1. Candidates \in Seq(Filter) BY DEF Candidates, Filter
<1>2. Reverse(Candidates) \in Seq(Filter)
  <2>1. Len(Candidates) = 2 BY DEF Candidates
  <2>2. Reverse(Candidates) = [i \in 1..2 |-> Candidates[(2 - i) + 1]]
    BY <2>1 DEF Reverse
  <2>3. \A i \in 1..2 : Candidates[(2 - i) + 1] \in Filter BY <1>1, <2>1
  <2>4. [i \in 1..2 |-> Candidates[(2 - i) + 1]] \in Seq(Filter) BY <2>3
  <2> QED BY <2>2, <2>4
<1> QED BY <1>1, <1>2 DEF GamemodeFilters

\* An answer to a candidate that is taken shows competitive rates of the map asked for.
LEMMA TakenIsCompetitive ==
  ASSUME NEW f \in Filter, NEW map, NEW answer \in Answers(f, map),
         ParseHeroStats(f, map, answer).outcome = "rates"
  PROVE  \A r \in ParseHeroStats(f, map, answer).rows : CompetitiveRow(r, map)
<1> DEFINE rows(m) == {[hero |-> r.hero, winrate |-> r.winrate, of |-> r.of, map |-> m] :
                        r \in RatesOf[IF f = accepted THEN "competitive" ELSE "quickplay"]}
<1>1. PICK whole \in BOOLEAN, m \in {map, "all-maps"} :
        answer = [whole |-> whole, selected |-> Selected(f), map |-> m, rows |-> rows(m)]
  BY DEF Answers
<1>2. /\ answer.selected = f /\ answer.map = map
      /\ ParseHeroStats(f, map, answer).rows = HeroStats(answer.rows)
  BY DEF ParseHeroStats, Parsed
<1>3. f = accepted /\ m = map BY <1>1, <1>2 DEF Selected, Filter
<1>4. answer.rows = {[hero |-> r.hero, winrate |-> r.winrate, of |-> r.of, map |-> map] :
                       r \in RatesOf["competitive"]}
  BY <1>1, <1>3
<1>5. ASSUME NEW r \in RatesOf["competitive"]
      PROVE  CompetitiveRow([[hero |-> r.hero, winrate |-> r.winrate, of |-> r.of, map |-> map]
                              EXCEPT !.winrate = NormalizedRate(@)], map)
  <2>1. r.of = "competitive" /\ r.winrate \in Nat \cup {-1} BY RatesAssumption
  <2>2. PICK x \in Nat : x = NormalizedRate(r.winrate) BY <2>1 DEF NormalizedRate
  <2>3. [[hero |-> r.hero, winrate |-> r.winrate, of |-> r.of, map |-> map]
           EXCEPT !.winrate = NormalizedRate(@)]
        = [hero |-> r.hero, winrate |-> x, of |-> r.of, map |-> map]
    BY <2>2
  <2> QED BY <2>1, <2>3 DEF CompetitiveRow
<1>6. \A r \in answer.rows : CompetitiveRow([r EXCEPT !.winrate = NormalizedRate(@)], map)
  BY <1>4, <1>5
<1>7. \A s \in HeroStats(answer.rows) :
        \E r \in answer.rows : s = [r EXCEPT !.winrate = NormalizedRate(@)]
  BY DEF HeroStats
<1> QED BY <1>2, <1>6, <1>7

\* A search that begins, and one that goes on after an answer, is a good one.
LEMMA SearchIsGood ==
  ASSUME NEW map, filter \in Filter \cup {None}
  PROVE  GoodSearch(Search(map)) /\ Search(map).map = map
<1>1. PICK left \in Seq(Filter) : left = GamemodeFilters(filter) BY GamemodeFiltersTyped
<1>2. Search(map) = [map |-> map, left |-> left, works |-> None, stats |-> None]
  BY <1>1 DEF Search
<1> QED BY <1>2 DEF GoodSearch

LEMMA NotSearchingIsGood == GoodSearch(NotSearching)
BY DEF GoodSearch, NotSearching

LEMMA TriedIsGood ==
  ASSUME NEW search, GoodSearch(search), search.left # <<>>, NEW next \in Tried(search)
  PROVE  next = NotSearching \/ (GoodSearch(next) /\ next.map = search.map)
<1>1. PICK f \in Filter : f = Head(search.left)
  BY DEF GoodSearch
<1>2. PICK rest \in Seq(Filter) : rest = Tail(search.left)
  <2>1. PICK s \in Seq(Filter) : s = search.left /\ s # <<>> BY DEF GoodSearch
  <2>2. Tail(s) \in Seq(Filter) BY <2>1
  <2> QED BY <2>1, <2>2
<1>3. PICK answer \in Answers(f, search.map) :
        next = AfterAnswer(search, ParseHeroStats(f, search.map, answer))
  BY <1>1 DEF Tried
<1>4. PICK parsed :
        /\ parsed = ParseHeroStats(f, search.map, answer)
        /\ next = AfterAnswer(search, parsed)
  BY <1>3
<1>5. CASE parsed.outcome = "rates"
  <2>1. next = [map |-> search.map, left |-> <<>>, works |-> f, stats |-> parsed.rows]
    BY <1>1, <1>4, <1>5 DEF AfterAnswer, GoodSearch
  <2>2. \A r \in parsed.rows : CompetitiveRow(r, search.map)
    BY <1>4, <1>5, TakenIsCompetitive
  <2>3. <<>> \in Seq(Filter) OBVIOUS
  <2> QED BY <2>1, <2>2, <2>3 DEF GoodSearch
<1>6. CASE parsed.outcome = "refused" /\ Len(search.left) > 1
  <2>1. next = [map |-> search.map, left |-> rest, works |-> search.works,
                stats |-> search.stats]
    BY <1>2, <1>4, <1>6 DEF AfterAnswer, GoodSearch
  <2> QED BY <2>1 DEF GoodSearch
<1>7. CASE parsed.outcome # "rates" /\ ~(parsed.outcome = "refused" /\ Len(search.left) > 1)
  BY <1>4, <1>7 DEF AfterAnswer
<1> QED BY <1>5, <1>6, <1>7

LEMMA CachedIsGood ==
  ASSUME NEW search, GoodSearch(search)
  PROVE  /\ GoodSearch([search EXCEPT !.works = None])
         /\ [search EXCEPT !.works = None].map = search.map
<1>1. [search EXCEPT !.works = None]
      = [map |-> search.map, left |-> search.left, works |-> None, stats |-> search.stats]
  BY DEF GoodSearch
<1> QED BY <1>1 DEF GoodSearch

LEMMA RatesInitial == RatesInit => RatesIInv
<1> SUFFICES ASSUME RatesInit PROVE RatesIInv OBVIOUS
<1>1. Len(Slices) \in Nat BY RatesAssumption
<1>2. query = NotSearching /\ daily = [slices |-> <<>>, search |-> NotSearching] BY DEF RatesInit
<1>3. NotSearching.map = "all-maps" BY DEF NotSearching
<1> QED BY <1>1, <1>2, <1>3, NotSearchingIsGood DEF RatesInit, RatesIInv, Filter

\* The slices left shrink by the one at their head.
LEMMA SlicesLeft ==
  ASSUME RatesIInv, daily.slices # <<>>, NextSlice
  PROVE  /\ daily' = [slices |-> daily.slices, search |-> daily.search]'
         /\ daily.search' = NotSearching
         /\ daily.slices' \in Seq(Range(Slices)) /\ Len(daily.slices') <= Len(Slices)
         /\ Range(daily.slices) = {Head(daily.slices)} \cup Range(daily.slices')
         /\ Head(daily.slices) \in Range(Slices)
<1>1. PICK rest : rest = Tail(daily.slices) OBVIOUS
<1>2. rest \in Seq(Range(Slices)) /\ Len(rest) <= Len(Slices)
  BY <1>1, RatesAssumption DEF RatesIInv
<1>3. daily' = [slices |-> rest, search |-> NotSearching] BY <1>1 DEF NextSlice
<1>4. Range(daily.slices) = {Head(daily.slices)} \cup Range(rest)
  <2>1. PICK s \in Seq(Range(Slices)) : s = daily.slices /\ s # <<>> BY DEF RatesIInv
  <2>2. /\ Len(s) \in Nat \ {0} /\ DOMAIN s = 1..Len(s) /\ Head(s) = s[1]
        /\ Tail(s) \in Seq(Range(Slices)) /\ Len(Tail(s)) = Len(s) - 1
        /\ \A i \in 1..(Len(s) - 1) : Tail(s)[i] = s[i + 1]
    BY <2>1
  <2>3. ASSUME NEW x \in Range(s) PROVE x \in {Head(s)} \cup Range(Tail(s))
    <3>1. PICK i \in 1..Len(s) : x = s[i] BY <2>2 DEF Range
    <3>2. CASE i = 1 BY <2>2, <3>1, <3>2
    <3>3. CASE i # 1
      <4>1. i - 1 \in 1..(Len(s) - 1) /\ (i - 1) + 1 = i BY <2>2, <3>3
      <4>2. Tail(s)[i - 1] = x /\ i - 1 \in DOMAIN Tail(s) BY <2>2, <3>1, <4>1
      <4> QED BY <4>2 DEF Range
    <3> QED BY <3>2, <3>3
  <2>4. ASSUME NEW x \in Range(Tail(s)) PROVE x \in Range(s)
    <3>1. PICK i \in 1..(Len(s) - 1) : x = Tail(s)[i] BY <2>2 DEF Range
    <3>2. i + 1 \in 1..Len(s) /\ x = s[i + 1] BY <2>2, <3>1
    <3> QED BY <2>2, <3>2 DEF Range
  <2>5. Head(s) \in Range(s) BY <2>2 DEF Range
  <2> QED BY <1>1, <2>1, <2>3, <2>4, <2>5
<1>5. Head(daily.slices) \in Range(Slices) BY DEF RatesIInv
<1> QED BY <1>2, <1>3, <1>4, <1>5

LEMMA RecordSliceStep == RatesIInv /\ RecordSlice => RatesIInv'
<1> SUFFICES ASSUME RatesIInv, RecordSlice PROVE RatesIInv' OBVIOUS
<1>1. PICK stats : stats = daily.search.stats OBVIOUS
<1>2. PICK slice : slice = Head(daily.slices) OBVIOUS
<1>3. /\ NextSlice /\ stats # None
      /\ recorded' = [k \in DOMAIN recorded \cup {<<day, slice>>} |->
                        IF k \in DOMAIN recorded THEN recorded[k] ELSE stats]
      /\ UNCHANGED <<accepted, filter, query, day, failed, renamings>>
  BY <1>1, <1>2 DEF RecordSlice, Fetched
<1>4. daily.slices # <<>> BY <1>1, <1>3 DEF RatesIInv, NotSearching
<1>5. /\ daily' = [slices |-> daily.slices, search |-> daily.search]'
      /\ daily.search' = NotSearching
      /\ daily.slices' \in Seq(Range(Slices)) /\ Len(daily.slices') <= Len(Slices)
      /\ Range(daily.slices) = {slice} \cup Range(daily.slices')
      /\ slice \in Range(Slices)
  BY <1>2, <1>3, <1>4, SlicesLeft
<1>6. /\ DOMAIN recorded' = DOMAIN recorded \cup {<<day, slice>>}
      /\ \A k \in DOMAIN recorded : recorded'[k] = recorded[k]
      /\ \A k \in DOMAIN recorded' : k \notin DOMAIN recorded => recorded'[k] = stats
  BY <1>3
<1>7. \A r \in stats : CompetitiveRow(r, "all-maps") BY <1>1, <1>3 DEF RatesIInv, GoodSearch
<1>8. \A k \in DOMAIN recorded' : \A r \in recorded'[k] : CompetitiveRow(r, "all-maps")
  BY <1>6, <1>7 DEF RatesIInv
<1>9. DOMAIN recorded' \subseteq (1..day) \X Range(Slices) BY <1>5, <1>6 DEF RatesIInv
<1>10. Covered BY <1>4 DEF RatesIInv
<1>11. Covered' BY <1>3, <1>5, <1>6, <1>10 DEF Covered
<1>12. GoodSearch(daily.search)' /\ daily.search'.map = "all-maps"
  BY <1>5, NotSearchingIsGood DEF NotSearching, GoodSearch
<1>13. GoodSearch(query)' BY <1>3 DEF RatesIInv, GoodSearch
<1> QED BY <1>3, <1>5, <1>8, <1>9, <1>11, <1>12, <1>13 DEF RatesIInv

\* A slice that fails, in the search or in storage.
LEMMA SliceFailsStep ==
  ASSUME RatesIInv, daily.slices # <<>>, NextSlice,
         failed' = failed \cup {Head(daily.slices)},
         UNCHANGED <<accepted, filter, query, day, recorded, renamings>>
  PROVE  RatesIInv'
<1>1. /\ daily' = [slices |-> daily.slices, search |-> daily.search]'
      /\ daily.search' = NotSearching
      /\ daily.slices' \in Seq(Range(Slices)) /\ Len(daily.slices') <= Len(Slices)
      /\ Range(daily.slices) = {Head(daily.slices)} \cup Range(daily.slices')
  BY SlicesLeft
<1>2. Covered BY DEF RatesIInv
<1>3. Covered' BY <1>1, <1>2 DEF Covered
<1>4. GoodSearch(daily.search)' /\ daily.search'.map = "all-maps"
  BY <1>1, NotSearchingIsGood DEF NotSearching, GoodSearch
<1>5. GoodSearch(query)' BY DEF RatesIInv, GoodSearch
<1> QED BY <1>1, <1>3, <1>4, <1>5 DEF RatesIInv

LEMMA RatesStep == RatesIInv /\ [RatesNext]_rateVars => RatesIInv'
<1> SUFFICES ASSUME RatesIInv, [RatesNext]_rateVars PROVE RatesIInv' OBVIOUS
\* A step of the request.
<1>1. ASSUME UNCHANGED <<daily, day, recorded, failed>>,
             filter' \in Filter \cup {None}, GoodSearch(query')
      PROVE  RatesIInv'
  <2>1. Covered' <=> Covered BY <1>1 DEF Covered
  <2>2. GoodSearch(query)' BY <1>1 DEF GoodSearch
  <2>3. GoodSearch(daily.search)' BY <1>1 DEF RatesIInv, GoodSearch
  <2> QED BY <1>1, <2>1, <2>2, <2>3 DEF RatesIInv
\* A step of the recording within a slice.
<1>2. ASSUME UNCHANGED <<query, day, recorded, failed>>, filter' \in Filter \cup {None},
             daily.slices # <<>>, NEW search, GoodSearch(search), search.map = "all-maps",
             daily' = [daily EXCEPT !.search = search]
      PROVE  RatesIInv'
  <2>1. daily' = [slices |-> daily.slices, search |-> search] BY <1>2 DEF RatesIInv
  <2>2. daily.slices' = daily.slices /\ daily.search' = search BY <2>1
  <2>3. daily' = [slices |-> daily.slices, search |-> daily.search]' BY <2>1, <2>2
  <2>4. Covered' <=> Covered BY <1>2, <2>2 DEF Covered
  <2>5. GoodSearch(query)' BY <1>2 DEF RatesIInv, GoodSearch
  <2>6. GoodSearch(daily.search)' BY <1>2, <2>2 DEF GoodSearch
  <2> QED BY <1>2, <2>2, <2>3, <2>4, <2>5, <2>6 DEF RatesIInv
<1>3. CASE RenameFilter
  BY <1>1, <1>3 DEF RenameFilter, RatesIInv
<1>4. CASE EvictFilter BY <1>1, <1>4 DEF EvictFilter, RatesIInv
<1>5. CASE TryFilter
  <2>1. GoodSearch(query') BY <1>5, TriedIsGood, NotSearchingIsGood DEF TryFilter, RatesIInv
  <2> QED BY <1>1, <1>5, <2>1 DEF TryFilter, RatesIInv
<1>6. CASE CacheFilter
  <2>1. GoodSearch(query') BY <1>6, CachedIsGood DEF CacheFilter, RatesIInv
  <2>2. filter' \in Filter \cup {None}
    BY <1>6 DEF CacheFilter, CachedBy, RatesIInv, GoodSearch
  <2> QED BY <1>1, <1>6, <2>1, <2>2 DEF CacheFilter
<1>7. CASE ForgetAnswer BY <1>1, <1>7, NotSearchingIsGood DEF ForgetAnswer, RatesIInv
<1>8. ASSUME NEW map \in RateMap, AskStats(map) PROVE RatesIInv'
  <2>1. GoodSearch(query') BY <1>8, SearchIsGood DEF AskStats, RatesIInv
  <2> QED BY <1>1, <1>8, <2>1 DEF AskStats, RatesIInv
<1>9. CASE StartRecording
  <2>1. daily' = [slices |-> Slices, search |-> NotSearching] BY <1>9 DEF StartRecording
  <2>2. Covered' BY <2>1 DEF Covered
  <2>3. Slices \in Seq(Range(Slices)) /\ Len(Slices) <= Len(Slices) BY RatesAssumption
  <2>4. GoodSearch(daily.search)' /\ daily.search'.map = "all-maps"
    BY <2>1, NotSearchingIsGood DEF NotSearching, GoodSearch
  <2>5. GoodSearch(query)' BY <1>9 DEF StartRecording, RatesIInv, GoodSearch
  <2> QED BY <1>9, <2>1, <2>2, <2>3, <2>4, <2>5 DEF StartRecording, RatesIInv
<1>10. CASE BeginSlice
  <2>1. GoodSearch(Search("all-maps")) /\ Search("all-maps").map = "all-maps"
    BY SearchIsGood DEF RatesIInv
  <2> QED BY <1>2, <1>10, <2>1 DEF BeginSlice, RatesIInv
<1>11. CASE TrySlice
  <2>1. daily.slices # <<>> BY <1>11 DEF TrySlice, RatesIInv, NotSearching
  <2>2. PICK search \in Tried(daily.search) :
          IF search = NotSearching
          THEN NextSlice /\ failed' = failed \cup {Head(daily.slices)}
          ELSE daily' = [daily EXCEPT !.search = search] /\ UNCHANGED failed
    BY <1>11 DEF TrySlice
  <2>3. CASE search = NotSearching
    BY <1>11, <2>1, <2>2, <2>3, SliceFailsStep DEF TrySlice
  <2>4. CASE search # NotSearching
    <3>1. GoodSearch(search) /\ search.map = "all-maps"
      BY <1>11, <2>4, TriedIsGood DEF TrySlice, RatesIInv
    <3> QED BY <1>2, <1>11, <2>1, <2>2, <2>4, <3>1 DEF TrySlice, RatesIInv
  <2> QED BY <2>3, <2>4
<1>12. CASE CacheSlice
  <2>1. daily.slices # <<>> BY <1>12 DEF CacheSlice, RatesIInv, NotSearching
  <2>2. PICK search : search = [daily.search EXCEPT !.works = None] OBVIOUS
  <2>3. GoodSearch(search) /\ search.map = "all-maps" BY <2>2, CachedIsGood DEF RatesIInv
  <2>4. daily' = [daily EXCEPT !.search = search] BY <1>12, <2>2 DEF CacheSlice
  <2>5. filter' \in Filter \cup {None}
    BY <1>12 DEF CacheSlice, CachedBy, RatesIInv, GoodSearch
  <2> QED BY <1>2, <1>12, <2>1, <2>3, <2>4, <2>5 DEF CacheSlice
<1>13. CASE RecordSlice BY <1>13, RecordSliceStep
<1>14. CASE SliceFails
  <2>1. daily.slices # <<>> BY <1>14 DEF SliceFails, Fetched, RatesIInv, NotSearching
  <2> QED BY <1>14, <2>1, SliceFailsStep DEF SliceFails
<1>15. CASE NextDay
  <2>1. /\ daily.slices = <<>> /\ day' = day + 1 /\ failed' = None
        /\ UNCHANGED <<accepted, filter, query, daily, recorded, renamings>>
    BY <1>15 DEF NextDay
  <2>2. day' \in Nat \ {0} /\ 1..day \subseteq 1..day' BY <2>1 DEF RatesIInv
  <2>3. DOMAIN recorded' \subseteq (1..day') \X Range(Slices) BY <2>1, <2>2 DEF RatesIInv
  <2>4. GoodSearch(query)' /\ GoodSearch(daily.search)' BY <2>1 DEF RatesIInv, GoodSearch
  <2> QED BY <2>1, <2>2, <2>3, <2>4 DEF RatesIInv
<1>16. CASE UNCHANGED rateVars
  BY <1>1, <1>16 DEF rateVars, RatesIInv
<1> QED
  BY <1>3, <1>4, <1>5, <1>6, <1>7, <1>8, <1>9, <1>10, <1>11, <1>12, <1>13, <1>14, <1>15, <1>16
  DEF RatesNext

-----------------------------------------------------------------------------
(* The rollout *)

\* The places of the script once one app is left.
After == {"swapped", "restarting", "waiting", "reconciled", "evicted", "done"}
ScriptPlaces == {"begin", "launched", "starting", "healthy", "givenUp", "stopped", "scaling", "failed"}
            \cup After

RolloutTypes ==
  /\ app \in [Container -> {"none", "starting", "serving", "exited"}]
  /\ worker \in Version \cup {"none"}
  /\ rendered \subseteq Version /\ resolved \subseteq Container
  /\ deploy \in ScriptPlaces
  /\ oldApp \in OldApp \cup {"none"}
  /\ newApp \in (Container \ {oldApp}) \cup {"unknown", "none"}

RolloutIInv ==
  /\ RolloutTypes
  /\ deploy = "begin" =>
       /\ app["new"] = "none" /\ oldApp = "none" /\ newApp = "unknown"
       /\ resolved = Running /\ (Running # {} => Serving # {})
  /\ oldApp = "none" => newApp = "unknown" /\ deploy \in {"begin", "failed"} \cup After
  /\ deploy = "launched" =>
       newApp = "unknown" /\ \E c \in Container \ {oldApp} : app[c] = "none"
  /\ deploy \in {"starting", "healthy", "givenUp", "stopped"} => newApp \in Container
  /\ deploy = "scaling" => newApp # "unknown"
  \* There are two containers; the old one serves until the new one does.
  /\ oldApp # "none" /\ newApp \in Container =>
       \A c \in Container \ {oldApp, newApp} : app[c] = "none"
  /\ deploy \in {"starting", "givenUp"} => app[oldApp] = "serving" /\ oldApp \in resolved
  /\ deploy \in {"healthy", "stopped", "scaling"} \cup After /\ newApp \in Container =>
       app[newApp] = "serving"
  /\ deploy \in {"stopped", "scaling"} \cup After /\ newApp \in Container =>
       newApp \in resolved
  /\ deploy = "scaling" /\ newApp \in Container => app[oldApp] = "none"
  /\ deploy = "stopped" => app[oldApp] = "exited"
  \* Then one is left.
  /\ deploy \in After =>
       \E kept \in Container : /\ app[kept] \in {"starting", "serving"}
                               /\ \A c \in Container \ {kept} : app[c] = "none"
  /\ deploy \in {"reconciled", "evicted", "done"} => Serving # {}
  \* The old worker goes after the old app, and what both rendered goes last.
  /\ deploy = "restarting" => worker = "none"
  /\ deploy \in {"waiting", "reconciled", "evicted", "done"} => worker = "new"
  /\ deploy \in {"evicted", "done"} /\ ~warned /\ app["new"] # "none" => "old" \notin rendered
  /\ oldApp # "none" /\ newApp # "none" => resolved \cap Serving # {}

LEMMA RolloutInitial == RolloutInit => RolloutIInv
<1> SUFFICES ASSUME RolloutInit PROVE RolloutIInv OBVIOUS
<1>1. PICK leftBy \in [OldApp -> {"none", "starting", "serving", "exited"}] :
        app = [c \in Container |-> IF c = "new" THEN "none" ELSE leftBy[c]]
  BY DEF RolloutInit
<1>2. \A c \in OldApp : leftBy[c] \in {"none", "starting", "serving", "exited"} OBVIOUS
<1>3. /\ app \in [Container -> {"none", "starting", "serving", "exited"}]
      /\ app["new"] = "none"
  BY <1>1, <1>2 DEF Container, OldApp
<1>4. Running \subseteq Container BY DEF Running
<1> QED
  BY <1>3, <1>4 DEF RolloutInit, RolloutIInv, RolloutTypes, ScriptPlaces, After, Version

LEMMA RolloutStep == RolloutIInv /\ [RolloutNext]_rolloutVars => RolloutIInv'
<1> SUFFICES ASSUME RolloutIInv, [RolloutNext]_rolloutVars PROVE RolloutIInv' OBVIOUS
<1> USE DEF RolloutIInv, RolloutTypes, ScriptPlaces, After, Version, Container, OldApp
<1>0. Running \subseteq Container /\ Serving \subseteq Running BY DEF Running, Serving
<1>1. CASE Resolve
  <2>1. /\ resolved' = Running
        /\ UNCHANGED <<app, worker, rendered, deploy, oldApp, newApp, warned>>
    BY <1>1 DEF Resolve, scriptVars
  <2>2. Running' = Running /\ Serving' = Serving BY <2>1 DEF Running, Serving
  <2>3. oldApp' # "none" /\ newApp' # "none" => resolved' \cap Serving' # {}
    <3>1. oldApp # "none" /\ newApp # "none" => resolved \cap Serving # {} OBVIOUS
    <3> HIDE DEF RolloutIInv, RolloutTypes
    <3> QED BY ONLY <1>0, <2>1, <2>2, <3>1
  <2>4. \A c \in Container : app[c] = "serving" => c \in resolved' BY <2>1 DEF Running
  <2>5. resolved' \subseteq Container BY <1>0, <2>1
  <2> QED BY <2>1, <2>2, <2>3, <2>4, <2>5
<1>2. CASE Launch
  <2>1. /\ deploy = "begin" /\ deploy' = "launched" /\ oldApp' \in Running
        /\ app' = ScaledToTwo
        /\ UNCHANGED <<worker, rendered, resolved, newApp, warned>>
    BY <1>2 DEF Launch, At
  <2>2. /\ oldApp' \in OldApp /\ newApp' = "unknown" /\ newApp = "unknown"
        /\ app["new"] = "none" /\ resolved = Running /\ Serving # {}
    BY <2>1 DEF Running
  <2>3. PICK s \in Serving : TRUE BY <2>2
  <2>4. /\ app' \in [Container -> {"none", "starting", "serving", "exited"}]
        /\ \A c \in Serving : app'[c] = "serving"
        /\ \E c \in Container \ {oldApp'} : app'[c] = "none"
    <3>1. CASE \A c \in OldApp : app[c] # "none"
      <4>1. app' = [c \in Container |-> IF app[c] = "exited" THEN "starting" ELSE app[c]]
        BY <2>1, <3>1 DEF ScaledToTwo
      <4>2. app'["new"] = "none" BY <4>1, <2>2
      <4> QED BY <4>1, <4>2, <2>2 DEF Serving
    <3>2. CASE \E c \in OldApp : app[c] = "none"
      <4>1. app' = [app EXCEPT !["new"] = "starting"] BY <2>1, <3>2 DEF ScaledToTwo
      <4>2. app[oldApp'] # "none" BY <2>1 DEF Running
      <4> QED BY <4>1, <4>2, <2>2, <3>2 DEF Serving
    <3> QED BY <3>1, <3>2
  <2>5. s \in resolved' \cap Serving' BY <1>0, <2>1, <2>2, <2>3, <2>4 DEF Serving
  <2> QED BY <2>1, <2>2, <2>4, <2>5
<1>3. CASE StartFresh
  <2>1. /\ deploy = "begin" /\ deploy' = "swapped"
        /\ app' = [c \in Container |-> IF c = "new" THEN "starting" ELSE "none"]
        /\ UNCHANGED <<worker, rendered, resolved, oldApp, newApp, warned>>
    BY <1>3 DEF StartFresh, At
  <2> QED BY <2>1
<1>4. CASE FindNew
  <2>0. UNCHANGED <<app, worker, rendered, resolved, oldApp, warned>> /\ deploy = "launched"
    BY <1>4 DEF FindNew, At
  <2>1. Serving' = Serving BY <2>0 DEF Serving
  <2>2. CASE newApp' = "none" /\ deploy' = "scaling" BY <2>0, <2>1, <2>2
  <2>3. CASE /\ newApp' \in Running \ {oldApp}
             /\ deploy' = IF app[newApp'] = "serving" THEN "healthy" ELSE "starting"
    <3>1. newApp' \in Container /\ newApp' # oldApp /\ app[newApp'] # "none" /\ oldApp # "none"
      BY <2>0, <2>3 DEF Running
    <3>2. \A c \in Container \ {oldApp', newApp'} : app'[c] = "none" BY <2>0, <3>1
    <3>3. PICK s \in Container : s \in resolved /\ app[s] = "serving"
      BY <2>0, <3>1 DEF Serving
    <3>4. app[newApp'] # "serving" => s = oldApp BY <2>0, <3>1, <3>2, <3>3
    <3>5. s \in resolved' \cap Serving' BY <2>0, <3>3 DEF Serving
    <3> QED BY <2>0, <2>1, <2>3, <3>1, <3>2, <3>3, <3>4, <3>5
  <2> QED BY <1>4, <2>2, <2>3 DEF FindNew, At
<1>5. CASE NewHealthy
  <2>1. UNCHANGED <<app, worker, rendered, resolved, oldApp, newApp, warned>>
        /\ deploy = "starting" /\ deploy' = "healthy" /\ app[newApp] = "serving"
    BY <1>5 DEF NewHealthy, At
  <2>2. Serving' = Serving BY <2>1 DEF Serving
  <2> QED BY <2>1, <2>2
<1>6. CASE NewNeverHealthy
  <2>1. /\ deploy = "starting" /\ deploy' = "givenUp"
        /\ app' = [app EXCEPT ![newApp] = "exited"] /\ rendered' \in {{}, rendered}
        /\ UNCHANGED <<worker, resolved, oldApp, newApp, warned>>
    BY <1>6 DEF NewNeverHealthy, At, Stopped, Evict
  <2>2. app'[oldApp'] = "serving" /\ oldApp' \in resolved' /\ oldApp' \in OldApp BY <2>1
  <2>3. oldApp' \in resolved' \cap Serving' BY <2>2 DEF Serving
  <2> QED BY <2>1, <2>2, <2>3
<1>7. CASE RemoveNew
  <2>1. /\ deploy = "givenUp" /\ deploy' = "failed" /\ app' = [app EXCEPT ![newApp] = "none"]
        /\ UNCHANGED <<worker, rendered, resolved, oldApp, newApp, warned>>
    BY <1>7 DEF RemoveNew, At
  <2>2. app'[oldApp'] = "serving" /\ oldApp' \in resolved' /\ oldApp' \in OldApp BY <2>1
  <2>3. oldApp' \in resolved' \cap Serving' BY <2>2 DEF Serving
  <2> QED BY <2>1, <2>2, <2>3
<1>8. CASE StopOld
  <2>1. /\ newApp \in resolved /\ deploy = "healthy" /\ deploy' = "stopped"
        /\ app' = [app EXCEPT ![oldApp] = "exited"] /\ rendered' \in {{}, rendered}
        /\ UNCHANGED <<worker, resolved, oldApp, newApp, warned>>
    BY <1>8 DEF StopOld, At, Stopped, Evict
  <2>2. app'[newApp'] = "serving" /\ newApp' \in Container /\ app'[oldApp'] = "exited" BY <2>1
  <2>3. newApp' \in resolved' \cap Serving' BY <2>1, <2>2 DEF Serving
  <2> QED BY <2>1, <2>2, <2>3
<1>9. CASE RemoveOld
  <2>1. /\ deploy = "stopped" /\ deploy' = "scaling" /\ app' = [app EXCEPT ![oldApp] = "none"]
        /\ UNCHANGED <<worker, rendered, resolved, oldApp, newApp, warned>>
    BY <1>9 DEF RemoveOld, At
  <2>2. app'[newApp'] = "serving" /\ newApp' \in Container /\ app'[oldApp'] = "none" BY <2>1
  <2>3. newApp' \in resolved' \cap Serving' BY <2>1, <2>2 DEF Serving
  <2> QED BY <2>1, <2>2, <2>3
<1>10. CASE ScaleToOne
  <2>1. PICK kept \in Running :
          app' = [c \in Container |-> IF c = kept THEN app[c] ELSE "none"]
    BY <1>10 DEF ScaleToOne
  <2>2. /\ deploy = "scaling" /\ deploy' = "swapped" /\ rendered' \in {{}, rendered}
        /\ UNCHANGED <<worker, resolved, oldApp, newApp, warned>>
    BY <1>10 DEF ScaleToOne, At, Evict
  <2>3. /\ kept \in Container /\ app[kept] \in {"starting", "serving"}
        /\ app' \in [Container -> {"none", "starting", "serving", "exited"}]
        /\ app'[kept] \in {"starting", "serving"}
        /\ \A c \in Container \ {kept} : app'[c] = "none"
    BY <1>0, <2>1 DEF Running
  <2>4. CASE newApp \in Container
    <3>1. kept = newApp /\ app'[newApp] = "serving" BY <2>1, <2>2, <2>3, <2>4
    <3>2. newApp' \in resolved' \cap Serving' BY <2>2, <2>4, <3>1 DEF Serving
    <3> QED BY <2>2, <2>3, <2>4, <3>1, <3>2
  <2>5. CASE newApp = "none" BY <2>2, <2>3, <2>5
  <2> QED BY <2>2, <2>4, <2>5
<1>11. CASE StopWorker
  <2>1. Serving' = Serving BY <1>11 DEF StopWorker, Serving
  <2> QED BY <1>11, <2>1 DEF StopWorker, At
<1>12. CASE StartWorker
  <2>1. Serving' = Serving BY <1>12 DEF StartWorker, Serving
  <2> QED BY <1>12, <2>1 DEF StartWorker, At
<1>13. CASE Reconcile
  <2>1. /\ deploy = "waiting" /\ deploy' = "reconciled" /\ Serving # {}
        /\ resolved' \in {resolved, Running}
        /\ UNCHANGED <<app, worker, rendered, oldApp, newApp, warned>>
    BY <1>13 DEF Reconcile, At
  <2>2. Serving' = Serving BY <2>1 DEF Serving
  <2>3. oldApp' # "none" /\ newApp' # "none" => resolved' \cap Serving' # {}
    <3>1. oldApp # "none" /\ newApp # "none" => resolved \cap Serving # {} OBVIOUS
    <3> HIDE DEF RolloutIInv, RolloutTypes
    <3> QED BY ONLY <1>0, <2>1, <2>2, <3>1
  <2>4. newApp \in Container => newApp \in resolved' BY <2>1 DEF Running
  <2>5. resolved' \subseteq Container BY <1>0, <2>1
  <2> QED BY <2>1, <2>2, <2>3, <2>4, <2>5
<1>14. CASE EvictRendered
  <2>1. Serving' = Serving BY <1>14 DEF EvictRendered, Serving
  <2> QED BY <1>14, <2>1 DEF EvictRendered, At
<1>15. CASE Verify
  <2>1. Serving' = Serving BY <1>15 DEF Verify, Serving
  <2> QED BY <1>15, <2>1 DEF Verify, At
<1>16. CASE Abort
  <2>1. Serving' = Serving BY <1>16 DEF Abort, Serving
  <2> QED BY <1>16, <2>1 DEF Abort
<1>17. ASSUME NEW v \in Version, Render(v) PROVE RolloutIInv'
  <2>1. /\ rendered' = rendered \cup {v}
        /\ UNCHANGED <<app, worker, resolved, deploy, oldApp, newApp, warned>>
    BY <1>17 DEF Render, scriptVars
  <2>2. Serving' = Serving /\ Running' = Running BY <2>1 DEF Serving, Running
  <2>3. deploy \in {"evicted", "done"} /\ app["new"] # "none" => v # "old"
    <3>1. SUFFICES ASSUME deploy \in {"evicted", "done"}, app["new"] # "none", v = "old"
          PROVE FALSE
      OBVIOUS
    <3>2. PICK c \in Container : app[c] = "serving" /\ VersionOf(c) = "old"
      BY <1>17, <3>1 DEF Render, Serving
    <3> QED BY <3>1, <3>2 DEF VersionOf
  <2> QED BY <2>1, <2>2, <2>3
<1>18. ASSUME NEW c \in Container, BeginServing(c) PROVE RolloutIInv'
  <2>1. /\ app[c] = "starting" /\ app' = [app EXCEPT ![c] = "serving"]
        /\ rendered' \in {{}, rendered}
        /\ UNCHANGED <<worker, resolved, deploy, oldApp, newApp, warned>>
    BY <1>18 DEF BeginServing, Evict, scriptVars
  <2>2. /\ \A d \in Container : app[d] = "serving" => app'[d] = "serving"
        /\ \A d \in Container : app[d] \in {"none", "exited"} <=> app'[d] \in {"none", "exited"}
        /\ \A d \in Container : app[d] = "none" <=> app'[d] = "none"
        /\ \A d \in Container : app[d] = "exited" <=> app'[d] = "exited"
    BY <2>1
  <2>3. Running' = Running /\ Serving \subseteq Serving' BY <2>1, <2>2 DEF Running, Serving
  <2>4. app' \in [Container -> {"none", "starting", "serving", "exited"}] BY <2>1
  <2>5. deploy \in After =>
          \E kept \in Container : /\ app'[kept] \in {"starting", "serving"}
                                  /\ \A d \in Container \ {kept} : app'[d] = "none"
    <3> SUFFICES ASSUME deploy \in After
        PROVE  \E kept \in Container : /\ app'[kept] \in {"starting", "serving"}
                                       /\ \A d \in Container \ {kept} : app'[d] = "none"
      OBVIOUS
    <3>1. PICK kept \in Container : /\ app[kept] \in {"starting", "serving"}
                                    /\ \A d \in Container \ {kept} : app[d] = "none"
      OBVIOUS
    <3>2. app'[kept] \in {"starting", "serving"} BY <2>1, <3>1
    <3> QED BY <2>2, <3>1, <3>2
  <2>6. oldApp' # "none" /\ newApp' # "none" => resolved' \cap Serving' # {} BY <2>1, <2>3
  <2>7. deploy = "begin" => app'["new"] = "none" /\ (Running' # {} => Serving' # {})
    BY <2>2, <2>3
  <2>8. deploy \in {"reconciled", "evicted", "done"} => Serving' # {} BY <2>3
  <2>9. /\ deploy \in {"starting", "givenUp"} => app'[oldApp] = "serving"
        /\ deploy \in {"healthy", "stopped", "scaling"} \cup After /\ newApp \in Container =>
             app'[newApp] = "serving"
    BY <2>2
  <2>10. /\ oldApp # "none" /\ newApp \in Container =>
              \A d \in Container \ {oldApp, newApp} : app'[d] = "none"
         /\ deploy = "launched" => \E d \in Container \ {oldApp} : app'[d] = "none"
    BY <2>2
  <2>11. /\ deploy = "scaling" /\ newApp \in Container => app'[oldApp] = "none"
         /\ deploy = "stopped" => app'[oldApp] = "exited"
    BY <2>2
  <2>12. app'["new"] # "none" => app["new"] # "none" BY <2>2
  <2>13. UNCHANGED <<worker, resolved, deploy, oldApp, newApp, warned>> BY <2>1
  <2>14. rendered' \subseteq rendered BY <2>1
  <2>15. RolloutTypes' BY <2>4, <2>13, <2>14
  <2>16. deploy \in {"evicted", "done"} /\ ~warned /\ app'["new"] # "none" => "old" \notin rendered'
    BY <2>12, <2>14
  <2>17. resolved = Running => resolved = Running' BY <2>3
  <2> QED
    BY <2>5, <2>6, <2>7, <2>8, <2>9, <2>10, <2>11, <2>13, <2>15, <2>16, <2>17
<1>19. CASE UNCHANGED rolloutVars
  <2>1. Serving' = Serving /\ Running' = Running
    BY <1>19 DEF rolloutVars, Serving, Running
  <2> QED BY <1>19, <2>1 DEF rolloutVars
<1> QED
  BY <1>1, <1>2, <1>3, <1>4, <1>5, <1>6, <1>7, <1>8, <1>9, <1>10, <1>11, <1>12, <1>13, <1>14,
     <1>15, <1>16, <1>17, <1>18, <1>19
  DEF RolloutNext

-----------------------------------------------------------------------------
(* The theorems *)

IInv == UnknownIInv /\ RatesIInv /\ RolloutIInv

LEMMA Initial == Init => IInv
BY UnknownInitial, RatesInitial, RolloutInitial DEF Init, IInv

LEMMA Step == IInv /\ [Next]_vars => IInv'
<1> SUFFICES ASSUME IInv, [Next]_vars PROVE IInv' OBVIOUS
<1>1. /\ [UnknownNext]_unknownVars
      /\ [RatesNext]_rateVars
      /\ [RolloutNext]_rolloutVars
  BY DEF Next, vars
<1> QED BY <1>1, UnknownStep, RatesStep, RolloutStep DEF IInv

THEOREM Invariant == Spec => []IInv
BY Initial, Step, PTL DEF Spec

\* No cooldown outlasts the longest wait and none counts more misses than there were,
\* for any schedule, whatever the requests and the eviction do in between; the lists
\* and the table of the recording keep to the filters, slices and days there are.
THEOREM TypeCorrect == Spec => []TypeOK
<1>1. IInv => TypeOK
  <2> SUFFICES ASSUME IInv PROVE TypeOK OBVIOUS
  <2>1. UnknownTypeOK BY DEF IInv, UnknownIInv, UnknownTypeOK, Wait
  <2>2. filter \in Range(Candidates) \cup {None} BY FilterRange DEF IInv, RatesIInv
  <2>3. /\ Len(daily.slices) <= Len(Slices)
        /\ DOMAIN recorded \subseteq (1..day) \X Range(Slices)
    BY DEF IInv, RatesIInv
  <2>4. rendered \subseteq Version /\ resolved \subseteq Container
    BY DEF IInv, RolloutIInv, RolloutTypes
  <2> QED BY <2>1, <2>2, <2>3, <2>4 DEF TypeOK
<1> QED BY Invariant, <1>1, PTL

\* What is served or recorded as competitive is, for any heroes and slices and however
\* often Blizzard renames its filter; and a slice that fails costs no other's reading.
THEOREM Competitive == Spec => []RatesAreCompetitive
<1>1. IInv => RatesAreCompetitive
  BY DEF IInv, RatesIInv, GoodSearch, RatesAreCompetitive, CompetitiveRow, Covered
<1> QED BY Invariant, <1>1, PTL

\* While one app replaces another nginx has one that serves, wherever the script ends
\* and whatever an earlier one left; and a finished rollout that kept the new app runs no
\* old one and leaves nothing that old code rendered, unless it warned.
THEOREM Uninterrupted == Spec => []RolloutServesTheNew
<1>1. ASSUME IInv PROVE RolloutServesTheNew
  <2>1. RolloutIInv BY <1>1 DEF IInv
  <2>2. deploy = "done" /\ app["new"] # "none" => Running = {"new"}
    BY <2>1 DEF RolloutIInv, After, Running, Container, OldApp
  <2> QED BY <2>1, <2>2 DEF RolloutIInv, RolloutServesTheNew
<1> QED BY Invariant, <1>1, PTL

-----------------------------------------------------------------------------
(* The search *)

\* What Blizzard answers: players, each once.
FoundIInv ==
  /\ found \in Seq(Player)
  /\ \A i, j \in DOMAIN found : found[i].id = found[j].id => i = j

\* The matches of a name, the places FilterPlayers leaves.
Matches(name) == {i \in DOMAIN found : found[i].name = name /\ found[i].public}

\* Leq in the order asked for.
Leq(direction, a, b) == IF direction = "asc" THEN a <= b ELSE a >= b



\* s is seq in the order asked for; s is seq with those spelt as searched first.
IsOrdered(s, seq, n, direction) ==
  \E at \in [1..n -> 1..n] :
    /\ s \in [1..n -> Player]
    /\ \A m \in 1..n : s[m] = seq[at[m]]
    /\ \A i \in 1..n : \E m \in 1..n : at[m] = i
    /\ \A l, m \in 1..n : at[l] = at[m] => l = m
    /\ \A l, m \in 1..n : l < m => Leq(direction, seq[at[l]].updated, seq[at[m]].updated)

IsPrioritized(s, seq, n) ==
  \E at \in [1..n -> 1..n] :
    /\ s \in [1..n -> Player]
    /\ \A m \in 1..n : s[m] = seq[at[m]]
    /\ \A i \in 1..n : \E m \in 1..n : at[m] = i
    /\ \A l, m \in 1..n : at[l] = at[m] => l = m
    /\ \A l, m \in 1..n : l < m =>
         \/ seq[at[l]].cased /\ ~seq[at[m]].cased
         \/ seq[at[l]].cased = seq[at[m]].cased /\ at[l] < at[m]

LEMMA SortFacts ==
  ASSUME NEW n \in Nat, NEW seq \in [1..n -> Player]
  PROVE  /\ \A direction \in {"asc", "desc"} :
              IsOrdered(ApplyOrdering(seq, direction), seq, n, direction)
         /\ IsPrioritized(PrioritizeExactMatches(seq), seq, n)
<1>0. Cardinality(1..n) = n /\ DOMAIN seq = 1..n
  BY FS_Interval
<1>00. \A i \in 1..n : seq[i].updated \in Int /\ seq[i].cased \in BOOLEAN
  BY SiteAssumption
<1>1. ASSUME NEW direction \in {"asc", "desc"}
      PROVE  IsOrdered(ApplyOrdering(seq, direction), seq, n, direction)
  <2> DEFINE before(p, q) == IF direction = "desc" THEN p.updated > q.updated
                             ELSE p.updated < q.updated
             B == {z \in (1..n) \X (1..n) : before(seq[z[1]], seq[z[2]])}
             at == Arranged(1..n, LAMBDA i, j :
                     before(seq[i], seq[j]) \/ (~before(seq[j], seq[i]) /\ i <= j))
  <2>1. \A i, j \in 1..n : <<i, j>> \in B <=> before(seq[i], seq[j])
    OBVIOUS
  <2>2. WeakOrder(1..n, B)
    <3>1. ASSUME NEW x \in 1..n, NEW y \in 1..n PROVE ~ (<<x, y>> \in B /\ <<y, x>> \in B)
      <4>1. seq[x].updated \in Int /\ seq[y].updated \in Int
        BY <1>00
      <4> HIDE DEF B
      <4> QED BY <2>1, <4>1
    <3>2. ASSUME NEW x \in 1..n, NEW y \in 1..n, NEW z \in 1..n, <<x, z>> \in B
          PROVE  <<x, y>> \in B \/ <<y, z>> \in B
      <4>1. seq[x].updated \in Int /\ seq[y].updated \in Int /\ seq[z].updated \in Int
        BY <1>00
      <4> HIDE DEF B
      <4> QED BY <2>1, <3>2, <4>1
    <3> HIDE DEF B
    <3> QED BY <3>1, <3>2 DEF WeakOrder
  <2>3. at = [m \in 1..n |-> CHOOSE i \in 1..n :
               Cardinality({j \in 1..n : before(seq[j], seq[i])
                              \/ (~before(seq[i], seq[j]) /\ j <= i)}) = m]
    BY <1>0 DEF Arranged
  <2>4. ApplyOrdering(seq, direction) = [m \in 1..n |-> seq[at[m]]]
    BY <2>3 DEF ApplyOrdering, StableSort
  <2> DEFINE upto(i) == {j \in 1..n : <<j, i>> \in B \/ (<<i, j>> \notin B /\ j <= i)}
  <2>5. ASSUME NEW i \in 1..n
        PROVE  {j \in 1..n : before(seq[j], seq[i])
                  \/ (~before(seq[i], seq[j]) /\ j <= i)} = upto(i)
    <3> HIDE DEF B, before
    <3> QED BY <2>1
  <2> HIDE DEF B, at, before
  <2>6. ASSUME NEW m \in 1..n, NEW i \in 1..n, Cardinality(upto(i)) = m
        PROVE  at[m] \in 1..n /\ Cardinality(upto(at[m])) = m
    BY <2>3, <2>5, <2>6
  <2>7. /\ \A m \in 1..n : at[m] \in 1..n
        /\ \A i \in 1..n : \E m \in 1..n : at[m] = i
        /\ \A l, m \in 1..n : at[l] = at[m] => l = m
        /\ \A l, m \in 1..n : l < m =>
             /\ <<at[m], at[l]>> \notin B
             /\ <<at[l], at[m]>> \in B \/ at[l] < at[m]
    BY <2>2, <2>6, StableFacts
  <2>8. at \in [1..n -> 1..n]
    <3> DEFINE chosen(m) == CHOOSE i \in 1..n :
                 Cardinality({j \in 1..n : before(seq[j], seq[i])
                                \/ (~before(seq[i], seq[j]) /\ j <= i)}) = m
    <3>1. at = [m \in 1..n |-> chosen(m)]
      BY <2>3
    <3> HIDE DEF chosen
    <3>2. DOMAIN at = 1..n /\ at = [m \in 1..n |-> at[m]]
      BY <3>1
    <3> QED BY <2>7, <3>2
  <2>9. ASSUME NEW l \in 1..n, NEW m \in 1..n, l < m
        PROVE  Leq(direction, seq[at[l]].updated, seq[at[m]].updated)
    <3>1. ~before(seq[at[m]], seq[at[l]])
      BY <2>1, <2>7, <2>9
    <3>2. seq[at[l]].updated \in Int /\ seq[at[m]].updated \in Int
      BY <1>00, <2>7
    <3> QED BY <3>1, <3>2 DEF before, Leq
  <2>10. /\ ApplyOrdering(seq, direction) \in [1..n -> Player]
         /\ \A m \in 1..n : ApplyOrdering(seq, direction)[m] = seq[at[m]]
    BY <2>4, <2>8
  <2> QED BY <2>7, <2>8, <2>9, <2>10 DEF IsOrdered
<1>2. IsPrioritized(PrioritizeExactMatches(seq), seq, n)
  <2> DEFINE before(p, q) == p.cased /\ ~q.cased
             B == {z \in (1..n) \X (1..n) : before(seq[z[1]], seq[z[2]])}
             at == Arranged(1..n, LAMBDA i, j :
                     before(seq[i], seq[j]) \/ (~before(seq[j], seq[i]) /\ i <= j))
  <2>1. \A i, j \in 1..n : <<i, j>> \in B <=> before(seq[i], seq[j])
    OBVIOUS
  <2>2. WeakOrder(1..n, B)
    <3>1. \A i, j \in 1..n : <<i, j>> \in B <=> seq[i].cased /\ ~seq[j].cased
      BY <2>1
    <3> HIDE DEF B
    <3> QED BY <3>1 DEF WeakOrder
  <2>3. at = [m \in 1..n |-> CHOOSE i \in 1..n :
               Cardinality({j \in 1..n : before(seq[j], seq[i])
                              \/ (~before(seq[i], seq[j]) /\ j <= i)}) = m]
    BY <1>0 DEF Arranged
  <2>4. PrioritizeExactMatches(seq) = [m \in 1..n |-> seq[at[m]]]
    BY <2>3 DEF PrioritizeExactMatches, StableSort
  <2> DEFINE upto(i) == {j \in 1..n : <<j, i>> \in B \/ (<<i, j>> \notin B /\ j <= i)}
  <2>5. ASSUME NEW i \in 1..n
        PROVE  {j \in 1..n : before(seq[j], seq[i])
                  \/ (~before(seq[i], seq[j]) /\ j <= i)} = upto(i)
    <3> HIDE DEF B, before
    <3> QED BY <2>1
  <2> HIDE DEF B, at, before
  <2>6. ASSUME NEW m \in 1..n, NEW i \in 1..n, Cardinality(upto(i)) = m
        PROVE  at[m] \in 1..n /\ Cardinality(upto(at[m])) = m
    BY <2>3, <2>5, <2>6
  <2>7. /\ \A m \in 1..n : at[m] \in 1..n
        /\ \A i \in 1..n : \E m \in 1..n : at[m] = i
        /\ \A l, m \in 1..n : at[l] = at[m] => l = m
        /\ \A l, m \in 1..n : l < m =>
             /\ <<at[m], at[l]>> \notin B
             /\ <<at[l], at[m]>> \in B \/ at[l] < at[m]
    BY <2>2, <2>6, StableFacts
  <2>8. at \in [1..n -> 1..n]
    <3> DEFINE chosen(m) == CHOOSE i \in 1..n :
                 Cardinality({j \in 1..n : before(seq[j], seq[i])
                                \/ (~before(seq[i], seq[j]) /\ j <= i)}) = m
    <3>1. at = [m \in 1..n |-> chosen(m)]
      BY <2>3
    <3> HIDE DEF chosen
    <3>2. DOMAIN at = 1..n /\ at = [m \in 1..n |-> at[m]]
      BY <3>1
    <3> QED BY <2>7, <3>2
  <2>9. ASSUME NEW l \in 1..n, NEW m \in 1..n, l < m
        PROVE  \/ seq[at[l]].cased /\ ~seq[at[m]].cased
               \/ seq[at[l]].cased = seq[at[m]].cased /\ at[l] < at[m]
    <3>1. /\ ~before(seq[at[m]], seq[at[l]])
          /\ before(seq[at[l]], seq[at[m]]) \/ at[l] < at[m]
      BY <2>1, <2>7, <2>9
    <3>2. seq[at[l]].cased \in BOOLEAN /\ seq[at[m]].cased \in BOOLEAN
      BY <1>00, <2>7
    <3> QED BY <3>1, <3>2 DEF before
  <2>10. /\ PrioritizeExactMatches(seq) \in [1..n -> Player]
         /\ \A m \in 1..n : PrioritizeExactMatches(seq)[m] = seq[at[m]]
    BY <2>4, <2>8
  <2> QED BY <2>7, <2>8, <2>9, <2>10 DEF IsPrioritized
<1> QED BY <1>1, <1>2

\* A search's matches, those spelt as searched first, in the order asked for.
Ordered(name, direction) ==
  PrioritizeExactMatches(ApplyOrdering(FilterPlayers(found, name), direction))

\* s has the places M of "found", those spelt as searched first, in the order asked for.
IsRanking(s, M, N, direction) ==
  \E at \in [1..N -> M] :
    /\ \A m \in 1..N : s[m] = found[at[m]]
    /\ \A i \in M : \E m \in 1..N : at[m] = i
    /\ \A l, m \in 1..N : at[l] = at[m] => l = m
    /\ \A l, m \in 1..N : l < m =>
         \/ found[at[l]].cased /\ ~found[at[m]].cased
         \/ /\ found[at[l]].cased = found[at[m]].cased
            /\ Leq(direction, found[at[l]].updated, found[at[m]].updated)

LEMMA OrderedMatches ==
  ASSUME FoundIInv, NEW name, NEW direction \in {"asc", "desc"},
         NEW N, N = Cardinality(Matches(name))
  PROVE  /\ N \in 0..Len(found) /\ Ordered(name, direction) \in [1..N -> Player]
         /\ IsRanking(Ordered(name, direction), Matches(name), N, direction)
<1> DEFINE M == Matches(name)
<1>1. /\ M \in SUBSET Nat /\ IsFiniteSet(M) /\ N \in 0..Len(found) /\ N \in Nat
      /\ \A i \in M : found[i] \in Player
  <2>1. Len(found) \in Nat /\ DOMAIN found = 1..Len(found)
    BY DEF FoundIInv
  <2>2. IsFiniteSet(1..Len(found)) /\ Cardinality(1..Len(found)) = Len(found)
    BY <2>1, IntervalSize
  <2>3. M \in SUBSET (1..Len(found))
    BY <2>1 DEF Matches
  <2>4. IsFiniteSet(M) /\ N <= Len(found) /\ N \in Nat
    <3> HIDE DEF M
    <3>1. IsFiniteSet(M) /\ Cardinality(M) <= Len(found)
      BY <2>2, <2>3, FS_Subset
    <3> QED BY <3>1, FS_CardinalityType DEF M
  <2>5. \A i \in 1..Len(found) : found[i] \in Player
    BY <2>1 DEF FoundIInv
  <2> HIDE DEF M
  <2>6. N \in 0..Len(found)
    BY <2>1, <2>4
  <2>7. M \in SUBSET Nat
    BY <2>3
  <2> QED BY <2>3, <2>4, <2>5, <2>6, <2>7
<1> DEFINE s1 == FilterPlayers(found, name)
           s2 == ApplyOrdering(s1, direction)
           s3 == PrioritizeExactMatches(s2)
<1>2. PICK a \in [1..N -> M] :
        /\ s1 \in [1..N -> Player]
        /\ \A n \in 1..N : s1[n] = found[a[n]]
        /\ \A i \in M : \E n \in 1..N : a[n] = i
        /\ \A m, n \in 1..N : a[m] <= a[n] <=> m <= n
  <2>1. s1 = Picked(found, M)
    BY DEF FilterPlayers, Matches
  <2> HIDE DEF M, s1
  <2>2. M \in SUBSET Nat /\ IsFiniteSet(M) /\ \A i \in M : found[i] \in Player
    BY <1>1
  <2>3. N = Cardinality(M)
    BY DEF M
  <2>4. IsPicked(Picked(found, M), found, M, Player)
    BY <2>2, PickedFacts
  <2> QED BY <2>1, <2>3, <2>4 DEF IsPicked
<1> HIDE DEF M, s1
<1>3. PICK b \in [1..N -> 1..N] :
        /\ s2 \in [1..N -> Player]
        /\ \A m \in 1..N : s2[m] = s1[b[m]]
        /\ \A i \in 1..N : \E m \in 1..N : b[m] = i
        /\ \A l, m \in 1..N : b[l] = b[m] => l = m
        /\ \A l, m \in 1..N : l < m => Leq(direction, s1[b[l]].updated, s1[b[m]].updated)
  <2>1. IsOrdered(s2, s1, N, direction)
    BY <1>1, <1>2, SortFacts
  <2> QED BY <2>1 DEF IsOrdered
<1> HIDE DEF s2
<1>4. PICK c \in [1..N -> 1..N] :
        /\ s3 \in [1..N -> Player]
        /\ \A m \in 1..N : s3[m] = s2[c[m]]
        /\ \A i \in 1..N : \E m \in 1..N : c[m] = i
        /\ \A l, m \in 1..N : c[l] = c[m] => l = m
        /\ \A l, m \in 1..N : l < m =>
             \/ s2[c[l]].cased /\ ~s2[c[m]].cased
             \/ s2[c[l]].cased = s2[c[m]].cased /\ c[l] < c[m]
  <2>1. IsPrioritized(s3, s2, N)
    BY <1>1, <1>3, SortFacts
  <2> QED BY <2>1 DEF IsPrioritized
<1> HIDE DEF s3
<1> DEFINE at == [m \in 1..N |-> a[b[c[m]]]]
<1>5. ASSUME NEW m \in 1..N
      PROVE  /\ c[m] \in 1..N /\ b[c[m]] \in 1..N /\ a[b[c[m]]] \in M /\ at[m] = a[b[c[m]]]
             /\ s3[m] = found[at[m]] /\ s2[c[m]] = found[at[m]] /\ s1[b[c[m]]] = found[at[m]]
  <2>1. c[m] \in 1..N
    BY <1>4
  <2>2. b[c[m]] \in 1..N
    BY <1>3, <2>1
  <2>3. a[b[c[m]]] \in M
    BY <1>2, <2>2
  <2>4. s1[b[c[m]]] = found[a[b[c[m]]]]
    BY <1>2, <2>2
  <2>5. s2[c[m]] = s1[b[c[m]]]
    BY <1>3, <2>1
  <2> QED BY <1>4, <2>1, <2>2, <2>3, <2>4, <2>5
<1>6. at \in [1..N -> M]
  BY <1>5
<1> HIDE DEF at
<1>7. ASSUME NEW i \in M PROVE \E m \in 1..N : at[m] = i
  <2>1. PICK j \in 1..N : a[j] = i
    BY <1>2
  <2>2. PICK k \in 1..N : b[k] = j
    BY <1>3
  <2>3. PICK m \in 1..N : c[m] = k
    BY <1>4
  <2> QED BY <1>5, <2>1, <2>2, <2>3
<1>8. ASSUME NEW l \in 1..N, NEW m \in 1..N, at[l] = at[m] PROVE l = m
  <2>1. \A i, j \in 1..N : a[i] = a[j] => i = j
    <3> SUFFICES ASSUME NEW i \in 1..N, NEW j \in 1..N, a[i] = a[j] PROVE i = j
      OBVIOUS
    <3>1. a[i] \in Nat
      <4>1. a[i] \in M
        BY <1>2
      <4> QED BY <1>1, <4>1
    <3>2. a[i] <= a[j] /\ a[j] <= a[i]
      BY <3>1
    <3>3. i <= j /\ j <= i
      BY <1>2, <3>2
    <3>4. i \in Int /\ j \in Int
      BY <1>1
    <3> QED BY <3>3, <3>4
  <2>2. b[c[l]] = b[c[m]]
    BY <1>5, <1>8, <2>1
  <2>3. c[l] = c[m]
    BY <1>3, <1>5, <2>2
  <2> QED BY <1>4, <2>3
<1>9. ASSUME NEW l \in 1..N, NEW m \in 1..N, l < m
      PROVE  \/ found[at[l]].cased /\ ~found[at[m]].cased
             \/ /\ found[at[l]].cased = found[at[m]].cased
                /\ Leq(direction, found[at[l]].updated, found[at[m]].updated)
  <2>1. c[l] < c[m] => Leq(direction, s1[b[c[l]]].updated, s1[b[c[m]]].updated)
    BY <1>3, <1>5
  <2>2. \/ s2[c[l]].cased /\ ~s2[c[m]].cased
        \/ s2[c[l]].cased = s2[c[m]].cased /\ c[l] < c[m]
    BY <1>4, <1>9
  <2> QED BY <1>5, <2>1, <2>2
<1>10. Ordered(name, direction) = s3
  BY DEF Ordered, s1, s2, s3
<1>11. IsRanking(s3, M, N, direction)
  BY <1>5, <1>6, <1>7, <1>8, <1>9 DEF IsRanking
<1> QED BY <1>1, <1>4, <1>10, <1>11 DEF M

\* Spot n of page k of pages of size limit: each position is one, and they are in order.
LEMMA SpotOfPosition ==
  ASSUME NEW limit \in Nat \ {0}, NEW p \in Nat \ {0}
  PROVE  \E k \in 0..(p - 1), n \in 1..limit : p = limit * k + n
<1> DEFINE k == (p - 1) \div limit
           r == (p - 1) % limit
<1>1. k \in Int /\ r \in 0..(limit - 1) /\ p - 1 = limit * k + r
  OBVIOUS
<1>2. PICK q \in Int, s \in 0..(limit - 1) : p - 1 = limit * q + s
  BY <1>1
<1>3. q >= 0
  <2> SUFFICES ASSUME q <= -1 PROVE FALSE
    BY <1>2
  <2>1. limit * q <= -limit
    BY <1>2
  <2> QED BY <1>2, <2>1
<1>4. q <= p - 1
  <2>1. limit * q >= q
    BY <1>3
  <2> QED BY <1>2, <2>1
<1>5. q \in 0..(p - 1) /\ s + 1 \in 1..limit /\ p = limit * q + (s + 1)
  <2> DEFINE x == limit * q
  <2>1. x \in Int /\ p - 1 = x + s
    BY <1>2
  <2> HIDE DEF x
  <2>2. p = x + (s + 1) /\ s + 1 \in 1..limit
    BY <1>2, <2>1
  <2> QED BY <1>2, <1>3, <1>4, <2>2 DEF x
<1>6. q \in 0..(p - 1) /\ s + 1 \in 1..limit
  BY <1>5
<1> WITNESS q \in 0..(p - 1), s + 1 \in 1..limit
<1> QED BY <1>5

LEMMA SpotsInOrder ==
  ASSUME NEW limit \in Nat \ {0}, NEW k \in Nat, NEW l \in Nat, k < l,
         NEW m \in 1..limit, NEW n \in 1..limit
  PROVE  limit * k + m < limit * l + n
<1>1. PICK d \in Nat : l = k + 1 + d
  <2>1. l - k - 1 \in Nat /\ l = k + 1 + (l - k - 1)
    OBVIOUS
  <2> QED BY <2>1
<1>2. limit * l = limit * k + limit + limit * d
  BY <1>1
<1>3. limit * d >= 0
  OBVIOUS
<1> DEFINE x == limit * k
           y == limit * d
           z == limit * l
<1>4. x \in Int /\ y \in Int /\ z \in Int /\ z = x + limit + y /\ y >= 0
  BY <1>2, <1>3
<1> HIDE DEF x, y, z
<1>5. x + m < z + n
  BY <1>4
<1> QED BY <1>5 DEF x, z

LEMMA FoundInitial == SiteInit => FoundIInv
  BY DEF SiteInit, FoundIInv

LEMMA FoundStep == FoundIInv /\ (SearchNext \/ UNCHANGED found) => FoundIInv'
<1> SUFFICES ASSUME FoundIInv, SearchNext \/ UNCHANGED found PROVE FoundIInv'
  OBVIOUS
<1>1. CASE UNCHANGED found
  BY <1>1 DEF FoundIInv
<1>2. ASSUME NEW player \in Player, FindAnother(player) PROVE FoundIInv'
  <2>1. /\ found' = Append(found, player) /\ found \in Seq(Player)
        /\ \A i \in DOMAIN found : found[i].id # player.id
    BY <1>2 DEF FindAnother, FoundIInv
  <2>2. /\ found' \in Seq(Player) /\ DOMAIN found' = 1..(Len(found) + 1)
        /\ DOMAIN found = 1..Len(found) /\ Len(found) \in Nat
        /\ \A i \in DOMAIN found : found'[i] = found[i]
        /\ found'[Len(found) + 1] = player
    BY <2>1
  <2>3. ASSUME NEW i \in DOMAIN found', NEW j \in DOMAIN found', found'[i].id = found'[j].id
        PROVE  i = j
    <3>1. i \in DOMAIN found \/ i = Len(found) + 1
      BY <2>2
    <3>2. j \in DOMAIN found \/ j = Len(found) + 1
      BY <2>2
    <3> QED BY <2>1, <2>2, <2>3, <3>1, <3>2 DEF FoundIInv
  <2> QED BY <2>2, <2>3 DEF FoundIInv
<1> QED BY <1>1, <1>2 DEF SearchNext

\* One page of a search: what is at its spots.
IsPage(answer, s, limit, k, N) ==
  /\ answer.total = N
  /\ \A n \in 1..limit :
       /\ n \in DOMAIN answer.results <=> limit * k + n \in 1..N
       /\ n \in DOMAIN answer.results => answer.results[n] = s[limit * k + n]

LEMMA PageFacts ==
  ASSUME FoundIInv, NEW name, NEW direction \in {"asc", "desc"},
         NEW limit \in Nat \ {0}, NEW k \in Nat, NEW N, N = Cardinality(Matches(name)),
         NEW answer, answer = SearchPlayers(found, name, direction, limit * k, limit)
  PROVE  IsPage(answer, Ordered(name, direction), limit, k, N)
<1> DEFINE fs == Ordered(name, direction)
<1>1. fs \in [1..N -> Player] /\ N \in Nat
  <2>1. N \in 0..Len(found) /\ Len(found) \in Nat
    BY OrderedMatches DEF FoundIInv
  <2> QED BY <2>1, OrderedMatches
<1>2. fs \in Seq(Player) /\ Len(fs) = N
  <2> HIDE DEF fs
  <2> QED BY <1>1
<1>3. answer =
        [total |-> Len(fs), results |-> Slice(fs, limit * k, limit * k + limit)]
  BY DEF SearchPlayers, Page, Ordered
<1> HIDE DEF fs
<1>4. PICK x \in Nat : x = limit * k
  OBVIOUS
<1>5. ASSUME NEW n \in 1..limit
      PROVE  /\ n \in DOMAIN Slice(fs, x, x + limit) <=> x + n \in 1..N
             /\ n \in DOMAIN Slice(fs, x, x + limit) => Slice(fs, x, x + limit)[n] = fs[x + n]
  <2>1. Slice(fs, x, x + limit) =
          [m \in 1..((IF x + limit > N THEN N ELSE x + limit) - x) |-> fs[x + m]]
    BY <1>2 DEF Slice
  <2>2. n \in 1..((IF x + limit > N THEN N ELSE x + limit) - x) <=> x + n \in 1..N
    BY <1>1, <1>4
  <2> QED BY <2>1, <2>2
<1>6. IsPage(answer, fs, limit, k, N)
  BY <1>2, <1>3, <1>4, <1>5 DEF IsPage
<1> QED BY <1>6 DEF fs

\* Looked up by name and id: a match with that id.
LEMMA FindPlayerFacts ==
  ASSUME FoundIInv, NEW name, NEW id, id # None
  PROVE  LET same == {i \in Matches(name) : found[i].id = id /\ found[i].cased}
         IN FindPlayer(found, name, id) \in
              IF same = {} THEN {None} ELSE {found[i] : i \in same}
<1> DEFINE M == Matching(found, name)
           ps == Picked(found, M)
           N == Cardinality(M)
           matching == {i \in DOMAIN ps : ps[i].id = id}
           same == {i \in Matches(name) : found[i].id = id /\ found[i].cased}
<1>1. /\ M \in SUBSET Nat /\ IsFiniteSet(M) /\ N \in Nat
      /\ \A i \in M : found[i] \in Player
  <2>1. Len(found) \in Nat /\ DOMAIN found = 1..Len(found)
    BY DEF FoundIInv
  <2>2. IsFiniteSet(1..Len(found))
    BY <2>1, IntervalSize
  <2>3. M \in SUBSET (1..Len(found))
    BY <2>1 DEF Matching
  <2>4. IsFiniteSet(M) /\ N \in Nat
    <3> HIDE DEF M
    <3> QED BY <2>2, <2>3, FS_Subset, FS_CardinalityType
  <2>5. \A i \in 1..Len(found) : found[i] \in Player
    BY <2>1 DEF FoundIInv
  <2> HIDE DEF M
  <2> QED BY <2>3, <2>4, <2>5
<1>2. \A i : i \in same <=> i \in M /\ found[i].id = id
  BY DEF Matches, Matching
<1> HIDE DEF M, same
<1>3. PICK at \in [1..N -> M] :
        /\ ps \in [1..N -> Player]
        /\ \A n \in 1..N : ps[n] = found[at[n]]
        /\ \A i \in M : \E n \in 1..N : at[n] = i
  <2>1. IsPicked(ps, found, M, Player)
    BY <1>1, PickedFacts
  <2> QED BY <2>1 DEF IsPicked
<1> HIDE DEF ps
<1>4. CASE matching = {}
  <2>1. same = {}
    BY <1>2, <1>3, <1>4
  <2>2. FindPlayer(found, name, id) = None
    BY <1>4 DEF FindPlayer, MatchById, ps, M
  <2> QED BY <2>1, <2>2 DEF same
<1>5. CASE matching # {}
  <2>1. matching \in SUBSET Nat
    BY <1>3
  <2>2. \E x \in matching : \A y \in matching : x <= y
    <3> HIDE DEF matching
    <3> QED BY <1>5, <2>1, Least
  <2>3. Min(matching) \in matching
    <3> HIDE DEF matching
    <3> QED BY <2>2 DEF Min
  <2>4. FindPlayer(found, name, id) = ps[Min(matching)]
    BY <1>5 DEF FindPlayer, MatchById, ps, M
  <2> DEFINE n == Min(matching)
  <2>5. n \in 1..N /\ ps[n].id = id
    BY <1>3, <2>3
  <2> HIDE DEF n
  <2>6. at[n] \in same /\ ps[n] = found[at[n]]
    BY <1>2, <1>3, <2>5
  <2> QED BY <2>4, <2>6 DEF same, n
<1> QED BY <1>4, <1>5

LEMMA FoundPartition == FoundIInv => SearchPagesPartition
<1> SUFFICES ASSUME FoundIInv, NEW name \in {p.name : p \in Player},
                    NEW direction \in {"asc", "desc"}, NEW limit \in 1..(Len(found) + 1)
             PROVE
    LET results == [k \in 0..Len(found) |->
                     SearchPlayers(found, name, direction, limit * k, limit).results]
        spots == {s \in (0..Len(found)) \X (1..limit) : s[2] \in DOMAIN results[s[1]]}
        shown(s) == results[s[1]][s[2]]
        matches == {i \in DOMAIN found : found[i].name = name /\ found[i].public}
    IN /\ SearchPlayers(found, name, direction, 0, limit).total = Cardinality(matches)
       /\ \A i \in matches : \E s \in spots : \A r \in spots : shown(r) = found[i] <=> r = s
       /\ \A s \in spots : \E i \in matches : shown(s) = found[i]
       /\ \A r, s \in spots :
            r[1] < s[1] \/ (r[1] = s[1] /\ r[2] < s[2]) =>
              \/ shown(r).cased /\ ~shown(s).cased
              \/ /\ shown(r).cased = shown(s).cased
                 /\ IF direction = "asc" THEN shown(r).updated <= shown(s).updated
                    ELSE shown(r).updated >= shown(s).updated
       /\ \A id \in {p.id : p \in Player} :
            LET same == {i \in matches : found[i].id = id /\ found[i].cased}
            IN FindPlayer(found, name, id) \in
                 IF same = {} THEN {None} ELSE {found[i] : i \in same}
  BY DEF SearchPagesPartition
<1> DEFINE results == [k \in 0..Len(found) |->
                        SearchPlayers(found, name, direction, limit * k, limit).results]
           spots == {s \in (0..Len(found)) \X (1..limit) : s[2] \in DOMAIN results[s[1]]}
           shown(s) == results[s[1]][s[2]]
           matches == {i \in DOMAIN found : found[i].name = name /\ found[i].public}
           N == Cardinality(matches)
           fs == Ordered(name, direction)
           pos(s) == limit * s[1] + s[2]
<1>1. Len(found) \in Nat /\ limit \in Nat \ {0} /\ found \in Seq(Player)
  BY DEF FoundIInv
<1>2. matches = Matches(name)
  BY DEF Matches
<1>3. N \in 0..Len(found)
  BY <1>2, OrderedMatches
<1>4. PICK at \in [1..N -> matches] :
        /\ \A m \in 1..N : fs[m] = found[at[m]]
        /\ \A i \in matches : \E m \in 1..N : at[m] = i
        /\ \A l, m \in 1..N : at[l] = at[m] => l = m
        /\ \A l, m \in 1..N : l < m =>
             \/ found[at[l]].cased /\ ~found[at[m]].cased
             \/ /\ found[at[l]].cased = found[at[m]].cased
                /\ Leq(direction, found[at[l]].updated, found[at[m]].updated)
  <2>1. IsRanking(fs, matches, N, direction)
    BY <1>2, OrderedMatches
  <2> HIDE DEF fs, matches, N
  <2> QED BY <2>1 DEF IsRanking
<1>5. \A i, j \in matches : found[i] = found[j] => i = j
  BY DEF FoundIInv
<1>6. ASSUME NEW k \in 0..Len(found), NEW n \in 1..limit
      PROVE  /\ n \in DOMAIN results[k] <=> limit * k + n \in 1..N
             /\ n \in DOMAIN results[k] => results[k][n] = fs[limit * k + n]
             /\ SearchPlayers(found, name, direction, limit * k, limit).total = N
  <2>1. k \in Nat
    BY <1>1
  <2>2. results[k] = SearchPlayers(found, name, direction, limit * k, limit).results
    OBVIOUS
  <2> DEFINE answer == SearchPlayers(found, name, direction, limit * k, limit)
  <2>3. N = Cardinality(Matches(name))
    BY <1>2 DEF N
  <2>4. answer = SearchPlayers(found, name, direction, limit * k, limit)
    OBVIOUS
  <2> HIDE DEF results, N, answer
  <2>5. IsPage(answer, fs, limit, k, N)
    BY <1>1, <2>1, <2>3, <2>4, PageFacts
  <2> QED BY <2>2, <2>4, <2>5 DEF IsPage
<1>7. \A s \in (0..Len(found)) \X (1..limit) : s \in spots <=> pos(s) \in 1..N
  <2> SUFFICES ASSUME NEW s \in (0..Len(found)) \X (1..limit)
               PROVE  s \in spots <=> pos(s) \in 1..N
    OBVIOUS
  <2>1. s[1] \in 0..Len(found) /\ s[2] \in 1..limit
    OBVIOUS
  <2>2. s[2] \in DOMAIN results[s[1]] <=> limit * s[1] + s[2] \in 1..N
    BY <1>6, <2>1
  <2> HIDE DEF results, N
  <2> QED BY <2>2
<1>8. ASSUME NEW s \in spots
      PROVE  /\ s \in (0..Len(found)) \X (1..limit) /\ s[1] \in Nat /\ s[2] \in 1..limit
             /\ pos(s) \in 1..N /\ at[pos(s)] \in matches /\ shown(s) = found[at[pos(s)]]
  <2>1. s \in (0..Len(found)) \X (1..limit) /\ s[2] \in DOMAIN results[s[1]]
    OBVIOUS
  <2>2. s[1] \in 0..Len(found) /\ s[2] \in 1..limit
    BY <2>1
  <2>3. pos(s) \in 1..N
    BY <1>7, <2>1
  <2>4. shown(s) = fs[pos(s)]
    BY <1>6, <2>1, <2>2
  <2> HIDE DEF results, N, fs, pos, matches
  <2>5. at[pos(s)] \in matches /\ fs[pos(s)] = found[at[pos(s)]]
    BY <1>4, <2>3
  <2> QED BY <1>1, <2>1, <2>2, <2>3, <2>4, <2>5
<1> HIDE DEF results, spots, shown, matches, N, fs
<1>9. ASSUME NEW r \in spots, NEW s \in spots, r[1] < s[1] \/ (r[1] = s[1] /\ r[2] < s[2])
      PROVE  pos(r) < pos(s)
  <2>1. r[1] \in Nat /\ s[1] \in Nat /\ r[2] \in 1..limit /\ s[2] \in 1..limit
    BY <1>8
  <2>2. CASE r[1] < s[1]
    BY <1>1, <2>1, <2>2, SpotsInOrder
  <2>3. CASE r[1] = s[1] /\ r[2] < s[2]
    <3> DEFINE x == limit * s[1]
    <3>1. x \in Int
      BY <1>1, <2>1
    <3> HIDE DEF x
    <3>2. x + r[2] < x + s[2]
      BY <1>1, <2>1, <2>3, <3>1
    <3> QED BY <2>3, <3>2 DEF x
  <2> QED BY <1>9, <2>2, <2>3
<1>10. ASSUME NEW r \in spots, NEW s \in spots, pos(r) = pos(s) PROVE r = s
  <2>1. /\ r[1] \in Nat /\ s[1] \in Nat /\ r[2] \in 1..limit /\ s[2] \in 1..limit
        /\ pos(r) \in 1..N
    BY <1>8
  <2>2. pos(r) \in Int
    BY <1>3, <2>1
  <2>3. ~ (r[1] < s[1]) /\ ~ (s[1] < r[1])
    BY <1>9, <1>10, <2>2
  <2>4. r[1] = s[1]
    BY <2>1, <2>3
  <2>5. ~ (r[2] < s[2]) /\ ~ (s[2] < r[2])
    BY <1>9, <1>10, <2>2, <2>4
  <2>6. r[2] = s[2]
    BY <1>1, <2>1, <2>5
  <2>7. r = <<r[1], r[2]>> /\ s = <<s[1], s[2]>>
    BY <1>8
  <2> QED BY <2>4, <2>6, <2>7
<1>11. SearchPlayers(found, name, direction, 0, limit).total = N
  <2>1. 0 \in 0..Len(found) /\ 1 \in 1..limit
    BY <1>1
  <2>2. SearchPlayers(found, name, direction, limit * 0, limit).total = N
    BY <1>6, <2>1
  <2>3. limit * 0 = 0
    BY <1>1
  <2> QED BY <2>2, <2>3
<1>12. ASSUME NEW i \in matches
       PROVE  \E s \in spots : \A r \in spots : shown(r) = found[i] <=> r = s
  <2>1. PICK p \in 1..N : at[p] = i
    BY <1>4
  <2>2. p \in Nat \ {0} /\ p - 1 \in 0..Len(found) /\ p <= Len(found)
    BY <1>1, <1>3
  <2>3. PICK k \in 0..(p - 1), n \in 1..limit : p = limit * k + n
    BY <1>1, <2>2, SpotOfPosition
  <2>4. k \in 0..Len(found)
    BY <1>1, <2>2
  <2> DEFINE s == <<k, n>>
  <2>5. s \in spots /\ pos(s) = p
    BY <1>7, <2>3, <2>4
  <2> HIDE DEF s
  <2>6. ASSUME NEW r \in spots, shown(r) = found[i] PROVE r = s
    <3>1. at[pos(r)] = i /\ pos(r) \in 1..N
      BY <1>5, <1>8, <2>6
    <3>2. pos(r) = p
      BY <1>4, <2>1, <3>1
    <3> QED BY <1>10, <2>5, <3>2
  <2>7. shown(s) = found[i]
    BY <1>8, <2>1, <2>5
  <2> QED BY <2>5, <2>6, <2>7
<1>13. ASSUME NEW r \in spots, NEW s \in spots, r[1] < s[1] \/ (r[1] = s[1] /\ r[2] < s[2])
       PROVE  \/ shown(r).cased /\ ~shown(s).cased
              \/ /\ shown(r).cased = shown(s).cased
                 /\ IF direction = "asc" THEN shown(r).updated <= shown(s).updated
                    ELSE shown(r).updated >= shown(s).updated
  <2>1. pos(r) < pos(s)
    BY <1>9, <1>13
  <2>2. /\ pos(r) \in 1..N /\ shown(r) = found[at[pos(r)]]
        /\ pos(s) \in 1..N /\ shown(s) = found[at[pos(s)]]
    BY <1>8
  <2> HIDE DEF pos
  <2> QED BY <1>4, <2>1, <2>2 DEF Leq
<1>14. ASSUME NEW id \in {p.id : p \in Player}
       PROVE  LET same == {i \in matches : found[i].id = id /\ found[i].cased}
              IN FindPlayer(found, name, id) \in
                   IF same = {} THEN {None} ELSE {found[i] : i \in same}
  <2>1. id # None
    BY SiteAssumption
  <2> QED BY <1>2, <2>1, FindPlayerFacts
<1>15. \A s \in spots : \E i \in matches : shown(s) = found[i]
  BY <1>8
<1> QED BY <1>11, <1>12, <1>13, <1>14, <1>15 DEF results, spots, shown, matches, N

-----------------------------------------------------------------------------
(* The page of a hero *)

HeroPageIInv ==
  /\ DOMAIN heroPage = {"tabs", "descriptions", "videos", "overview", "perks", "story"}
  /\ heroPage.videos \in Seq(Video)

LEMMA HeroPageInitial == SiteInit => HeroPageIInv
  BY DEF SiteInit, HeroPageIInv

LEMMA HeroPageStep == HeroPageIInv /\ (HeroPageNext \/ UNCHANGED heroPage) => HeroPageIInv'
<1> SUFFICES ASSUME HeroPageIInv, HeroPageNext \/ UNCHANGED heroPage PROVE HeroPageIInv'
  OBVIOUS
<1>1. CASE UNCHANGED heroPage
  BY <1>1 DEF HeroPageIInv
<1>2. CASE ReleaseHero
  BY <1>2 DEF HeroPageIInv, ReleaseHero
<1>3. CASE ShowAbility
  BY <1>3 DEF HeroPageIInv, ShowAbility
<1>4. CASE Rearrange
  BY <1>4 DEF HeroPageIInv, Rearrange
<1>5. ASSUME NEW video \in Video, ShowVideo(video) PROVE HeroPageIInv'
  <2>1. heroPage' = [heroPage EXCEPT !.videos = Append(heroPage.videos, video)]
    BY <1>5 DEF ShowVideo
  <2>2. Append(heroPage.videos, video) \in Seq(Video)
    BY DEF HeroPageIInv
  <2> QED BY <2>1, <2>2 DEF HeroPageIInv
<1> QED BY <1>1, <1>2, <1>3, <1>4, <1>5 DEF HeroPageNext

LEMMA OwnVideos == HeroPageIInv => VideosStayWithTheirAbility
<1> DEFINE hero == ParseHero(heroPage)
           detail == HeroDetail(heroPage, index, catalogue, HeroOrder[1])
<1> SUFFICES ASSUME HeroPageIInv, detail.status = 200, NEW i \in DOMAIN detail.hero.abilities
             PROVE  LET video == detail.hero.abilities[i].video
                    IN video = None \/ video.group = i - 1
  BY DEF VideosStayWithTheirAbility
<1>1. hero.status = 200
  <2> HIDE DEF hero
  <2>1. hero.status # 200 => detail = hero
    BY DEF HeroDetail, hero
  <2> HIDE DEF detail
  <2> QED BY <2>1
<1>2. detail.hero = hero
  <2> DEFINE parsed == ParseHeroes(index, catalogue)
             merged == MergeHero(hero, parsed.heroes, catalogue, HeroOrder[1])
  <2>1. parsed.status = 200
    <3>1. parsed.status # 200 => detail = parsed
      BY <1>1 DEF HeroDetail
    <3> HIDE DEF detail, parsed
    <3> QED BY <3>1
  <2>2. detail = merged
    BY <1>1, <2>1 DEF HeroDetail
  <2> QED BY <2>2 DEF MergeHero
<1>3. hero.abilities = Abilities(heroPage)
  BY <1>1 DEF ParseHero, Failure
<1> HIDE DEF detail, hero
<1>4. /\ i \in DOMAIN heroPage.tabs
      /\ detail.hero.abilities[i].video = AbilityVideo(heroPage.videos, i - 1)
  BY <1>2, <1>3 DEF Abilities
<1> DEFINE videos == heroPage.videos
           mine == {k \in DOMAIN videos : videos[k].complete /\ videos[k].group = i - 1}
<1>5. CASE mine = {}
  BY <1>4, <1>5 DEF AbilityVideo
<1>6. CASE mine # {}
  <2>1. AbilityVideo(videos, i - 1) = videos[Max(mine)]
    BY <1>6 DEF AbilityVideo
  <2>2. Len(videos) \in Nat /\ mine \in SUBSET (1..Len(videos))
    BY DEF HeroPageIInv
  <2>3. Max(mine) \in mine
    <3> HIDE DEF mine, videos
    <3> QED BY <1>6, <2>2, Greatest
  <2> QED BY <1>4, <2>1, <2>3
<1> QED BY <1>5, <1>6

-----------------------------------------------------------------------------
(* Heroes and patch notes *)

HeroKeys == Range(HeroOrder)
CardOf == {Card(h) : h \in HeroKeys} \cup {[Card(HeroOrder[1]) EXCEPT !.key = Missing]}

HeroesIInv ==
  /\ siteEdits \in 0..MaxSiteEdits
  /\ index \in Seq(CardOf) /\ Len(index) \in 1..Len(HeroOrder)
  /\ {index[i].key : i \in DOMAIN index} = {HeroOrder[k] : k \in 1..Len(index)}
  /\ Len(catalogue) \in 1..Len(HeroOrder)
  /\ catalogue \in Seq(HeroKeys) /\ catalogue = Slice(HeroOrder, 0, Len(catalogue))
  /\ \A l \in Locale : stored[l] = Missing \/ stored[l] \in Seq(CardOf)
  /\ DOMAIN stored = Locale
  /\ notes \in Seq(Entry)

LEMMA HeroOrderFacts ==
  /\ HeroOrder \in Seq(HeroKeys) /\ Len(HeroOrder) \in Nat \ {0}
  /\ DOMAIN HeroOrder = 1..Len(HeroOrder)
  /\ \A n \in 1..Len(HeroOrder) :
       /\ HeroOrder[n] \in HeroKeys /\ Card(HeroOrder[n]) \in CardOf
       /\ Card(HeroOrder[n]).key = HeroOrder[n]
       /\ Slice(HeroOrder, 0, n) = [i \in 1..n |-> HeroOrder[i]]
       /\ Slice(HeroOrder, 0, n) \in Seq(HeroKeys) /\ Len(Slice(HeroOrder, 0, n)) = n
<1>1. /\ HeroOrder \in Seq(HeroKeys) /\ Len(HeroOrder) \in Nat \ {0}
      /\ DOMAIN HeroOrder = 1..Len(HeroOrder)
  <2>1. HeroOrder \in Seq(HeroKeys \ {None, Missing}) /\ HeroOrder # <<>>
    BY HeroesAssumption DEF HeroKeys
  <2> QED BY <2>1
<1>2. ASSUME NEW n \in 1..Len(HeroOrder)
      PROVE  /\ HeroOrder[n] \in HeroKeys /\ Card(HeroOrder[n]) \in CardOf
             /\ Card(HeroOrder[n]).key = HeroOrder[n]
             /\ Slice(HeroOrder, 0, n) = [i \in 1..n |-> HeroOrder[i]]
             /\ Slice(HeroOrder, 0, n) \in Seq(HeroKeys) /\ Len(Slice(HeroOrder, 0, n)) = n
  <2>1. HeroOrder[n] \in HeroKeys
    BY <1>1
  <2>2. Card(HeroOrder[n]) \in CardOf
    BY <2>1 DEF CardOf
  <2>3. Card(HeroOrder[n]).key = HeroOrder[n]
    BY DEF Card
  <2>4. Slice(HeroOrder, 0, n) = [i \in 1..n |-> HeroOrder[i]]
    <3>0. n \in Nat /\ Len(HeroOrder) \in Nat /\ ~ (n > Len(HeroOrder))
      BY <1>1
    <3>1. ((IF n > Len(HeroOrder) THEN Len(HeroOrder) ELSE n) - 0) = n
      BY <3>0
    <3>2. Slice(HeroOrder, 0, n) = [i \in 1..n |-> HeroOrder[0 + i]]
      BY <3>1 DEF Slice
    <3>3. \A i \in 1..n : 0 + i = i
      BY <1>1
    <3> QED BY <3>2, <3>3
  <2>5. [i \in 1..n |-> HeroOrder[i]] \in [1..n -> HeroKeys]
    BY <1>1
  <2>6. n \in Nat
    BY <1>1
  <2> QED BY <2>1, <2>2, <2>3, <2>4, <2>5, <2>6
<1> QED BY <1>1, <1>2

LEMMA HeroesInitial == SiteInit => HeroesIInv
<1> SUFFICES ASSUME SiteInit PROVE HeroesIInv
  OBVIOUS
<1>1. FirstHeroes \in 1..Len(HeroOrder) /\ 0 \in 0..MaxSiteEdits
  BY SiteAssumption
<1>2. /\ catalogue \in Seq(HeroKeys) /\ Len(catalogue) = FirstHeroes
      /\ catalogue = Slice(HeroOrder, 0, FirstHeroes)
  BY <1>1, HeroOrderFacts DEF SiteInit
<1>3. /\ index \in [1..FirstHeroes -> CardOf]
      /\ \A i \in 1..FirstHeroes : index[i].key = HeroOrder[i]
  BY <1>1, HeroOrderFacts DEF SiteInit
<1>4. /\ index \in Seq(CardOf) /\ Len(index) = FirstHeroes /\ DOMAIN index = 1..FirstHeroes
  BY <1>1, <1>3
<1>5. {index[i].key : i \in DOMAIN index} = {HeroOrder[k] : k \in 1..Len(index)}
  BY <1>3, <1>4
<1>6. notes \in Seq(Entry)
  BY DEF SiteInit
<1> QED BY <1>1, <1>2, <1>4, <1>5, <1>6 DEF HeroesIInv, SiteInit

LEMMA HeroesStep ==
  HeroesIInv /\ (HeroesNext \/ HeroPageNext \/ SearchNext \/ UNCHANGED siteVars) => HeroesIInv'
<1> SUFFICES ASSUME HeroesIInv,
                    HeroesNext \/ HeroPageNext \/ SearchNext \/ UNCHANGED siteVars
             PROVE  HeroesIInv'
  OBVIOUS
<1>1. ASSUME Count PROVE siteEdits' \in 0..MaxSiteEdits
  BY <1>1, SiteAssumption DEF Count, HeroesIInv
<1>2. CASE UNCHANGED siteVars
  BY <1>2 DEF HeroesIInv, siteVars
<1>3. CASE Count /\ UNCHANGED <<catalogue, index, stored, notes>>
  BY <1>1, <1>3 DEF HeroesIInv
<1>4. CASE ReleaseHero
  <2> DEFINE n == Len(index)
             c == Card(HeroOrder[n + 1])
  <2>1. /\ n \in Nat /\ n + 1 \in 1..Len(HeroOrder) /\ index' = <<c>> \o index
        /\ index \in Seq(CardOf)
    BY <1>4, HeroOrderFacts DEF ReleaseHero, HeroesIInv
  <2>2. c \in CardOf /\ c.key = HeroOrder[n + 1]
    BY <2>1, HeroOrderFacts
  <2> HIDE DEF c
  <2>3. /\ index' \in Seq(CardOf) /\ Len(index') = n + 1
        /\ DOMAIN index' = 1..(n + 1) /\ DOMAIN index = 1..n
        /\ index'[1] = c
        /\ \A i \in 1..n : index'[i + 1] = index[i]
    BY <2>1, <2>2
  <2>4. ASSUME NEW i \in 1..(n + 1) PROVE index'[i].key \in {HeroOrder[k] : k \in 1..(n + 1)}
    <3>1. CASE i = 1
      BY <2>1, <2>2, <2>3, <3>1
    <3>2. CASE i # 1
      <4>1. i - 1 \in 1..n /\ index'[i] = index[i - 1]
        <5>1. i - 1 \in 1..n /\ (i - 1) + 1 = i
          BY <2>1, <3>2
        <5> QED BY <2>3, <5>1
      <4>2. PICK k \in 1..n : index[i - 1].key = HeroOrder[k]
        BY <2>3, <4>1 DEF HeroesIInv
      <4>3. k \in 1..(n + 1)
        BY <2>1
      <4> QED BY <4>1, <4>2, <4>3
    <3> QED BY <3>1, <3>2
  <2>5. ASSUME NEW k \in 1..(n + 1) PROVE \E i \in 1..(n + 1) : index'[i].key = HeroOrder[k]
    <3>1. CASE k = n + 1
      BY <2>1, <2>2, <2>3, <3>1
    <3>2. CASE k # n + 1
      <4>1. k \in 1..n
        BY <2>1, <3>2
      <4>2. PICK i \in 1..n : index[i].key = HeroOrder[k]
        BY <2>3, <4>1 DEF HeroesIInv
      <4>3. i + 1 \in 1..(n + 1)
        BY <2>1
      <4> QED BY <2>3, <4>2, <4>3
    <3> QED BY <3>1, <3>2
  <2>6. {index'[i].key : i \in DOMAIN index'} = {HeroOrder[k] : k \in 1..Len(index')}
    <3> HIDE DEF n
    <3> QED BY <2>3, <2>4, <2>5
  <2>7. UNCHANGED <<catalogue, stored, notes>> /\ Count
    BY <1>4 DEF ReleaseHero
  <2>8. Len(index') \in 1..Len(HeroOrder) /\ index' \in Seq(CardOf)
    BY <2>1, <2>3
  <2>9. siteEdits' \in 0..MaxSiteEdits
    BY <1>1, <2>7
  <2> HIDE DEF n
  <2> QED BY <2>6, <2>7, <2>8, <2>9 DEF HeroesIInv
<1>5. CASE Deploy
  <2>1. Len(index) \in 1..Len(HeroOrder) /\ catalogue' = Slice(HeroOrder, 0, Len(index))
    BY <1>5 DEF Deploy, HeroesIInv
  <2>2. catalogue' \in Seq(HeroKeys) /\ Len(catalogue') = Len(index)
    BY <2>1, HeroOrderFacts
  <2> QED BY <1>1, <1>5, <2>1, <2>2 DEF Deploy, HeroesIInv
<1>6. ASSUME NEW l \in Locale, StoreHeroes(l) PROVE HeroesIInv'
  BY <1>1, <1>6 DEF StoreHeroes, HeroesIInv
<1>7. ASSUME NEW l \in Locale, OutgrowStored(l) PROVE HeroesIInv'
  <2> DEFINE card == [Card(HeroOrder[1]) EXCEPT !.key = Missing]
  <2>1. <<card>> \in Seq(CardOf)
    BY DEF CardOf
  <2>2. stored' = [stored EXCEPT ![l] = <<card>>] /\ Count /\ UNCHANGED <<catalogue, index, notes>>
    BY <1>7 DEF OutgrowStored
  <2> HIDE DEF card
  <2> QED BY <1>1, <2>1, <2>2 DEF HeroesIInv
<1>8. ASSUME NEW entry \in Entry, AnnounceChange(entry) PROVE HeroesIInv'
  <2>1. notes' \in Seq(Entry)
    BY <1>8 DEF AnnounceChange, HeroesIInv
  <2> QED BY <1>1, <1>8, <2>1 DEF AnnounceChange, HeroesIInv
<1>9. CASE HeroPageNext
  BY <1>3, <1>4, <1>9 DEF HeroPageNext, ShowAbility, Rearrange, ShowVideo
<1>10. CASE SearchNext
  BY <1>3, <1>10 DEF SearchNext, FindAnother
<1> QED BY <1>2, <1>4, <1>5, <1>6, <1>7, <1>8, <1>9, <1>10 DEF HeroesNext

\* Cards sorted by their heroes' places in the catalogue.
ByPlace(seq, cat) ==
  StableSort(seq, LAMBDA c, d :
    (CHOOSE k \in DOMAIN cat : cat[k] = c.key) < (CHOOSE k \in DOMAIN cat : cat[k] = d.key))

LEMMA SortedByPlace ==
  ASSUME NEW n \in Nat, NEW K, NEW seq \in [1..n -> K], NEW cat, DOMAIN cat \in SUBSET Int,
         \A c \in K : \E k \in DOMAIN cat : cat[k] = c.key
  PROVE  ByPlace(seq, cat) \in [1..n -> K]
<1>0. Cardinality(1..n) = n /\ DOMAIN seq = 1..n
  BY FS_Interval
<1> DEFINE place(c) == CHOOSE k \in DOMAIN cat : cat[k] = c.key
           before(c, d) == place(c) < place(d)
           B == {z \in (1..n) \X (1..n) : before(seq[z[1]], seq[z[2]])}
           at == Arranged(1..n, LAMBDA i, j :
                   before(seq[i], seq[j]) \/ (~before(seq[j], seq[i]) /\ i <= j))
<1>1. \A i, j \in 1..n : <<i, j>> \in B <=> before(seq[i], seq[j])
  OBVIOUS
<1>2. \A c \in K : place(c) \in Int
  OBVIOUS
<1>3. WeakOrder(1..n, B)
  <2>1. \A i \in 1..n : place(seq[i]) \in Int
    BY <1>2
  <2> HIDE DEF B, place
  <2>2. ASSUME NEW x \in 1..n, NEW y \in 1..n PROVE ~ (<<x, y>> \in B /\ <<y, x>> \in B)
    BY <1>1, <2>1
  <2>3. ASSUME NEW x \in 1..n, NEW y \in 1..n, NEW z \in 1..n, <<x, z>> \in B
        PROVE  <<x, y>> \in B \/ <<y, z>> \in B
    <3>1. place(seq[x]) \in Int /\ place(seq[y]) \in Int /\ place(seq[z]) \in Int
      BY <2>1
    <3>2. place(seq[x]) < place(seq[z])
      BY <1>1, <2>3
    <3>3. place(seq[x]) < place(seq[y]) \/ place(seq[y]) < place(seq[z])
      BY <3>1, <3>2
    <3> QED BY <1>1, <3>3
  <2> QED BY <2>2, <2>3 DEF WeakOrder
<1>4. at = [m \in 1..n |-> CHOOSE i \in 1..n :
             Cardinality({j \in 1..n : before(seq[j], seq[i])
                            \/ (~before(seq[i], seq[j]) /\ j <= i)}) = m]
  BY <1>0 DEF Arranged
<1>5. ByPlace(seq, cat) = [m \in 1..n |-> seq[at[m]]]
  BY <1>4 DEF ByPlace, StableSort
<1> DEFINE upto(i) == {j \in 1..n : <<j, i>> \in B \/ (<<i, j>> \notin B /\ j <= i)}
<1>6. ASSUME NEW i \in 1..n
      PROVE  {j \in 1..n : before(seq[j], seq[i])
                \/ (~before(seq[i], seq[j]) /\ j <= i)} = upto(i)
  <2> HIDE DEF B, before
  <2> QED BY <1>1
<1> HIDE DEF B, at, before
<1>7. ASSUME NEW m \in 1..n, NEW i \in 1..n, Cardinality(upto(i)) = m
      PROVE  at[m] \in 1..n /\ Cardinality(upto(at[m])) = m
  BY <1>4, <1>6, <1>7
<1>8. /\ \A m \in 1..n : at[m] \in 1..n
      /\ \A i \in 1..n : \E m \in 1..n : at[m] = i
      /\ \A l, m \in 1..n : at[l] = at[m] => l = m
      /\ \A l, m \in 1..n : l < m =>
           /\ <<at[m], at[l]>> \notin B
           /\ <<at[l], at[m]>> \in B \/ at[l] < at[m]
  BY <1>3, <1>7, StableFacts
<1> QED BY <1>5, <1>8

\* What the parser makes of an index: cards of heroes that the catalogue has.
LEMMA ParsedHeroes ==
  ASSUME NEW T, NEW cards \in Seq(T), NEW H, NEW cat \in Seq(H),
         ParseHeroes(cards, cat).status = 200
  PROVE  \E n \in Nat :
           ParseHeroes(cards, cat).heroes \in [1..n -> {c \in T : c.key \in Range(cat)}]
<1> DEFINE P == {i \in DOMAIN cards : cards[i].key \in Range(cat)}
           known == Picked(cards, P)
           K == {c \in T : c.key \in Range(cat)}
           N == Cardinality(P)
<1>1. P \in SUBSET Nat /\ IsFiniteSet(P) /\ N \in Nat /\ \A i \in P : cards[i] \in K
  <2>1. Len(cards) \in Nat /\ DOMAIN cards = 1..Len(cards)
    OBVIOUS
  <2>2. IsFiniteSet(1..Len(cards))
    BY <2>1, IntervalSize
  <2>3. P \in SUBSET (1..Len(cards))
    BY <2>1
  <2>4. IsFiniteSet(P) /\ N \in Nat
    <3> HIDE DEF P
    <3> QED BY <2>2, <2>3, FS_Subset, FS_CardinalityType
  <2> QED BY <2>1, <2>3, <2>4
<1>2. known \in [1..N -> K]
  <2> HIDE DEF P, K
  <2>1. IsPicked(known, cards, P, K)
    BY <1>1, PickedFacts
  <2> QED BY <2>1 DEF IsPicked
<1>3. ~ \E i \in DOMAIN cards : cards[i].key = Missing
  BY DEF ParseHeroes, Failure
<1>4. ParseHeroes(cards, cat).heroes = ByPlace(known, cat)
  BY <1>3 DEF ParseHeroes, ByPlace
<1>5. \A c \in K : \E k \in DOMAIN cat : cat[k] = c.key
  BY DEF Range
<1>6. DOMAIN cat \in SUBSET Int
  OBVIOUS
<1> HIDE DEF known, P, K, N
<1>7. ParseHeroes(cards, cat).heroes \in [1..N -> K]
  <2>1. N \in Nat
    BY <1>1
  <2>2. ByPlace(known, cat) \in [1..N -> K]
    BY <2>1, <1>2, <1>5, <1>6, SortedByPlace
  <2> QED BY <1>4, <2>2
<1> QED BY <1>1, <1>7 DEF K

\* A localised index names heroes of the catalogue, by their own names.
LEMMA IndexedHeroes ==
  ASSUME HeroesIInv, NEW l \in Locale, NEW keys,
         keys = LocalizedHeroKeys(l, stored[l], catalogue), keys # None
  PROVE  /\ l # English
         /\ \A name \in DOMAIN keys : keys[name] \in Range(catalogue) /\ NameIn[l][keys[name]] = name
<1> DEFINE list == ParseHeroes(stored[l], catalogue)
<1>1. /\ l # English /\ stored[l] # Missing /\ list.status = 200
      /\ keys = HeroKeyIndex(list.heroes, l)
  BY DEF LocalizedHeroKeys
<1>2. stored[l] \in Seq(CardOf) /\ catalogue \in Seq(HeroKeys)
  BY <1>1 DEF HeroesIInv
<1> DEFINE K == {c \in CardOf : c.key \in Range(catalogue)}
<1>3. PICK n \in Nat : list.heroes \in [1..n -> K]
  BY <1>1, <1>2, ParsedHeroes
<1> HIDE DEF list
<1> DEFINE hs == list.heroes
           named(k) == {i \in 1..n : NameIn[l][hs[i].key] = k}
<1>4. keys = [k \in {NameIn[l][hs[i].key] : i \in 1..n} |-> hs[Max(named(k))].key]
  <2>1. DOMAIN hs = 1..n
    BY <1>3
  <2>2. keys = [k \in {NameIn[l][hs[i].key] : i \in DOMAIN hs} |->
                 hs[Max({i \in DOMAIN hs : NameIn[l][hs[i].key] = k})].key]
    BY <1>1 DEF HeroKeyIndex, Dict
  <2> HIDE DEF hs
  <2> QED BY <2>1, <2>2
<1>5. ASSUME NEW name \in DOMAIN keys
      PROVE  keys[name] \in Range(catalogue) /\ NameIn[l][keys[name]] = name
  <2>1. PICK i \in 1..n : name = NameIn[l][hs[i].key]
    BY <1>4
  <2>2. named(name) \in SUBSET (1..n) /\ named(name) # {}
    BY <2>1
  <2>3. Max(named(name)) \in named(name)
    <3> HIDE DEF named
    <3> QED BY <2>2, Greatest
  <2> DEFINE m == Max(named(name))
  <2>4. m \in 1..n /\ NameIn[l][hs[m].key] = name
    BY <2>3
  <2>5. keys[name] = hs[m].key
    BY <1>4, <2>1
  <2> HIDE DEF m
  <2>6. hs[m] \in K
    BY <1>3, <2>4
  <2> QED BY <2>4, <2>5, <2>6
<1> QED BY <1>1, <1>5

\* In a language whose list can be used, a hero's name resolves to that hero or to none.
LEMMA ResolvedHero ==
  ASSUME HeroesIInv, NEW l \in Locale, NEW keys,
         keys = LocalizedHeroKeys(l, stored[l], catalogue), l = English \/ keys # None,
         NEW h \in HeroKeys
  PROVE  ResolveHeroKey(NameIn[l][h], keys, catalogue) =
           IF h \in Range(catalogue) /\ (l # English => NameIn[l][h] \in DOMAIN keys)
           THEN h ELSE None
<1> DEFINE name == NameIn[l][h]
<1>1. /\ \A g \in HeroKeys : NameIn[l][g] = name => g = h
      /\ HeroKeys \subseteq DOMAIN NameIn[l]
      /\ Range(catalogue) \subseteq HeroKeys
  <2>1. /\ Range(HeroOrder) \subseteq DOMAIN NameIn[l]
        /\ \A g, k \in Range(HeroOrder) : NameIn[l][g] = NameIn[l][k] => g = k
    BY HeroesAssumption
  <2>2. catalogue \in Seq(HeroKeys)
    BY DEF HeroesIInv
  <2>3. Range(catalogue) \subseteq HeroKeys
    <3> HIDE DEF HeroKeys
    <3> QED BY <2>2 DEF Range
  <2> QED BY <2>1, <2>3 DEF HeroKeys
<1>2. CASE keys = None
  <2>1. l = English
    BY <1>2
  <2> DEFINE named == {k \in DOMAIN catalogue : HasName(NameIn[English], catalogue[k], name)}
  <2>2. \A k \in DOMAIN catalogue : k \in named <=> catalogue[k] = h
    BY <1>1, <2>1 DEF HasName, Range
  <2>3. ResolveHeroKey(name, keys, catalogue) =
          IF named = {} THEN None ELSE catalogue[Min(named)]
    BY <1>2 DEF ResolveHeroKey, EnglishHeroKey
  <2>4. CASE named = {}
    <3>1. h \notin Range(catalogue)
      BY <2>2, <2>4 DEF Range
    <3> HIDE DEF named
    <3> QED BY <2>3, <2>4, <3>1
  <2>5. CASE named # {}
    <3>1. named \in SUBSET Nat
      BY DEF HeroesIInv
    <3>2. named \in SUBSET DOMAIN catalogue
      OBVIOUS
    <3> HIDE DEF named
    <3>3. \E x \in named : \A y \in named : x <= y
      BY <2>5, <3>1, Least
    <3>4. Min(named) \in named
      BY <3>3 DEF Min
    <3>5. catalogue[Min(named)] = h /\ h \in Range(catalogue)
      BY <2>2, <3>2, <3>4 DEF Range
    <3> QED BY <2>1, <2>3, <2>5, <3>5
  <2> QED BY <2>4, <2>5
<1>3. CASE keys # None
  <2>1. /\ l # English
        /\ \A k \in DOMAIN keys : keys[k] \in Range(catalogue) /\ NameIn[l][keys[k]] = k
    BY <1>3, IndexedHeroes
  <2>2. ResolveHeroKey(name, keys, catalogue) = IF name \in DOMAIN keys THEN keys[name] ELSE None
    BY <1>3 DEF ResolveHeroKey
  <2>3. name \in DOMAIN keys => keys[name] = h /\ h \in Range(catalogue)
    BY <1>1, <2>1
  <2> QED BY <2>1, <2>2, <2>3
<1> QED BY <1>2, <1>3

LEMMA NotesNamed == HeroesIInv => NotesNameTheRightHero
<1> SUFFICES ASSUME HeroesIInv, NEW l \in Locale,
                    l = English \/ LocalizedHeroKeys(l, stored[l], catalogue) # None
             PROVE
    LET shown == NotesIn(l)[1].entries
        indexed == LocalizedHeroKeys(l, stored[l], catalogue)
        about == {i \in DOMAIN notes : notes[i].kind = "hero"}
        known(h) == /\ h \in Range(catalogue)
                    /\ l # English => NameIn[l][h] \in DOMAIN indexed
        right(h) == IF known(h) THEN h ELSE None
    IN \E place \in [about -> DOMAIN shown] :
         /\ \A i \in about :
              /\ shown[place[i]].title = NameIn[l][notes[i].name]
              /\ shown[place[i]].hero = right(notes[i].name)
              /\ \A j \in about : i < j => place[i] < place[j]
         /\ \A k \in DOMAIN shown : k \in Range(place) \/ shown[k].hero = None
  BY DEF NotesNameTheRightHero
<1> DEFINE shown == NotesIn(l)[1].entries
           keys == LocalizedHeroKeys(l, stored[l], catalogue)
           about == {i \in DOMAIN notes : notes[i].kind = "hero"}
           right(h) == IF h \in Range(catalogue) /\ (l # English => NameIn[l][h] \in DOMAIN keys)
                       THEN h ELSE None
           local == [i \in DOMAIN notes |->
                      IF notes[i].kind = "hero"
                      THEN [notes[i] EXCEPT !.name = NameIn[l][notes[i].name]] ELSE notes[i]]
           parsed == [i \in DOMAIN local |-> PatchEntry(local[i], keys, catalogue)]
           kept == {i \in DOMAIN parsed : parsed[i].title # None \/ parsed[i].details}
           N == Cardinality(kept)
<1>1. shown = Picked(parsed, kept)
  <2> DEFINE patches == <<[date |-> 1, entries |-> local]>>
             answer == ParsePatchNotes(patches, keys, catalogue)
  <2>1. 1 # Missing
    BY NoneAssumption
  <2>2. DOMAIN patches = {1} /\ patches[1].date # Missing
    BY <2>1
  <2>3. answer.patches = [i \in DOMAIN patches |->
          [date |-> patches[i].date, entries |-> PatchEntries(patches[i].entries, keys, catalogue)]]
    <3> HIDE DEF patches, keys
    <3>1. ~ \E i \in DOMAIN patches : patches[i].date = Missing
      BY <2>2
    <3> QED BY <3>1 DEF ParsePatchNotes
  <2>4. PatchEntries(local, keys, catalogue) = Picked(parsed, kept)
    BY DEF PatchEntries
  <2>5. answer.patches = <<[date |-> 1, entries |-> Picked(parsed, kept)]>>
    <3> HIDE DEF answer, local, keys, parsed, kept
    <3> QED BY <2>3, <2>4
  <2>6. NotesIn(l) = Slice(answer.patches, 0, 1)
    <3>1. 1 # None
      BY NoneAssumption
    <3>2. NotesIn(l) = LimitPatchNotes(answer.patches, 1)
      BY DEF NotesIn
    <3> HIDE DEF answer
    <3> QED BY <3>1, <3>2 DEF LimitPatchNotes
  <2> HIDE DEF answer, parsed, kept
  <2>7. Slice(answer.patches, 0, 1)[1] = answer.patches[1]
    <3>1. Len(answer.patches) = 1
      BY <2>5
    <3> HIDE <2>5
    <3> QED BY <3>1 DEF Slice
  <2> QED BY <2>5, <2>6, <2>7
<1>2. notes \in Seq(Entry) /\ DOMAIN notes = 1..Len(notes) /\ Len(notes) \in Nat
  BY DEF HeroesIInv
<1> HIDE DEF shown, keys
<1>3. ASSUME NEW i \in about
      PROVE  /\ i \in DOMAIN notes /\ notes[i].name \in HeroKeys
             /\ parsed[i].title = NameIn[l][notes[i].name]
             /\ parsed[i].title # None
             /\ parsed[i].hero = right(notes[i].name)
  <2> DEFINE h == notes[i].name
             e == local[i]
  <2>1. i \in DOMAIN notes /\ notes[i] \in Entry /\ notes[i].kind = "hero"
    BY <1>2
  <2>2. /\ h \in HeroKeys
        /\ notes[i] = [kind |-> notes[i].kind, name |-> notes[i].name, details |-> notes[i].details]
    BY <2>1, SiteAssumption DEF HeroKeys
  <2>3. e = [notes[i] EXCEPT !.name = NameIn[l][h]]
    BY <2>1
  <2>4. e.kind = "hero" /\ e.name = NameIn[l][h]
    BY <2>1, <2>2, <2>3
  <2>5. parsed[i] = PatchEntry(e, keys, catalogue)
    BY <2>1
  <2> HIDE DEF e, h, parsed
  <2>6. parsed[i].title = NameIn[l][h] /\ parsed[i].hero = ResolveHeroKey(NameIn[l][h], keys, catalogue)
    BY <2>4, <2>5 DEF PatchEntry
  <2>7. NameIn[l][h] # None
    BY <2>2, HeroesAssumption DEF HeroKeys
  <2>8. ResolveHeroKey(NameIn[l][h], keys, catalogue) = right(h)
    BY <2>2, ResolvedHero DEF keys
  <2> QED BY <2>1, <2>2, <2>6, <2>7, <2>8 DEF h
<1>4. ASSUME NEW i \in DOMAIN notes, i \notin about PROVE parsed[i].hero = None
  <2>1. notes[i].kind # "hero" /\ local[i] = notes[i]
    BY <1>4
  <2>2. parsed[i] = PatchEntry(notes[i], keys, catalogue)
    BY <2>1
  <2> HIDE DEF parsed
  <2> QED BY <2>1, <2>2 DEF PatchEntry
<1>5. DOMAIN parsed = DOMAIN notes
  OBVIOUS
<1>6. kept \in SUBSET Nat /\ IsFiniteSet(kept) /\ N \in Nat /\ kept \in SUBSET DOMAIN notes
  <2>1. kept \in SUBSET (1..Len(notes))
    BY <1>2, <1>5
  <2> HIDE DEF kept
  <2>2. IsFiniteSet(1..Len(notes))
    BY <1>2, IntervalSize
  <2>3. IsFiniteSet(kept) /\ N \in Nat
    BY <2>1, <2>2, FS_Subset, FS_CardinalityType
  <2> QED BY <1>2, <2>1, <2>3
<1>7. \A i \in about : i \in kept
  BY <1>3, <1>5
<1> HIDE DEF parsed
<1>8. PICK at \in [1..N -> kept] :
        /\ DOMAIN shown = 1..N
        /\ \A n \in 1..N : shown[n] = parsed[at[n]]
        /\ \A i \in kept : \E n \in 1..N : at[n] = i
        /\ \A m, n \in 1..N : at[m] <= at[n] <=> m <= n
  <2> DEFINE T == {parsed[i] : i \in kept}
  <2> HIDE DEF kept
  <2>1. \A i \in kept : parsed[i] \in T
    OBVIOUS
  <2> HIDE DEF T
  <2>2. IsPicked(shown, parsed, kept, T)
    BY <1>1, <1>6, <2>1, PickedFacts
  <2> QED BY <2>2 DEF IsPicked
<1> HIDE DEF kept, N, about, right
<1> DEFINE place == [i \in about |-> CHOOSE n \in 1..N : at[n] = i]
<1>9. ASSUME NEW i \in about PROVE place[i] \in 1..N /\ at[place[i]] = i
  <2>1. \E n \in 1..N : at[n] = i
    BY <1>7, <1>8
  <2> QED BY <2>1
<1>10. place \in [about -> DOMAIN shown]
  BY <1>8, <1>9
<1> HIDE DEF place
<1>11. ASSUME NEW i \in about, NEW j \in about, i < j PROVE place[i] < place[j]
  <2>1. place[i] \in 1..N /\ place[j] \in 1..N /\ at[place[i]] = i /\ at[place[j]] = j
    BY <1>9
  <2>2. ~ (at[place[j]] <= at[place[i]])
    <3>1. i \in Int /\ j \in Int
      BY <1>2, <1>3
    <3> QED BY <1>11, <2>1, <3>1
  <2>3. ~ (place[j] <= place[i])
    BY <1>8, <2>1, <2>2
  <2> QED BY <1>6, <2>1, <2>3
<1>12. ASSUME NEW i \in about
       PROVE  /\ shown[place[i]].title = NameIn[l][notes[i].name]
              /\ shown[place[i]].hero = right(notes[i].name)
  <2>1. shown[place[i]] = parsed[i]
    BY <1>8, <1>9
  <2> QED BY <1>3, <2>1
<1>13. ASSUME NEW k \in DOMAIN shown PROVE k \in Range(place) \/ shown[k].hero = None
  <2>1. k \in 1..N /\ at[k] \in kept /\ shown[k] = parsed[at[k]]
    BY <1>8
  <2>2. CASE at[k] \in about
    <3>1. place[at[k]] \in 1..N /\ at[place[at[k]]] = at[k]
      BY <1>9, <2>2
    <3>2. at[place[at[k]]] \in Int
      <4>1. at[k] \in Nat
        BY <1>6, <2>1
      <4> QED BY <3>1, <4>1
    <3>3. place[at[k]] <= k /\ k <= place[at[k]]
      BY <1>8, <2>1, <3>1, <3>2
    <3>4. place[at[k]] = k
      BY <1>6, <2>1, <3>1, <3>3
    <3>5. DOMAIN place = about
      BY <1>10
    <3> QED BY <2>2, <3>4, <3>5 DEF Range
  <2>3. CASE at[k] \notin about
    BY <1>4, <1>6, <2>1, <2>3
  <2> QED BY <2>2, <2>3
<1> QED BY <1>10, <1>11, <1>12, <1>13 DEF shown, keys, about, right

-----------------------------------------------------------------------------
(* Career pages.  An edit changes one section, in its last block or its    *)
(* last container; the invariant is the type of a page.                    *)

CareerIInv ==
  /\ edits \in 0..MaxEdits
  /\ page \in CareerPageType
  /\ profile = FetchProfile(page, NoSearch)

LEMMA Platforms == Range(Platform) = {"pc", "console"}
<1>1. Platform = <<"pc", "console">> BY DEF Platform
<1>2. DOMAIN Platform = {1, 2} BY <1>1
<1> QED BY <1>1, <1>2 DEF Range

LEMMA FirstSectionTyped == FirstSection \in PageSection
<1>1. <<[id |-> "0x21", label |-> "time_played", bars |-> <<>>]>> \in Seq(PageBlock) \ {<<>>}
  BY DEF PageBlock
<1>2. <<[hero |-> "ana", cards |-> <<>>]>> \in Seq(PageContainer) \ {<<>>}
  BY DEF PageContainer
<1> QED BY <1>1, <1>2 DEF FirstSection, PageSection

LEMMA CareerInitial == CareerInit => CareerIInv
<1> SUFFICES ASSUME CareerInit PROVE CareerIInv
  OBVIOUS
<1>1. [pc |-> [quickplay |-> FirstSection, competitive |-> Missing], console |-> Missing] \in
        [Range(Platform) -> {Missing} \cup [Gamemode -> {Missing} \cup PageSection]]
  <2>1. [quickplay |-> FirstSection, competitive |-> Missing] \in [Gamemode -> {Missing} \cup PageSection]
    BY FirstSectionTyped DEF Gamemode
  <2> QED BY <2>1, Platforms
<1>2. [q \in Range(Platform) |-> <<>>] \in [Range(Platform) -> Seq(Wrapper)]
  OBVIOUS
<1>3. page \in CareerPageType
  BY <1>1, <1>2 DEF CareerInit, CareerPageType
<1>4. edits \in 0..MaxEdits
  <2>1. MaxEdits \in Nat
    BY CareerAssumption
  <2>2. edits = 0
    BY DEF CareerInit
  <2> QED BY <2>1, <2>2
<1> QED BY <1>3, <1>4 DEF CareerInit, CareerIInv

\* Growing the last of a sequence.
LEMMA GrownTyped ==
  ASSUME NEW S, NEW seq \in Seq(S) \ {<<>>}, NEW x \in S
  PROVE  /\ Len(seq) \in DOMAIN seq /\ Last(seq) = seq[Len(seq)] /\ Last(seq) \in S
         /\ [seq EXCEPT ![Len(seq)] = x] \in Seq(S) \ {<<>>}
         /\ Len([seq EXCEPT ![Len(seq)] = x]) = Len(seq)
  BY DEF Last

\* The page with another section, a section with another last block or container, a
\* container with another last card.
WithSection(p, g, section) == [page EXCEPT !.views[p][g] = section]
WithBlock(s, b) == [s EXCEPT !.blocks = [s.blocks EXCEPT ![Len(s.blocks)] = b]]
WithContainer(s, c) == [s EXCEPT !.containers = [s.containers EXCEPT ![Len(s.containers)] = c]]
WithCard(c, k) == [c EXCEPT !.cards = [c.cards EXCEPT ![Len(c.cards)] = k]]

Section(p, g) == page.views[p][g]
LastBlock(p, g) == Last(Section(p, g).blocks)
LastContainer(p, g) == Last(Section(p, g).containers)
LastCard(p, g) == Last(LastContainer(p, g).cards)

LEMMA WithSectionTyped ==
  ASSUME page \in CareerPageType, NEW p \in Range(Platform), NEW g \in Gamemode,
         page.views[p] # Missing, NEW section \in PageSection
  PROVE  WithSection(p, g, section) \in CareerPageType
<1>1. page.views \in [Range(Platform) -> {Missing} \cup [Gamemode -> {Missing} \cup PageSection]]
  BY DEF CareerPageType
<1>2. page.views[p] \in [Gamemode -> {Missing} \cup PageSection]
  BY <1>1
<1>3. [page.views[p] EXCEPT ![g] = section] \in [Gamemode -> {Missing} \cup PageSection]
  BY <1>2
<1>4. [page.views EXCEPT ![p] = [page.views[p] EXCEPT ![g] = section]] \in
        [Range(Platform) -> {Missing} \cup [Gamemode -> {Missing} \cup PageSection]]
  BY <1>1, <1>3
<1> QED BY <1>4 DEF CareerPageType, WithSection

\* What the last block, container and card of a section are.
LEMMA SectionFacts ==
  ASSUME page \in CareerPageType, NEW p \in Range(Platform), NEW g \in Gamemode, HasSection(p, g)
  PROVE  /\ Section(p, g) \in PageSection
         /\ Section(p, g).blocks \in Seq(PageBlock) \ {<<>>}
         /\ LastBlock(p, g) \in PageBlock
         /\ Section(p, g).blocks[Len(Section(p, g).blocks)] = LastBlock(p, g)
         /\ \A b \in PageBlock : WithBlock(Section(p, g), b) \in PageSection
         /\ Section(p, g).containers # Missing =>
              /\ Section(p, g).containers \in Seq(PageContainer) \ {<<>>}
              /\ LastContainer(p, g) \in PageContainer
              /\ Section(p, g).containers[Len(Section(p, g).containers)] = LastContainer(p, g)
              /\ \A c \in PageContainer : WithContainer(Section(p, g), c) \in PageSection
              /\ LastContainer(p, g).cards # <<>> =>
                   /\ LastContainer(p, g).cards \in Seq(PageCard) \ {<<>>}
                   /\ LastCard(p, g) \in PageCard
                   /\ LastContainer(p, g).cards[Len(LastContainer(p, g).cards)] = LastCard(p, g)
                   /\ \A k \in PageCard : WithCard(LastContainer(p, g), k) \in PageContainer
<1> DEFINE s == Section(p, g)
<1>1. page.views \in [Range(Platform) -> {Missing} \cup [Gamemode -> {Missing} \cup PageSection]]
  BY DEF CareerPageType
<1>2. page.views[p] \in [Gamemode -> {Missing} \cup PageSection]
  BY <1>1 DEF HasSection
<1>3. s \in PageSection /\ s.blocks \in Seq(PageBlock) \ {<<>>}
  BY <1>2 DEF HasSection, Section, PageSection
<1> HIDE DEF s
<1>4. /\ LastBlock(p, g) \in PageBlock
      /\ s.blocks[Len(s.blocks)] = LastBlock(p, g)
  BY <1>3, GrownTyped DEF LastBlock, s
<1>5. ASSUME NEW b \in PageBlock PROVE WithBlock(s, b) \in PageSection
  <2>1. [s.blocks EXCEPT ![Len(s.blocks)] = b] \in Seq(PageBlock) \ {<<>>}
    BY <1>3, GrownTyped
  <2> QED BY <1>3, <2>1 DEF WithBlock, PageSection
<1>6. ASSUME s.containers # Missing
      PROVE  /\ s.containers \in Seq(PageContainer) \ {<<>>}
             /\ LastContainer(p, g) \in PageContainer
             /\ s.containers[Len(s.containers)] = LastContainer(p, g)
  <2>1. s.containers \in Seq(PageContainer) \ {<<>>}
    BY <1>3, <1>6 DEF PageSection
  <2> QED BY <2>1, GrownTyped DEF LastContainer, s
<1>7. ASSUME s.containers # Missing, NEW c \in PageContainer PROVE WithContainer(s, c) \in PageSection
  <2>1. [s.containers EXCEPT ![Len(s.containers)] = c] \in Seq(PageContainer) \ {<<>>}
    BY <1>6, <1>7, GrownTyped
  <2> QED BY <1>3, <2>1 DEF WithContainer, PageSection
<1> DEFINE c == LastContainer(p, g)
<1>8. ASSUME s.containers # Missing, c.cards # <<>>
      PROVE  /\ c.cards \in Seq(PageCard) \ {<<>>}
             /\ LastCard(p, g) \in PageCard
             /\ c.cards[Len(c.cards)] = LastCard(p, g)
  <2>1. c.cards \in Seq(PageCard) \ {<<>>}
    BY <1>6, <1>8 DEF PageContainer
  <2> QED BY <2>1, GrownTyped DEF LastCard
<1>9. ASSUME s.containers # Missing, c.cards # <<>>, NEW k \in PageCard
      PROVE  WithCard(c, k) \in PageContainer
  <2>1. [c.cards EXCEPT ![Len(c.cards)] = k] \in Seq(PageCard) \ {<<>>}
    BY <1>8, <1>9, GrownTyped
  <2>2. c \in PageContainer
    BY <1>6, <1>9
  <2> HIDE DEF c
  <2> QED BY <2>1, <2>2 DEF WithCard, PageContainer
<1> QED BY <1>3, <1>4, <1>5, <1>6, <1>7, <1>8, <1>9 DEF s

\* What each edit of a section does.
LEMMA SectionEdits ==
  ASSUME page \in CareerPageType, NEW p \in Range(Platform), NEW g \in Gamemode, HasSection(p, g)
  PROVE  /\ \A bar \in Bar : AddBar(p, g, bar) =>
              page' = WithSection(p, g, WithBlock(Section(p, g),
                [LastBlock(p, g) EXCEPT !.bars = Append(@, bar)]))
         /\ \A label : RewordBlock(p, g, label) =>
              page' = WithSection(p, g, WithBlock(Section(p, g),
                [LastBlock(p, g) EXCEPT !.label = label]))
         /\ \A card \in StatCard : AddCard(p, g, card) =>
              page' = WithSection(p, g, WithContainer(Section(p, g),
                [LastContainer(p, g) EXCEPT !.cards = Append(@, card)]))
         /\ \A row \in Row : AddRow(p, g, row) =>
              page' = WithSection(p, g, WithContainer(Section(p, g), WithCard(LastContainer(p, g),
                [LastCard(p, g) EXCEPT !.rows = Append(@, row)])))
         /\ \A label : TranslateCard(p, g, label) =>
              page' = WithSection(p, g, WithContainer(Section(p, g), WithCard(LastContainer(p, g),
                [LastCard(p, g) EXCEPT !.label = label])))
<1> DEFINE s == Section(p, g)
<1>1. s.blocks[Len(s.blocks)] = LastBlock(p, g) /\ s = page.views[p][g]
  BY SectionFacts DEF Section
<1>2. s.containers # Missing =>
        /\ s.containers[Len(s.containers)] = LastContainer(p, g)
        /\ LastContainer(p, g).cards # <<>> =>
             LastContainer(p, g).cards[Len(LastContainer(p, g).cards)] = LastCard(p, g)
  BY SectionFacts
<1>3. LastContainer(p, g) = Last(s.containers)
  BY DEF LastContainer
<1> HIDE DEF s
<1>4. ASSUME NEW bar \in Bar, AddBar(p, g, bar)
      PROVE  page' = WithSection(p, g, WithBlock(s, [LastBlock(p, g) EXCEPT !.bars = Append(@, bar)]))
  BY <1>1, <1>4 DEF AddBar, EditSection, Edit, Grown, WithSection, WithBlock
<1>5. ASSUME NEW label, RewordBlock(p, g, label)
      PROVE  page' = WithSection(p, g, WithBlock(s, [LastBlock(p, g) EXCEPT !.label = label]))
  BY <1>1, <1>5 DEF RewordBlock, EditSection, Edit, Grown, WithSection, WithBlock
<1>6. ASSUME NEW card \in StatCard, AddCard(p, g, card)
      PROVE  page' = WithSection(p, g, WithContainer(s,
                       [LastContainer(p, g) EXCEPT !.cards = Append(@, card)]))
  BY <1>1, <1>2, <1>6 DEF AddCard, EditSection, Edit, Grown, WithSection, WithContainer
<1>7. ASSUME NEW row \in Row, AddRow(p, g, row)
      PROVE  page' = WithSection(p, g, WithContainer(s, WithCard(LastContainer(p, g),
                       [LastCard(p, g) EXCEPT !.rows = Append(@, row)])))
  BY <1>1, <1>2, <1>3, <1>7
     DEF AddRow, EditSection, Edit, Grown, WithSection, WithContainer, WithCard
<1>8. ASSUME NEW label, TranslateCard(p, g, label)
      PROVE  page' = WithSection(p, g, WithContainer(s, WithCard(LastContainer(p, g),
                       [LastCard(p, g) EXCEPT !.label = label])))
  BY <1>1, <1>2, <1>3, <1>8
     DEF TranslateCard, EditSection, Edit, Grown, WithSection, WithContainer, WithCard
<1> QED BY <1>4, <1>5, <1>6, <1>7, <1>8 DEF s

LEMMA LongerCard ==
  ASSUME NEW card \in StatCard PROVE card \in PageCard
<1>1. card = [label |-> card.label, rows |-> card.rows] /\ card.rows \in Seq(Range(card.rows))
  BY CareerAssumption
<1>2. Range(card.rows) \subseteq PageRow
  BY DEF PageRow
<1>3. card.rows \in Seq(PageRow)
  BY <1>1, <1>2
<1> HIDE DEF PageRow
<1> QED BY <1>1, <1>3 DEF PageCard

\* An element longer by one.
LEMMA LongerTyped ==
  /\ \A b \in PageBlock, bar \in Bar : [b EXCEPT !.bars = Append(@, bar)] \in PageBlock
  /\ \A b \in PageBlock, label \in {"minutes_played", "game_won"} :
       [b EXCEPT !.label = label] \in PageBlock
  /\ \A c \in PageContainer, card \in StatCard :
       [c EXCEPT !.cards = Append(@, card)] \in PageContainer
  /\ \A k \in PageCard, row \in Row : [k EXCEPT !.rows = Append(@, row)] \in PageCard
  /\ \A k \in PageCard, label \in DOMAIN Localized : [k EXCEPT !.label = label] \in PageCard
<1>1. ASSUME NEW b \in PageBlock, NEW bar \in Bar
      PROVE  [b EXCEPT !.bars = Append(@, bar)] \in PageBlock
  <2>1. Append(b.bars, bar) \in Seq(Bar)
    BY DEF PageBlock
  <2> QED BY <2>1 DEF PageBlock
<1>2. ASSUME NEW b \in PageBlock, NEW label \in {"minutes_played", "game_won"}
      PROVE  [b EXCEPT !.label = label] \in PageBlock
  BY DEF PageBlock
<1>3. \A card \in StatCard : card \in PageCard
  BY LongerCard
<1>4. ASSUME NEW c \in PageContainer, NEW card \in StatCard
      PROVE  [c EXCEPT !.cards = Append(@, card)] \in PageContainer
  <2>1. Append(c.cards, card) \in Seq(PageCard)
    BY <1>3 DEF PageContainer
  <2> QED BY <2>1 DEF PageContainer
<1>5. ASSUME NEW k \in PageCard, NEW row \in Row
      PROVE  [k EXCEPT !.rows = Append(@, row)] \in PageCard
  <2>1. row \in PageRow
    BY DEF PageRow
  <2>2. Append(k.rows, row) \in Seq(PageRow)
    BY <2>1 DEF PageCard
  <2> QED BY <2>2 DEF PageCard
<1>6. ASSUME NEW k \in PageCard, NEW label \in DOMAIN Localized
      PROVE  [k EXCEPT !.label = label] \in PageCard
  BY DEF PageCard
<1> QED BY <1>1, <1>2, <1>4, <1>5, <1>6

LEMMA CareerStep == CareerIInv /\ (CareerNext \/ UNCHANGED careerVars) => CareerIInv'
<1> SUFFICES ASSUME CareerIInv, CareerNext \/ UNCHANGED careerVars PROVE CareerIInv'
  OBVIOUS
<1>1. page \in CareerPageType /\ edits \in 0..MaxEdits /\ MaxEdits \in Nat
  BY CareerAssumption DEF CareerIInv
<1>2. CASE UNCHANGED careerVars
  BY <1>2 DEF careerVars, CareerIInv, FetchProfile, ParseProfile
<1>3. ASSUME CareerNext, page' \in CareerPageType, edits' = edits + 1, edits < MaxEdits
      PROVE  CareerIInv'
  <2>1. profile' = FetchProfile(page', NoSearch)
    BY <1>3 DEF CareerNext
  <2>2. edits' \in 0..MaxEdits
    BY <1>1, <1>3
  <2>3. NoSearch' = NoSearch
    BY DEF NoSearch
  <2> QED BY <1>3, <2>1, <2>2, <2>3 DEF CareerIInv
<1>4. ASSUME NEW p \in Range(Platform), NEW g \in Gamemode,
             Genuine(p, g) \/ Strange(p, g) \/ Reworded(p, g) \/ Drop(p, g)
      PROVE  page' \in CareerPageType /\ edits' = edits + 1 /\ edits < MaxEdits
  <2>1. ASSUME HasSection(p, g) PROVE page.views[p] # Missing /\ page.views[p][g] # Missing
    BY <2>1 DEF HasSection
  <2>2. CASE OpenSection(p, g)
    <3> DEFINE section == [FirstSection EXCEPT !.season = IF g = "competitive" THEN 3 ELSE None]
               view == IF page.views[p] = Missing THEN [m \in Gamemode |-> Missing] ELSE page.views[p]
    <3>1. section \in PageSection
      BY FirstSectionTyped DEF PageSection
    <3>2. view \in [Gamemode -> {Missing} \cup PageSection]
      BY <1>1 DEF CareerPageType
    <3> HIDE DEF section, view
    <3>3. [view EXCEPT ![g] = section] \in [Gamemode -> {Missing} \cup PageSection]
      BY <3>1, <3>2
    <3>4. page' = [page EXCEPT !.views[p] = [view EXCEPT ![g] = section]]
          /\ edits' = edits + 1 /\ edits < MaxEdits
      BY <2>2 DEF OpenSection, Edit, section, view
    <3>5. [page.views EXCEPT ![p] = [view EXCEPT ![g] = section]] \in
            [Range(Platform) -> {Missing} \cup [Gamemode -> {Missing} \cup PageSection]]
      BY <1>1, <3>3 DEF CareerPageType
    <3> QED BY <1>1, <3>4, <3>5 DEF CareerPageType
  <2>3. ASSUME NEW bar \in Bar, AddBar(p, g, bar)
        PROVE  page' \in CareerPageType /\ edits' = edits + 1 /\ edits < MaxEdits
    <3>1. HasSection(p, g) /\ edits' = edits + 1 /\ edits < MaxEdits
      BY <2>3 DEF AddBar, EditSection, Edit
    <3>2. [LastBlock(p, g) EXCEPT !.bars = Append(@, bar)] \in PageBlock
      BY <1>1, <3>1, SectionFacts, LongerTyped
    <3> QED BY <1>1, <2>1, <2>3, <3>1, <3>2, SectionFacts, SectionEdits, WithSectionTyped
  <2>4. ASSUME NEW block \in Block, AddBlock(p, g, block)
        PROVE  page' \in CareerPageType /\ edits' = edits + 1 /\ edits < MaxEdits
    <3> DEFINE s == Section(p, g)
    <3>1. HasSection(p, g) /\ edits' = edits + 1 /\ edits < MaxEdits
          /\ page' = WithSection(p, g, [s EXCEPT !.blocks = Append(s.blocks, block)])
      BY <2>4 DEF AddBlock, EditSection, Edit, WithSection, Section
    <3>2. block \in PageBlock
      <4>1. block = [id |-> block.id, label |-> block.label, bars |-> block.bars]
            /\ block.bars \in Seq(Bar)
        BY CareerAssumption
      <4> QED BY <4>1 DEF PageBlock
    <3>3. s \in PageSection /\ s.blocks \in Seq(PageBlock)
      BY <1>1, <3>1, SectionFacts
    <3> HIDE DEF s
    <3>4. Append(s.blocks, block) \in Seq(PageBlock) \ {<<>>}
      BY <3>2, <3>3
    <3>5. [s EXCEPT !.blocks = Append(s.blocks, block)] \in PageSection
      BY <3>3, <3>4 DEF PageSection
    <3> QED BY <1>1, <2>1, <3>1, <3>5, WithSectionTyped
  <2>5. ASSUME NEW hero \in Hero, AddContainer(p, g, hero)
        PROVE  page' \in CareerPageType /\ edits' = edits + 1 /\ edits < MaxEdits
    <3> DEFINE s == Section(p, g)
               c == [hero |-> hero, cards |-> <<>>]
    <3>1. HasSection(p, g) /\ s.containers # Missing /\ edits' = edits + 1 /\ edits < MaxEdits
          /\ page' = WithSection(p, g, [s EXCEPT !.containers = Append(s.containers, c)])
      BY <2>5 DEF AddContainer, EditSection, Edit, WithSection, Section
    <3>2. c \in PageContainer
      BY DEF PageContainer
    <3>3. s \in PageSection /\ s.containers \in Seq(PageContainer)
      BY <1>1, <3>1, SectionFacts
    <3> HIDE DEF s, c
    <3>4. Append(s.containers, c) \in Seq(PageContainer) \ {<<>>}
      BY <3>2, <3>3
    <3>5. [s EXCEPT !.containers = Append(s.containers, c)] \in PageSection
      BY <3>3, <3>4 DEF PageSection
    <3> QED BY <1>1, <2>1, <3>1, <3>5, WithSectionTyped
  <2>6. ASSUME NEW card \in StatCard, AddCard(p, g, card)
        PROVE  page' \in CareerPageType /\ edits' = edits + 1 /\ edits < MaxEdits
    <3>1. HasSection(p, g) /\ Section(p, g).containers # Missing
          /\ edits' = edits + 1 /\ edits < MaxEdits
      BY <2>6 DEF AddCard, EditSection, Edit, Section
    <3>2. [LastContainer(p, g) EXCEPT !.cards = Append(@, card)] \in PageContainer
      BY <1>1, <3>1, SectionFacts, LongerTyped
    <3> QED BY <1>1, <2>1, <2>6, <3>1, <3>2, SectionFacts, SectionEdits, WithSectionTyped
  <2>7. ASSUME NEW row \in Row, AddRow(p, g, row)
        PROVE  page' \in CareerPageType /\ edits' = edits + 1 /\ edits < MaxEdits
    <3>1. HasSection(p, g) /\ Section(p, g).containers # Missing /\ LastContainer(p, g).cards # <<>>
          /\ edits' = edits + 1 /\ edits < MaxEdits
      BY <2>7 DEF AddRow, EditSection, Edit, Section, LastContainer
    <3>2. [LastCard(p, g) EXCEPT !.rows = Append(@, row)] \in PageCard
      BY <1>1, <3>1, SectionFacts, LongerTyped
    <3>3. WithCard(LastContainer(p, g), [LastCard(p, g) EXCEPT !.rows = Append(@, row)]) \in PageContainer
      BY <1>1, <3>1, <3>2, SectionFacts
    <3>4. WithContainer(Section(p, g), WithCard(LastContainer(p, g),
            [LastCard(p, g) EXCEPT !.rows = Append(@, row)])) \in PageSection
      BY <1>1, <3>1, <3>3, SectionFacts
    <3>5. page' = WithSection(p, g, WithContainer(Section(p, g), WithCard(LastContainer(p, g),
                    [LastCard(p, g) EXCEPT !.rows = Append(@, row)])))
      BY <1>1, <2>7, <3>1, SectionEdits
    <3> QED BY <1>1, <2>1, <3>1, <3>4, <3>5, WithSectionTyped
  <2>8. ASSUME NEW w \in Wrapper, AddWrapper(p, w)
        PROVE  page' \in CareerPageType /\ edits' = edits + 1 /\ edits < MaxEdits
    <3>1. page' = [page EXCEPT !.ranks[p] = Append(page.ranks[p], w)]
          /\ edits' = edits + 1 /\ edits < MaxEdits
      BY <2>8 DEF AddWrapper, Edit
    <3>2. page.ranks \in [Range(Platform) -> Seq(Wrapper)]
      BY <1>1 DEF CareerPageType
    <3>3. [page.ranks EXCEPT ![p] = Append(page.ranks[p], w)] \in [Range(Platform) -> Seq(Wrapper)]
      BY <3>2
    <3> QED BY <1>1, <3>1, <3>3 DEF CareerPageType
  <2>9. ASSUME NEW frame \in Frame, Endorse(frame)
        PROVE  page' \in CareerPageType /\ edits' = edits + 1 /\ edits < MaxEdits
    BY <1>1, <2>9 DEF Endorse, Edit, CareerPageType
  <2>10. ASSUME NEW label \in {"minutes_played", "game_won"}, RewordBlock(p, g, label)
        PROVE  page' \in CareerPageType /\ edits' = edits + 1 /\ edits < MaxEdits
    <3>1. HasSection(p, g) /\ edits' = edits + 1 /\ edits < MaxEdits
      BY <2>10 DEF RewordBlock, EditSection, Edit
    <3>2. [LastBlock(p, g) EXCEPT !.label = label] \in PageBlock
      BY <1>1, <3>1, SectionFacts, LongerTyped
    <3> QED BY <1>1, <2>1, <2>10, <3>1, <3>2, SectionFacts, SectionEdits, WithSectionTyped
  <2>11. ASSUME NEW label \in DOMAIN Localized, TranslateCard(p, g, label)
        PROVE  page' \in CareerPageType /\ edits' = edits + 1 /\ edits < MaxEdits
    <3>1. HasSection(p, g) /\ Section(p, g).containers # Missing /\ LastContainer(p, g).cards # <<>>
          /\ edits' = edits + 1 /\ edits < MaxEdits
      BY <2>11 DEF TranslateCard, EditSection, Edit, Section, LastContainer
    <3>2. [LastCard(p, g) EXCEPT !.label = label] \in PageCard
      BY <1>1, <3>1, SectionFacts, LongerTyped
    <3>3. WithCard(LastContainer(p, g), [LastCard(p, g) EXCEPT !.label = label]) \in PageContainer
      BY <1>1, <3>1, <3>2, SectionFacts
    <3>4. WithContainer(Section(p, g), WithCard(LastContainer(p, g),
            [LastCard(p, g) EXCEPT !.label = label])) \in PageSection
      BY <1>1, <3>1, <3>3, SectionFacts
    <3>5. page' = WithSection(p, g, WithContainer(Section(p, g), WithCard(LastContainer(p, g),
                    [LastCard(p, g) EXCEPT !.label = label])))
      BY <1>1, <2>11, <3>1, SectionEdits
    <3> QED BY <1>1, <2>1, <3>1, <3>4, <3>5, WithSectionTyped
  <2>12. CASE Drop(p, g)
    <3>1. CASE page.masthead /\ Edit([page EXCEPT !.masthead = FALSE])
      BY <1>1, <3>1 DEF Edit, CareerPageType
    <3>2. CASE page.player # Missing /\ Edit([page EXCEPT !.player = Missing])
      BY <1>1, <3>2 DEF Edit, CareerPageType
    <3>3. CASE page.lang = "en" /\ \E l \in {None, "de"} : Edit([page EXCEPT !.lang = l])
      BY <1>1, <3>3 DEF Edit, CareerPageType
    <3>4. CASE /\ HasSection(p, g)
               /\ EditSection(p, g, [page.views[p][g] EXCEPT !.select = FALSE])
      <4>1. [Section(p, g) EXCEPT !.select = FALSE] \in PageSection
        BY <1>1, <3>4, SectionFacts DEF PageSection
      <4>2. page' = WithSection(p, g, [Section(p, g) EXCEPT !.select = FALSE])
            /\ edits' = edits + 1 /\ edits < MaxEdits
        BY <3>4 DEF EditSection, Edit, WithSection, Section
      <4> QED BY <1>1, <2>1, <3>4, <4>1, <4>2, WithSectionTyped
    <3>5. CASE /\ HasSection(p, g)
               /\ EditSection(p, g, [page.views[p][g] EXCEPT !.containers = Missing])
      <4>1. [Section(p, g) EXCEPT !.containers = Missing] \in PageSection
        BY <1>1, <3>5, SectionFacts DEF PageSection
      <4>2. page' = WithSection(p, g, [Section(p, g) EXCEPT !.containers = Missing])
            /\ edits' = edits + 1 /\ edits < MaxEdits
        BY <3>5 DEF EditSection, Edit, WithSection, Section
      <4> QED BY <1>1, <2>1, <3>5, <4>1, <4>2, WithSectionTyped
    <3> QED BY <2>12, <3>1, <3>2, <3>3, <3>4, <3>5 DEF Drop
  <2> QED BY <1>4, <2>2, <2>3, <2>4, <2>5, <2>6, <2>7, <2>8, <2>9, <2>10, <2>11, <2>12
      DEF Genuine, Strange, Reworded
<1>5. CASE CareerNext
  <2>1. PICK p \in Range(Platform), g \in Gamemode :
          Genuine(p, g) \/ Strange(p, g) \/ Reworded(p, g) \/ Drop(p, g)
    BY <1>5 DEF CareerNext
  <2> QED BY <1>3, <1>4, <1>5, <2>1
<1> QED BY <1>2, <1>5

\* A role that is ranked has a division and a tier.
LEMMA RanksTyped ==
  ASSUME NEW wrappers \in Seq(Wrapper), NEW r \in Role
  PROVE  Nullable(Ranks(wrappers)[r], ServableRank(Ranks(wrappers)[r]))
<1> DEFINE ranked == {i \in DOMAIN wrappers : RoleOf(wrappers[i].role) = r /\ Ranked(wrappers[i])}
<1>1. Ranks(wrappers)[r] =
        IF ranked = {} THEN None
        ELSE [division |-> wrappers[Max(ranked)].division, tier |-> wrappers[Max(ranked)].tier]
  BY DEF Ranks
<1>2. ASSUME ranked # {} PROVE Max(ranked) \in ranked
  <2>1. ranked \in SUBSET (1..Len(wrappers)) /\ Len(wrappers) \in Nat
    OBVIOUS
  <2> HIDE DEF ranked
  <2> QED BY <1>2, <2>1, Greatest
<1>3. ASSUME NEW i \in ranked PROVE wrappers[i].division \in Division /\ wrappers[i].tier \in 1..5
  <2>1. wrappers[i] \in Wrapper
    OBVIOUS
  <2>2. wrappers[i].tier \in 0..5
    BY <2>1, BlizzardAssumption
  <2> QED BY <2>2 DEF Ranked
<1> HIDE DEF ranked
<1> QED BY <1>1, <1>2, <1>3 DEF Nullable, ServableRank

LEMMA CareerTyped == CareerIInv => CareerTypeOK
<1> SUFFICES ASSUME CareerIInv PROVE CareerTypeOK
  OBVIOUS
<1>1. page \in CareerPageType /\ edits \in 0..MaxEdits /\ profile = FetchProfile(page, NoSearch)
  BY DEF CareerIInv
<1>2. profile.status \in {200, 404, 500, 502}
  BY <1>1 DEF FetchProfile, ParseProfile, Failure
<1>3. Served => profile.summary = Summary(page, NoSearch) /\ profile.stats = Stats(page)
  BY <1>1 DEF FetchProfile, ParseProfile, Failure, Served
<1>4. ASSUME Served, profile.summary.competitive # None, NEW p \in Range(Platform)
      PROVE  LET ranks == profile.summary.competitive[p]
             IN Nullable(ranks, \A r \in Role : Nullable(ranks.roles[r],
                  ranks.roles[r].division \in Division /\ ranks.roles[r].tier > 0))
  <2>1. profile.summary.competitive[p] = PlatformRanks(page, p)
    BY <1>3, <1>4 DEF Summary, CompetitiveRanks
  <2>2. page.ranks[p] \in Seq(Wrapper)
    BY <1>1 DEF CareerPageType
  <2>3. PlatformRanks(page, p) # None => PlatformRanks(page, p).roles = Ranks(page.ranks[p])
    BY DEF PlatformRanks
  <2>4. \A r \in Role : Nullable(Ranks(page.ranks[p])[r],
          /\ Ranks(page.ranks[p])[r].division \in Division
          /\ Ranks(page.ranks[p])[r].tier > 0)
    BY <2>2, RanksTyped DEF Nullable, ServableRank
  <2> QED BY <2>1, <2>3, <2>4 DEF Nullable
<1>5. ASSUME Served, profile.stats # None, NEW p \in Range(Platform)
      PROVE  Nullable(profile.stats[p],
               \A g \in Gamemode : Nullable(profile.stats[p][g],
                 KnownComparison \subseteq DOMAIN profile.stats[p][g].heroes_comparisons))
  <2>1. profile.stats[p] = PlatformStats(page, p)
    BY <1>3, <1>5 DEF Stats
  <2>2. PlatformStats(page, p) # None =>
          \A g \in Gamemode : PlatformStats(page, p)[g] = GamemodeStats(page.views[p], g)
    BY DEF PlatformStats
  <2>3. ASSUME NEW g \in Gamemode, GamemodeStats(page.views[p], g) # None
        PROVE  KnownComparison \subseteq DOMAIN GamemodeStats(page.views[p], g).heroes_comparisons
    <3>1. GamemodeStats(page.views[p], g).heroes_comparisons = HeroesComparisons(page.views[p][g])
      BY <2>3 DEF GamemodeStats
    <3>2. KnownComparison \subseteq DOMAIN HeroesComparisons(page.views[p][g])
      BY DEF HeroesComparisons
    <3> QED BY <3>1, <3>2
  <2> QED BY <2>1, <2>2, <2>3 DEF Nullable
<1> QED BY <1>1, <1>2, <1>4, <1>5 DEF CareerTypeOK

LEMMA SiteTyped ==
  HeroesIInv => /\ siteEdits \in 0..MaxSiteEdits
                /\ catalogue = Slice(HeroOrder, 0, Len(catalogue))
                /\ {index[i].key : i \in DOMAIN index} = Range(Slice(HeroOrder, 0, Len(index)))
<1> SUFFICES ASSUME HeroesIInv
             PROVE  {index[i].key : i \in DOMAIN index} = Range(Slice(HeroOrder, 0, Len(index)))
  BY DEF HeroesIInv
<1> DEFINE n == Len(index)
<1>1. n \in 1..Len(HeroOrder) /\ {index[i].key : i \in DOMAIN index} = {HeroOrder[k] : k \in 1..n}
  BY DEF HeroesIInv
<1> HIDE DEF n
<1>2. Slice(HeroOrder, 0, n) = [i \in 1..n |-> HeroOrder[i]]
  BY <1>1, HeroOrderFacts
<1> QED BY <1>1, <1>2 DEF Range, n

-----------------------------------------------------------------------------
(* What Blizzard adds that the parser cannot name or read *)

LEMMA StrangeBar ==
  ASSUME NEW bars \in Seq(Bar), NEW bar \in Bar, HeroOf(bar) \notin Hero \/ Unreadable(bar.amount)
  PROVE  HeroComparisonEntries(Append(bars, bar)) = HeroComparisonEntries(bars)
<1> DEFINE more == Append(bars, bar)
           P == ComparableBars(bars)
<1>1. /\ DOMAIN more = DOMAIN bars \cup {Len(bars) + 1} /\ more[Len(bars) + 1] = bar
      /\ \A i \in DOMAIN bars : more[i] = bars[i]
  OBVIOUS
<1> HIDE DEF more
<1>2. ComparableBars(more) = P
  BY <1>1 DEF ComparableBars
<1>3. P \in SUBSET DOMAIN bars
  BY DEF ComparableBars
<1> HIDE DEF P
<1>4. P \in SUBSET Nat /\ IsFiniteSet(P)
  BY <1>3, SomePlaces
<1>5. \A i \in P : more[i] = bars[i]
  BY <1>1, <1>3
<1>6. Picked(more, P) = Picked(bars, P)
  BY <1>4, <1>5, PickedSame
<1> QED BY <1>2, <1>6 DEF HeroComparisonEntries, more, P

LEMMA StrangeRow ==
  ASSUME NEW rows \in Seq(PageRow), NEW row \in Row, Unreadable(row.cell)
  PROVE  StatRows(Append(rows, row)) = StatRows(rows)
<1> DEFINE more == Append(rows, row)
           P == {i \in DOMAIN rows : ~Unreadable(rows[i].cell)}
           Q == {i \in DOMAIN more : ~Unreadable(more[i].cell)}
<1>0. row \in PageRow
  BY DEF PageRow
<1>1. /\ DOMAIN more = DOMAIN rows \cup {Len(rows) + 1} /\ more[Len(rows) + 1] = row
      /\ \A i \in DOMAIN rows : more[i] = rows[i]
  BY <1>0
<1> HIDE DEF more
<1>2. Q = P
  BY <1>1
<1>3. P \in SUBSET DOMAIN rows
  OBVIOUS
<1>4. P \in SUBSET Nat /\ IsFiniteSet(P)
  <2> HIDE DEF P
  <2> QED BY <1>3, SomePlaces
<1>5. \A i \in P : more[i] = rows[i]
  BY <1>1
<1>6. Picked(more, P) = Picked(rows, P)
  <2> HIDE DEF P
  <2> QED BY <1>4, <1>5, PickedSame
<1>7. Picked(more, Q) = Picked(rows, P)
  BY <1>2, <1>6
<1> QED BY <1>7 DEF StatRows, more

LEMMA StrangeCard ==
  ASSUME NEW c \in PageContainer, NEW card \in StatCard, CareerStatCategory(card) = None
  PROVE  Cards([c EXCEPT !.cards = Append(@, card)]) = Cards(c)
<1> DEFINE more == Append(c.cards, card)
           P == {i \in DOMAIN c.cards : CareerStatCategory(c.cards[i]) # None}
           Q == {i \in DOMAIN more : CareerStatCategory(more[i]) # None}
<1>0. c.cards \in Seq(PageCard) /\ card \in PageCard
      /\ [c EXCEPT !.cards = Append(@, card)].cards = more
  <2>1. card \in PageCard
    BY LongerCard
  <2> QED BY <2>1 DEF PageContainer
<1>1. /\ DOMAIN more = DOMAIN c.cards \cup {Len(c.cards) + 1} /\ more[Len(c.cards) + 1] = card
      /\ \A i \in DOMAIN c.cards : more[i] = c.cards[i]
  BY <1>0
<1> HIDE DEF more
<1>2. Q = P
  BY <1>1
<1>3. P \in SUBSET DOMAIN c.cards
  OBVIOUS
<1>4. P \in SUBSET Nat /\ IsFiniteSet(P)
  <2> HIDE DEF P
  <2> QED BY <1>0, <1>3, SomePlaces
<1>5. \A i \in P : more[i] = c.cards[i]
  BY <1>1
<1>6. Picked(more, P) = Picked(c.cards, P)
  <2> HIDE DEF P
  <2> QED BY <1>4, <1>5, PickedSame
<1>7. Picked(more, Q) = Picked(c.cards, P)
  BY <1>2, <1>6
<1> QED BY <1>0, <1>7 DEF Cards

\* A last card with the same category and the same readable rows.
LEMMA SameCards ==
  ASSUME NEW c \in PageContainer, c.cards # <<>>, NEW k \in PageCard,
         CareerStatCategory(k) = CareerStatCategory(Last(c.cards)),
         StatRows(k.rows) = StatRows(Last(c.cards).rows)
  PROVE  Cards(WithCard(c, k)) = Cards(c)
<1> DEFINE cards == c.cards
           other == [cards EXCEPT ![Len(cards)] = k]
           P == {i \in DOMAIN cards : CareerStatCategory(cards[i]) # None}
           Q == {i \in DOMAIN other : CareerStatCategory(other[i]) # None}
<1>1. cards \in Seq(PageCard) \ {<<>>}
  BY DEF PageContainer
<1>2. WithCard(c, k).cards = other
  BY DEF WithCard, PageContainer
<1> HIDE DEF cards
<1>3. DOMAIN other = DOMAIN cards /\ Last(cards) = cards[Len(cards)]
  BY <1>1, GrownTyped
<1>4. \A i \in DOMAIN cards : /\ CareerStatCategory(other[i]) = CareerStatCategory(cards[i])
                              /\ StatRows(other[i].rows) = StatRows(cards[i].rows)
  <2> SUFFICES ASSUME NEW i \in DOMAIN cards
               PROVE  /\ CareerStatCategory(other[i]) = CareerStatCategory(cards[i])
                      /\ StatRows(other[i].rows) = StatRows(cards[i].rows)
    OBVIOUS
  <2>1. CASE i = Len(cards)
    BY <1>3, <2>1 DEF cards
  <2>2. CASE i # Len(cards)
    BY <2>2
  <2> QED BY <2>1, <2>2
<1> HIDE DEF other
<1>5. Q = P
  BY <1>3, <1>4
<1>6. P \in SUBSET DOMAIN cards
  OBVIOUS
<1> HIDE DEF P, Q
<1>7. P \in SUBSET Nat /\ IsFiniteSet(P)
  BY <1>1, <1>6, SomePlaces
<1>8. /\ Places(P) \in [1..Cardinality(P) -> P]
      /\ Picked(cards, P) = [n \in 1..Cardinality(P) |-> cards[Places(P)[n]]]
      /\ Picked(other, P) = [n \in 1..Cardinality(P) |-> other[Places(P)[n]]]
  BY <1>7, PlacesFacts
<1>9. \A n \in 1..Cardinality(P) : Places(P)[n] \in DOMAIN cards
  BY <1>6, <1>8
<1>10. Cards(c) = [i \in 1..Cardinality(P) |->
                    [category |-> CareerStatCategory(cards[Places(P)[i]]),
                     stats |-> StatRows(cards[Places(P)[i]].rows)]]
  BY <1>8 DEF Cards, P, cards
<1>11. Cards(WithCard(c, k)) = [i \in 1..Cardinality(P) |->
                    [category |-> CareerStatCategory(other[Places(P)[i]]),
                     stats |-> StatRows(other[Places(P)[i]].rows)]]
  <2> DEFINE x == WithCard(c, k)
  <2>1. x.cards = other
    BY <1>2
  <2>2. Picked(x.cards, {i \in DOMAIN x.cards : CareerStatCategory(x.cards[i]) # None}) =
          [n \in 1..Cardinality(P) |-> other[Places(P)[n]]]
    BY <1>5, <1>8, <2>1 DEF Q
  <2> HIDE DEF x
  <2>3. Cards(x) = [i \in 1..Cardinality(P) |->
                    [category |-> CareerStatCategory(other[Places(P)[i]]),
                     stats |-> StatRows(other[Places(P)[i]].rows)]]
    BY <2>2 DEF Cards
  <2> QED BY <2>3 DEF x
<1> QED BY <1>4, <1>9, <1>10, <1>11

\* A last block of the same category with the same comparisons.
LEMMA SameComparisons ==
  ASSUME NEW s \in PageSection, NEW b \in PageBlock,
         (b.label = None) <=> (Last(s.blocks).label = None),
         CategoryKey(b) = CategoryKey(Last(s.blocks)),
         HeroComparisonEntries(b.bars) = HeroComparisonEntries(Last(s.blocks).bars)
  PROVE  HeroesComparisons(WithBlock(s, b)) = HeroesComparisons(s)
<1> DEFINE blocks == s.blocks
           other == [blocks EXCEPT ![Len(blocks)] = b]
           shown(bs) == {i \in DOMAIN bs : bs[i].label # None}
           of(bs, k) == {i \in shown(bs) : CategoryKey(bs[i]) = k}
           table(bs) == [k \in {CategoryKey(bs[i]) : i \in shown(bs)} |->
                          HeroComparisonEntries(bs[Max(of(bs, k))].bars)]
<1>1. blocks \in Seq(PageBlock) \ {<<>>}
  BY DEF PageSection
<1>2. WithBlock(s, b).blocks = other
  BY DEF WithBlock, PageSection
<1>3. DOMAIN other = DOMAIN blocks /\ Last(blocks) = blocks[Len(blocks)]
  BY <1>1, GrownTyped
<1>4. \A i \in DOMAIN blocks :
        /\ (other[i].label = None) <=> (blocks[i].label = None)
        /\ CategoryKey(other[i]) = CategoryKey(blocks[i])
        /\ HeroComparisonEntries(other[i].bars) = HeroComparisonEntries(blocks[i].bars)
  <2> SUFFICES ASSUME NEW i \in DOMAIN blocks
               PROVE  /\ (other[i].label = None) <=> (blocks[i].label = None)
                      /\ CategoryKey(other[i]) = CategoryKey(blocks[i])
                      /\ HeroComparisonEntries(other[i].bars) = HeroComparisonEntries(blocks[i].bars)
    OBVIOUS
  <2>1. CASE i = Len(blocks)
    <3>1. other[i] = b /\ blocks[i] = Last(s.blocks)
      BY <1>3, <2>1
    <3> HIDE DEF other, blocks
    <3> QED BY <3>1
  <2>2. CASE i # Len(blocks)
    <3>1. other[i] = blocks[i]
      BY <2>2
    <3> HIDE DEF other, blocks
    <3> QED BY <3>1
  <2> QED BY <2>1, <2>2
<1> HIDE DEF blocks, other
<1>5. shown(other) = shown(blocks)
  BY <1>3, <1>4
<1>6. \A k : of(other, k) = of(blocks, k)
  BY <1>4, <1>5
<1>7. {CategoryKey(other[i]) : i \in shown(other)} = {CategoryKey(blocks[i]) : i \in shown(blocks)}
  BY <1>4, <1>5
<1>8. ASSUME NEW k \in {CategoryKey(blocks[i]) : i \in shown(blocks)}
      PROVE  HeroComparisonEntries(other[Max(of(other, k))].bars) =
               HeroComparisonEntries(blocks[Max(of(blocks, k))].bars)
  <2>1. of(blocks, k) \in SUBSET (1..Len(blocks)) /\ of(blocks, k) # {} /\ Len(blocks) \in Nat
    BY <1>1, <1>8
  <2> HIDE DEF of
  <2>2. Max(of(blocks, k)) \in of(blocks, k)
    BY <2>1, Greatest
  <2>3. Max(of(blocks, k)) \in DOMAIN blocks
    BY <1>1, <2>1, <2>2
  <2> QED BY <1>4, <1>6, <2>3
<1> HIDE DEF of, shown
<1>9. table(other) = table(blocks)
  BY <1>7, <1>8
<1> DEFINE answer(tb) == [c \in DOMAIN tb \cup KnownComparison |->
                            IF c \notin DOMAIN tb \/ (c \in KnownComparison /\ tb[c] = <<>>)
                            THEN None ELSE tb[c]]
<1>10. \A t : HeroesComparisons(t) = answer(table(t.blocks))
  BY DEF HeroesComparisons, Dict, shown, of
<1> HIDE DEF table, answer
<1>11. HeroesComparisons(WithBlock(s, b)) = answer(table(other))
  BY <1>2, <1>10
<1>12. HeroesComparisons(s) = answer(table(blocks))
  BY <1>10 DEF blocks
<1> QED BY <1>9, <1>11, <1>12

\* A last container of the same hero with the same cards.
LEMMA SameCareer ==
  ASSUME NEW s \in PageSection, s.containers # Missing, NEW c \in PageContainer,
         c.hero = Last(s.containers).hero, Cards(c) = Cards(Last(s.containers))
  PROVE  CareerStats(WithContainer(s, c)) = CareerStats(s)
<1> DEFINE cs == s.containers
           other == [cs EXCEPT ![Len(cs)] = c]
           shown(xs) == {i \in DOMAIN xs : xs[i].hero # None}
           of(xs, k) == {i \in shown(xs) : xs[i].hero = k}
           table(xs) == [k \in {xs[i].hero : i \in shown(xs)} |-> Cards(xs[Max(of(xs, k))])]
<1>1. cs \in Seq(PageContainer) \ {<<>>}
  BY DEF PageSection
<1>2. WithContainer(s, c).containers = other
  BY DEF WithContainer, PageSection
<1>3. DOMAIN other = DOMAIN cs /\ Last(cs) = cs[Len(cs)]
  BY <1>1, GrownTyped
<1>4. \A i \in DOMAIN cs : other[i].hero = cs[i].hero /\ Cards(other[i]) = Cards(cs[i])
  <2> SUFFICES ASSUME NEW i \in DOMAIN cs
               PROVE  other[i].hero = cs[i].hero /\ Cards(other[i]) = Cards(cs[i])
    OBVIOUS
  <2>1. CASE i = Len(cs)
    <3>1. other[i] = c /\ cs[i] = Last(s.containers)
      BY <1>3, <2>1
    <3> HIDE DEF other, cs
    <3> QED BY <3>1
  <2>2. CASE i # Len(cs)
    <3>1. other[i] = cs[i]
      BY <2>2
    <3> HIDE DEF other, cs
    <3> QED BY <3>1
  <2> QED BY <2>1, <2>2
<1> HIDE DEF cs, other
<1>5. shown(other) = shown(cs)
  BY <1>3, <1>4
<1>6. \A k : of(other, k) = of(cs, k)
  BY <1>4, <1>5
<1>7. {other[i].hero : i \in shown(other)} = {cs[i].hero : i \in shown(cs)}
  BY <1>4, <1>5
<1>8. ASSUME NEW k \in {cs[i].hero : i \in shown(cs)}
      PROVE  Cards(other[Max(of(other, k))]) = Cards(cs[Max(of(cs, k))])
  <2>1. of(cs, k) \in SUBSET (1..Len(cs)) /\ of(cs, k) # {} /\ Len(cs) \in Nat
    BY <1>1, <1>8
  <2> HIDE DEF of
  <2>2. Max(of(cs, k)) \in of(cs, k)
    BY <2>1, Greatest
  <2>3. Max(of(cs, k)) \in DOMAIN cs
    BY <1>1, <2>1, <2>2
  <2> QED BY <1>4, <1>6, <2>3
<1> HIDE DEF of, shown
<1>9. table(other) = table(cs)
  BY <1>7, <1>8
<1> DEFINE answer(tb) == [h \in {h \in DOMAIN tb : tb[h] # <<>>} |-> tb[h]]
<1>10. \A t : CareerStats(t) = answer(table(t.containers))
  BY DEF CareerStats, Dict, shown, of
<1> HIDE DEF table, answer
<1>11. CareerStats(WithContainer(s, c)) = answer(table(other))
  BY <1>2, <1>10
<1>12. CareerStats(s) = answer(table(cs))
  BY <1>10 DEF cs
<1> QED BY <1>9, <1>11, <1>12

LEMMA NodesAreThere ==
  /\ \A s \in PageSection : s # Missing
  /\ \A cs \in Seq(PageContainer) : cs # Missing
  /\ \A view \in [Gamemode -> {Missing} \cup PageSection] : view # Missing
  BY CareerAssumption

\* A section that parses alike leaves the profile as it was.
LEMMA SameSection ==
  ASSUME page \in CareerPageType, NEW p \in Range(Platform), NEW g \in Gamemode, HasSection(p, g),
         NEW s \in PageSection, page' = WithSection(p, g, s),
         s.select = Section(p, g).select, s.season = Section(p, g).season,
         (s.containers = Missing) <=> (Section(p, g).containers = Missing),
         HeroesComparisons(s) = HeroesComparisons(Section(p, g)),
         CareerStats(s) = CareerStats(Section(p, g))
  PROVE  ParseProfile(page', NoSearch) = ParseProfile(page, NoSearch)
<1> DEFINE old == page.views[p][g]
<1>1. page.views \in [Range(Platform) -> {Missing} \cup [Gamemode -> {Missing} \cup PageSection]]
  BY DEF CareerPageType
<1>2. page.views[p] # Missing /\ old # Missing /\ page.views[p] \in [Gamemode -> {Missing} \cup PageSection]
  BY <1>1 DEF HasSection
<1>3. /\ page'.masthead = page.masthead /\ page'.player = page.player
      /\ page'.title = page.title /\ page'.updated = page.updated
      /\ page'.endorsement = page.endorsement /\ page'.ranks = page.ranks
      /\ page'.views = [page.views EXCEPT ![p] = [page.views[p] EXCEPT ![g] = s]]
  BY DEF WithSection, CareerPageType
<1>4. \A q \in Range(Platform) :
        /\ (page'.views[q] = Missing) <=> (page.views[q] = Missing)
        /\ page'.views[q] # Missing => \A m \in Gamemode :
             /\ (page'.views[q][m] = Missing) <=> (page.views[q][m] = Missing)
             /\ page'.views[q][m] # Missing =>
                  \/ page'.views[q][m] = page.views[q][m]
                  \/ page'.views[q][m] = s /\ page.views[q][m] = Section(p, g)
  <2> SUFFICES ASSUME NEW q \in Range(Platform)
               PROVE  /\ (page'.views[q] = Missing) <=> (page.views[q] = Missing)
                      /\ page'.views[q] # Missing => \A m \in Gamemode :
                           /\ (page'.views[q][m] = Missing) <=> (page.views[q][m] = Missing)
                           /\ page'.views[q][m] # Missing =>
                                \/ page'.views[q][m] = page.views[q][m]
                                \/ page'.views[q][m] = s /\ page.views[q][m] = Section(p, g)
    OBVIOUS
  <2>1. CASE q # p
    <3>1. page'.views[q] = page.views[q]
      BY <1>1, <1>3, <2>1
    <3> QED BY <3>1
  <2>2. CASE q = p
    <3>1. page'.views[q] = [page.views[p] EXCEPT ![g] = s]
      BY <1>1, <1>3, <2>2
    <3>2. page'.views[q][g] = s /\ \A m \in Gamemode : m # g => page'.views[q][m] = page.views[p][m]
      BY <1>2, <3>1
    <3>3. page'.views[q] # Missing
      <4>1. [page.views[p] EXCEPT ![g] = s] \in [Gamemode -> {Missing} \cup PageSection]
        BY <1>2
      <4> QED BY <3>1, <4>1, NodesAreThere
    <3>4. s # Missing
      BY NodesAreThere
    <3> QED BY <1>2, <2>2, <3>2, <3>3, <3>4 DEF Section
  <2> QED BY <2>1, <2>2
<1>5. \A q \in Range(Platform), m \in Gamemode :
        GamemodeStats(page'.views[q], m) = GamemodeStats(page.views[q], m)
  <2> SUFFICES ASSUME NEW q \in Range(Platform), NEW m \in Gamemode
               PROVE  GamemodeStats(page'.views[q], m) = GamemodeStats(page.views[q], m)
    OBVIOUS
  <2>1. CASE page'.views[q] = Missing \/ page'.views[q][m] = Missing
    BY <1>4, <2>1 DEF GamemodeStats
  <2>2. CASE page'.views[q] # Missing /\ page'.views[q][m] # Missing
    <3>1. CASE page'.views[q][m] = page.views[q][m]
      BY <1>4, <2>2, <3>1 DEF GamemodeStats
    <3>2. CASE page'.views[q][m] = s /\ page.views[q][m] = Section(p, g)
      BY <1>4, <2>2, <3>2 DEF GamemodeStats
    <3> QED BY <1>4, <2>2, <3>1, <3>2
  <2> QED BY <2>1, <2>2
<1>6. \A q \in Range(Platform) : PlatformStats(page', q) = PlatformStats(page, q)
  BY <1>5 DEF PlatformStats
<1>7. Stats(page') = Stats(page)
  BY <1>6 DEF Stats
<1>8. StatsBroken(page') <=> StatsBroken(page)
  BY <1>4 DEF StatsBroken
<1>9. SummaryBroken(page') <=> SummaryBroken(page)
  BY <1>3 DEF SummaryBroken
<1>10. "competitive" \in Gamemode
  BY DEF Gamemode
<1>11. \A q \in Range(Platform) : LastSeasonPlayed(page', q) = LastSeasonPlayed(page, q)
  BY <1>4, <1>10 DEF LastSeasonPlayed
<1>12. \A q \in Range(Platform) : PlatformRanks(page', q) = PlatformRanks(page, q)
  BY <1>3, <1>11 DEF PlatformRanks
<1>13. CompetitiveRanks(page') = CompetitiveRanks(page)
  BY <1>12 DEF CompetitiveRanks
<1>14. Endorsement(page') = Endorsement(page)
  BY <1>3 DEF Endorsement
<1>15. Summary(page', NoSearch) = Summary(page, NoSearch)
  BY <1>3, <1>13, <1>14 DEF Summary
<1> QED BY <1>3, <1>7, <1>8, <1>9, <1>15 DEF ParseProfile

\* A wrapper that is no rank, beside one that is: no other rank changes.
LEMMA StrangeWrapper ==
  ASSUME page \in CareerPageType, NEW p \in Range(Platform), NEW w \in Wrapper,
         ~WrapperBroken(w), ~(RoleOf(w.role) # None /\ Ranked(w)), page.ranks[p] # <<>>,
         AddWrapper(p, w)
  PROVE  ParseProfile(page', NoSearch) = ParseProfile(page, NoSearch)
<1> DEFINE ws == page.ranks[p]
           more == Append(ws, w)
<1>1. page.ranks \in [Range(Platform) -> Seq(Wrapper)]
  BY DEF CareerPageType
<1>2. /\ page'.masthead = page.masthead /\ page'.player = page.player
      /\ page'.title = page.title /\ page'.updated = page.updated
      /\ page'.endorsement = page.endorsement /\ page'.views = page.views
      /\ page'.ranks = [page.ranks EXCEPT ![p] = more]
  BY DEF AddWrapper, Edit, CareerPageType
<1>3. /\ ws \in Seq(Wrapper) /\ more # <<>>
      /\ DOMAIN more = DOMAIN ws \cup {Len(ws) + 1} /\ more[Len(ws) + 1] = w
      /\ \A i \in DOMAIN ws : more[i] = ws[i]
  BY <1>1
<1>4. page'.ranks[p] = more /\ DOMAIN page'.ranks = DOMAIN page.ranks
      /\ \A q \in DOMAIN page.ranks : q # p => page'.ranks[q] = page.ranks[q]
  BY <1>1, <1>2
<1> HIDE DEF more
<1>5. \A r \in Role : Ranks(more)[r] = Ranks(ws)[r]
  <2> SUFFICES ASSUME NEW r \in Role PROVE Ranks(more)[r] = Ranks(ws)[r]
    OBVIOUS
  <2> DEFINE ranked(xs) == {i \in DOMAIN xs : RoleOf(xs[i].role) = r /\ Ranked(xs[i])}
  <2>1. r # None
    BY CareerAssumption
  <2>2. ranked(more) = ranked(ws)
    BY <1>3, <2>1
  <2>3. ASSUME ranked(ws) # {} PROVE Max(ranked(ws)) \in DOMAIN ws
    <3>1. ranked(ws) \in SUBSET (1..Len(ws)) /\ Len(ws) \in Nat /\ DOMAIN ws = 1..Len(ws)
      BY <1>3
    <3> HIDE DEF ranked, ws
    <3> QED BY <2>3, <3>1, Greatest
  <2>4. \A xs : Ranks(xs)[r] =
          IF ranked(xs) = {} THEN None
          ELSE [division |-> xs[Max(ranked(xs))].division, tier |-> xs[Max(ranked(xs))].tier]
    BY DEF Ranks
  <2> HIDE DEF ranked, ws
  <2> QED BY <1>3, <2>2, <2>3, <2>4
<1>6. Ranks(more) = Ranks(ws)
  BY <1>5 DEF Ranks
<1>7. \A q \in Range(Platform) : LastSeasonPlayed(page', q) = LastSeasonPlayed(page, q)
  BY <1>2 DEF LastSeasonPlayed
<1>8. \A q \in Range(Platform) : PlatformRanks(page', q) = PlatformRanks(page, q)
  <2> SUFFICES ASSUME NEW q \in Range(Platform) PROVE PlatformRanks(page', q) = PlatformRanks(page, q)
    OBVIOUS
  <2>1. CASE q = p
    BY <1>3, <1>4, <1>6, <1>7, <2>1 DEF PlatformRanks
  <2>2. CASE q # p
    BY <1>1, <1>4, <1>7, <2>2 DEF PlatformRanks
  <2> QED BY <2>1, <2>2
<1>9. CompetitiveRanks(page') = CompetitiveRanks(page)
  BY <1>8 DEF CompetitiveRanks
<1>10. Endorsement(page') = Endorsement(page)
  BY <1>2 DEF Endorsement
<1>11. Summary(page', NoSearch) = Summary(page, NoSearch)
  BY <1>2, <1>9, <1>10 DEF Summary
<1>12. SummaryBroken(page') <=> SummaryBroken(page)
  <2>1. \A q \in DOMAIN page.ranks :
          (\E i \in DOMAIN page'.ranks[q] : WrapperBroken(page'.ranks[q][i])) <=>
          (\E i \in DOMAIN page.ranks[q] : WrapperBroken(page.ranks[q][i]))
    <3> SUFFICES ASSUME NEW q \in DOMAIN page.ranks
                 PROVE  (\E i \in DOMAIN page'.ranks[q] : WrapperBroken(page'.ranks[q][i])) <=>
                        (\E i \in DOMAIN page.ranks[q] : WrapperBroken(page.ranks[q][i]))
      OBVIOUS
    <3>1. CASE q = p
      BY <1>3, <1>4, <3>1
    <3>2. CASE q # p
      BY <1>4, <3>2
    <3> QED BY <3>1, <3>2
  <2> QED BY <1>2, <1>4, <2>1 DEF SummaryBroken
<1>13. StatsBroken(page') <=> StatsBroken(page) 
  BY <1>2 DEF StatsBroken
<1>14. \A q \in Range(Platform) : PlatformStats(page', q) = PlatformStats(page, q)
  BY <1>2 DEF PlatformStats
<1>15. Stats(page') = Stats(page)
  BY <1>14 DEF Stats
<1> QED BY <1>2, <1>11, <1>12, <1>13, <1>15 DEF ParseProfile

\* An edit of a section's last block, and one of its last container.
LEMMA SameAfterBlock ==
  ASSUME page \in CareerPageType, NEW p \in Range(Platform), NEW g \in Gamemode, HasSection(p, g),
         NEW b \in PageBlock, page' = WithSection(p, g, WithBlock(Section(p, g), b)),
         (b.label = None) <=> (LastBlock(p, g).label = None),
         CategoryKey(b) = CategoryKey(LastBlock(p, g)),
         HeroComparisonEntries(b.bars) = HeroComparisonEntries(LastBlock(p, g).bars)
  PROVE  ParseProfile(page', NoSearch) = ParseProfile(page, NoSearch)
<1> DEFINE s == Section(p, g)
           t == WithBlock(s, b)
<1>1. s \in PageSection /\ t \in PageSection /\ Last(s.blocks) = LastBlock(p, g)
  BY SectionFacts DEF LastBlock
<1> HIDE DEF s
<1>2. /\ t.select = s.select /\ t.season = s.season /\ t.containers = s.containers
  BY <1>1 DEF WithBlock, PageSection
<1>3. HeroesComparisons(t) = HeroesComparisons(s)
  BY <1>1, SameComparisons
<1>4. CareerStats(t) = CareerStats(s)
  BY <1>2 DEF CareerStats
<1>5. page' = WithSection(p, g, t)
  BY DEF s
<1> HIDE DEF t
<1> QED BY <1>1, <1>2, <1>3, <1>4, <1>5, SameSection DEF s

LEMMA SameAfterContainer ==
  ASSUME page \in CareerPageType, NEW p \in Range(Platform), NEW g \in Gamemode, HasSection(p, g),
         Section(p, g).containers # Missing,
         NEW c \in PageContainer, page' = WithSection(p, g, WithContainer(Section(p, g), c)),
         c.hero = LastContainer(p, g).hero, Cards(c) = Cards(LastContainer(p, g))
  PROVE  ParseProfile(page', NoSearch) = ParseProfile(page, NoSearch)
<1> DEFINE s == Section(p, g)
           t == WithContainer(s, c)
<1>1. s \in PageSection /\ t \in PageSection /\ Last(s.containers) = LastContainer(p, g)
      /\ s.containers \in Seq(PageContainer) \ {<<>>}
  BY SectionFacts DEF LastContainer
<1> HIDE DEF s
<1>2. /\ t.select = s.select /\ t.season = s.season /\ t.blocks = s.blocks
      /\ t.containers = [s.containers EXCEPT ![Len(s.containers)] = c]
  BY <1>1 DEF WithContainer, PageSection
<1>3. t.containers # Missing /\ s.containers # Missing
  <2>1. t.containers \in Seq(PageContainer)
    BY <1>1, <1>2, GrownTyped
  <2> QED BY <1>1, <2>1, NodesAreThere
<1>4. HeroesComparisons(t) = HeroesComparisons(s)
  BY <1>2 DEF HeroesComparisons
<1>5. CareerStats(t) = CareerStats(s)
  BY <1>1, <1>3, SameCareer
<1>6. page' = WithSection(p, g, t)
  BY DEF s
<1> HIDE DEF t
<1> QED BY <1>1, <1>2, <1>3, <1>4, <1>5, <1>6, SameSection DEF s

LEMMA StrangersCost ==
  ASSUME page \in CareerPageType, NEW p \in Range(Platform), NEW g \in Gamemode,
         Strange(p, g) \/ Reworded(p, g)
  PROVE  ParseProfile(page', NoSearch) = ParseProfile(page, NoSearch)
<1>1. ASSUME NEW bar \in Bar, HeroOf(bar) \notin Hero \/ Unreadable(bar.amount), AddBar(p, g, bar)
      PROVE  ParseProfile(page', NoSearch) = ParseProfile(page, NoSearch)
  <2> DEFINE old == LastBlock(p, g)
             b == [old EXCEPT !.bars = Append(@, bar)]
  <2>1. HasSection(p, g)
    BY <1>1 DEF AddBar
  <2>2. old \in PageBlock /\ page' = WithSection(p, g, WithBlock(Section(p, g), b))
    BY <1>1, <2>1, SectionFacts, SectionEdits
  <2> HIDE DEF old
  <2>3. b \in PageBlock
    BY <2>2, LongerTyped
  <2>4. b.id = old.id /\ b.label = old.label /\ b.bars = Append(old.bars, bar) /\ old.bars \in Seq(Bar)
    BY <2>2 DEF PageBlock
  <2> HIDE DEF b
  <2>5. HeroComparisonEntries(b.bars) = HeroComparisonEntries(old.bars)
    BY <1>1, <2>4, StrangeBar
  <2>6. CategoryKey(b) = CategoryKey(old)
    BY <2>4 DEF CategoryKey
  <2>7. (b.label = None) <=> (old.label = None)
    BY <2>4
  <2> QED BY <2>1, <2>2, <2>3, <2>5, <2>6, <2>7, SameAfterBlock DEF old
<1>2. ASSUME NEW label \in {"minutes_played", "game_won"}, RewordBlock(p, g, label)
      PROVE  ParseProfile(page', NoSearch) = ParseProfile(page, NoSearch)
  <2> DEFINE old == LastBlock(p, g)
             b == [old EXCEPT !.label = label]
  <2>1. HasSection(p, g) /\ old.label # None /\ old.id \in DOMAIN CategoryId
    BY <1>2 DEF RewordBlock, LastBlock, Section
  <2>2. old \in PageBlock /\ page' = WithSection(p, g, WithBlock(Section(p, g), b))
    BY <1>2, <2>1, SectionFacts, SectionEdits
  <2> HIDE DEF old
  <2>3. b \in PageBlock
    BY <2>2, LongerTyped
  <2>4. b.id = old.id /\ b.label = label /\ b.bars = old.bars
    BY <2>2 DEF PageBlock
  <2> HIDE DEF b
  <2>5. label # None
    BY CareerAssumption
  <2>6. CategoryKey(b) = CategoryKey(old)
    BY <2>1, <2>4 DEF CategoryKey
  <2>7. (b.label = None) <=> (old.label = None)
    BY <2>1, <2>4, <2>5
  <2>8. HeroComparisonEntries(b.bars) = HeroComparisonEntries(old.bars)
    BY <2>4
  <2> QED BY <2>1, <2>2, <2>3, <2>6, <2>7, <2>8, SameAfterBlock DEF old
<1>3. ASSUME NEW card \in StatCard, CareerStatCategory(card) = None, AddCard(p, g, card)
      PROVE  ParseProfile(page', NoSearch) = ParseProfile(page, NoSearch)
  <2> DEFINE old == LastContainer(p, g)
             c == [old EXCEPT !.cards = Append(@, card)]
  <2>1. HasSection(p, g) /\ Section(p, g).containers # Missing
    BY <1>3 DEF AddCard, Section
  <2>2. old \in PageContainer /\ page' = WithSection(p, g, WithContainer(Section(p, g), c))
    BY <1>3, <2>1, SectionFacts, SectionEdits
  <2> HIDE DEF old
  <2>3. c \in PageContainer /\ c.hero = old.hero
    BY <2>2, LongerTyped DEF PageContainer
  <2>4. Cards(c) = Cards(old)
    BY <1>3, <2>2, StrangeCard
  <2> HIDE DEF c
  <2> QED BY <2>1, <2>2, <2>3, <2>4, SameAfterContainer DEF old
<1>4. ASSUME HasSection(p, g), Section(p, g).containers # Missing, LastContainer(p, g).cards # <<>>,
             NEW k \in PageCard,
             page' = WithSection(p, g, WithContainer(Section(p, g), WithCard(LastContainer(p, g), k))),
             CareerStatCategory(k) = CareerStatCategory(LastCard(p, g)),
             StatRows(k.rows) = StatRows(LastCard(p, g).rows)
      PROVE  ParseProfile(page', NoSearch) = ParseProfile(page, NoSearch)
  <2> DEFINE old == LastContainer(p, g)
             c == WithCard(old, k)
  <2>1. old \in PageContainer /\ c \in PageContainer /\ LastCard(p, g) = Last(old.cards)
    BY <1>4, SectionFacts DEF LastCard
  <2> HIDE DEF old
  <2>2. c.hero = old.hero
    BY <2>1 DEF WithCard, PageContainer
  <2>3. Cards(c) = Cards(old)
    BY <1>4, <2>1, SameCards DEF old
  <2>4. page' = WithSection(p, g, WithContainer(Section(p, g), c))
    BY <1>4 DEF old
  <2> HIDE DEF c
  <2> QED BY <1>4, <2>1, <2>2, <2>3, <2>4, SameAfterContainer DEF old
<1>5. ASSUME NEW row \in Row, Unreadable(row.cell), AddRow(p, g, row)
      PROVE  ParseProfile(page', NoSearch) = ParseProfile(page, NoSearch)
  <2> DEFINE old == LastCard(p, g)
             k == [old EXCEPT !.rows = Append(@, row)]
  <2>1. HasSection(p, g) /\ Section(p, g).containers # Missing /\ LastContainer(p, g).cards # <<>>
    BY <1>5 DEF AddRow, Section, LastContainer
  <2>2. /\ old \in PageCard
        /\ page' = WithSection(p, g, WithContainer(Section(p, g), WithCard(LastContainer(p, g), k)))
    BY <1>5, <2>1, SectionFacts, SectionEdits
  <2> HIDE DEF old
  <2>3. k \in PageCard
    BY <2>2, LongerTyped
  <2>4. k.label = old.label /\ k.rows = Append(old.rows, row) /\ old.rows \in Seq(PageRow)
    BY <2>2 DEF PageCard
  <2> HIDE DEF k
  <2>5. StatRows(k.rows) = StatRows(old.rows)
    BY <1>5, <2>4, StrangeRow
  <2>6. CareerStatCategory(k) = CareerStatCategory(old)
    BY <2>4 DEF CareerStatCategory
  <2> QED BY <1>4, <2>1, <2>2, <2>3, <2>5, <2>6 DEF old
<1>6. ASSUME NEW label \in DOMAIN Localized, TranslateCard(p, g, label)
      PROVE  ParseProfile(page', NoSearch) = ParseProfile(page, NoSearch)
  <2> DEFINE old == LastCard(p, g)
             k == [old EXCEPT !.label = label]
  <2>1. HasSection(p, g) /\ Section(p, g).containers # Missing /\ LastContainer(p, g).cards # <<>>
        /\ old.label = Localized[label]
    BY <1>6 DEF TranslateCard, Section, LastContainer, LastCard
  <2>2. /\ old \in PageCard
        /\ page' = WithSection(p, g, WithContainer(Section(p, g), WithCard(LastContainer(p, g), k)))
    BY <1>6, <2>1, SectionFacts, SectionEdits
  <2> HIDE DEF old
  <2>3. k \in PageCard
    BY <2>2, LongerTyped
  <2>4. k.label = label /\ k.rows = old.rows
    BY <2>2 DEF PageCard
  <2> HIDE DEF k
  <2>5. StatRows(k.rows) = StatRows(old.rows)
    BY <2>4
  <2>6. CareerStatCategory(k) = CareerStatCategory(old)
    <3>1. label # Missing /\ Localized[label] # Missing
          /\ Renamed(Localized, Localized[label]) = Localized[label]
      BY CareerAssumption
    <3>2. Renamed(Localized, label) = Localized[label]
      BY DEF Renamed
    <3>3. NormalizedCategory(k.label) = NormalizedCategory(old.label)
      BY <2>1, <2>4, <3>1, <3>2 DEF NormalizedCategory
    <3> QED BY <2>1, <2>4, <3>1, <3>3 DEF CareerStatCategory
  <2> QED BY <1>4, <2>1, <2>2, <2>3, <2>5, <2>6 DEF old
<1>7. ASSUME NEW w \in Wrapper, ~WrapperBroken(w), ~(RoleOf(w.role) # None /\ Ranked(w)),
             page.ranks[p] # <<>>, AddWrapper(p, w)
      PROVE  ParseProfile(page', NoSearch) = ParseProfile(page, NoSearch)
  BY <1>7, StrangeWrapper
<1>8. CASE Strange(p, g)
  BY <1>1, <1>3, <1>5, <1>7, <1>8 DEF Strange
<1>9. CASE Reworded(p, g)
  BY <1>2, <1>6, <1>9 DEF Reworded
<1> QED BY <1>8, <1>9

-----------------------------------------------------------------------------
(* What a section parses to: entries of heroes, groups of statistics *)

StatEntry ==
  {s \in [key : {PluralStatKey(row.label) : row \in PageRow}, value : Int] :
    s.key \in Totals \ {"games_lost", "games_won"} => s.value \in Nat}

\* The groups of a career; where no card is emptied, none is empty.
StatGroup(full) ==
  {c \in [category : StatCategory, stats : Seq(StatEntry)] : full => c.stats # <<>>}

\* As many elements as n are a sequence.
LEMMA Listed ==
  ASSUME NEW n \in Nat, NEW T, NEW s \in [1..n -> T]
  PROVE  s \in Seq(T) /\ Len(s) = n
OBVIOUS

\* And each element of a sequence is one of its set.
LEMMA Element ==
  ASSUME NEW T, NEW s \in Seq(T), NEW i \in DOMAIN s
  PROVE  s[i] \in T
OBVIOUS

LEMMA EntriesParsed ==
  ASSUME NEW bars \in Seq(Bar)
  PROVE  HeroComparisonEntries(bars) \in Seq([hero : Hero, value : Int])
<1> DEFINE P == ComparableBars(bars)
           T == {b \in Bar : HeroOf(b) \in Hero /\ ~Unreadable(b.amount)}
           rows == Picked(bars, P)
           n == Cardinality(P)
<1>1. P \in SUBSET DOMAIN bars /\ \A i \in P : bars[i] \in T
  BY DEF ComparableBars
<1>2. HeroComparisonEntries(bars) =
        [i \in DOMAIN rows |-> [hero |-> HeroOf(rows[i]), value |-> ComputedStatValue(rows[i].amount)]]
  BY DEF HeroComparisonEntries
<1>3. \A b \in T : [hero |-> HeroOf(b), value |-> ComputedStatValue(b.amount)] \in [hero : Hero, value : Int]
  BY BlizzardAssumption
<1> HIDE DEF P, T
<1>4. P \in SUBSET Nat /\ IsFiniteSet(P)
  BY <1>1, SomePlaces
<1>5. IsPicked(rows, bars, P, T)
  BY <1>1, <1>4, PickedFacts
<1>6. rows \in [1..n -> T] /\ n \in Nat
  BY <1>4, <1>5, FS_CardinalityType DEF IsPicked
<1> HIDE DEF rows, n
<1>7. HeroComparisonEntries(bars) \in [1..n -> [hero : Hero, value : Int]]
  BY <1>2, <1>3, <1>6
<1> QED BY <1>6, <1>7, Listed

LEMMA ComparisonsParsed ==
  ASSUME NEW s \in PageSection
  PROVE  ServableComparisons(HeroesComparisons(s))
<1> DEFINE shown == {i \in DOMAIN s.blocks : s.blocks[i].label # None}
           of(c) == {i \in shown : CategoryKey(s.blocks[i]) = c}
           parsed == [c \in {CategoryKey(s.blocks[i]) : i \in shown} |->
                       HeroComparisonEntries(s.blocks[Max(of(c))].bars)]
<1>1. s.blocks \in Seq(PageBlock)
  BY DEF PageSection
<1>2. ASSUME NEW c \in DOMAIN parsed
      PROVE  parsed[c] \in Seq([hero : Hero, value : Int])
  <2>1. of(c) \in SUBSET (1..Len(s.blocks)) /\ of(c) # {} /\ Len(s.blocks) \in Nat
    BY <1>1
  <2> HIDE DEF of
  <2>2. Max(of(c)) \in 1..Len(s.blocks)
    BY <2>1, Greatest
  <2>3. s.blocks[Max(of(c))].bars \in Seq(Bar)
    <3>1. s.blocks[Max(of(c))] \in PageBlock
      BY <1>1, <2>2
    <3> QED BY <3>1 DEF PageBlock
  <2>4. parsed[c] = HeroComparisonEntries(s.blocks[Max(of(c))].bars)
    OBVIOUS
  <2> QED BY <2>3, <2>4, EntriesParsed
<1>3. HeroesComparisons(s) =
        [c \in DOMAIN parsed \cup KnownComparison |->
          IF c \notin DOMAIN parsed \/ (c \in KnownComparison /\ parsed[c] = <<>>) THEN None ELSE parsed[c]]
  BY DEF HeroesComparisons, Dict
<1> HIDE DEF parsed
<1>4. ASSUME NEW c \in KnownComparison, HeroesComparisons(s)[c] # None
      PROVE  /\ HeroesComparisons(s)[c] # <<>>
             /\ \A i \in DOMAIN HeroesComparisons(s)[c] :
                  /\ HeroesComparisons(s)[c][i].hero \in Hero
                  /\ HeroesComparisons(s)[c][i].value \in Int
  <2>1. c \in DOMAIN parsed /\ HeroesComparisons(s)[c] = parsed[c] /\ parsed[c] # <<>>
    BY <1>3, <1>4
  <2>2. parsed[c] \in Seq([hero : Hero, value : Int])
    BY <1>2, <2>1
  <2>3. ASSUME NEW i \in DOMAIN parsed[c] PROVE parsed[c][i] \in [hero : Hero, value : Int]
    BY <2>2, <2>3, Element
  <2>4. \A e \in [hero : Hero, value : Int] : e.hero \in Hero /\ e.value \in Int
    OBVIOUS
  <2> QED BY <2>1, <2>3, <2>4
<1> QED BY <1>4 DEF ServableComparisons, Nullable

LEMMA RowsParsed ==
  ASSUME NEW rows \in Seq(PageRow)
  PROVE  /\ StatRows(rows) \in Seq(StatEntry)
         /\ (\E i \in DOMAIN rows : ~Unreadable(rows[i].cell)) => StatRows(rows) # <<>>
<1> DEFINE P == {i \in DOMAIN rows : ~Unreadable(rows[i].cell)}
           T == {r \in PageRow : ~Unreadable(r.cell)}
           readable == Picked(rows, P)
           n == Cardinality(P)
<1>1. P \in SUBSET DOMAIN rows /\ \A i \in P : rows[i] \in T
  OBVIOUS
<1>2. StatRows(rows) =
        [i \in DOMAIN readable |-> [key |-> PluralStatKey(readable[i].label),
                                    value |-> ComputedStatValue(readable[i].cell)]]
  BY DEF StatRows
<1>3. \A r \in T : [key |-> PluralStatKey(r.label), value |-> ComputedStatValue(r.cell)] \in StatEntry
  BY BlizzardAssumption DEF StatEntry
<1>4. (\E i \in DOMAIN rows : ~Unreadable(rows[i].cell)) => P # {}
  OBVIOUS
<1> HIDE DEF P, T
<1>5. P \in SUBSET Nat /\ IsFiniteSet(P)
  BY <1>1, SomePlaces
<1>6. IsPicked(readable, rows, P, T)
  BY <1>1, <1>5, PickedFacts
<1>7. readable \in [1..n -> T] /\ n \in Nat /\ (P # {} => n # 0)
  BY <1>5, <1>6, FS_CardinalityType, FS_EmptySet DEF IsPicked
<1> HIDE DEF readable, n
<1>8. StatRows(rows) \in [1..n -> StatEntry]
  BY <1>2, <1>3, <1>7
<1>9. ASSUME P # {} PROVE StatRows(rows) # <<>>
  <2>1. 1 \in DOMAIN StatRows(rows)
    BY <1>7, <1>8, <1>9
  <2> QED BY <2>1
<1> QED BY <1>4, <1>7, <1>8, <1>9

\* A card with a number in it.
Numbered(card) == \E i \in DOMAIN card.rows : ~Unreadable(card.rows[i].cell)

LEMMA CardsParsed ==
  ASSUME NEW c \in PageContainer, NEW full,
         full => \A i \in DOMAIN c.cards : Numbered(c.cards[i])
  PROVE  Cards(c) \in Seq(StatGroup(full))
<1> DEFINE cards == c.cards
           P == {i \in DOMAIN cards : CareerStatCategory(cards[i]) # None}
           T == {k \in PageCard : CareerStatCategory(k) # None /\ (full => Numbered(k))}
           named == Picked(cards, P)
           n == Cardinality(P)
<1>1. cards \in Seq(PageCard)
  BY DEF PageContainer
<1>2. P \in SUBSET DOMAIN cards /\ \A i \in P : cards[i] \in T
  BY <1>1
<1>3. Cards(c) =
        [i \in DOMAIN named |-> [category |-> CareerStatCategory(named[i]), stats |-> StatRows(named[i].rows)]]
  BY DEF Cards
<1>4. ASSUME NEW k \in T
      PROVE  [category |-> CareerStatCategory(k), stats |-> StatRows(k.rows)] \in StatGroup(full)
  <2>1. CareerStatCategory(k) \in StatCategory
    BY DEF CareerStatCategory
  <2>2. k.rows \in Seq(PageRow)
    BY DEF PageCard
  <2>3. StatRows(k.rows) \in Seq(StatEntry) /\ (full => StatRows(k.rows) # <<>>)
    BY <2>2, RowsParsed DEF Numbered
  <2> HIDE DEF T
  <2> QED BY <2>1, <2>3 DEF StatGroup
<1> HIDE DEF cards, P, T
<1>5. P \in SUBSET Nat /\ IsFiniteSet(P)
  BY <1>1, <1>2, SomePlaces
<1>6. IsPicked(named, cards, P, T)
  BY <1>2, <1>5, PickedFacts
<1>7. named \in [1..n -> T] /\ n \in Nat
  BY <1>5, <1>6, FS_CardinalityType DEF IsPicked
<1> HIDE DEF named, n
<1>8. Cards(c) \in [1..n -> StatGroup(full)]
  BY <1>3, <1>4, <1>7
<1> QED BY <1>7, <1>8, Listed

\* A career: of some heroes, groups.
IsCareer(career, full) ==
  \A h \in DOMAIN career : career[h] \in Seq(StatGroup(full)) /\ career[h] # <<>>

LEMMA CareerParsed ==
  ASSUME NEW s \in PageSection, s.containers # Missing, NEW full,
         full => \A i \in DOMAIN s.containers :
                   \A j \in DOMAIN s.containers[i].cards : Numbered(s.containers[i].cards[j])
  PROVE  IsCareer(CareerStats(s), full)
<1> DEFINE cs == s.containers
           shown == {i \in DOMAIN cs : cs[i].hero # None}
           of(h) == {i \in shown : cs[i].hero = h}
           parsed == [h \in {cs[i].hero : i \in shown} |-> Cards(cs[Max(of(h))])]
<1>1. cs \in Seq(PageContainer)
  BY DEF PageSection
<1>2. ASSUME NEW h \in DOMAIN parsed
      PROVE  parsed[h] \in Seq(StatGroup(full))
  <2>1. of(h) \in SUBSET (1..Len(cs)) /\ of(h) # {} /\ Len(cs) \in Nat
    BY <1>1
  <2>2. parsed[h] = Cards(cs[Max(of(h))])
    OBVIOUS
  <2> HIDE DEF of, parsed
  <2>3. Max(of(h)) \in 1..Len(cs)
    BY <2>1, Greatest
  <2>4. Max(of(h)) \in DOMAIN cs /\ cs[Max(of(h))] \in PageContainer
    BY <1>1, <2>3
  <2>5. full => \A j \in DOMAIN cs[Max(of(h))].cards : Numbered(cs[Max(of(h))].cards[j])
    BY <2>4
  <2> HIDE DEF cs
  <2> QED BY <2>2, <2>4, <2>5, CardsParsed
<1>3. CareerStats(s) = [h \in {h \in DOMAIN parsed : parsed[h] # <<>>} |-> parsed[h]]
  BY DEF CareerStats, Dict
<1> HIDE DEF parsed
<1> QED BY <1>2, <1>3 DEF IsCareer

\* The statistics of a page that parses.
IsStats(stats, full) ==
  /\ DOMAIN stats = Range(Platform)
  /\ \A p \in Range(Platform), g \in Gamemode : stats[p] # None /\ stats[p][g] # None =>
       /\ ServableComparisons(stats[p][g].heroes_comparisons)
       /\ IsCareer(stats[p][g].career_stats, full)

LEMMA StatsParsed ==
  ASSUME page \in CareerPageType, ~StatsBroken(page), NEW full, full => ~EmptiedCategory,
         Stats(page) # None
  PROVE  IsStats(Stats(page), full)
<1>1. Stats(page) = [p \in Range(Platform) |-> PlatformStats(page, p)]
  BY DEF Stats
<1>2. ASSUME NEW p \in Range(Platform), NEW g \in Gamemode,
             PlatformStats(page, p) # None, PlatformStats(page, p)[g] # None
      PROVE  /\ ServableComparisons(PlatformStats(page, p)[g].heroes_comparisons)
             /\ IsCareer(PlatformStats(page, p)[g].career_stats, full)
  <2> DEFINE view == page.views[p]
  <2>1. PlatformStats(page, p)[g] = GamemodeStats(view, g)
    BY <1>2 DEF PlatformStats
  <2>2. view # Missing /\ view[g] # Missing /\ view[g].select
    BY <1>2, <2>1 DEF GamemodeStats
  <2>3. view[g] \in PageSection
    <3>1. view \in {Missing} \cup [Gamemode -> {Missing} \cup PageSection]
      BY DEF CareerPageType
    <3> QED BY <2>2, <3>1
  <2>4. view[g].containers # Missing
    BY <2>2 DEF StatsBroken
  <2>5. full => \A i \in DOMAIN view[g].containers :
          \A j \in DOMAIN view[g].containers[i].cards : Numbered(view[g].containers[i].cards[j])
    BY <2>2, <2>4 DEF EmptiedCategory, HasSection, Numbered
  <2>6. /\ PlatformStats(page, p)[g].heroes_comparisons = HeroesComparisons(view[g])
        /\ PlatformStats(page, p)[g].career_stats = CareerStats(view[g])
    BY <2>1, <2>2 DEF GamemodeStats
  <2> HIDE DEF view
  <2>7. ServableComparisons(HeroesComparisons(view[g]))
    BY <2>3, ComparisonsParsed
  <2>8. IsCareer(CareerStats(view[g]), full)
    BY <2>3, <2>4, <2>5, CareerParsed
  <2> QED BY <2>6, <2>7, <2>8
<1> QED BY <1>1, <1>2 DEF IsStats

-----------------------------------------------------------------------------
(* Totals *)

\* Nothing negative, and no more games won than played.
GoodTotals(t) == (\A k \in Totals : t[k] \in Nat) /\ t["games_won"] <= t["games_played"]

LEMMA PluralOnce == \A label : PluralStatKey(PluralStatKey(label)) = PluralStatKey(label)
BY KeysAssumption DEF PluralStatKey, Renamed

LEMMA Lowest ==
  ASSUME NEW n \in Nat, NEW S \in SUBSET (1..n), S # {}
  PROVE  Min(S) \in S
<1>1. S \in SUBSET Nat
  OBVIOUS
<1>2. \E x \in S : \A y \in S : x <= y
  BY <1>1, Least
<1> QED BY <1>2 DEF Min

\* The statistic a total is read from is of its key.
LEMMA ValueTyped ==
  ASSUME NEW groups \in Seq(StatGroup(FALSE)), NEW category, NEW key
  PROVE  /\ StatValue(groups, category, key) \in Int
         /\ key \in Totals \ {"games_lost", "games_won"} => StatValue(groups, category, key) \in Nat
<1> DEFINE group == {i \in DOMAIN groups : groups[i].category = category}
           stats == IF group = {} THEN <<>> ELSE groups[Min(group)].stats
           stat == {i \in DOMAIN stats : PluralStatKey(stats[i].key) = key}
<1>1. StatValue(groups, category, key) = IF stat = {} THEN 0 ELSE stats[Min(stat)].value
  BY DEF StatValue
<1>2. stats \in Seq(StatEntry)
  <2>1. CASE group = {}
    BY <2>1
  <2>2. CASE group # {}
    <3>1. /\ group \in SUBSET DOMAIN groups
          /\ group \in SUBSET (1..Len(groups)) /\ Len(groups) \in Nat
      OBVIOUS
    <3>2. stats = groups[Min(group)].stats
      BY <2>2
    <3> HIDE DEF group, stats
    <3>3. Min(group) \in DOMAIN groups
      <4>1. Min(group) \in group
        BY <2>2, <3>1, Lowest
      <4> QED BY <3>1, <4>1
    <3>4. groups[Min(group)] \in StatGroup(FALSE)
      BY <3>3, Element
    <3> QED BY <3>2, <3>4 DEF StatGroup
  <2> QED BY <2>1, <2>2
<1> HIDE DEF stats
<1>3. CASE stat = {}
  BY <1>1, <1>3
<1>4. CASE stat # {}
  <2>1. stat \in SUBSET (1..Len(stats)) /\ Len(stats) \in Nat
    BY <1>2
  <2>2. Min(stat) \in stat
    <3> HIDE DEF stat
    <3> QED BY <1>4, <2>1, Lowest
  <2>3. PICK s \in StatEntry : s = stats[Min(stat)] /\ PluralStatKey(s.key) = key
    <3>1. Min(stat) \in DOMAIN stats /\ PluralStatKey(stats[Min(stat)].key) = key
      BY <2>2
    <3>2. stats[Min(stat)] \in StatEntry
      BY <1>2, <3>1, Element
    <3> QED BY <3>1, <3>2
  <2>4. s.key = key
    BY <2>3, PluralOnce DEF StatEntry
  <2> HIDE DEF stat
  <2>5. StatValue(groups, category, key) = s.value
    BY <1>1, <1>4, <2>3
  <2> QED BY <2>4, <2>5 DEF StatEntry
<1> QED BY <1>3, <1>4

LEMMA HalfOf == \A n \in Nat : RoundedHalf(n) \in 0..n
BY DEF RoundedHalf

LEMMA HeroTotalsGood ==
  ASSUME NEW groups \in Seq(StatGroup(FALSE))
  PROVE  GoodTotals(HeroTotals(groups))
<1> DEFINE value(c, k) == StatValue(groups, c, k)
           played == value("game", "games_played")
           shown == value("game", "games_lost")
           lost == GamesLost(played, shown)
           t == HeroTotals(groups)
<1>1. /\ played \in Nat /\ shown \in Int /\ value("game", "time_played") \in Nat
      /\ value("combat", "eliminations") \in Nat /\ value("combat", "deaths") \in Nat
  BY ValueTyped DEF Totals
<1>2. lost \in Nat
  BY <1>1, HalfOf DEF GamesLost
<1>3. /\ t["games_played"] = played /\ t["games_lost"] = lost
      /\ t["games_won"] = (IF played < lost THEN 0 ELSE played - lost)
      /\ t["time_played"] = value("game", "time_played")
      /\ t["eliminations"] = value("combat", "eliminations")
      /\ t["deaths"] = value("combat", "deaths")
  BY DEF HeroTotals
<1> HIDE DEF value, t
<1>4. PICK a \in Nat, b \in Nat : a = played /\ b = lost
  BY <1>1, <1>2
<1> HIDE DEF played, lost
<1>5. t["games_won"] \in Nat /\ t["games_won"] <= t["games_played"]
  BY <1>3, <1>4
<1> QED BY <1>1, <1>2, <1>3, <1>4, <1>5 DEF GoodTotals, Totals, t, played, lost

Column(table, t) == [k \in DOMAIN table |-> table[k][t]]

\* A total of totals is the sum of a column.
LEMMA TotalOf ==
  \A table : \A t \in Totals :
    SumTotals(table)[t] = SumFunctionOnSet(Column(table, t), DOMAIN table)
<1> SUFFICES ASSUME NEW table, NEW t \in Totals
             PROVE  SumTotals(table)[t] = SumFunctionOnSet(Column(table, t), DOMAIN table)
  OBVIOUS
<1>1. SumTotals(table)[t] = SumFunction([k \in DOMAIN table |-> table[k][t]])
  BY DEF SumTotals
<1>2. SumTotals(table)[t] = SumFunction(Column(table, t))
  BY <1>1 DEF Column
<1>3. DOMAIN Column(table, t) = DOMAIN table
  BY DEF Column
<1> QED BY <1>2, <1>3 DEF SumFunction

\* Good totals add up to good totals.
LEMMA SumGood ==
  ASSUME NEW table, IsFiniteSet(DOMAIN table), \A k \in DOMAIN table : GoodTotals(table[k])
  PROVE  GoodTotals(SumTotals(table)) /\ SumTotals(table) \in [Totals -> Int]
<1> DEFINE S == DOMAIN table
<1>1. ASSUME NEW t \in Totals
      PROVE  /\ \A k \in S : Column(table, t)[k] \in Nat
             /\ SumTotals(table)[t] \in Nat
  <2>1. \A k \in S : Column(table, t)[k] \in Nat
    BY DEF Column, GoodTotals
  <2>2. SumFunctionOnSet(Column(table, t), S) \in Nat
    BY <2>1, SumNat
  <2> QED BY <2>1, <2>2, TotalOf
<1>2. "games_won" \in Totals /\ "games_played" \in Totals
  BY DEF Totals
<1>3. \A k \in S : Column(table, "games_won")[k] <= Column(table, "games_played")[k]
  BY DEF Column, GoodTotals
<1>4. SumFunctionOnSet(Column(table, "games_won"), S) <= SumFunctionOnSet(Column(table, "games_played"), S)
  BY <1>1, <1>2, <1>3, SumMonotone
<1>5. SumTotals(table)["games_won"] <= SumTotals(table)["games_played"]
  BY <1>2, <1>4, TotalOf
<1>6. SumTotals(table) = [t \in Totals |-> SumTotals(table)[t]]
  BY DEF SumTotals
<1>7. SumTotals(table) \in [Totals -> Int]
  BY <1>1, <1>6
<1> QED BY <1>1, <1>5, <1>7 DEF GoodTotals

\* What the response model asks of good totals.
LEMMA GoodServable ==
  ASSUME NEW t, GoodTotals(t)
  PROVE  ServableTotals(t)
<1>1. \A k \in Totals : t[k] \in Nat
  BY DEF GoodTotals
<1>2. /\ t["games_won"] \in Nat /\ t["games_played"] \in Nat /\ t["deaths"] \in Nat
      /\ t["eliminations"] \in Nat /\ t["time_played"] \in Nat
  BY <1>1 DEF Totals
<1>3. Winrate(t)[1] <= Winrate(t)[2]
  BY <1>2 DEF Winrate, GoodTotals
<1>4. Kda(t)[1] >= 0
  BY <1>2 DEF Kda
<1>5. \A k \in {"eliminations", "deaths"} : Average(t, k)[1] >= 0
  BY <1>2 DEF Average
<1> QED BY <1>1, <1>3, <1>4, <1>5 DEF ServableTotals

-----------------------------------------------------------------------------
(* The summary of the statistics *)

CareerOf(stats, s) == stats[s[1]][s[2]].career_stats
SectionsOf(stats, g, p, h) == {s \in Sections(stats, g, p) : h \in DOMAIN CareerOf(stats, s)}
PartsOf(stats, g, p, h) ==
  [s \in SectionsOf(stats, g, p, h) |-> HeroTotals(CareerOf(stats, s)[h])]
PlayedBy(stats, g, p, h) == SumTotals(PartsOf(stats, g, p, h))
HeroesOf(stats, g, p) ==
  {h \in KnownHeroes(stats) : PlayedBy(stats, g, p, h)["time_played"] > 0}

Cells == Range(Platform) \X Gamemode

LEMMA CellsFinite ==
  /\ Range(Platform) = {"pc", "console"} /\ IsFiniteSet(Range(Platform)) /\ IsFiniteSet(Gamemode)
  /\ IsFiniteSet(Cells)
<1>1. IsFiniteSet(Range(Platform))
  <2>1. IsFiniteSet({"pc"})
    BY FS_Singleton
  <2>2. IsFiniteSet({"pc"} \cup {"console"})
    BY <2>1, FS_AddElement
  <2>3. {"pc"} \cup {"console"} = {"pc", "console"}
    OBVIOUS
  <2> QED BY <2>2, <2>3, Platforms
<1>2. IsFiniteSet(Gamemode)
  <2>1. IsFiniteSet({"quickplay"})
    BY FS_Singleton
  <2>2. IsFiniteSet({"quickplay"} \cup {"competitive"})
    BY <2>1, FS_AddElement
  <2>3. {"quickplay"} \cup {"competitive"} = Gamemode
    BY DEF Gamemode
  <2> QED BY <2>2, <2>3
<1> QED BY <1>1, <1>2, Platforms, FS_Product DEF Cells

LEMMA SectionsFacts ==
  ASSUME NEW stats, IsStats(stats, FALSE), NEW g, NEW p
  PROVE  /\ Sections(stats, g, p) \in SUBSET (Range(Platform) \X Gamemode)
         /\ IsFiniteSet(Sections(stats, g, p))
         /\ \A s \in Sections(stats, g, p) : IsCareer(CareerOf(stats, s), FALSE)
<1>1. DOMAIN stats = Range(Platform)
  BY DEF IsStats
<1>2. Sections(stats, g, p) \in SUBSET (Range(Platform) \X Gamemode)
  BY <1>1 DEF Sections
<1>3. IsFiniteSet(Range(Platform) \X Gamemode)
  BY CellsFinite DEF Cells
<1>4. IsFiniteSet(Sections(stats, g, p))
  BY <1>2, <1>3, FS_Subset
<1>5. ASSUME NEW s \in Sections(stats, g, p) PROVE IsCareer(CareerOf(stats, s), FALSE)
  <2>1. stats[s[1]] # None /\ stats[s[1]][s[2]] # None /\ s[1] \in Range(Platform) /\ s[2] \in Gamemode
    BY <1>2 DEF Sections
  <2> QED BY <2>1 DEF IsStats, CareerOf
<1> QED BY <1>2, <1>4, <1>5

LEMMA PlayedByGood ==
  ASSUME NEW stats, IsStats(stats, FALSE), NEW g, NEW p, NEW h
  PROVE  /\ GoodTotals(PlayedBy(stats, g, p, h)) /\ PlayedBy(stats, g, p, h) \in [Totals -> Int]
         /\ \A s \in SectionsOf(stats, g, p, h) : GoodTotals(HeroTotals(CareerOf(stats, s)[h]))
<1> DEFINE S == SectionsOf(stats, g, p, h)
           parts == PartsOf(stats, g, p, h)
<1>1. S \in SUBSET Sections(stats, g, p)
  BY DEF SectionsOf
<1>2. IsFiniteSet(S)
  BY <1>1, SectionsFacts, FS_Subset
<1>3. ASSUME NEW s \in S PROVE GoodTotals(HeroTotals(CareerOf(stats, s)[h]))
  <2>1. IsCareer(CareerOf(stats, s), FALSE) /\ h \in DOMAIN CareerOf(stats, s)
    BY <1>1, SectionsFacts DEF SectionsOf
  <2>2. CareerOf(stats, s)[h] \in Seq(StatGroup(FALSE))
    BY <2>1 DEF IsCareer
  <2> QED BY <2>2, HeroTotalsGood
<1>4. DOMAIN parts = S /\ \A s \in S : parts[s] = HeroTotals(CareerOf(stats, s)[h])
  BY DEF PartsOf
<1> HIDE DEF S, parts
<1>5. GoodTotals(SumTotals(parts)) /\ SumTotals(parts) \in [Totals -> Int]
  BY <1>2, <1>3, <1>4, SumGood
<1> QED BY <1>3, <1>5 DEF PlayedBy, parts, S

\* The heroes of a summary, each with what was played by them.
LEMMA HeroesDataFacts ==
  ASSUME NEW stats, NEW g, NEW p
  PROVE  HeroesData(stats, g, p) = [h \in HeroesOf(stats, g, p) |-> PlayedBy(stats, g, p, h)]
<1> DEFINE all == [h \in KnownHeroes(stats) |-> PlayedBy(stats, g, p, h)]
<1>1. HeroesData(stats, g, p) = Played(all)
  BY DEF HeroesData, PlayedBy, PartsOf, SectionsOf, CareerOf
<1>2. DOMAIN all = KnownHeroes(stats) /\ \A h \in KnownHeroes(stats) : all[h] = PlayedBy(stats, g, p, h)
  OBVIOUS
<1> HIDE DEF all
<1>3. {h \in DOMAIN all : all[h].time_played > 0} = HeroesOf(stats, g, p)
  BY <1>2 DEF HeroesOf
<1>4. Played(all) = [h \in HeroesOf(stats, g, p) |-> all[h]]
  BY <1>3 DEF Played
<1>5. \A h \in HeroesOf(stats, g, p) : all[h] = PlayedBy(stats, g, p, h)
  BY <1>2 DEF HeroesOf
<1> QED BY <1>1, <1>4, <1>5

OfRole(heroes, r) == [h \in {h \in DOMAIN heroes : RoleOfHero[h] = r} |-> heroes[h]]
RolesOf(heroes) == {r \in HeroRole : SumTotals(OfRole(heroes, r))["time_played"] > 0}

LEMMA RolesFacts ==
  ASSUME NEW heroes
  PROVE  RolesStats(heroes) = [r \in RolesOf(heroes) |-> SumTotals(OfRole(heroes, r))]
<1> DEFINE all == [r \in HeroRole |-> SumTotals(OfRole(heroes, r))]
<1>1. RolesStats(heroes) = Played(all)
  BY DEF RolesStats, OfRole
<1>2. DOMAIN all = HeroRole /\ \A r \in HeroRole : all[r] = SumTotals(OfRole(heroes, r))
  OBVIOUS
<1> HIDE DEF all
<1>3. {r \in DOMAIN all : all[r].time_played > 0} = RolesOf(heroes)
  BY <1>2 DEF RolesOf
<1>4. Played(all) = [r \in RolesOf(heroes) |-> all[r]]
  BY <1>3 DEF Played
<1>5. \A r \in RolesOf(heroes) : all[r] = SumTotals(OfRole(heroes, r))
  BY <1>2 DEF RolesOf
<1> QED BY <1>1, <1>4, <1>5

\* All that a summary shows is good.
LEMMA SummaryGood ==
  ASSUME NEW stats, IsStats(stats, FALSE), NEW g, NEW p,
         NEW heroes, heroes = HeroesData(stats, g, p),
         NEW roles, roles = RolesStats(heroes)
  PROVE  /\ \A h \in DOMAIN heroes : GoodTotals(heroes[h])
         /\ \A r \in DOMAIN roles : GoodTotals(roles[r])
         /\ GoodTotals(GeneralStats(roles))
         /\ [heroes |-> heroes, roles |-> roles, general |-> GeneralStats(roles)] \in PlayerStatsSummary
<1> DEFINE D == HeroesOf(stats, g, p)
           R == RolesOf(heroes)
<1>1. heroes = [h \in D |-> PlayedBy(stats, g, p, h)]
  BY HeroesDataFacts
<1>2. D \in SUBSET Hero /\ R \in SUBSET HeroRole
  BY DEF HeroesOf, KnownHeroes, RolesOf
<1>3. IsFiniteSet(D) /\ IsFiniteSet(R)
  BY <1>2, HeroAssumption, FS_Subset
<1> HIDE DEF D, R
<1>4. \A h \in D : GoodTotals(heroes[h]) /\ heroes[h] \in [Totals -> Int]
  <2> SUFFICES ASSUME NEW h \in D PROVE GoodTotals(heroes[h]) /\ heroes[h] \in [Totals -> Int]
    OBVIOUS
  <2>1. heroes[h] = PlayedBy(stats, g, p, h)
    BY <1>1
  <2>2. GoodTotals(PlayedBy(stats, g, p, h)) /\ PlayedBy(stats, g, p, h) \in [Totals -> Int]
    BY PlayedByGood
  <2> QED BY <2>1, <2>2
<1>5. ASSUME NEW r
      PROVE  GoodTotals(SumTotals(OfRole(heroes, r))) /\ SumTotals(OfRole(heroes, r)) \in [Totals -> Int]
  <2> DEFINE part == OfRole(heroes, r)
  <2>1. DOMAIN part \in SUBSET D /\ \A h \in DOMAIN part : part[h] = heroes[h]
    BY <1>1 DEF OfRole
  <2>2. IsFiniteSet(DOMAIN part)
    BY <1>3, <2>1, FS_Subset
  <2>3. \A h \in DOMAIN part : GoodTotals(part[h])
    BY <1>4, <2>1
  <2> HIDE DEF part
  <2>4. GoodTotals(SumTotals(part)) /\ SumTotals(part) \in [Totals -> Int]
    BY <2>2, <2>3, SumGood
  <2> QED BY <2>4 DEF part
<1>6. roles = [r \in R |-> SumTotals(OfRole(heroes, r))]
  BY RolesFacts DEF R
<1>7. DOMAIN roles = R /\ \A r \in R : GoodTotals(roles[r]) /\ roles[r] \in [Totals -> Int]
  BY <1>5, <1>6
<1>8. GoodTotals(SumTotals(roles)) /\ SumTotals(roles) \in [Totals -> Int]
  BY <1>3, <1>7, SumGood
<1>9. DOMAIN heroes = D
  BY <1>1
<1>10. heroes \in TotalsTable(Hero) /\ roles \in TotalsTable(HeroRole)
  <2>1. heroes \in [D -> [Totals -> Int]]
    BY <1>1, <1>4
  <2>2. roles \in [R -> [Totals -> Int]]
    BY <1>6, <1>7
  <2> QED BY <1>2, <2>1, <2>2 DEF TotalsTable
<1>11. GoodTotals(GeneralStats(roles)) /\ GeneralStats(roles) \in [Totals -> Int]
  BY <1>8 DEF GeneralStats
<1> QED BY <1>4, <1>7, <1>9, <1>10, <1>11 DEF PlayerStatsSummary

-----------------------------------------------------------------------------
(* Every answer is servable *)

LEMMA ServedProfile ==
  ASSUME CareerIInv, Served
  PROVE  /\ page \in CareerPageType
         /\ profile.summary = Summary(page, NoSearch) /\ profile.stats = Stats(page)
         /\ ~SummaryBroken(page) /\ ~StatsBroken(page)
         /\ profile.stats # None => IsStats(profile.stats, FALSE)
<1>1. page \in CareerPageType /\ profile = FetchProfile(page, NoSearch)
  BY DEF CareerIInv
<1>2. /\ ~SummaryBroken(page) /\ ~StatsBroken(page)
      /\ profile.summary = Summary(page, NoSearch) /\ profile.stats = Stats(page)
  BY <1>1 DEF FetchProfile, ParseProfile, Failure, Served
<1> QED BY <1>1, <1>2, StatsParsed

LEMMA RanksParsed ==
  ASSUME page \in CareerPageType, NEW p \in Range(Platform),
         CompetitiveRanks(page) # None, CompetitiveRanks(page)[p] # None
  PROVE  ServableRanks(CompetitiveRanks(page)[p]) /\ DOMAIN CompetitiveRanks(page)[p].roles = Role
<1>1. CompetitiveRanks(page)[p] = PlatformRanks(page, p)
  BY DEF CompetitiveRanks
<1>2. PlatformRanks(page, p) = [roles |-> Ranks(page.ranks[p]), season |-> LastSeasonPlayed(page, p)]
  BY <1>1 DEF PlatformRanks
<1>3. page.ranks[p] \in Seq(Wrapper)
  BY DEF CareerPageType
<1>4. \A r \in Role : Nullable(Ranks(page.ranks[p])[r], ServableRank(Ranks(page.ranks[p])[r]))
  BY <1>3, RanksTyped
<1>5. LastSeasonPlayed(page, p) \in {None, 3}
  <2>1. CASE page.views[p] = Missing \/ page.views[p].competitive = Missing
    BY <2>1 DEF LastSeasonPlayed
  <2>2. CASE ~(page.views[p] = Missing \/ page.views[p].competitive = Missing)
    <3>1. page.views[p] \in {Missing} \cup [Gamemode -> {Missing} \cup PageSection]
      BY DEF CareerPageType
    <3>2. page.views[p]["competitive"] \in PageSection
      BY <2>2, <3>1 DEF Gamemode
    <3>3. page.views[p].competitive.season \in {None, 3}
      BY <3>2 DEF PageSection
    <3> QED BY <2>2, <3>3 DEF LastSeasonPlayed
  <2> QED BY <2>1, <2>2
<1>6. DOMAIN Ranks(page.ranks[p]) = Role
  BY DEF Ranks
<1> QED BY <1>1, <1>2, <1>4, <1>5, <1>6 DEF ServableRanks, Nullable

LEMMA SummaryServable ==
  ASSUME CareerIInv, Served
  PROVE  ServableSummary(profile.summary) \/ BlankFrame
<1>1. page \in CareerPageType /\ profile.summary = Summary(page, NoSearch)
  BY ServedProfile
<1>2. /\ profile.summary.endorsement = Endorsement(page)
      /\ profile.summary.competitive = CompetitiveRanks(page)
  BY <1>1 DEF Summary
<1>3. ASSUME ~BlankFrame, Endorsement(page) # None PROVE ServableEndorsement(Endorsement(page))
  <2>1. page.endorsement # None /\ page.endorsement \in {None} \cup [frame : Frame]
    BY <1>1, <1>3 DEF Endorsement, CareerPageType
  <2>2. page.endorsement.frame \in Frame
    BY <2>1
  <2>3. Endorsement(page) = [level |-> IF page.endorsement.frame \in Nat THEN page.endorsement.frame ELSE 0,
                             frame |-> page.endorsement.frame]
    BY <2>1 DEF Endorsement
  <2>4. page.endorsement.frame \in Nat => page.endorsement.frame \in 0..5
    BY <2>2, BlizzardAssumption
  <2> QED BY <1>3, <2>1, <2>3, <2>4 DEF ServableEndorsement, BlankFrame
<1>4. ASSUME NEW p \in Range(Platform), CompetitiveRanks(page) # None, CompetitiveRanks(page)[p] # None
      PROVE  ServableRanks(CompetitiveRanks(page)[p])
  BY <1>1, <1>4, RanksParsed
<1>5. CompetitiveRanks(page) # None => DOMAIN CompetitiveRanks(page) = Range(Platform)
  BY DEF CompetitiveRanks
<1> QED BY <1>2, <1>3, <1>4, <1>5 DEF ServableSummary, Nullable

LEMMA PlayerServable ==
  ASSUME CareerIInv, Served
  PROVE  EmptiedCategory \/ BlankFrame \/ ServablePlayer(profile)
<1> SUFFICES ASSUME ~EmptiedCategory, ~BlankFrame PROVE ServablePlayer(profile)
  OBVIOUS
<1>1. ServableSummary(profile.summary)
  BY SummaryServable
<1>2. ASSUME profile.stats # None PROVE ServableStats(profile.stats)
  <2>1. IsStats(profile.stats, TRUE)
    BY <1>2, ServedProfile, StatsParsed
  <2>2. ASSUME NEW career, IsCareer(career, TRUE) PROVE ServableCareer(career)
    <3> SUFFICES ASSUME NEW h \in DOMAIN career
                 PROVE  /\ career[h] # <<>>
                        /\ \A i \in DOMAIN career[h] :
                             /\ career[h][i].category \in StatCategory
                             /\ career[h][i].stats # <<>>
      BY DEF ServableCareer
    <3>1. career[h] \in Seq(StatGroup(TRUE)) /\ career[h] # <<>>
      BY <2>2 DEF IsCareer
    <3>2. ASSUME NEW i \in DOMAIN career[h] PROVE career[h][i] \in StatGroup(TRUE)
      BY <3>1, <3>2, Element
    <3> QED BY <3>1, <3>2 DEF StatGroup
  <2> QED BY <2>1, <2>2 DEF ServableStats, IsStats, Nullable
<1> QED BY <1>1, <1>2 DEF ServablePlayer, Nullable

\* A summary of the statistics is of the data of the heroes.
LEMMA SummaryFacts ==
  ASSUME NEW g, NEW p, NEW heroes,
         heroes = IF profile.stats = None THEN <<>> ELSE HeroesData(profile.stats, g, p)
  PROVE  StatsSummary(profile, g, p) =
           IF DOMAIN heroes = {} THEN None
           ELSE [heroes |-> heroes, roles |-> RolesStats(heroes), general |-> GeneralStats(RolesStats(heroes))]
BY DEF StatsSummary

LEMMA TotalsServable ==
  ASSUME CareerIInv, Served, NEW g, NEW p, StatsSummary(profile, g, p) # None
  PROVE  ServableStatsSummary(StatsSummary(profile, g, p))
<1> DEFINE heroes == IF profile.stats = None THEN <<>> ELSE HeroesData(profile.stats, g, p)
           roles == RolesStats(heroes)
           summary == StatsSummary(profile, g, p)
<1>1. summary = IF DOMAIN heroes = {} THEN None
                ELSE [heroes |-> heroes, roles |-> roles, general |-> GeneralStats(roles)]
  BY SummaryFacts
<1>2. profile.stats # None
  <2>1. profile.stats = None => DOMAIN heroes = {}
    OBVIOUS
  <2> HIDE DEF heroes
  <2> QED BY <1>1, <2>1
<1>3. IsStats(profile.stats, FALSE) /\ heroes = HeroesData(profile.stats, g, p)
  BY <1>2, ServedProfile
<1> HIDE DEF heroes
<1>4. /\ \A h \in DOMAIN heroes : GoodTotals(heroes[h])
      /\ \A r \in DOMAIN roles : GoodTotals(roles[r])
      /\ GoodTotals(GeneralStats(roles))
  BY <1>3, SummaryGood
<1> HIDE DEF roles
<1>5. summary.heroes = heroes /\ summary.roles = roles /\ summary.general = GeneralStats(roles)
  BY <1>1
<1> HIDE DEF summary
<1>6. ServableStatsSummary(summary)
  BY <1>4, <1>5, GoodServable DEF ServableStatsSummary
<1> QED BY <1>6 DEF summary


\* A career table: of the last group of a category, the last statistic of a key.
GroupsOf(groups, c) == {i \in DOMAIN groups : groups[i].category = c}
StatsOf(stats, k) == {j \in DOMAIN stats : stats[j].key = k}

IsTable(table, stats) ==
  table = [k \in {stats[j].key : j \in DOMAIN stats} |-> stats[Max(StatsOf(stats, k))].value]

LEMMA TableFacts ==
  ASSUME NEW groups \in Seq(StatGroup(FALSE)), NEW c \in DOMAIN CareerTable(groups),
         NEW stats, stats = groups[Max(GroupsOf(groups, c))].stats
  PROVE  /\ stats \in Seq(StatEntry)
         /\ IsTable(CareerTable(groups)[c], stats)
<1>1. CareerTable(groups) =
        [d \in {groups[i].category : i \in DOMAIN groups} |->
          [k \in {groups[Max(GroupsOf(groups, d))].stats[j].key :
                    j \in DOMAIN groups[Max(GroupsOf(groups, d))].stats} |->
            groups[Max(GroupsOf(groups, d))].stats[
              Max(StatsOf(groups[Max(GroupsOf(groups, d))].stats, k))].value]]
  BY DEF CareerTable, Dict, GroupsOf, StatsOf
<1>2. GroupsOf(groups, c) # {}
  BY <1>1 DEF GroupsOf
<1>3. GroupsOf(groups, c) \in SUBSET (1..Len(groups)) /\ Len(groups) \in Nat
      /\ DOMAIN groups = 1..Len(groups)
  BY DEF GroupsOf
<1>4. Max(GroupsOf(groups, c)) \in DOMAIN groups
  <2>1. Max(GroupsOf(groups, c)) \in GroupsOf(groups, c)
    BY <1>2, <1>3, Greatest
  <2> QED BY <1>3, <2>1
<1>5. groups[Max(GroupsOf(groups, c))] \in StatGroup(FALSE)
  BY <1>4, Element
<1> QED BY <1>1, <1>5 DEF StatGroup, IsTable

LEMMA TablesServable ==
  ASSUME CareerIInv, Served, NEW g \in Gamemode, NEW p \in {None} \cup Range(Platform)
  PROVE  ServableCareerTables(ProcessCareerStats(profile, g, p, None))
<1> DEFINE career == StatsByQuery(profile.stats, g, p, None)
<1>1. IsCareer(career, FALSE)
  <2> DEFINE filled == {i \in DOMAIN Platform : profile.stats # None /\ profile.stats[Platform[i]] # None}
             q == IF p # None THEN p ELSE IF filled = {} THEN None ELSE Platform[Min(filled)]
  <2>1. CASE profile.stats = None \/ q = None
    <3>1. career = <<>>
      BY <2>1 DEF StatsByQuery
    <3> QED BY <3>1 DEF IsCareer
  <2>2. CASE profile.stats # None /\ q # None
    <3>1. q \in Range(Platform)
      <4>1. CASE p # None
        BY <4>1
      <4>2. CASE p = None
        <5>1. filled # {} /\ q = Platform[Min(filled)]
          BY <2>2, <4>2
        <5>2. DOMAIN Platform = 1..2
          BY DEF Platform
        <5>3. filled \in SUBSET (1..2) /\ 2 \in Nat
          BY <5>2
        <5> HIDE DEF filled, q
        <5>4. Min(filled) \in DOMAIN Platform
          BY <5>1, <5>2, <5>3, Lowest
        <5> QED BY <5>1, <5>4 DEF Range
      <4> QED BY <4>1, <4>2
    <3>2. career =
            IF profile.stats[q] = None THEN <<>> ELSE IF profile.stats[q][g] = None THEN <<>>
            ELSE [h \in {h \in DOMAIN profile.stats[q][g].career_stats : None \in {None, h}}
                   |-> profile.stats[q][g].career_stats[h]]
      BY <2>2 DEF StatsByQuery
    <3>3. IsStats(profile.stats, FALSE)
      BY <2>2, ServedProfile
    <3> HIDE DEF q, career
    <3>4. CASE profile.stats[q] = None \/ profile.stats[q][g] = None
      <4>1. career = <<>>
        BY <3>2, <3>4
      <4> QED BY <4>1 DEF IsCareer
    <3>5. CASE profile.stats[q] # None /\ profile.stats[q][g] # None
      <4>1. IsCareer(profile.stats[q][g].career_stats, FALSE)
        BY <3>1, <3>3, <3>5 DEF IsStats
      <4>2. career = [h \in DOMAIN profile.stats[q][g].career_stats |-> profile.stats[q][g].career_stats[h]]
        BY <3>2, <3>5
      <4> QED BY <4>1, <4>2 DEF IsCareer
    <3> QED BY <3>4, <3>5
  <2> QED BY <2>1, <2>2
<1>2. ProcessCareerStats(profile, g, p, None) = [h \in DOMAIN career |-> CareerTable(career[h])]
  BY DEF ProcessCareerStats
<1> HIDE DEF career
<1> SUFFICES ASSUME NEW h \in DOMAIN career, NEW c \in DOMAIN CareerTable(career[h]),
                    NEW k \in DOMAIN CareerTable(career[h])[c]
             PROVE  CareerTable(career[h])[c][k] \in Int
  BY <1>2 DEF ServableCareerTables
<1> DEFINE groups == career[h]
           stats == groups[Max(GroupsOf(groups, c))].stats
<1>3. groups \in Seq(StatGroup(FALSE)) /\ c \in DOMAIN CareerTable(groups)
  BY <1>1 DEF IsCareer
<1> HIDE DEF groups
<1>4. stats \in Seq(StatEntry)
  BY <1>3, TableFacts
<1>5. IsTable(CareerTable(groups)[c], stats)
  BY <1>3, TableFacts
<1> HIDE DEF stats
<1>6. StatsOf(stats, k) # {} /\ StatsOf(stats, k) \in SUBSET (1..Len(stats)) /\ Len(stats) \in Nat
      /\ DOMAIN stats = 1..Len(stats)
  BY <1>4, <1>5 DEF StatsOf, IsTable, groups
<1>7. Max(StatsOf(stats, k)) \in DOMAIN stats
  <2>1. Max(StatsOf(stats, k)) \in StatsOf(stats, k)
    BY <1>6, Greatest
  <2> QED BY <1>6, <2>1
<1>8. stats[Max(StatsOf(stats, k))] \in StatEntry
  BY <1>4, <1>7, Element
<1>9. CareerTable(groups)[c][k] = stats[Max(StatsOf(stats, k))].value
  BY <1>5 DEF IsTable, groups
<1> QED BY <1>8, <1>9 DEF StatEntry, groups

LEMMA SnapshotServable ==
  ASSUME CareerIInv, Served, BuildSnapshot(profile) # None
  PROVE  ServableSnapshot(BuildSnapshot(profile))
<1> DEFINE ranks == CompetitiveRanks(page)
           shown == SnapshotCompetitive(ranks)
           seasons == SnapshotSeasons(ranks)
           snapshot == BuildSnapshot(profile)
<1>1. page \in CareerPageType /\ profile.summary = Summary(page, NoSearch)
  BY ServedProfile
<1>2. profile.summary.endorsement = Endorsement(page) /\ profile.summary.competitive = ranks
  BY <1>1 DEF Summary
<1>3. /\ snapshot.competitive = shown /\ snapshot.seasons = seasons
      /\ snapshot.endorsement = IF Endorsement(page) = None THEN None ELSE Endorsement(page).level
  <2> HIDE DEF ranks
  <2> QED BY <1>2 DEF BuildSnapshot
<1>4. Endorsement(page) = None \/ Endorsement(page).level \in 0..5
  <2>1. CASE page.endorsement = None
    BY <2>1 DEF Endorsement
  <2>2. CASE page.endorsement # None
    <3>1. page.endorsement.frame \in Frame
      BY <1>1, <2>2 DEF CareerPageType
    <3>2. page.endorsement.frame \in Nat => page.endorsement.frame \in 0..5
      BY <3>1, BlizzardAssumption
    <3>3. Endorsement(page) = [level |-> IF page.endorsement.frame \in Nat THEN page.endorsement.frame ELSE 0,
                               frame |-> page.endorsement.frame]
      BY <2>2 DEF Endorsement
    <3> QED BY <3>2, <3>3
  <2> QED BY <2>1, <2>2
<1>5. ASSUME NEW p \in Range(Platform), ranks # None, ranks[p] # None
      PROVE  /\ \A r \in Role : Nullable(ranks[p].roles[r], ServableRank(ranks[p].roles[r]))
             /\ DOMAIN ranks[p].roles = Role
             /\ Nullable(ranks[p].season, ranks[p].season \in Int)
  <2>1. ServableRanks(ranks[p]) /\ DOMAIN ranks[p].roles = Role
    BY <1>1, <1>5, RanksParsed
  <2> HIDE DEF ranks
  <2> QED BY <2>1 DEF ServableRanks, Nullable
<1>6. ranks # None => DOMAIN ranks = Range(Platform)
  BY DEF CompetitiveRanks
<1> HIDE DEF ranks
<1>7. ASSUME NEW p \in DOMAIN shown, NEW r \in DOMAIN shown[p] PROVE ServableRank(shown[p][r])
  <2> DEFINE table == [q \in DOMAIN ranks |->
               IF ranks[q] = None THEN <<>> ELSE Filled(ranks[q].roles, None)]
  <2>1. CASE ranks = None
    <3>1. shown = <<>>
      BY <2>1 DEF SnapshotCompetitive
    <3> QED BY <3>1
  <2>2. CASE ranks # None
    <3>1. shown = Filled(table, <<>>)
      BY <2>2 DEF SnapshotCompetitive
    <3>2. p \in DOMAIN table /\ shown[p] = table[p]
      <4> HIDE DEF table, shown
      <4> QED BY <1>7, <3>1 DEF Filled
    <3>3. CASE ranks[p] = None
      <4>1. shown[p] = <<>>
        BY <3>2, <3>3
      <4> HIDE DEF shown
      <4> QED BY <1>7, <4>1
    <3>4. CASE ranks[p] # None
      <4>1. shown[p] = Filled(ranks[p].roles, None) /\ p \in Range(Platform)
        BY <1>6, <2>2, <3>2, <3>4
      <4> HIDE DEF shown, table
      <4>2. r \in DOMAIN ranks[p].roles /\ ranks[p].roles[r] # None /\ shown[p][r] = ranks[p].roles[r]
        BY <1>7, <4>1 DEF Filled
      <4> QED BY <1>5, <2>2, <3>4, <4>1, <4>2 DEF Nullable
    <3> QED BY <3>3, <3>4
  <2> QED BY <2>1, <2>2
<1>8. ASSUME NEW p \in DOMAIN seasons PROVE seasons[p] \in Int
  <2> DEFINE table == [q \in DOMAIN ranks |-> IF ranks[q] = None THEN None ELSE ranks[q].season]
  <2>1. CASE ranks = None
    <3>1. seasons = <<>>
      BY <2>1 DEF SnapshotSeasons
    <3> QED BY <3>1
  <2>2. CASE ranks # None
    <3>1. seasons = Filled(table, None)
      BY <2>2 DEF SnapshotSeasons
    <3>2. p \in DOMAIN table /\ seasons[p] = table[p] /\ table[p] # None
      <4> HIDE DEF table, seasons
      <4> QED BY <1>8, <3>1 DEF Filled
    <3>3. ranks[p] # None /\ seasons[p] = ranks[p].season /\ seasons[p] # None
      BY <3>2
    <3> QED BY <1>5, <1>6, <2>2, <3>2, <3>3 DEF Nullable
  <2> QED BY <2>1, <2>2
<1> HIDE DEF shown, seasons, snapshot
<1>9. ServableSnapshot(snapshot)
  BY <1>3, <1>4, <1>7, <1>8 DEF ServableSnapshot, Nullable
<1> QED BY <1>9 DEF snapshot

LEMMA AnswersServable == CareerIInv => EveryAnswerIsServable
<1> SUFFICES ASSUME CareerIInv, Served PROVE EveryAnswerIsServable
  BY DEF EveryAnswerIsServable
<1>1. EmptiedCategory \/ BlankFrame \/ ServablePlayer(profile)
  BY PlayerServable
<1>2. \A g, p : StatsSummary(profile, g, p) # None => ServableStatsSummary(StatsSummary(profile, g, p))
  BY TotalsServable
<1>3. \A g \in Gamemode : ServableCareerTables(ProcessCareerStats(profile, g, None, None))
  BY TablesServable
<1>4. BuildSnapshot(profile) # None => ServableSnapshot(BuildSnapshot(profile))
  BY SnapshotServable
<1> QED BY <1>1, <1>2, <1>3, <1>4 DEF EveryAnswerIsServable

-----------------------------------------------------------------------------
(* The time of the summary is a sum over the platforms and gamemodes *)

\* The time of a hero in a platform and gamemode, by hero, and in all.
TimeIn(stats, s, h) ==
  IF h \in DOMAIN CareerOf(stats, s) THEN HeroTotals(CareerOf(stats, s)[h])["time_played"] ELSE 0
ByHero(stats, s) == [h \in Hero |-> TimeIn(stats, s, h)]
BySection(stats, h) == [s \in Cells |-> TimeIn(stats, s, h)]
SectionTime(stats) == [s \in Cells |-> SumFunctionOnSet(ByHero(stats, s), Hero)]
HeroTimes(stats, g, p) == [h \in Hero |-> PlayedBy(stats, g, p, h)["time_played"]]

LEMMA TimeInTyped ==
  ASSUME NEW stats, IsStats(stats, FALSE), NEW g, NEW p, NEW s \in Sections(stats, g, p), NEW h
  PROVE  TimeIn(stats, s, h) \in Nat
<1>1. CASE h \in DOMAIN CareerOf(stats, s)
  <2>1. s \in SectionsOf(stats, g, p, h)
    BY <1>1 DEF SectionsOf
  <2>2. GoodTotals(HeroTotals(CareerOf(stats, s)[h]))
    BY <2>1, PlayedByGood
  <2> QED BY <1>1, <2>2 DEF TimeIn, GoodTotals, Totals
<1>2. CASE h \notin DOMAIN CareerOf(stats, s)
  BY <1>2 DEF TimeIn
<1> QED BY <1>1, <1>2

\* What a hero has played is the sum over the sections.
LEMMA HeroTime ==
  ASSUME NEW stats, IsStats(stats, FALSE), NEW g, NEW p, NEW h
  PROVE  PlayedBy(stats, g, p, h)["time_played"] =
           SumFunctionOnSet(BySection(stats, h), Sections(stats, g, p))
<1> DEFINE S == Sections(stats, g, p)
           R == SectionsOf(stats, g, p, h)
           parts == PartsOf(stats, g, p, h)
<1>1. S \in SUBSET Cells /\ IsFiniteSet(S)
  BY SectionsFacts DEF Cells
<1>2. R \in SUBSET S /\ DOMAIN parts = R
  BY DEF SectionsOf, PartsOf
<1>3. PlayedBy(stats, g, p, h)["time_played"] = SumFunctionOnSet(Column(parts, "time_played"), R)
  <2>1. "time_played" \in Totals
    BY DEF Totals
  <2> QED BY <1>2, <2>1, TotalOf DEF PlayedBy
<1>4. \A s \in S : BySection(stats, h)[s] \in Int
  <2>1. \A s \in S : TimeIn(stats, s, h) \in Nat
    BY TimeInTyped
  <2> QED BY <1>1, <2>1 DEF BySection
<1>5. \A s \in R : Column(parts, "time_played")[s] = BySection(stats, h)[s]
  BY <1>1, <1>2 DEF Column, PartsOf, SectionsOf, TimeIn, BySection
<1>6. \A s \in S \ R : BySection(stats, h)[s] = 0
  BY <1>1 DEF SectionsOf, TimeIn, BySection
<1> HIDE DEF S, R, parts
<1>7. SumFunctionOnSet(Column(parts, "time_played"), R) = SumFunctionOnSet(BySection(stats, h), S)
  BY <1>1, <1>2, <1>4, <1>5, <1>6, SumTrim
<1> QED BY <1>3, <1>7 DEF S

\* And of all heroes, as many sections are added up by hero or by section.
LEMMA HeroTimesAddUp ==
  ASSUME NEW stats, IsStats(stats, FALSE), NEW g, NEW p
  PROVE  SumFunctionOnSet(HeroTimes(stats, g, p), Hero) =
           SumFunctionOnSet(SectionTime(stats), Sections(stats, g, p))
<1> DEFINE S == Sections(stats, g, p)
           row == [h \in Hero |-> BySection(stats, h)]
           col == [s \in S |-> ByHero(stats, s)]
           times == HeroTimes(stats, g, p)
           cells == SectionTime(stats)
<1>1. S \in SUBSET Cells /\ IsFiniteSet(S) /\ IsFiniteSet(Hero)
  BY SectionsFacts, HeroAssumption DEF Cells
<1>2. \A h \in Hero, s \in S : TimeIn(stats, s, h) \in Nat
  BY TimeInTyped
<1>3. Crossed(row, col, Hero, S)
  BY <1>1, <1>2 DEF Crossed, BySection, ByHero
<1>4. AddsUp(times, row, Hero, S)
  <2>1. \A h \in Hero : PlayedBy(stats, g, p, h)["time_played"] = SumFunctionOnSet(BySection(stats, h), S)
    BY HeroTime
  <2> HIDE DEF S
  <2> QED BY <2>1 DEF AddsUp, HeroTimes
<1>5. AddsUp(cells, col, S, Hero)
  <2> HIDE DEF S
  <2> QED BY <1>1 DEF AddsUp, SectionTime
<1> HIDE DEF S, row, col, times, cells
<1>6. SumFunctionOnSet(times, Hero) = SumFunctionOnSet(cells, S)
  BY <1>1, <1>3, <1>4, <1>5, SumTable
<1> QED BY <1>6 DEF S, times, cells

\* The heroes of a summary are the ones with some time.
LEMMA HeroesTime ==
  ASSUME NEW stats, IsStats(stats, FALSE), NEW g, NEW p, NEW heroes, heroes = HeroesData(stats, g, p)
  PROVE  /\ \A h \in DOMAIN heroes : heroes[h]["time_played"] \in Nat
         /\ DOMAIN heroes \in SUBSET Hero
         /\ SumFunctionOnSet(Column(heroes, "time_played"), DOMAIN heroes) =
              SumFunctionOnSet(HeroTimes(stats, g, p), Hero)
<1> DEFINE D == HeroesOf(stats, g, p)
           times == HeroTimes(stats, g, p)
           column == Column(heroes, "time_played")
<1>1. heroes = [h \in D |-> PlayedBy(stats, g, p, h)]
  BY HeroesDataFacts
<1>2. D \in SUBSET Hero
  BY DEF HeroesOf, KnownHeroes
<1>3. ASSUME NEW h \in Hero
      PROVE  times[h] \in Nat /\ times[h] = PlayedBy(stats, g, p, h)["time_played"]
  <2>1. GoodTotals(PlayedBy(stats, g, p, h))
    BY PlayedByGood
  <2> QED BY <2>1 DEF GoodTotals, Totals, HeroTimes
<1>4. ASSUME NEW h \in Hero \ D PROVE times[h] = 0
  <2>1. CASE h \in KnownHeroes(stats)
    BY <1>3, <2>1 DEF HeroesOf
  <2>2. CASE h \notin KnownHeroes(stats)
    <3>1. \A s \in Sections(stats, g, p) : BySection(stats, h)[s] = 0
      <4> SUFFICES ASSUME NEW s \in Sections(stats, g, p) PROVE BySection(stats, h)[s] = 0
        OBVIOUS
      <4>1. s \in Cells
        BY SectionsFacts DEF Cells
      <4>2. /\ s[1] \in DOMAIN stats /\ s[2] \in Gamemode
            /\ stats[s[1]] # None /\ stats[s[1]][s[2]] # None
        BY DEF Sections
      <4>3. h \notin DOMAIN CareerOf(stats, s)
        BY <2>2, <4>2 DEF KnownHeroes, CareerOf
      <4> QED BY <4>1, <4>3 DEF BySection, TimeIn
    <3>2. IsFiniteSet(Sections(stats, g, p))
      BY SectionsFacts
    <3>3. SumFunctionOnSet(BySection(stats, h), Sections(stats, g, p)) = 0
      BY <3>1, <3>2, SumZero
    <3> QED BY <1>3, <3>3, HeroTime
  <2> QED BY <2>1, <2>2
<1> HIDE DEF D, times
<1>5. DOMAIN heroes = D /\ \A h \in D : heroes[h]["time_played"] = times[h] /\ column[h] = times[h]
  BY <1>1, <1>2, <1>3 DEF Column
<1> HIDE DEF column
<1>6. SumFunctionOnSet(column, D) = SumFunctionOnSet(times, Hero)
  <2>1. \A h \in Hero : times[h] \in Int
    BY <1>3
  <2>2. \A h \in D : column[h] = times[h]
    BY <1>5
  <2>3. \A h \in Hero \ D : times[h] = 0
    BY <1>4
  <2> QED BY <1>2, <2>1, <2>2, <2>3, HeroAssumption, SumTrim
<1> QED BY <1>2, <1>3, <1>5, <1>6 DEF column, times

\* The total of the roles is the total of the heroes.
LEMMA RolesTime ==
  ASSUME NEW heroes, DOMAIN heroes \in SUBSET Hero, \A h \in DOMAIN heroes : GoodTotals(heroes[h])
  PROVE  GeneralStats(RolesStats(heroes))["time_played"] =
           SumFunctionOnSet(Column(heroes, "time_played"), DOMAIN heroes)
<1> DEFINE D == DOMAIN heroes
           f == Column(heroes, "time_played")
           of(r) == {h \in D : RoleOfHero[h] = r}
           r0 == [r \in HeroRole |-> SumFunctionOnSet(f, of(r))]
           roles == RolesStats(heroes)
           R == RolesOf(heroes)
<1>1. "time_played" \in Totals
  BY DEF Totals
<1>2. IsFiniteSet(D) /\ IsFiniteSet(HeroRole) /\ R \in SUBSET HeroRole
  BY HeroAssumption, FS_Subset DEF RolesOf
<1>3. \A h \in D : f[h] \in Nat /\ RoleOfHero[h] \in HeroRole
  BY <1>1, HeroAssumption DEF GoodTotals, Column
<1>4. ASSUME NEW r \in HeroRole
      PROVE  /\ SumTotals(OfRole(heroes, r))["time_played"] = r0[r] /\ r0[r] \in Nat
  <2> DEFINE part == OfRole(heroes, r)
             T == of(r)
  <2>1. DOMAIN part = T /\ T \in SUBSET D /\ \A h \in T : Column(part, "time_played")[h] = f[h]
    BY DEF OfRole, Column
  <2>2. IsFiniteSet(T) /\ \A h \in T : f[h] \in Nat
    BY <1>2, <1>3, FS_Subset
  <2>3. r0[r] = SumFunctionOnSet(f, T)
    OBVIOUS
  <2> HIDE DEF part, T, f, r0
  <2>4. SumFunctionOnSet(Column(part, "time_played"), T) = SumFunctionOnSet(f, T)
    BY <2>1, <2>2, SumSame
  <2>5. SumTotals(part)["time_played"] = SumFunctionOnSet(Column(part, "time_played"), T)
    BY <1>1, <2>1, TotalOf
  <2>6. SumFunctionOnSet(f, T) \in Nat
    BY <2>2, SumNat
  <2> QED BY <2>3, <2>4, <2>5, <2>6 DEF part
<1>5. roles = [r \in R |-> SumTotals(OfRole(heroes, r))]
  BY RolesFacts
<1>6. /\ DOMAIN roles = R
      /\ \A r \in R : Column(roles, "time_played")[r] = r0[r]
      /\ \A r \in HeroRole \ R : r0[r] = 0
  <2> HIDE DEF r0, roles
  <2>1. \A r \in R : Column(roles, "time_played")[r] = SumTotals(OfRole(heroes, r))["time_played"]
    BY <1>5 DEF Column
  <2>2. \A r \in HeroRole \ R : ~(SumTotals(OfRole(heroes, r))["time_played"] > 0)
    BY DEF RolesOf
  <2> HIDE DEF R
  <2>3. \A r \in HeroRole \ R : r0[r] = 0
    BY <1>4, <2>2
  <2> QED BY <1>2, <1>4, <1>5, <2>1, <2>3
<1>7. Grouped(r0, f, D, RoleOfHero, HeroRole)
  BY DEF Grouped
<1> HIDE DEF D, f, r0, roles, R
<1>8. SumFunctionOnSet(r0, HeroRole) = SumFunctionOnSet(f, D)
  <2>1. \A h \in D : f[h] \in Int
    BY <1>3
  <2>2. \A h \in D : RoleOfHero[h] \in HeroRole
    BY <1>3
  <2> QED BY <1>2, <1>7, <2>1, <2>2, SumGroups
<1>9. SumFunctionOnSet(Column(roles, "time_played"), R) = SumFunctionOnSet(r0, HeroRole)
  <2>1. \A r \in HeroRole : r0[r] \in Int
    BY <1>4
  <2>2. \A r \in R : Column(roles, "time_played")[r] = r0[r]
    BY <1>6
  <2>3. \A r \in HeroRole \ R : r0[r] = 0
    BY <1>6
  <2> QED BY <1>2, <2>1, <2>2, <2>3, SumTrim
<1>10. SumTotals(roles)["time_played"] = SumFunctionOnSet(Column(roles, "time_played"), R)
  BY <1>1, <1>6, TotalOf
<1> QED BY <1>8, <1>9, <1>10 DEF GeneralStats, roles, f, D

\* What a request without a platform or a gamemode asks of a profile, in the cells.
Around(g, p) == {s \in Cells : p \in {None, s[1]} /\ g \in {None, s[2]}}
TimeCells ==
  [s \in Cells |->
    IF profile.stats # None /\ s \in Sections(profile.stats, None, None)
    THEN SectionTime(profile.stats)[s] ELSE 0]

LEMMA CellsTyped ==
  ASSUME CareerIInv, Served
  PROVE  \A s \in Cells : TimeCells[s] \in Nat
<1> SUFFICES ASSUME NEW s \in Cells PROVE TimeCells[s] \in Nat
  OBVIOUS
<1>1. CASE profile.stats # None /\ s \in Sections(profile.stats, None, None)
  <2>1. IsStats(profile.stats, FALSE)
    BY <1>1, ServedProfile
  <2>2. \A h \in Hero : ByHero(profile.stats, s)[h] \in Nat
    BY <1>1, <2>1, TimeInTyped DEF ByHero
  <2>3. SumFunctionOnSet(ByHero(profile.stats, s), Hero) \in Nat
    BY <2>2, SumNat, HeroAssumption
  <2> QED BY <1>1, <2>3 DEF TimeCells, SectionTime
<1>2. CASE ~(profile.stats # None /\ s \in Sections(profile.stats, None, None))
  BY <1>2 DEF TimeCells
<1> QED BY <1>1, <1>2

LEMMA AroundFinite == \A g, p : Around(g, p) \in SUBSET Cells /\ IsFiniteSet(Around(g, p))
<1>1. \A g, p : Around(g, p) \in SUBSET Cells
  BY DEF Around
<1> QED BY <1>1, CellsFinite, FS_Subset

\* The parts of a summary, where there is one.
LEMMA SummaryIs ==
  ASSUME CareerIInv, Served, NEW g, NEW p, NEW heroes,
         heroes = IF profile.stats = None THEN <<>> ELSE HeroesData(profile.stats, g, p)
  PROVE  /\ StatsSummary(profile, g, p) = None <=> DOMAIN heroes = {}
         /\ StatsSummary(profile, g, p) # None =>
              /\ profile.stats # None /\ IsStats(profile.stats, FALSE)
              /\ heroes = HeroesData(profile.stats, g, p)
              /\ StatsSummary(profile, g, p).heroes = heroes
              /\ StatsSummary(profile, g, p).general = GeneralStats(RolesStats(heroes))
<1> DEFINE full == [heroes |-> heroes, roles |-> RolesStats(heroes), general |-> GeneralStats(RolesStats(heroes))]
<1>1. StatsSummary(profile, g, p) = IF DOMAIN heroes = {} THEN None ELSE full
  BY SummaryFacts
<1>2. ASSUME DOMAIN heroes # {}
      PROVE  /\ profile.stats # None /\ IsStats(profile.stats, FALSE)
             /\ heroes = HeroesData(profile.stats, g, p) /\ full # None
  <2>1. profile.stats # None
    BY <1>2
  <2>2. IsStats(profile.stats, FALSE) /\ heroes = HeroesData(profile.stats, g, p)
    BY <2>1, ServedProfile
  <2>3. full \in PlayerStatsSummary
    BY <2>2, SummaryGood
  <2> QED BY <2>1, <2>2, <2>3, CareerAssumption
<1>3. full.heroes = heroes /\ full.general = GeneralStats(RolesStats(heroes))
  OBVIOUS
<1> HIDE DEF full
<1> QED BY <1>1, <1>2, <1>3

\* The total of a summary is the total of its cells.
LEMMA TimeOfCells ==
  ASSUME CareerIInv, Served, NEW g, NEW p
  PROVE  TimeOf(g, p) = SumFunctionOnSet(TimeCells, Around(g, p))
<1> DEFINE heroes == IF profile.stats = None THEN <<>> ELSE HeroesData(profile.stats, g, p)
           summary == StatsSummary(profile, g, p)
           stats == profile.stats
<1>1. CASE stats = None
  <2>1. DOMAIN heroes = {}
    BY <1>1
  <2>2. TimeOf(g, p) = 0
    <3> HIDE DEF heroes
    <3>1. summary = None
      BY <2>1, SummaryIs DEF heroes
    <3> QED BY <3>1 DEF TimeOf
  <2>3. \A s \in Around(g, p) : TimeCells[s] = 0
    BY <1>1 DEF TimeCells, Around
  <2> QED BY <2>2, <2>3, AroundFinite, SumZero
<1>2. CASE stats # None
  <2> DEFINE column == Column(heroes, "time_played")
             S == Sections(stats, g, p)
  <2>1. IsStats(stats, FALSE) /\ heroes = HeroesData(stats, g, p)
    BY <1>2, ServedProfile
  <2>2. /\ \A h \in DOMAIN heroes : GoodTotals(heroes[h])
        /\ DOMAIN heroes \in SUBSET Hero
        /\ SumFunctionOnSet(column, DOMAIN heroes) = SumFunctionOnSet(HeroTimes(stats, g, p), Hero)
    <3> HIDE DEF heroes
    <3> QED BY <2>1, HeroesTime, SummaryGood
  <2>3. SumFunctionOnSet(column, DOMAIN heroes) = SumFunctionOnSet(SectionTime(stats), S)
    BY <2>1, <2>2, HeroTimesAddUp
  <2>4. SumFunctionOnSet(SectionTime(stats), S) = SumFunctionOnSet(TimeCells, Around(g, p))
    <3>1. S \in SUBSET Around(g, p)
      <4>1. S \in SUBSET Cells
        BY <2>1, SectionsFacts DEF Cells
      <4> QED BY <4>1 DEF Around, Sections
    <3>2. \A s \in S : SectionTime(stats)[s] = TimeCells[s]
      BY <1>2, <3>1, KeysAssumption DEF TimeCells, Around, Sections
    <3>3. \A s \in Around(g, p) \ S : TimeCells[s] = 0
      BY DEF TimeCells, Around, Sections
    <3>4. \A s \in Around(g, p) : TimeCells[s] \in Int
      BY CellsTyped DEF Around
    <3> HIDE DEF S
    <3> QED BY <3>1, <3>2, <3>3, <3>4, AroundFinite, SumTrim
  <2>5. TimeOf(g, p) = SumFunctionOnSet(column, DOMAIN heroes)
    <3>1. CASE DOMAIN heroes = {}
      <4> HIDE DEF heroes
      <4>1. summary = None
        BY <3>1, SummaryIs DEF heroes
      <4>2. TimeOf(g, p) = 0
        BY <4>1 DEF TimeOf
      <4> QED BY <3>1, <4>2, SumEmpty
    <3>2. CASE DOMAIN heroes # {}
      <4> HIDE DEF heroes
      <4>1. summary # None /\ summary.general = GeneralStats(RolesStats(heroes))
        BY <3>2, SummaryIs DEF heroes
      <4>2. TimeOf(g, p) = GeneralStats(RolesStats(heroes))["time_played"]
        BY <4>1 DEF TimeOf
      <4> QED BY <2>2, <4>2, RolesTime
    <3> QED BY <3>1, <3>2
  <2> QED BY <2>3, <2>4, <2>5
<1> QED BY <1>1, <1>2

\* One gamemode of one platform is one cell; what is around some platforms and
\* gamemodes is told apart by platform, or by gamemode.
LEMMA AroundFacts ==
  /\ \A s \in Cells : Around(s[2], s[1]) = {s} /\ s[1] \in Range(Platform) /\ s[2] \in Gamemode
  /\ \A g \in Gamemode \cup {None}, p \in Range(Platform) :
       Around(g, p) = {s \in Around(g, None) : s[1] = p}
  /\ \A g \in Gamemode, p \in Range(Platform) :
       Around(g, p) = {s \in Around(None, p) : s[2] = g}
  /\ Around(None, None) = Cells
<1>1. None \notin Range(Platform) /\ None \notin Gamemode
  BY KeysAssumption
<1>2. ASSUME NEW s \in Cells
      PROVE  Around(s[2], s[1]) = {s} /\ s[1] \in Range(Platform) /\ s[2] \in Gamemode
  BY <1>1 DEF Around, Cells
<1> QED BY <1>1, <1>2 DEF Around

First == [s \in Cells |-> s[1]]
Second == [s \in Cells |-> s[2]]

\* The times of the platforms, and of the gamemodes of one.
LEMMA TimesOfPlatforms ==
  ASSUME CareerIInv, Served, NEW g \in Gamemode \cup {None},
         NEW r, \A p \in Range(Platform) : r[p] = TimeOf(g, p)
  PROVE  SumFunctionOnSet(r, Range(Platform)) = TimeOf(g, None)
<1> DEFINE S == Around(g, None)
<1>1. S \in SUBSET Cells /\ IsFiniteSet(S)
  BY AroundFinite
<1>2. \A s \in S : TimeCells[s] \in Int
  BY <1>1, CellsTyped
<1>3. \A s \in S : First[s] \in Range(Platform)
  BY <1>1, AroundFacts DEF First
<1>4. ASSUME NEW p \in Range(Platform)
      PROVE  r[p] = SumFunctionOnSet(TimeCells, {s \in S : First[s] = p})
  <2>1. Around(g, p) = {s \in S : First[s] = p}
    BY <1>1, AroundFacts DEF First
  <2>2. r[p] = SumFunctionOnSet(TimeCells, Around(g, p))
    BY TimeOfCells
  <2> QED BY <2>1, <2>2
<1> HIDE DEF S
<1>5. Grouped(r, TimeCells, S, First, Range(Platform))
  BY <1>4 DEF Grouped
<1>6. SumFunctionOnSet(r, Range(Platform)) = SumFunctionOnSet(TimeCells, S)
  BY <1>1, <1>2, <1>3, <1>5, CellsFinite, SumGroups
<1> QED BY <1>6, TimeOfCells DEF S

LEMMA TimesOfGamemodes ==
  ASSUME CareerIInv, Served, NEW p \in Range(Platform),
         NEW r, \A g \in Gamemode : r[g] = TimeOf(g, p)
  PROVE  SumFunctionOnSet(r, Gamemode) = TimeOf(None, p)
<1> DEFINE S == Around(None, p)
<1>1. S \in SUBSET Cells /\ IsFiniteSet(S)
  BY AroundFinite
<1>2. \A s \in S : TimeCells[s] \in Int
  BY <1>1, CellsTyped
<1>3. \A s \in S : Second[s] \in Gamemode
  BY <1>1, AroundFacts DEF Second
<1>4. ASSUME NEW g \in Gamemode
      PROVE  r[g] = SumFunctionOnSet(TimeCells, {s \in S : Second[s] = g})
  <2>1. Around(g, p) = {s \in S : Second[s] = g}
    BY <1>1, AroundFacts DEF Second
  <2>2. r[g] = SumFunctionOnSet(TimeCells, Around(g, p))
    BY TimeOfCells
  <2> QED BY <2>1, <2>2
<1> HIDE DEF S
<1>5. Grouped(r, TimeCells, S, Second, Gamemode)
  BY <1>4 DEF Grouped
<1>6. SumFunctionOnSet(r, Gamemode) = SumFunctionOnSet(TimeCells, S)
  BY <1>1, <1>2, <1>3, <1>5, CellsFinite, SumGroups
<1> QED BY <1>6, TimeOfCells DEF S

\* Of every platform and gamemode, as a request for all of them answers.
LEMMA TimesOfCells ==
  ASSUME CareerIInv, Served
  PROVE  TimeOf(None, None) =
           SumFunction([pg \in Range(Platform) \X Gamemode |-> TimeOf(pg[2], pg[1])])
<1> DEFINE times == [pg \in Range(Platform) \X Gamemode |-> TimeOf(pg[2], pg[1])]
<1>1. \A s \in Cells : times[s] = TimeCells[s]
  <2> SUFFICES ASSUME NEW s \in Cells PROVE TimeOf(s[2], s[1]) = TimeCells[s]
    BY DEF Cells
  <2>1. TimeOf(s[2], s[1]) = SumFunctionOnSet(TimeCells, Around(s[2], s[1]))
    BY TimeOfCells
  <2>2. TimeCells[s] \in Int
    BY CellsTyped
  <2> QED BY <2>1, <2>2, AroundFacts, SumOne
<1>2. DOMAIN times = Cells
  BY DEF Cells
<1> HIDE DEF times
<1>3. SumFunctionOnSet(times, Cells) = SumFunctionOnSet(TimeCells, Cells)
  BY <1>1, CellsFinite, SumSame
<1>4. TimeOf(None, None) = SumFunctionOnSet(TimeCells, Cells)
  BY TimeOfCells, AroundFacts
<1>5. SumFunction(times) = SumFunctionOnSet(times, Cells)
  BY <1>2 DEF SumFunction
<1> QED BY <1>3, <1>4, <1>5 DEF times

\* What a snapshot stores of a platform: of each gamemode played there, its totals.
StoredModes(p) == {g \in Gamemode : StatsSummary(profile, g, p) # None}
StoredTotals(p) == [g \in StoredModes(p) |-> StatsSummary(profile, g, p).general]
StoredTimes(p) == [g \in StoredModes(p) |-> StoredTotals(p)[g].time_played]

LEMMA StoredTime ==
  ASSUME CareerIInv, Served, NEW p \in Range(Platform)
  PROVE  SumFunctionOnSet(StoredTimes(p), StoredModes(p)) = TimeOf(None, p)
<1> DEFINE times == [g \in Gamemode |-> TimeOf(g, p)]
           R == StoredModes(p)
           f == StoredTimes(p)
<1>1. \A g \in Gamemode : times[g] = TimeOf(g, p)
  OBVIOUS
<1>2. \A g \in Gamemode : times[g] \in Int
  <2> SUFFICES ASSUME NEW g \in Gamemode PROVE TimeOf(g, p) \in Int
    OBVIOUS
  <2>1. \A s \in Around(g, p) : TimeCells[s] \in Int
    BY CellsTyped, AroundFinite
  <2>2. SumFunctionOnSet(TimeCells, Around(g, p)) \in Int
    BY <2>1, AroundFinite, SumInt
  <2> QED BY <2>2, TimeOfCells
<1>3. R \in SUBSET Gamemode
  BY DEF StoredModes
<1>4. \A g \in R : f[g] = times[g]
  BY <1>3 DEF StoredModes, StoredTimes, StoredTotals, TimeOf
<1>5. \A g \in Gamemode \ R : times[g] = 0
  BY DEF StoredModes, TimeOf
<1> HIDE DEF times, R, f
<1>6. SumFunctionOnSet(f, R) = SumFunctionOnSet(times, Gamemode)
  BY <1>2, <1>3, <1>4, <1>5, CellsFinite, SumTrim
<1>7. SumFunctionOnSet(times, Gamemode) = TimeOf(None, p)
  BY <1>1, TimesOfGamemodes
<1> QED BY <1>6, <1>7 DEF f, R

LEMMA SnapshotGeneralIs ==
  SnapshotGeneral(profile) =
    [p \in {p \in Range(Platform) : StoredTotals(p) # <<>>} |-> StoredTotals(p)]
<1> DEFINE all == [p \in Range(Platform) |-> StoredTotals(p)]
<1>1. SnapshotGeneral(profile) = Filled(all, <<>>)
  BY DEF SnapshotGeneral, StoredTotals, StoredModes
<1>2. DOMAIN all = Range(Platform) /\ \A p \in Range(Platform) : all[p] = StoredTotals(p)
  OBVIOUS
<1> HIDE DEF all
<1>3. Filled(all, <<>>) = [p \in {p \in DOMAIN all : all[p] # <<>>} |-> all[p]]
  BY DEF Filled
<1>4. {p \in DOMAIN all : all[p] # <<>>} = {p \in Range(Platform) : StoredTotals(p) # <<>>}
  BY <1>2
<1> QED BY <1>1, <1>2, <1>3, <1>4

LEMMA SnapshotTime ==
  ASSUME CareerIInv, Served, NEW general, general = SnapshotGeneral(profile)
  PROVE  TimeOf(None, None) =
           SumFunction([p \in DOMAIN general |->
             SumFunction([g \in DOMAIN general[p] |-> general[p][g].time_played])])
<1> DEFINE times == [p \in Range(Platform) |-> TimeOf(None, p)]
           R == {p \in Range(Platform) : StoredTotals(p) # <<>>}
           f == [p \in DOMAIN general |->
                  SumFunction([g \in DOMAIN general[p] |-> general[p][g].time_played])]
<1>1. general = [p \in R |-> StoredTotals(p)]
  BY SnapshotGeneralIs
<1>2. ASSUME NEW p \in R PROVE f[p] = times[p]
  <2>1. DOMAIN general[p] = StoredModes(p) /\ general[p] = StoredTotals(p) /\ p \in Range(Platform)
    BY <1>1 DEF StoredTotals
  <2>2. [g \in DOMAIN general[p] |-> general[p][g].time_played] = StoredTimes(p)
    BY <2>1 DEF StoredTimes
  <2>3. f[p] = SumFunction(StoredTimes(p))
    BY <1>1, <2>2
  <2>4. DOMAIN StoredTimes(p) = StoredModes(p)
    BY DEF StoredTimes
  <2>5. SumFunction(StoredTimes(p)) = SumFunctionOnSet(StoredTimes(p), StoredModes(p))
    BY <2>4 DEF SumFunction
  <2> QED BY <2>1, <2>3, <2>5, StoredTime
<1>3. ASSUME NEW p \in Range(Platform) \ R PROVE times[p] = 0
  <2>1. StoredTotals(p) = <<>>
    OBVIOUS
  <2>2. StoredModes(p) = {}
    <3>1. DOMAIN StoredTotals(p) = StoredModes(p)
      BY DEF StoredTotals
    <3>2. DOMAIN StoredTotals(p) = {}
      BY <2>1
    <3> QED BY <3>1, <3>2
  <2> QED BY <2>2, StoredTime, SumEmpty
<1>4. \A p \in Range(Platform) : times[p] = TimeOf(None, p)
  OBVIOUS
<1>5. \A p \in Range(Platform) : times[p] \in Int
  <2> SUFFICES ASSUME NEW p \in Range(Platform) PROVE TimeOf(None, p) \in Int
    OBVIOUS
  <2>1. \A s \in Around(None, p) : TimeCells[s] \in Int
    BY CellsTyped, AroundFinite
  <2>2. SumFunctionOnSet(TimeCells, Around(None, p)) \in Int
    BY <2>1, AroundFinite, SumInt
  <2> QED BY <2>2, TimeOfCells
<1>6. DOMAIN f = R /\ R \in SUBSET Range(Platform)
  BY <1>1
<1> HIDE DEF times, R, f
<1>7. SumFunctionOnSet(f, R) = SumFunctionOnSet(times, Range(Platform))
  <2>1. \A p \in R : f[p] = times[p]
    BY <1>2
  <2>2. \A p \in Range(Platform) \ R : times[p] = 0
    BY <1>3
  <2> QED BY <1>5, <1>6, <2>1, <2>2, CellsFinite, SumTrim
<1>8. SumFunctionOnSet(times, Range(Platform)) = TimeOf(None, None)
  BY <1>4, TimesOfPlatforms
<1>9. SumFunction(f) = SumFunctionOnSet(f, R)
  BY <1>6 DEF SumFunction
<1> QED BY <1>7, <1>8, <1>9 DEF f

LEMMA TimesAddUp == CareerIInv => TimeAddsUp
<1> SUFFICES ASSUME CareerIInv, Served PROVE TimeAddsUp
  BY DEF TimeAddsUp
<1> DEFINE summary == StatsSummary(profile, None, None)
           snapshot == BuildSnapshot(profile)
<1>1. TimeOf(None, None) =
        SumFunction([pg \in Range(Platform) \X Gamemode |-> TimeOf(pg[2], pg[1])])
  BY TimesOfCells
<1>2. ASSUME NEW g \in Gamemode
      PROVE  TimeOf(g, None) = SumFunction([p \in Range(Platform) |-> TimeOf(g, p)])
  <2> DEFINE r == [p \in Range(Platform) |-> TimeOf(g, p)]
  <2>1. (\A p \in Range(Platform) : r[p] = TimeOf(g, p)) /\ DOMAIN r = Range(Platform)
    OBVIOUS
  <2> HIDE DEF r
  <2>2. SumFunctionOnSet(r, Range(Platform)) = TimeOf(g, None)
    BY <2>1, TimesOfPlatforms
  <2>3. SumFunction(r) = SumFunctionOnSet(r, Range(Platform))
    BY <2>1 DEF SumFunction
  <2> QED BY <2>2, <2>3 DEF r
<1>3. ASSUME summary # None
      PROVE  summary.general.time_played =
               SumFunction([h \in DOMAIN summary.heroes |-> summary.heroes[h].time_played])
  <2> DEFINE heroes == IF profile.stats = None THEN <<>> ELSE HeroesData(profile.stats, None, None)
  <2>1. /\ IsStats(profile.stats, FALSE) /\ heroes = HeroesData(profile.stats, None, None)
        /\ summary.heroes = heroes /\ summary.general = GeneralStats(RolesStats(heroes))
    <3>1. heroes = IF profile.stats = None THEN <<>> ELSE HeroesData(profile.stats, None, None)
      OBVIOUS
    <3> HIDE DEF heroes
    <3> QED BY <1>3, <3>1, SummaryIs
  <2> HIDE DEF heroes
  <2>2. (\A h \in DOMAIN heroes : GoodTotals(heroes[h])) /\ DOMAIN heroes \in SUBSET Hero
    BY <2>1, HeroesTime, SummaryGood
  <2>3. summary.general.time_played =
          SumFunctionOnSet(Column(heroes, "time_played"), DOMAIN heroes)
    BY <2>1, <2>2, RolesTime
  <2>4. [h \in DOMAIN summary.heroes |-> summary.heroes[h].time_played] = Column(heroes, "time_played")
    BY <2>1 DEF Column
  <2>5. DOMAIN Column(heroes, "time_played") = DOMAIN heroes
    BY DEF Column
  <2> QED BY <2>3, <2>4, <2>5 DEF SumFunction
<1>4. ASSUME snapshot # None
      PROVE  TimeOf(None, None) =
               SumFunction([p \in DOMAIN snapshot.general |->
                 SumFunction([g \in DOMAIN snapshot.general[p] |->
                   snapshot.general[p][g].time_played])])
  <2>1. snapshot.general = SnapshotGeneral(profile)
    BY <1>4 DEF BuildSnapshot
  <2> HIDE DEF snapshot
  <2> QED BY <2>1, SnapshotTime
<1> QED BY <1>1, <1>2, <1>3, <1>4 DEF TimeAddsUp

-----------------------------------------------------------------------------
(* The routes read the same career *)

\* What /stats/career and /stats read of a platform and gamemode.
Unplayed(stats, g, p) == stats = None \/ stats[p] = None \/ stats[p][g] = None
ReadFor(hero, career) == [h \in {h \in DOMAIN career : hero \in {None, h}} |-> career[h]]

LEMMA CareerRead ==
  ASSUME NEW stats, NEW g \in Gamemode, NEW p \in Range(Platform)
  PROVE  /\ Unplayed(stats, g, p) => \A hero : DOMAIN StatsByQuery(stats, g, p, hero) = {}
         /\ ~Unplayed(stats, g, p) =>
              \A hero : StatsByQuery(stats, g, p, hero) = ReadFor(hero, stats[p][g].career_stats)
         /\ stats # None /\ stats[p] # None => AllStats(stats, p, g)[p][g] = stats[p][g]
<1>1. p # None
  BY KeysAssumption
<1>2. ASSUME Unplayed(stats, g, p), NEW hero PROVE DOMAIN StatsByQuery(stats, g, p, hero) = {}
  <2>1. StatsByQuery(stats, g, p, hero) = <<>>
    BY <1>1, <1>2 DEF StatsByQuery, Unplayed
  <2> QED BY <2>1
<1>3. ASSUME ~Unplayed(stats, g, p), NEW hero
      PROVE  StatsByQuery(stats, g, p, hero) = ReadFor(hero, stats[p][g].career_stats)
  BY <1>1, <1>3 DEF StatsByQuery, Unplayed, ReadFor
<1>4. ASSUME stats # None /\ stats[p] # None PROVE AllStats(stats, p, g)[p][g] = stats[p][g]
  BY <1>4 DEF AllStats
<1> QED BY <1>2, <1>3, <1>4

LEMMA SameHeroes ==
  ASSUME NEW g \in Gamemode, NEW p \in Range(Platform)
  PROVE  DOMAIN ProcessCareerStats(profile, g, p, None) =
           IF profile.stats = None THEN {} ELSE IF profile.stats[p] = None THEN {}
           ELSE IF AllStats(profile.stats, p, g)[p][g] = None THEN {}
           ELSE DOMAIN AllStats(profile.stats, p, g)[p][g].career_stats
<1> DEFINE stats == profile.stats
           career == StatsByQuery(stats, g, p, None)
<1>1. DOMAIN ProcessCareerStats(profile, g, p, None) = DOMAIN career
  BY DEF ProcessCareerStats
<1>2. CASE Unplayed(stats, g, p)
  <2>1. DOMAIN career = {}
    BY <1>2, CareerRead
  <2>2. stats # None /\ stats[p] # None => AllStats(stats, p, g)[p][g] = None
    BY <1>2, CareerRead DEF Unplayed
  <2> HIDE DEF career
  <2> QED BY <1>1, <2>1, <2>2
<1>3. CASE ~Unplayed(stats, g, p)
  <2>1. career = ReadFor(None, stats[p][g].career_stats)
    BY <1>3, CareerRead
  <2>2. DOMAIN career = DOMAIN stats[p][g].career_stats
    BY <2>1 DEF ReadFor
  <2>3. /\ stats # None /\ stats[p] # None /\ stats[p][g] # None
        /\ AllStats(stats, p, g)[p][g] = stats[p][g]
    BY <1>3, CareerRead DEF Unplayed
  <2> HIDE DEF career
  <2> QED BY <1>1, <2>2, <2>3
<1> QED BY <1>2, <1>3

\* A page that states the time of a hero once: one group of the category, with one
\* statistic of the key.
StatesOnce(groups, i, v) ==
  /\ GroupsOf(groups, "game") = {i} /\ i \in DOMAIN groups
  /\ Len(groups[i].stats) = 1
  /\ groups[i].stats[1].key = "time_played" /\ groups[i].stats[1].value = v

LEMMA StatedOnce ==
  ASSUME NEW groups \in Seq(StatGroup(FALSE)), NEW i, NEW v, StatesOnce(groups, i, v)
  PROVE  /\ HeroTotals(groups)["time_played"] = v
         /\ CareerTable(groups)["game"]["time_played"] = v
<1> DEFINE stats == groups[i].stats
           named == {j \in DOMAIN stats : PluralStatKey(stats[j].key) = "time_played"}
<1>1. i \in DOMAIN groups /\ GroupsOf(groups, "game") = {i} /\ Len(stats) = 1
      /\ stats[1].key = "time_played" /\ stats[1].value = v
  BY DEF StatesOnce
<1>2. Len(groups) \in Nat /\ {i} \in SUBSET (1..Len(groups)) /\ {i} # {}
  BY <1>1
<1>3. Min({i}) = i /\ Max({i}) = i
  <2>1. Min({i}) \in {i}
    BY <1>2, Lowest
  <2>2. Max({i}) \in {i}
    BY <1>2, Greatest
  <2> QED BY <2>1, <2>2
<1>4. stats \in Seq(StatEntry) /\ groups[i].category = "game"
  <2>1. groups[i] \in StatGroup(FALSE)
    BY <1>1, Element
  <2>2. i \in GroupsOf(groups, "game")
    BY <1>1
  <2> QED BY <2>1, <2>2 DEF StatGroup, GroupsOf
<1> HIDE DEF stats
<1>5. DOMAIN stats = {1}
  BY <1>1, <1>4
<1>6. Min({1}) = 1 /\ Max({1}) = 1
  <2>1. {1} \in SUBSET (1..1) /\ {1} # {} /\ 1 \in Nat
    OBVIOUS
  <2>2. Min({1}) \in {1}
    BY <2>1, Lowest
  <2>3. Max({1}) \in {1}
    BY <2>1, Greatest
  <2> QED BY <2>2, <2>3
<1>7. PluralStatKey("time_played") = "time_played"
  <2>1. stats[1] \in StatEntry
    BY <1>4, <1>5, Element
  <2> QED BY <1>1, <2>1, PluralOnce DEF StatEntry
<1>8. named = {1} /\ StatsOf(stats, "time_played") = {1}
  BY <1>1, <1>5, <1>7 DEF StatsOf
<1>9. StatValue(groups, "game", "time_played") = v
  <2> DEFINE group == {k \in DOMAIN groups : groups[k].category = "game"}
             first == IF group = {} THEN <<>> ELSE groups[Min(group)].stats
             stat == {j \in DOMAIN first : PluralStatKey(first[j].key) = "time_played"}
  <2>1. StatValue(groups, "game", "time_played") = IF stat = {} THEN 0 ELSE first[Min(stat)].value
    BY DEF StatValue
  <2>2. group = {i}
    BY <1>1 DEF GroupsOf
  <2> HIDE DEF group
  <2>3. first = stats
    BY <1>3, <2>2 DEF stats
  <2> HIDE DEF first
  <2>4. stat = {1}
    BY <1>8, <2>3
  <2> HIDE DEF stat
  <2> QED BY <1>1, <1>6, <2>1, <2>3, <2>4
<1>10. HeroTotals(groups)["time_played"] = v
  BY <1>9 DEF HeroTotals
<1>11. "game" \in DOMAIN CareerTable(groups)
  BY <1>1, <1>4 DEF CareerTable, Dict
<1>12. IsTable(CareerTable(groups)["game"], stats)
  <2>1. stats = groups[Max(GroupsOf(groups, "game"))].stats
    BY <1>1, <1>3 DEF stats
  <2> QED BY <1>11, <2>1, TableFacts
<1>13. CareerTable(groups)["game"]["time_played"] = stats[Max(StatsOf(stats, "time_played"))].value
  BY <1>1, <1>5, <1>12 DEF IsTable
<1> QED BY <1>1, <1>6, <1>8, <1>10, <1>13

LEMMA SameTime ==
  ASSUME CareerIInv, Served, NEW g \in Gamemode, NEW p \in Range(Platform),
         NEW h \in DOMAIN ProcessCareerStats(profile, g, p, None) \cap Hero,
         NEW groups, groups = StatsByQuery(profile.stats, g, p, h)[h],
         NEW i, NEW v, v > 0, StatesOnce(groups, i, v)
  PROVE  /\ StatsSummary(profile, g, p).heroes[h].time_played = v
         /\ ProcessCareerStats(profile, g, p, None)[h]["game"]["time_played"] = v
<1> DEFINE stats == profile.stats
           career == stats[p][g].career_stats
           tables == ProcessCareerStats(profile, g, p, None)
           s == <<p, g>>
           heroes == IF stats = None THEN <<>> ELSE HeroesData(stats, g, p)
           summary == StatsSummary(profile, g, p)
<1>1. ~Unplayed(stats, g, p)
  <2>1. CASE Unplayed(stats, g, p)
    <3>1. DOMAIN StatsByQuery(stats, g, p, None) = {}
      BY <2>1, CareerRead
    <3>2. DOMAIN tables = DOMAIN StatsByQuery(stats, g, p, None)
      BY DEF ProcessCareerStats
    <3>3. DOMAIN tables = {}
      BY <3>1, <3>2
    <3> HIDE DEF tables
    <3>4. h \in DOMAIN tables
      BY DEF tables
    <3> QED BY <3>3, <3>4
  <2> QED BY <2>1
<1>2. tables[h] = CareerTable(career[h]) /\ h \in DOMAIN career /\ groups = career[h]
  <2>1. StatsByQuery(stats, g, p, None) = ReadFor(None, career)
    BY <1>1, CareerRead
  <2>2. StatsByQuery(stats, g, p, h) = ReadFor(h, career)
    BY <1>1, CareerRead
  <2> HIDE DEF career
  <2>3. tables = [k \in DOMAIN StatsByQuery(stats, g, p, None) |->
                   CareerTable(StatsByQuery(stats, g, p, None)[k])]
    BY DEF ProcessCareerStats
  <2> QED BY <2>1, <2>2, <2>3 DEF ReadFor
<1>3. IsStats(stats, FALSE)
  BY <1>1, ServedProfile DEF Unplayed
<1>4. groups \in Seq(StatGroup(FALSE))
  <2>1. IsCareer(career, FALSE)
    BY <1>1, <1>3 DEF IsStats, Unplayed
  <2> QED BY <1>2, <2>1 DEF IsCareer
<1>5. HeroTotals(groups)["time_played"] = v /\ CareerTable(groups)["game"]["time_played"] = v
  BY <1>4, StatedOnce
<1>6. Sections(stats, g, p) = {s}
  <2>1. \A t \in Range(Platform) \X Gamemode : p \in {None, t[1]} /\ g \in {None, t[2]} => t = s
    BY KeysAssumption
  <2>2. DOMAIN stats = Range(Platform)
    BY <1>3 DEF IsStats
  <2> QED BY <1>1, <2>1, <2>2 DEF Sections, Unplayed
<1>7. PlayedBy(stats, g, p, h)["time_played"] = v
  <2>1. BySection(stats, h)[s] = v
    BY <1>2, <1>5 DEF BySection, TimeIn, CareerOf, Cells
  <2>2. v \in Int
    <3>1. s \in Sections(stats, g, p)
      BY <1>6
    <3>2. TimeIn(stats, s, h) \in Nat
      BY <1>3, <3>1, TimeInTyped
    <3> QED BY <2>1, <3>2 DEF BySection, Cells
  <2>3. SumFunctionOnSet(BySection(stats, h), {s}) = v
    BY <2>1, <2>2, SumOne
  <2>4. PlayedBy(stats, g, p, h)["time_played"] =
          SumFunctionOnSet(BySection(stats, h), Sections(stats, g, p))
    BY <1>3, HeroTime
  <2> QED BY <1>6, <2>3, <2>4
<1>8. h \in HeroesOf(stats, g, p)
  <2>1. h \in KnownHeroes(stats)
    BY <1>1, <1>2, <1>3 DEF KnownHeroes, IsStats, Unplayed
  <2> QED BY <1>7, <2>1 DEF HeroesOf
<1>9. h \in DOMAIN heroes /\ heroes[h]["time_played"] = v
  <2>1. heroes = [k \in HeroesOf(stats, g, p) |-> PlayedBy(stats, g, p, k)]
    BY <1>1, HeroesDataFacts DEF Unplayed
  <2> HIDE DEF heroes
  <2> QED BY <1>7, <1>8, <2>1
<1>10. heroes = IF stats = None THEN <<>> ELSE HeroesData(stats, g, p)
  OBVIOUS
<1> HIDE DEF heroes
<1>11. summary.heroes = heroes
  BY <1>9, <1>10, SummaryIs
<1> QED BY <1>2, <1>5, <1>9, <1>11

LEMMA RoutesAgreed == CareerIInv => RoutesAgree
<1> SUFFICES ASSUME CareerIInv PROVE RoutesAgree
  OBVIOUS
<1>1. ASSUME Served, NEW g \in Gamemode, NEW p \in Range(Platform),
             NEW h \in DOMAIN ProcessCareerStats(profile, g, p, None) \cap Hero,
             NEW groups, groups = StatsByQuery(profile.stats, g, p, h)[h],
             NEW i \in GroupsOf(groups, "game"), GroupsOf(groups, "game") = {i},
             Len(groups[i].stats) = 1, groups[i].stats[1].key = "time_played",
             groups[i].stats[1].value > 0
      PROVE  StatsSummary(profile, g, p).heroes[h].time_played =
               ProcessCareerStats(profile, g, p, None)[h]["game"]["time_played"]
  <2> DEFINE v == groups[i].stats[1].value
  <2>1. StatesOnce(groups, i, v) /\ v > 0
    BY <1>1 DEF StatesOnce, GroupsOf
  <2> HIDE DEF v
  <2> QED BY <1>1, <2>1, SameTime
<1>2. ASSUME Served, NEW g \in Gamemode, NEW p \in Range(Platform),
             NEW h \in DOMAIN ProcessCareerStats(profile, g, p, None) \cap Hero
      PROVE  LET cards == StatsByQuery(profile.stats, g, p, h)[h]
                 stated == {i \in DOMAIN cards : cards[i].category = "game"}
             IN (\E i \in stated :
                   LET stats == cards[i].stats
                   IN /\ stated = {i} /\ Len(stats) = 1
                      /\ stats[1].key = "time_played" /\ stats[1].value > 0)
                => StatsSummary(profile, g, p).heroes[h].time_played =
                     ProcessCareerStats(profile, g, p, None)[h]["game"]["time_played"]
  <2> DEFINE groups == StatsByQuery(profile.stats, g, p, h)[h]
  <2>1. {i \in DOMAIN groups : groups[i].category = "game"} = GroupsOf(groups, "game")
    BY DEF GroupsOf
  <2> HIDE DEF groups
  <2>2. \A i \in GroupsOf(groups, "game") :
          /\ GroupsOf(groups, "game") = {i} /\ Len(groups[i].stats) = 1
          /\ groups[i].stats[1].key = "time_played" /\ groups[i].stats[1].value > 0
          => StatsSummary(profile, g, p).heroes[h].time_played =
               ProcessCareerStats(profile, g, p, None)[h]["game"]["time_played"]
    BY <1>1, <1>2 DEF groups
  <2> QED BY <2>1, <2>2 DEF groups
<1>3. TimeAddsUp
  BY TimesAddUp
<1>4. ASSUME Served, NEW g \in Gamemode, NEW p \in Range(Platform)
      PROVE  DOMAIN ProcessCareerStats(profile, g, p, None) =
               IF profile.stats = None THEN {} ELSE IF profile.stats[p] = None THEN {}
               ELSE IF AllStats(profile.stats, p, g)[p][g] = None THEN {}
               ELSE DOMAIN AllStats(profile.stats, p, g)[p][g].career_stats
  BY SameHeroes
<1> QED BY <1>2, <1>3, <1>4 DEF RoutesAgree

-----------------------------------------------------------------------------
(* The theorems.  A behaviour of Pages changes one of its parts; each part  *)
(* keeps its invariant whatever the others do.                              *)

PagesIInv == CareerIInv /\ HeroesIInv /\ HeroPageIInv /\ FoundIInv

LEMMA PagesInitial == PagesInit => PagesIInv
  BY CareerInitial, HeroesInitial, HeroPageInitial, FoundInitial DEF PagesInit, PagesIInv

LEMMA PagesStep == PagesIInv /\ [PagesNext]_pagesVars => PagesIInv'
<1> SUFFICES ASSUME PagesIInv, [PagesNext]_pagesVars PROVE PagesIInv'
  OBVIOUS
<1>1. CareerIInv'
  <2>1. CareerNext \/ UNCHANGED careerVars
    BY DEF PagesNext, pagesVars
  <2> QED BY <2>1, CareerStep DEF PagesIInv
<1>2. HeroesIInv'
  <2>1. HeroesNext \/ HeroPageNext \/ SearchNext \/ UNCHANGED siteVars
    BY DEF PagesNext, pagesVars
  <2> QED BY <2>1, HeroesStep DEF PagesIInv
<1>3. HeroPageIInv'
  <2>1. HeroPageNext \/ UNCHANGED heroPage
    <3>1. HeroesNext => UNCHANGED heroPage
      BY DEF HeroesNext, ReleaseHero, Deploy, StoreHeroes, OutgrowStored, AnnounceChange
    <3>2. SearchNext => UNCHANGED heroPage
      BY DEF SearchNext, FindAnother
    <3> QED BY <3>1, <3>2 DEF PagesNext, pagesVars, siteVars
  <2> QED BY <2>1, HeroPageStep DEF PagesIInv
<1>4. FoundIInv'
  <2>1. SearchNext \/ UNCHANGED found
    <3>1. HeroesNext => UNCHANGED found
      BY DEF HeroesNext, ReleaseHero, Deploy, StoreHeroes, OutgrowStored, AnnounceChange
    <3>2. HeroPageNext => UNCHANGED found
      BY DEF HeroPageNext, ReleaseHero, ShowAbility, ShowVideo, Rearrange
    <3> QED BY <3>1, <3>2 DEF PagesNext, pagesVars, siteVars
  <2> QED BY <2>1, FoundStep DEF PagesIInv
<1> QED BY <1>1, <1>2, <1>3, <1>4 DEF PagesIInv

LEMMA PagesInvariant == PagesSpec => []PagesIInv
  BY PagesInitial, PagesStep, PTL DEF PagesSpec

LEMMA PagesTyped == PagesIInv => PagesTypeOK
<1>1. ParseHero(heroPage).status \in {200, 404, 500}
  BY DEF ParseHero, Failure
<1> QED BY <1>1, CareerTyped, SiteTyped DEF PagesIInv, PagesTypeOK

\* A career page is always one the parser knows the nodes of, or misses them; its profile
\* has a division and a tier for every ranked role and a slot for every known comparison;
\* heroes.csv and the index list the first heroes released.
THEOREM PagesTypeCorrect == PagesSpec => []PagesTypeOK
  BY PagesInvariant, PagesTyped, PTL

\* The patch notes never name a wrong hero: an entry that is about a hero names that hero
\* or none, in every language whose stored list is usable, however the releases of
\* Blizzard, the stored lists and heroes.csv are behind each other.
THEOREM NotesNamedRight == PagesSpec => []NotesNameTheRightHero
<1>1. PagesIInv => NotesNameTheRightHero
  BY NotesNamed DEF PagesIInv
<1> QED BY <1>1, PagesInvariant, PTL

\* An ability shows its own video or none, whatever videos Blizzard leaves incomplete.
THEOREM VideosStay == PagesSpec => []VideosStayWithTheirAbility
<1>1. PagesIInv => VideosStayWithTheirAbility
  BY OwnVideos DEF PagesIInv
<1> QED BY <1>1, PagesInvariant, PTL

\* The pages of a player search are a partition of its matches, exact spellings first and
\* in the order asked for; a lookup by name and id finds that player or nobody.
THEOREM SearchPartitioned == PagesSpec => []SearchPagesPartition
<1>1. PagesIInv => SearchPagesPartition
  BY FoundPartition DEF PagesIInv
<1> QED BY <1>1, PagesInvariant, PTL

\* What the API cannot name or read costs its own row, role or card, and a reworded or
\* translated label nothing: no other part of the profile changes.
THEOREM StrangersCostThem == PagesSpec => StrangersCostTheirRow
<1>1. ASSUME PagesIInv, [PagesNext]_pagesVars
      PROVE  [\A p \in Range(Platform), g \in Gamemode :
                Strange(p, g) \/ Reworded(p, g)
                => ParseProfile(page', NoSearch) = ParseProfile(page, NoSearch)]_careerVars
  <2>1. page \in CareerPageType
    BY <1>1 DEF PagesIInv, CareerIInv
  <2> QED BY <2>1, StrangersCost
<1> QED BY <1>1, PagesInvariant, PTL DEF PagesSpec, StrangersCostTheirRow

\* Whatever of a career page parses is accepted by the response models of all the routes
\* that are computed from it, but for a category without a readable number and an
\* endorsement image without address.
THEOREM AnswersAreServable == PagesSpec => []EveryAnswerIsServable
<1>1. PagesIInv => EveryAnswerIsServable
  BY AnswersServable DEF PagesIInv
<1> QED BY <1>1, PagesInvariant, PTL

\* The time of the summary is the same by platform and gamemode, by hero, by role and in
\* the stored snapshot; the three statistics routes read the same career.
THEOREM RoutesAgreeAlways == PagesSpec => []RoutesAgree
<1>1. PagesIInv => RoutesAgree
  BY RoutesAgreed DEF PagesIInv
<1> QED BY <1>1, PagesInvariant, PTL
=============================================================================
