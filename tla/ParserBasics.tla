---------------------------- MODULE ParserBasics ----------------------------
(***************************************************************************)
(* What the parsers of app/domain/parsers share.  A page is a record of    *)
(* what a parser looks for in it; a node it looks for and does not find is *)
(* Missing, an attribute or a value that is not there is None.  A name is  *)
(* its normal form: without accents, in lower case.                        *)
(***************************************************************************)
EXTENDS Integers, SequencesExt

CONSTANTS
  None,    \* Python's None, an absent attribute
  Missing  \* an absent node

\* They are told apart, and are no numbers.
ASSUME NoneAssumption ==
  None # Missing /\ None \notin Int /\ Missing \notin Int

\* A table's entry, or the key itself.
Renamed(table, name) == IF name \in DOMAIN table THEN table[name] ELSE name

Either(value, fallback) == IF value # None THEN value ELSE fallback

\* Python's seq[from:to].
Slice(seq, from, to) ==
  [n \in 1..((IF to > Len(seq) THEN Len(seq) ELSE to) - from) |-> seq[from + n]]

\* A finite set in the order Leq: the n-th is the one with n elements up to it.
Arranged(S, Leq(_, _)) ==
  [n \in 1..Cardinality(S) |-> CHOOSE x \in S : Cardinality({y \in S : Leq(y, x)}) = n]

\* What a sequence has at some of its places, in order.
Picked(seq, places) ==
  LET place == Arranged(places, LAMBDA i, j : i <= j)
  IN [n \in DOMAIN place |-> seq[place[n]]]

\* The dict a loop over some places makes: of several with one key the last one stays.
Dict(seq, places, Key(_), Value(_)) ==
  [k \in {Key(seq[i]) : i \in places} |->
    Value(seq[Max({i \in places : Key(seq[i]) = k})])]

\* An answer without a body: 404 for what does not exist, 500 for a page that the
\* parser does not understand, 502 for what Blizzard should not have sent.
Failure(status) == [status |-> status]

\* The first player of a search whose address is that id, None when there is none.
MatchById(players, id) ==
  LET matching == {i \in DOMAIN players : players[i].id = id}
  IN IF matching = {} THEN None ELSE players[Min(matching)]
=============================================================================
