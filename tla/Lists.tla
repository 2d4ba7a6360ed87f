------------------------------- MODULE Lists -------------------------------
(***************************************************************************)
(* Ordered lists (src/client/list.js) and the position keys their records  *)
(* carry (src/core/positions.js): a record is added, moved, removed or put *)
(* in the order an app shows by writing keys on as few records as will do, *)
(* while other users do the same and hear of it later.                     *)
(*                                                                         *)
(* A key is a sequence: a head, which says how many digits its integer     *)
(* part has and its sign ('a' is 1, 'b' is 2, 'Z' is -1, 'Y' is -2), those *)
(* digits, and the digits of a fraction.  A list maps ids to keys, NoKey   *)
(* for a record without one and Absent where there is no record.  How users come to hear of  *)
(* each other is the sync protocol's (Sync); here each has the server's    *)
(* list as of some time, with the ops it has not heard the fate of on top. *)
(***************************************************************************)
EXTENDS Integers, Sequences, SequencesExt

CONSTANTS
  Base,      \* how many digits there are (62)
  Heads,     \* the most digits of an integer part (26)
  Ids,       \* of records: numbers, for their order
  Users,
  Starts,    \* the lists to start from
  MaxEdits   \* bound: operations on lists

NoKey == <<>>
Absent == <<0>>

ASSUME ListsAssumption ==
  /\ Base \in Nat /\ Base > 1 /\ Heads \in Nat \ {0}
  /\ Ids \subseteq Nat /\ MaxEdits \in Nat

VARIABLES
  state,   \* the server's list
  base,    \* of each user: the server's list as far as heard
  queue,   \* of each user: its ops that are not answered, each a sequence of writes
  edits    \* how many operations there were

vars == <<state, base, queue, edits>>

-----------------------------------------------------------------------------
(* Position keys.                                                          *)

Size(head) == IF head < 0 THEN -head ELSE head

\* A head and as many of a digit as it says.
Whole(head, d) == <<head>> \o [n \in 1 .. Size(head) |-> d]

Zero == Whole(1, 0)
Smallest == Whole(-Heads, 0)

IntegerPart(k) == SubSeq(k, 1, Size(k[1]) + 1)
Fraction(k) == SubSeq(k, Size(k[1]) + 2, Len(k))

IsPositionKey(k) ==
  /\ k # NoKey
  /\ Size(k[1]) \in 1 .. Heads /\ Size(k[1]) < Len(k)
  /\ \A n \in 2 .. Len(k) : k[n] \in 0 .. Base - 1
  /\ Fraction(k) # <<>> => Last(k) # 0
  /\ k # Smallest

\* String order.
Below(a, b) ==
  \E n \in 1 .. Len(b) :
    /\ n <= Len(a) + 1 /\ SubSeq(a, 1, n - 1) = SubSeq(b, 1, n - 1)
    /\ n <= Len(a) => a[n] < b[n]

\* The digit at n one up or down, those after it at the other end.
Carried(i, n, by, d) ==
  SubSeq(i, 1, n - 1) \o <<i[n] + by>> \o [m \in 1 .. Len(i) - n |-> d]

\* The next integer; NoKey above the largest.
Increment(i) ==
  LET room == {n \in 2 .. Len(i) : i[n] < Base - 1}
  IN  IF room # {} THEN Carried(i, Max(room), 1, 0)
      ELSE IF i[1] = Heads THEN NoKey
      ELSE Whole(IF i[1] = -1 THEN 1 ELSE i[1] + 1, 0)

\* The integer before; NoKey below the smallest.
Decrement(i) ==
  LET room == {n \in 2 .. Len(i) : i[n] > 0}
  IN  IF room # {} THEN Carried(i, Max(room), -1, Base - 1)
      ELSE IF i[1] = -Heads THEN NoKey
      ELSE Whole(IF i[1] = 1 THEN -1 ELSE i[1] - 1, Base - 1)

Rest(s, n) == SubSeq(s, n + 1, Len(s))
Digit(a, n) == IF n > Len(a) THEN 0 ELSE a[n]

\* A fraction strictly between two; an empty upper one is no bound.
RECURSIVE Midpoint(_, _)
Midpoint(a, b) ==
  LET same == {n \in 0 .. Len(b) : \A m \in 1 .. n : Digit(a, m) = b[m]}
      da == Digit(a, 1)
      db == IF b = <<>> THEN Base ELSE b[1]
  IN  IF Max(same) > 0
      THEN SubSeq(b, 1, Max(same)) \o Midpoint(Rest(a, Max(same)), Rest(b, Max(same)))
      ELSE IF db - da > 1 THEN <<(da + db + 1) \div 2>>
      ELSE IF Len(b) > 1 THEN <<b[1]>>
      ELSE <<da>> \o Midpoint(Rest(a, 1), <<>>)

KeyBelow(b) ==
  LET ib == IntegerPart(b)
  IN  IF ib = Smallest THEN ib \o Midpoint(<<>>, Fraction(b))
      ELSE IF ib # b THEN ib
      ELSE Decrement(ib)

KeyAbove(a) ==
  LET above == Increment(IntegerPart(a))
  IN  IF above = NoKey THEN IntegerPart(a) \o Midpoint(Fraction(a), <<>>) ELSE above

Between(a, b) ==
  LET ia == IntegerPart(a)
      above == Increment(ia)
  IN  IF ia = IntegerPart(b) THEN ia \o Midpoint(Fraction(a), Fraction(b))
      ELSE IF above = NoKey THEN NoKey
      ELSE IF Below(above, b) THEN above
      ELSE ia \o Midpoint(Fraction(a), <<>>)

\* keyBetween(): a key strictly between two, NoKey being no bound; NoKey where it throws.
KeyBetween(a, b) ==
  IF \/ a # NoKey /\ ~IsPositionKey(a)
     \/ b # NoKey /\ ~IsPositionKey(b)
     \/ a # NoKey /\ b # NoKey /\ ~Below(a, b)
  THEN NoKey
  ELSE IF a = NoKey THEN (IF b = NoKey THEN Zero ELSE KeyBelow(b))
  ELSE IF b = NoKey THEN KeyAbove(a) ELSE Between(a, b)

\* n keys between two: counting up or down at an open end, else bisected.
RECURSIVE KeysBetween(_, _, _)
KeysBetween(a, b, n) ==
  IF n = 0 THEN <<>>
  ELSE IF b = NoKey THEN <<KeyBetween(a, b)>> \o KeysBetween(KeyBetween(a, b), b, n - 1)
  ELSE IF a = NoKey THEN KeysBetween(a, KeyBetween(a, b), n - 1) \o <<KeyBetween(a, b)>>
  ELSE KeysBetween(a, KeyBetween(a, b), n \div 2)
         \o <<KeyBetween(a, b)>>
         \o KeysBetween(KeyBetween(a, b), b, n - (n \div 2) - 1)

\* A list in the order given (listFrom).
ListFrom(ids) ==
  LET keys == KeysBetween(NoKey, NoKey, Len(ids))
  IN  FoldLeftDomain(LAMBDA list, i : [list EXCEPT ![ids[i]] = keys[i]], [id \in Ids |-> Absent], ids)

-----------------------------------------------------------------------------
(* The order of a list, and where a record goes in it.                     *)

\* comparePositions(): by key, those without one last, ties by id.
Before(list, x, y) ==
  IF list[x] # NoKey /\ list[y] # NoKey /\ list[x] # list[y] THEN Below(list[x], list[y])
  ELSE IF list[x] # list[y] THEN list[y] = NoKey
  ELSE x < y

Has(list) == {id \in Ids : list[id] # Absent}
Without(list, id) == [list EXCEPT ![id] = Absent]

RECURSIVE InOrder(_, _)
InOrder(list, ids) ==
  IF ids = {} THEN <<>>
  ELSE LET first == CHOOSE x \in ids : \A y \in ids \ {x} : Before(list, x, y)
       IN  <<first>> \o InOrder(list, ids \ {first})

Sorted(list) == InOrder(list, Has(list))
KeysOf(list) == LET ids == Sorted(list) IN [i \in DOMAIN ids |-> list[ids[i]]]

\* The key of the last of the first `index' records that has one.
Lower(keys, index) ==
  LET keyed == {i \in 1 .. index : keys[i] # NoKey}
  IN  IF keyed = {} THEN NoKey ELSE keys[Max(keyed)]

\* mutant: a record tied with the lower one is not skipped over.
UpperTied(keys, index) ==
  LET over == {i \in index + 1 .. Len(keys) : keys[i] # NoKey}
  IN  IF over = {} THEN NoKey ELSE keys[Min(over)]

\* The key of the first record after those that has a key above the lower one.
Upper(keys, index) ==
  LET over == {i \in index + 1 .. Len(keys) :
                 keys[i] # NoKey /\ (Lower(keys, index) = NoKey \/ Below(Lower(keys, index), keys[i]))}
  IN  IF over = {} THEN NoKey ELSE keys[Min(over)]

\* keyFor(): the key of a record put after the first `index' records of a list.  Before
\* a record, after one and at a place all come down to such an index.
KeyFor(list, index) == KeyBetween(Lower(KeysOf(list), index), Upper(KeysOf(list), index))

\* mutant: a key tied with the lower one counts as above it.
ThereTied(list, index, key) ==
  LET lower == Lower(KeysOf(list), index)
      upper == Upper(KeysOf(list), index)
  IN  /\ key # NoKey
      /\ lower = NoKey \/ ~Below(key, lower)
      /\ upper = NoKey \/ Below(key, upper)

\* Whether a key is between those already.
There(list, index, key) ==
  LET lower == Lower(KeysOf(list), index)
      upper == Upper(KeysOf(list), index)
  IN  /\ key # NoKey
      /\ lower = NoKey \/ Below(lower, key)
      /\ upper = NoKey \/ Below(key, upper)

-----------------------------------------------------------------------------
(* Putting a list in an order.                                             *)

\* mutant: a key equal to the last of a run extends it.
DealtTied(piles, keys, i) ==
  LET low == Cardinality({n \in 1 .. Len(piles.tails) : ~Below(keys[i], keys[piles.tails[n]])})
      tails == piles.tails
  IN  [previous |-> Append(piles.previous, IF low = 0 THEN 0 ELSE tails[low]),
       tails |-> IF low = Len(tails) THEN Append(tails, i) ELSE [tails EXCEPT ![low + 1] = i]]

\* mutant: a run is extended, never made better.
DealtGreedy(piles, keys, i) ==
  LET tails == piles.tails
      grows == tails = <<>> \/ Below(keys[Last(tails)], keys[i])
  IN  [previous |-> Append(piles.previous, IF tails = <<>> THEN 0 ELSE Last(tails)),
       tails |-> IF grows THEN Append(tails, i) ELSE tails]

\* One more key in the patience sort: tails[n] ends the best run of length n, and
\* `previous' is what comes before each in its run.
Dealt(piles, keys, i) ==
  LET low == Cardinality({n \in 1 .. Len(piles.tails) : Below(keys[piles.tails[n]], keys[i])})
      tails == piles.tails
  IN  [previous |-> Append(piles.previous, IF low = 0 THEN 0 ELSE tails[low]),
       tails |-> IF low = Len(tails) THEN Append(tails, i) ELSE [tails EXCEPT ![low + 1] = i]]

Run(piles, i) ==
  LET back[j \in 0 .. i] == IF j = 0 THEN {} ELSE {j} \cup back[piles.previous[j]]
  IN  back[i]

\* longestIncreasing(): the places of a longest run of increasing keys.
LongestIncreasing(keys) ==
  LET piles == FoldLeftDomain(LAMBDA acc, i :
                   IF keys[i] = NoKey THEN [acc EXCEPT !.previous = Append(@, 0)]
                   ELSE Dealt(acc, keys, i),
                 [previous |-> <<>>, tails |-> <<>>], keys)
  IN  IF piles.tails = <<>> THEN {} ELSE Run(piles, Last(piles.tails))

NextKept(keys, keep, i) ==
  LET later == {j \in keep : j > i} IN IF later = {} THEN NoKey ELSE keys[Min(later)]

\* The keys written, in order: a record that keeps its own is a bound for those beside
\* it.  The writes before one that throws stand.
Reslotted(order, keys, keep) ==
  FoldLeftDomain(LAMBDA acc, i :
      IF i \in keep THEN [acc EXCEPT !.lower = keys[i]]
      ELSE LET key == KeyBetween(acc.lower, NextKept(keys, keep, i))
           IN  IF acc.threw \/ key = NoKey THEN [acc EXCEPT !.threw = TRUE]
               ELSE [acc EXCEPT !.lower = key,
                                !.writes = Append(@, [id |-> order[i], kind |-> "set", key |-> key, late |-> FALSE])],
    [lower |-> NoKey, writes |-> <<>>, threw |-> FALSE], order)

\* The ids asked for that there are, then the rest as they were.
Order(list, ids) ==
  LET listed == SelectSeq(ids, LAMBDA id : id \in Has(list))
  IN  listed \o SelectSeq(Sorted(list), LAMBDA id : id \notin ToSet(listed))

Reconciled(list, ids) ==
  LET order == Order(list, ids)
      keys == [i \in DOMAIN order |-> list[order[i]]]
  IN  Reslotted(order, keys, LongestIncreasing(keys)).writes

-----------------------------------------------------------------------------
(* A list at several users.                                                *)

\* What a write makes of a list: "put" is a record whole, "set" its key, which needs
\* the record, "del" its end.
Wrote(list, w) ==
  IF w.kind = "del" THEN Without(list, w.id)
  ELSE IF w.kind = "set" /\ list[w.id] = Absent THEN list
  ELSE [list EXCEPT ![w.id] = w.key]

\* The list a user sees: what was heard of, its own ops again on top.
View(u) == FoldLeft(Wrote, base[u], FlattenSeq(queue[u]))

Edit(u, writes) ==
  /\ edits < MaxEdits /\ edits' = edits + 1
  /\ queue' = IF writes = <<>> THEN queue ELSE [queue EXCEPT ![u] = Append(@, writes)]
  /\ UNCHANGED <<state, base>>

Write(id, kind, key) == [id |-> id, kind |-> kind, key |-> key, late |-> FALSE]

\* add(): a record put in a list, one of that id giving way.
Add(u, id, index) ==
  LET others == Without(View(u), id)
  IN  /\ index \in 0 .. Cardinality(Has(others))
      /\ KeyFor(others, index) # NoKey
      /\ Edit(u, <<Write(id, "put", KeyFor(others, index))>>)

\* move(): nothing is written where the record is there already.
Move(u, id, index) ==
  LET others == Without(View(u), id)
  IN  /\ id \in Has(View(u))
      /\ index \in 0 .. Cardinality(Has(others))
      /\ IF There(others, index, View(u)[id]) THEN Edit(u, <<>>)
         ELSE /\ KeyFor(others, index) # NoKey
              /\ Edit(u, <<Write(id, "set", KeyFor(others, index))>>)

Delete(u, id) ==
  /\ id \in Has(View(u))
  /\ Edit(u, <<Write(id, "del", NoKey)>>)

\* The orders an app asks for, of some ids, some of which may not be there.
Asked == UNION {SetToSeqs(S) : S \in SUBSET Ids}

Reconcile(u, ids) == Edit(u, Reconciled(View(u), ids))

\* The server's own record, without a key.
Plain(id) ==
  /\ id \notin Has(state)
  /\ edits < MaxEdits /\ edits' = edits + 1
  /\ state' = Wrote(state, Write(id, "put", NoKey))
  /\ UNCHANGED <<base, queue>>

\* The server decides a user's first op, and the user hears what came of it and of all
\* before.  A write loses to another of the same record that came first and is newer.
Land(u) ==
  /\ queue[u] # <<>>
  /\ LET op == Head(queue[u])
     IN  \E lost \in SUBSET {i \in DOMAIN op : op[i].late} :
           LET landed == {i \in DOMAIN op : i \notin lost}
           IN  /\ state' = FoldLeftDomain(LAMBDA acc, i : IF i \in landed THEN Wrote(acc, op[i]) ELSE acc, state, op)
               /\ queue' = [v \in Users |->
                    IF v = u THEN Tail(queue[u])
                    ELSE [n \in DOMAIN queue[v] |-> [m \in DOMAIN queue[v][n] |->
                            [queue[v][n][m] EXCEPT !.late = @ \/ \E i \in landed : op[i].id = queue[v][n][m].id]]]]
  /\ base' = [base EXCEPT ![u] = state']
  /\ UNCHANGED edits

\* A user hears of what the others did.
Hear(u) ==
  /\ base[u] # state
  /\ base' = [base EXCEPT ![u] = state]
  /\ UNCHANGED <<state, queue, edits>>

Init ==
  /\ state \in Starts
  /\ base = [u \in Users |-> state]
  /\ queue = [u \in Users |-> <<>>]
  /\ edits = 0

Next ==
  \/ \E u \in Users, id \in Ids, index \in 0 .. Cardinality(Ids) : Add(u, id, index) \/ Move(u, id, index)
  \/ \E u \in Users, id \in Ids : Delete(u, id)
  \/ \E u \in Users, ids \in Asked : Reconcile(u, ids)
  \/ \E id \in Ids : Plain(id)
  \/ \E u \in Users : Land(u) \/ Hear(u)

Spec == Init /\ [][Next]_vars

-----------------------------------------------------------------------------
(* What is expected of it.                                                 *)

AllLists == {state} \cup {base[u] : u \in Users} \cup {View(u) : u \in Users}

\* Every key there is, the server's and those on the way, is one that keyBetween takes
\* (positions.js assertKey), on a record there can be.
TypeOK ==
  /\ \A list \in AllLists : \A id \in Has(list) : list[id] = NoKey \/ IsPositionKey(list[id])
  /\ \A u \in Users : \A n \in DOMAIN queue[u] : \A i \in DOMAIN queue[u][n] :
       LET w == queue[u][n][i]
       IN  w.id \in Ids /\ w.kind \in {"put", "set", "del"} /\ (w.kind # "del" => IsPositionKey(w.key))
  /\ edits \in 0 .. MaxEdits

Increasing(keys) == \A i, j \in DOMAIN keys : i < j => Below(keys[i], keys[j])

\* Wherever a list is parted, at an end or between two keys that differ, there is room
\* for three more keys, each well formed, in order and within the bounds, over the edges
\* where integers grow, shrink or run out (positions.js keysBetween, midpoint, carries).
RoomEverywhere ==
  \A list \in AllLists : \A index \in 0 .. Cardinality(Has(list)) :
    LET lower == Lower(KeysOf(list), index)
        upper == Upper(KeysOf(list), index)
        keys == KeysBetween(lower, upper, 3)
    IN  /\ Len(keys) = 3 /\ \A i \in 1 .. 3 : IsPositionKey(keys[i])
        /\ Increasing((IF lower = NoKey THEN <<>> ELSE <<lower>>) \o keys
                      \o (IF upper = NoKey THEN <<>> ELSE <<upper>>))

\* A place in a list where a key fits: among the records that have one, not inside a
\* group that ties.
Fits(keys, keyed, place) == place \in {0, keyed} \/ keys[place] # keys[place + 1]

\* Where a record asked for after `index' records should be: there, but past a group that
\* ties and before those without a key.
Place(list, index) ==
  LET keys == KeysOf(list)
      keyed == Cardinality({i \in DOMAIN keys : keys[i] # NoKey})
  IN  Min({place \in 0 .. keyed : place >= (IF index < keyed THEN index ELSE keyed) /\ Fits(keys, keyed, place)})

\* A record added or moved comes where the user asked, and nothing else moves, ties that
\* others' inserts at the same spot left and records without a key included (list.js
\* bounds, add, move).
PlacedWhereAsked ==
  [][edits' # edits => \A u \in Users, id \in Ids, index \in 0 .. Cardinality(Ids) :
       Add(u, id, index) \/ Move(u, id, index) =>
         LET others == Without(View(u), id)
         IN  Sorted(View(u)') = InsertAt(Sorted(others), Place(others, index) + 1, id)]_vars

\* An app's order is the list's once it is reconciled, whatever ties and records without
\* a key there were (list.js reconcile).
ReconciledAgrees ==
  [][edits' # edits => \A u \in Users, ids \in Asked :
       Reconcile(u, ids) => Sorted(View(u)') = Order(View(u), ids)]_vars

\* The records that may keep their keys: in that order already.
Kept(list, order) ==
  {S \in SUBSET DOMAIN order :
     /\ \A i \in S : list[order[i]] # NoKey
     /\ \A i, j \in S : i < j => Below(list[order[i]], list[order[j]])}

\* No fewer records could have been written (list.js:13, longestIncreasing).
ReconciledWithFewest ==
  [][edits' # edits => \A u \in Users, ids \in Asked :
       Reconcile(u, ids) =>
         LET order == Order(View(u), ids)
             wrote == IF queue' = queue THEN 0 ELSE Len(Last(queue'[u]))
         IN  wrote = Len(order) - Max({Cardinality(S) : S \in Kept(View(u), order)})]_vars

\* A record put at an end gets an integer: keys grow a fraction only between two others,
\* or where integers run out (positions.js:13).
EndsCount ==
  \A list \in AllLists :
    LET keys == SelectSeq(KeysOf(list), LAMBDA k : k # NoKey)
    IN  keys # <<>> =>
          /\ IntegerPart(Last(keys)) # Whole(Heads, Base - 1) => Fraction(KeyBetween(Last(keys), NoKey)) = <<>>
          /\ IntegerPart(keys[1]) # Smallest => Fraction(KeyBetween(NoKey, keys[1])) = <<>>

===========================================================================
