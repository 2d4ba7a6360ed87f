----------------------------- MODULE MergeDoc -----------------------------
(***************************************************************************)
(* The merge rule (src/core/doc.js): a store's records, a clock for each   *)
(* with a time per path, and what a change at a time makes of them, as the *)
(* server decides a replica's op, writes as the authority, and as a client *)
(* takes over what the server decided.                                     *)
(*                                                                         *)
(* A record is a tree: a function from its paths to leaves, or to Obj for  *)
(* a container.  A record names its parent record in the field Link, which *)
(* stands for `parents' of a collection whose records nest in each other.  *)
(* The times of a path are 0 where doc.js has none.  Records held whole    *)
(* (registers) are leaves here; singletons are records nobody deletes.     *)
(***************************************************************************)
EXTENDS Naturals, Sequences, SequencesExt

CONSTANTS
  Records,
  Paths,        \* the paths inside a record, its root <<>> included
  Link,         \* the path of the field that names the parent
  Obj,          \* a container
  Null,         \* what a deletion writes
  Asked,        \* the changes replicas and the server ask for: [r, p, v]
  Ops,          \* what replicas ask for: sequences of those
  ServerDels,   \* the paths the server deletes (store.del)
  MaxTime,      \* bound: the store's time
  MaxSteps,     \* bound: changes decided
  MaxLog        \* how many of the last changes the store keeps (deltaLog)

Root == <<>>
Above(p) == {SubSeq(p, 1, n) : n \in 0 .. Len(p) - 1}
Covering(p) == Above(p) \cup {p}
Beneath(p) == {q \in Paths : p \in Above(q)}

ASSUME MergeAssumption ==
  /\ Root \in Paths /\ Link \in Paths /\ Len(Link) = 1
  /\ \A p \in Paths : Above(p) \subseteq Paths
  /\ \A c \in Asked : c.r \in Records /\ c.p \in Paths
  /\ Ops \subseteq Seq(Asked)
  /\ Obj \notin Records /\ Null # Obj
  /\ MaxTime \in Nat /\ MaxSteps \in Nat /\ MaxLog \in Nat

VARIABLES
  doc,     \* the store's records and their clocks
  disk,    \* the store's rows, as last committed
  copy,    \* a client's base, told of every change that landed; it keeps no clocks
  log,     \* the last of those, stored: [ts, changes]
  wrote,   \* when each path of a record was last written or deleted, in truth
  now,     \* the store's time
  floor,   \* the latest cutoff: an op older is refused (retention)
  steps    \* how many changes were decided

vars == <<doc, disk, copy, log, wrote, now, floor, steps>>

-----------------------------------------------------------------------------
(* A record and its clock.                                                 *)

Nothing == [p \in {} |-> 0]
NoRecord == [data |-> Nothing, at |-> 0, live |-> Nothing, gone |-> Nothing]

Exists(rec) == rec.data # Nothing
Held(rec, p) == p \in DOMAIN rec.data
IsObj(rec, p) == Held(rec, p) /\ rec.data[p] = Obj

Without(f, S) == [p \in DOMAIN f \ S |-> f[p]]

LiveAt(rec, p) == IF p \in DOMAIN rec.live THEN rec.live[p] ELSE rec.at
GoneAt(rec, p) == IF p \in DOMAIN rec.gone THEN rec.gone[p] ELSE 0

\* setLive() for several paths: an entry, unless it says no more than `at'.
Lived(rec, S, ts) ==
  IF ts = rec.at THEN Without(rec.live, S)
  ELSE [p \in DOMAIN rec.live \cup S |-> IF p \in S THEN ts ELSE rec.live[p]]

\* maxOf(): whether anything in the record is newer.
NewerIn(rec, ts) ==
  \/ rec.at > ts
  \/ \E p \in DOMAIN rec.live : rec.live[p] > ts
  \/ \E p \in DOMAIN rec.gone : rec.gone[p] > ts

\* mutant: a deletion beneath is not looked for.
NewerBeneathLive(rec, p, ts) ==
  \/ rec.at > ts
  \/ \E q \in Beneath(p) \cap DOMAIN rec.live : rec.live[q] > ts

NewerBeneath(rec, p, ts) ==
  \/ rec.at > ts
  \/ \E q \in Beneath(p) \cap DOMAIN rec.live : rec.live[q] > ts
  \/ \E q \in Beneath(p) \cap DOMAIN rec.gone : rec.gone[q] > ts

\* A record made, or written whole (stamp at the root).
Made(tree, ts) == [data |-> tree, at |-> ts, live |-> Nothing, gone |-> Nothing]

\* `missing' made containers, on the way to a path.
BuiltOver(base, missing, ts) ==
  LET cleared == [base EXCEPT !.live = Without(@, missing), !.gone = Without(@, missing)]
  IN  [cleared EXCEPT
         !.data = [q \in DOMAIN @ \cup missing |-> IF q \in missing THEN Obj ELSE @[q]],
         !.live = Lived(cleared, missing, ts)]

Begun(rec, ts) == IF Exists(rec) THEN rec ELSE Made([q \in {Root} |-> Obj], ts)

\* mutant: a leaf on the way stays.
BuiltWhereNothing(rec, p, ts) ==
  LET base == Begun(rec, ts) IN BuiltOver(base, {q \in Above(p) : ~Held(base, q)}, ts)

\* What the server's own write, or a patch already decided, makes on the way to p.
Built(rec, p, ts) ==
  LET base == Begun(rec, ts) IN BuiltOver(base, {q \in Above(p) : ~IsObj(base, q)}, ts)

\* The paths a value written at p takes up.
Taken(p, v) == IF v = Null THEN {} ELSE {p \o q : q \in DOMAIN v}

\* v written at p, which is not the root, or p deleted; `dropped' goes, and the times of
\* `forgot'.  An object put where nothing was is stamped path by path, anything else at
\* p alone.
WrittenOver(rec, p, v, ts, dropped, forgot) ==
  LET taken == Taken(p, v)
      cleared == [rec EXCEPT !.live = Without(@, forgot), !.gone = Without(@, forgot)]
      stamped == IF v = Null THEN {} ELSE IF Held(rec, p) THEN {p} ELSE taken
  IN  [data |-> [q \in (DOMAIN rec.data \ dropped) \cup taken |->
                   IF q \in taken THEN v[SubSeq(q, Len(p) + 1, Len(q))] ELSE rec.data[q]],
       at |-> rec.at,
       live |-> Lived(cleared, stamped, ts),
       gone |-> IF v # Null THEN cleared.gone
                ELSE [q \in DOMAIN cleared.gone \cup {p} |->
                        IF q = p THEN ts ELSE cleared.gone[q]]]

\* The value at p, with what is in it where it is a container.
At(rec, p) == {p} \cup (IF IsObj(rec, p) THEN Beneath(p) ELSE {})

Written(rec, p, v, ts) == WrittenOver(rec, p, v, ts, At(rec, p), At(rec, p))

\* The changes a change comes apart into: an object put where a container is
\* is merged into it, path by path.
Pieces(rec, c) ==
  IF ~(IsObj(rec, c.p) /\ c.v # Null /\ c.v[Root] = Obj) THEN {c}
  ELSE {[r |-> c.r, p |-> c.p \o q, v |-> [s \in {s \in Paths : q \o s \in DOMAIN c.v} |-> c.v[q \o s]]] :
          q \in {q \in DOMAIN c.v \ {Root} :
                   /\ \A a \in Above(q) : IsObj(rec, c.p \o a)
                   /\ ~(IsObj(rec, c.p \o q) /\ c.v[q] = Obj)}}

-----------------------------------------------------------------------------
(* Deciding a change.                                                      *)

\* The children of a record: those that name it.
Kids(d, r) == {k \in Records : Held(d[k], Link) /\ d[k].data[Link] = r}

\* A record and all beneath it.
Subtree(d, r) ==
  {k \in Records : \A S \in SUBSET Records :
     (r \in S /\ \A s \in S : Kids(d, s) \subseteq S) => k \in S}

\* A parent named that is not there.
Orphaned(d, v) == v # Null /\ v[Root] \in Records /\ ~Exists(d[v[Root]])
OrphanedIn(d, tree) == Link \in DOMAIN tree /\ tree[Link] \in Records /\ ~Exists(d[tree[Link]])

Judging(mode) == mode = "judge"
Makes(mode) == mode \in {"authority", "trust"}

\* Whether a piece loses: under a container made after it, nowhere to go, or
\* something at or beneath it is newer.
Loses(rec, c, ts) ==
  \/ \E a \in Above(c.p) : LiveAt(rec, a) > ts
  \/ ~IsObj(rec, SubSeq(c.p, 1, Len(c.p) - 1))
  \/ LiveAt(rec, c.p) > ts \/ GoneAt(rec, c.p) > ts
  \/ IsObj(rec, c.p) /\ NewerBeneath(rec, c.p, ts)

Stays(d) == [doc |-> d, applied |-> <<>>]
Gone(d, S, said) ==
  [doc |-> [k \in Records |-> IF k \in S THEN NoRecord ELSE d[k]],
   applied |-> SetToSeq({[r |-> k, p |-> Root, v |-> Null] : k \in said})]

\* Whether a deletion comes to nothing: none there, or something in it or beneath is newer.
Stands(d, c, ts, mode) ==
  \/ ~Exists(d[c.r])
  \/ Judging(mode) /\ \E k \in Subtree(d, c.r) : NewerIn(d[k], ts)

\* mutants: nothing is said of the records that went with it; they stay.
RemovedSilently(d, c, ts, mode) ==
  LET went == IF mode = "trust" THEN {c.r} ELSE Subtree(d, c.r)
  IN  IF Stands(d, c, ts, mode) THEN Stays(d) ELSE Gone(d, went, {c.r})
RemovedAlone(d, c, ts, mode) ==
  IF Stands(d, c, ts, mode) THEN Stays(d) ELSE Gone(d, {c.r}, {c.r})

\* A record deleted, with every record beneath it but where each is told of.
Removed(d, c, ts, mode) ==
  LET went == IF mode = "trust" THEN {c.r} ELSE Subtree(d, c.r)
  IN  IF Stands(d, c, ts, mode) THEN Stays(d) ELSE Gone(d, went, went)

\* A record made.
Put(d, c, ts, mode) ==
  IF Judging(mode) /\ OrphanedIn(d, c.v) THEN Stays(d)
  ELSE [doc |-> [d EXCEPT ![c.r] = Made(c.v, ts)], applied |-> <<c>>]

\* A change inside a record.
Merged(d, c, ts, mode) ==
  LET rec == IF Makes(mode) /\ c.p # Root THEN Built(d[c.r], c.p, ts) ELSE d[c.r]
      lands(x) ==
        /\ Judging(mode) => /\ ~Loses(rec, x, ts)
                            /\ ~(x.p = Link /\ Orphaned(d, x.v))
        /\ x.v = Null => Held(rec, x.p)
      pieces == SetToSeq({x \in Pieces(rec, c) : lands(x)})
      new == <<[r |-> c.r, p |-> Root, v |-> [q \in {Root} |-> Obj]]>>
  IN  [doc |-> [d EXCEPT ![c.r] = FoldLeft(LAMBDA acc, x : Written(acc, x.p, x.v, ts), rec, pieces)],
       applied |-> (IF Exists(d[c.r]) \/ ~Makes(mode) THEN <<>> ELSE new) \o pieces]

\* run(): one change, decided.
Run(d, c, ts, mode) ==
  IF c.p = Root /\ c.v = Null THEN Removed(d, c, ts, mode)
  ELSE IF c.p = Root /\ ~Exists(d[c.r]) THEN Put(d, c, ts, mode)
  ELSE Merged(d, c, ts, mode)

\* mutants: what goes with a record is not noted; a record is noted again when it is
\* changed again.
NotedAlone(before, d, c, ts) == before @@ (c.r :> d[c.r])
NotedAgain(before, d, c, ts) == [r \in {c.r} \cup Subtree(d, c.r) |-> d[r]] @@ before

\* note(): each record a change touches as it was before the op first touched it, those
\* that go with it included.
Noted(before, d, c, ts) ==
  LET touched == IF c.p = Root /\ c.v = Null /\ ~Stands(d, c, ts, "judge")
                 THEN Subtree(d, c.r) ELSE {c.r}
  IN  before @@ [r \in touched |-> d[r]]

\* trial(): the changes of an op one after the other, and what they touched as it was.
Tried(d, op, ts) ==
  FoldLeft(LAMBDA acc, c :
             LET ran == Run(acc.doc, c, ts, "judge")
             IN  [doc |-> ran.doc, applied |-> acc.applied \o ran.applied,
                  before |-> Noted(acc.before, acc.doc, c, ts)],
           [doc |-> d, applied |-> <<>>, before |-> Nothing], op)

\* undo(): what a trial touched is put back, its clocks with it.
Undone(tried) == [r \in Records |-> (tried.before @@ tried.doc)[r]]

\* Changes taken over as they were decided (intoBase), by a doc that keeps no clocks.
Trusting(d, entry) ==
  LET taken == FoldLeft(LAMBDA acc, c : Run(acc, c, entry.ts, "trust").doc, d, entry.changes)
  IN  [r \in Records |-> Made(taken[r].data, 0)]

-----------------------------------------------------------------------------
(* The store, and a client told of what landed.                            *)

\* When each path was last written, in truth: a change covers the paths at and
\* beneath it; a record that is not there has no times.
Wrote(applied, ts) ==
  FoldLeft(LAMBDA acc, c :
             [acc EXCEPT ![c.r] =
                [q \in Paths |-> IF c.p = Root /\ c.v = Null THEN 0
                                 ELSE IF c.p \in Covering(q) THEN ts ELSE @[q]]],
           wrote, applied)

\* mutant: the rows of the first change alone.
RowsOfFirst(applied) == IF applied = <<>> THEN {} ELSE {applied[1].r}

\* rowsOf(): the records a commit writes.
Rows(applied) == {applied[i].r : i \in 1 .. Len(applied)}

\* mutant: what was made before the cutoff has its paths forgotten whatever is newer.
PrunedWhole(rec, cutoff) ==
  IF rec.at < cutoff THEN [rec EXCEPT !.at = 0, !.live = Nothing, !.gone = Nothing] ELSE rec

\* prune(): an entry older than the cutoff is dropped, once `at' is.
Pruned(rec, cutoff) ==
  LET at == IF rec.at < cutoff THEN 0 ELSE rec.at
      old(f) == {p \in DOMAIN f : f[p] < cutoff}
  IN  [rec EXCEPT !.at = at,
                  !.gone = Without(@, old(@)),
                  !.live = IF at = 0 THEN Without(@, old(@)) ELSE @]

Compacted(d, cutoff) == [r \in Records |-> Pruned(d[r], cutoff)]

\* landed(): the change is in, in the log and on its way, unless it came to nothing.
\* What is older than the cutoff is forgotten after (compact), once in a while.
Landed(result, ts, cutoff) ==
  LET entry == [ts |-> ts, changes |-> result.applied]
      stored == [r \in Records |-> IF r \in Rows(result.applied) THEN result.doc[r] ELSE disk[r]]
  IN  /\ steps < MaxSteps /\ steps' = steps + 1
      /\ doc' = Compacted(result.doc, cutoff)
      /\ disk' = [r \in Records |-> IF doc'[r] # result.doc[r] THEN doc'[r] ELSE stored[r]]
      /\ floor' = cutoff
      /\ wrote' = Wrote(result.applied, ts)
      /\ IF result.applied = <<>> THEN UNCHANGED <<copy, log>>
         ELSE /\ copy' = Trusting(copy, entry)
              /\ log' = LET all == Append(log, entry)
                        IN  SubSeq(all, IF Len(all) > MaxLog THEN 2 ELSE 1, Len(all))

\* A replica's op, stamped by the replica and no later than the store's time
\* (clamp, store.js:608), nor before what retention keeps track of (607).
Judge ==
  \E op \in Ops, ts \in 1 .. now, cutoff \in floor .. now :
    /\ ts >= floor
    /\ Landed(Tried(doc, op, ts), ts, cutoff)
    /\ UNCHANGED now

\* A rule refuses what the op made of the records, whatever it looks at: the op was
\* applied as a trial, and is undone.  Nothing is committed.
Refuse ==
  \E op \in Ops, ts \in 1 .. now :
    /\ ts >= floor
    /\ doc' = Undone(Tried(doc, op, ts))
    /\ UNCHANGED <<disk, copy, log, wrote, now, floor, steps>>

\* The server's own write (store.patch, a record at a time; store.del), later than
\* any other (clock.stamp).
Authority ==
  /\ now < MaxTime
  /\ now' = now + 1
  /\ \E c \in {a \in Asked : a.p = Root}
               \cup {[r |-> r, p |-> p, v |-> Null] : r \in Records, p \in ServerDels} :
       Landed(Run(doc, c, now', "authority"), now', floor)

\* Time passes.
Tick ==
  /\ now < MaxTime
  /\ now' = now + 1
  /\ UNCHANGED <<doc, disk, copy, log, wrote, floor, steps>>

\* The store is loaded from its rows: its clock starts at the newest time they and the
\* log hold, or later, and what is older than the cutoff is forgotten at once.
Reload ==
  \E time \in 1 .. now, cutoff \in floor .. now :
    /\ \A r \in Records : ~NewerIn(disk[r], time)
    /\ \A i \in 1 .. Len(log) : log[i].ts <= time
    /\ cutoff <= time
    /\ now' = time /\ floor' = cutoff
    /\ doc' = Compacted(disk, cutoff) /\ disk' = doc'
    /\ UNCHANGED <<copy, log, wrote, steps>>

Init ==
  /\ doc = [r \in Records |-> NoRecord]
  /\ disk = doc /\ copy = doc
  /\ log = <<>>
  /\ wrote = [r \in Records |-> [p \in Paths |-> 0]]
  /\ now = 1 /\ floor = 0 /\ steps = 0

Next == Judge \/ Refuse \/ Authority \/ Tick \/ Reload

Spec == Init /\ [][Next]_vars

-----------------------------------------------------------------------------
(* What is expected of it.                                                 *)

Times == 0 .. MaxTime
Values == Records \cup {Obj, "leaf"} \cup UNION {{c.v[p] : p \in DOMAIN c.v} : c \in {c \in Asked : c.v # Null}}

\* The store's records and a client's are trees with clocks; times are within bounds.
TypeOK ==
  /\ \A r \in Records : \A rec \in {doc[r], disk[r], copy[r]} :
       /\ DOMAIN rec.data \subseteq Paths /\ \A p \in DOMAIN rec.data : rec.data[p] \in Values
       /\ \A p \in DOMAIN rec.data : \A q \in Above(p) : IsObj(rec, q)
       /\ rec.at \in Times
       /\ \A f \in {rec.live, rec.gone} : DOMAIN f \subseteq Paths /\ \A p \in DOMAIN f : f[p] \in Times
  /\ wrote \in [Records -> [Paths -> Times]]
  /\ Len(log) <= MaxLog
  /\ now \in Times /\ floor \in Times /\ steps \in 0 .. MaxSteps

\* A client that takes over every change that landed holds the server's state: what a
\* merge does to the state, it says, deletions of children included (doc.js, store.js
\* landed, index.js intoBase).
CopyAgrees == \A r \in Records : copy[r].data = doc[r].data

\* The rows of the changes that landed, and of the clocks pruned, are all there is to
\* store: a store loaded again decides as this one would (store.js rowsOf, compact).
DiskAgrees == disk = doc

\* A clock keeps no time of what is not there but of deletions in a container that is,
\* and none that its record's birth already says (doc.js setLive, dropBeneath).
ClockFits ==
  \A r \in Records :
    LET rec == doc[r]
    IN  /\ DOMAIN rec.live \subseteq DOMAIN rec.data
        /\ \A p \in DOMAIN rec.live : rec.live[p] > rec.at
        /\ \A p \in DOMAIN rec.gone :
             ~Held(rec, p) /\ IsObj(rec, SubSeq(p, 1, Len(p) - 1)) /\ rec.gone[p] >= rec.at

\* What a change at ts at p of r should come to, by when each path was last written or
\* deleted: nothing at p or above it is newer, nor beneath a container it destroys.
Should(r, p, v, ts) ==
  /\ IF p = Root THEN Exists(doc[r]) ELSE IsObj(doc[r], SubSeq(p, 1, Len(p) - 1))
  /\ v = Null => Held(doc[r], p)
  /\ \A q \in Covering(p) : wrote[r][q] <= ts
  /\ IsObj(doc[r], p) => \A q \in Beneath(p) : wrote[r][q] <= ts
  /\ p = Root => \A k \in Subtree(doc, r), q \in Paths : wrote[k][q] <= ts

Does(r, p, v, ts) == Run(doc, [r |-> r, p |-> p, v |-> v], ts, "judge").applied # <<>>

Leaf == [q \in {Root} |-> "leaf"]

\* The clock, which drops what a container's time says, what went and what retention
\* forgets, decides every op that is not refused as a full history would (doc.js run,
\* stamp, dropBeneath, prune).
DecidesByTime ==
  \A r \in Records, p \in Paths : \A ts \in 1 .. now :
    ts >= floor =>
      /\ Does(r, p, Null, ts) <=> Should(r, p, Null, ts)
      /\ p # Root => (Does(r, p, Leaf, ts) <=> Should(r, p, Leaf, ts))

\* A client that hears again the last changes it took over (the answers of two hellos
\* overlap: index.js caughtUp) ends where it was.
ReplayIsHarmless ==
  \A n \in 1 .. Len(log) : FoldLeft(Trusting, copy, SubSeq(log, n, Len(log))) = copy

Orphan(d, k) == Exists(d[k]) /\ OrphanedIn(d, d[k].data)

\* An op a rule refuses leaves no trace: each record it changed, was made to delete or
\* made is as it was, and decides what comes later as it would have (rules.js judge,
\* doc.js trial, undo, note).
RefusedLeavesNothing ==
  [][UNCHANGED <<disk, log, wrote, now, floor, steps>> => UNCHANGED doc]_vars

\* A record comes to name a parent that is not there only when the server itself writes
\* it so: no deletion leaves a child behind, and no replica makes one (doc.js orphaned,
\* removeRecord).
NoOrphansMade ==
  [][\A k \in Records :
       Orphan(doc', k) => Orphan(doc, k) \/ (now' # now /\ doc'[k].data # doc[k].data)]_vars

===========================================================================
