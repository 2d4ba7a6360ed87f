-------------------------------- MODULE Replica --------------------------------
(***************************************************************************)
(* A replica over the life of its pages: what a client keeps in its        *)
(* storage adapter (src/client/persistence.js, indexeddb.js, storage.js,   *)
(* sqlite-bun.js) and comes back with, the large snapshots it fetches over *)
(* HTTP (src/client/snapshot-fetch.js, src/server/snapshot.js), and a      *)
(* store put back from a backup under it (src/client/index.js).            *)
(*                                                                         *)
(* A write has a number, and the records it writes.  The store's history   *)
(* is its writes in order; a record is the number of the last write to it, *)
(* 0 for none.  A store put back starts another life of it, from a prefix  *)
(* of its history: the epoch is the number of that life.  The link is two  *)
(* queues, and what an HTTP request brings arrives beside them.  Refusals, *)
(* rate limits and hellos too long for the outbox are in Sync.tla.         *)
(***************************************************************************)
EXTENDS Integers, Sequences, FiniteSets

CONSTANTS
  Records,    \* the records of the store
  Edits,      \* the sets of records that an edit may write
  Adapters,   \* the storage adapters tried, of AllAdapters
  DeltaLog,   \* the changes the store keeps for deltas
  Uses,       \* what may happen, of AllUses below
  MaxEdits,   \* bound: edits of the replica
  MaxWrites,  \* bound: writes of others
  MaxAll,     \* bound: all of these together, with the turns
  MaxTurns    \* bound: how often something goes wrong, or the app turns to the client

\* indexedDBStorage, whose writes land later and in order; sqliteClientStorage, whose
\* writes are done when made; and a document adapter, with its base written later.
AllAdapters == {"indexeddb", "sqlite", "document"}

\* "drop": the link drops; "die": a page dies, with what it had written; "kill": with
\* writes still on their way; "fetch": the link can fetch; "fetchfails": a request fails;
\* "again": the app asks for a hello; "crossed": before the last is answered;
\* "restore": the store is put back from a backup; "early": and what was sent before the end
\* is heard is read after; "destroy": another tab deletes the database.
AllUses == {"drop", "die", "kill", "fetch", "fetchfails", "again", "crossed", "restore",
            "early", "destroy"}

ASSUME ReplicaAssumption ==
  /\ Edits \subseteq (SUBSET Records) \ {{}} /\ Adapters \subseteq AllAdapters
  /\ DeltaLog \in Nat /\ Uses \subseteq AllUses
  /\ MaxEdits \in Nat /\ MaxWrites \in Nat /\ MaxTurns \in Nat /\ MaxAll \in Nat

VARIABLES
  adapter, \* the adapter of this replica
  c,       \* its client, in the page that is open
  disk,    \* what the adapter's storage holds
  writes,  \* the transactions begun and not landed
  remade,  \* "gone" once another tab deleted the database, "rewriting" until it is whole
  link, up, down, \* the socket and its two queues
  sess,    \* the socket has a session at the store
  lives,   \* the history of each life of the store, the last the one it is in
  floor,   \* the version its log begins after
  made,    \* how many writes were made
  mine,    \* those that are the replica's edits
  moot,    \* those that newer ones took over from
  told,    \* those made before a `reset' was told, or in the store not in what a page began with
  pages,   \* how many pages were opened
  turns    \* and how many turns things took

net == <<link, up, down, sess>>
kept == <<disk, writes, remade>>
store == <<lives, floor>>
ghost == <<made, mine, moot, told>>
vars == <<adapter, c, kept, net, store, ghost, pages, turns>>

Larger(a, b) == IF a > b THEN a ELSE b
Latest(places) == CHOOSE i \in places : \A j \in places : j <= i
Elements(s) == {s[i] : i \in DOMAIN s}

\* What of the sequence s is in S, in its order.
Kept(s, S) ==
  LET picked[i \in 0 .. Len(s)] ==
        IF i = 0 THEN <<>>
        ELSE IF s[i] \in S THEN Append(picked[i - 1], s[i]) ELSE picked[i - 1]
  IN  picked[Len(s)]

epoch == Len(lives)
history == lives[epoch]
version == Len(history)

\* intoBase(): decided changes onto the base; of a record the last write to it stays.
Laid(base, ops) ==
  [r \in Records |-> LET at == {i \in DOMAIN ops : r \in ops[i].recs}
                     IN  IF at = {} THEN base[r] ELSE ops[Latest(at)].n]

\* The records after a history, and the last op of the replica in it.
Blank == [r \in Records |-> 0]
StateOf(h) == Laid(Blank, h)
Mark(h, id) ==
  LET at == {i \in DOMAIN h : h[i].by = id} IN IF at = {} THEN 0 ELSE h[Latest(at)].seq
UpTo(h, v) == SubSeq(h, 1, v)

Turn == turns < MaxTurns /\ made + turns < MaxAll /\ turns' = turns + 1

-----------------------------------------------------------------------------
(* What the client writes (persistence.js).  Its functions go from client  *)
(* to client: `puts' gathers the writes, `out' what it sends.  A write     *)
(* takes the ops `drop' out, puts the ops `put' in, writes `rows' and the  *)
(* fields of `meta'.                                                       *)

Nowhere == [r \in {} |-> 0]

\* Every write has the meta with it.
OpsWrite(x, drop, put) ==
  [drop |-> drop, put |-> put, rows |-> Nowhere,
   id |-> x.id, seq |-> x.seq, v |-> x.v, epoch |-> x.epoch]

\* The outbox as one document (writeOutbox; storage.js keeps the same op by op).
OutboxWrite(x) == OpsWrite(x, Nat, Elements(x.outbox))

\* saveOp, removeOp and dropOps, which are a transaction each.
Wrote(x, ws) ==
  [x EXCEPT !.puts = @ \o IF adapter = "document" THEN <<OutboxWrite(x)>> ELSE ws]

RowsWrite(x, recs) == [OpsWrite(x, {}, {}) EXCEPT !.rows = [r \in recs |-> x.base[r]]]

\* The base changed for these records; all of them for a snapshot.
BaseWrite(x, recs) ==
  IF adapter = "document" THEN [x EXCEPT !.dirty = TRUE]
  ELSE [x EXCEPT !.puts = Append(@, RowsWrite(x, recs))]

\* The storage after a write landed.  A document adapter writes the version with the base.
Landed(d, w) ==
  [id |-> w.id, seq |-> w.seq,
   ops |-> {o \in d.ops : o.seq \notin w.drop} \cup w.put,
   rows |-> [r \in Records |-> IF r \in DOMAIN w.rows THEN w.rows[r] ELSE d.rows[r]],
   v |-> IF adapter = "document" THEN d.v ELSE w.v,
   epoch |-> IF adapter = "document" THEN d.epoch ELSE w.epoch]

\* And after writes that are done when made.
LandedAll(d, ws) ==
  LET after[i \in 0 .. Len(ws)] == IF i = 0 THEN d ELSE Landed(after[i - 1], ws[i])
  IN  after[Len(ws)]

\* rewrite(): all of it again, once the database was made anew.
Rewrite(x) ==
  <<RowsWrite(x, Records)>> \o [i \in DOMAIN x.outbox |-> OpsWrite(x, {}, {x.outbox[i]})]

Empty == [id |-> 0, seq |-> 0, ops |-> {}, rows |-> Blank, v |-> 0, epoch |-> 0]

-----------------------------------------------------------------------------
(* The client (index.js), and its fetcher (snapshot-fetch.js).             *)

Sent(x, msgs) == [x EXCEPT !.out = @ \o msgs]

\* cancel(): what was asked for is asked for no more, and what waited is dropped.
Cancelled(x) ==
  [x EXCEPT !.holds = FALSE, !.held = <<>>,
            !.asks = {[q EXCEPT !.mine = FALSE] : q \in @}]

\* hello().
Hello(x) ==
  LET msg == [t |-> "hello", id |-> x.id, ops |-> x.outbox, since |-> x.v, epoch |-> x.epoch,
              fetch |-> "fetch" \in Uses /\ ~x.failed]
  IN  Sent([x EXCEPT !.answered = IF x.outbox = <<>> THEN 0 ELSE x.outbox[Len(x.outbox)].seq], <<msg>>)

\* acknowledge().
Acknowledge(x, upTo) ==
  LET left == Kept(x.outbox, {o \in Elements(x.outbox) : o.seq > upTo})
      y == [x EXCEPT !.outbox = left]
  IN  IF left = x.outbox THEN x ELSE Wrote(y, <<OpsWrite(y, 1 .. upTo, {})>>)

Touched(ops) == UNION {ops[i].recs : i \in DOMAIN ops}

\* mutant: the version is moved before what the answer acknowledges is let go of.
CaughtUpAhead(x, m, base, recs) ==
  LET a == Acknowledge([x EXCEPT !.v = m.v, !.epoch = m.epoch], m.seq)
      b == BaseWrite([a EXCEPT !.base = base], recs)
      live == Kept(b.outbox, {o \in Elements(b.outbox) : o.seq > b.answered})
  IN  Sent([b EXCEPT !.synced = TRUE], [i \in DOMAIN live |-> [t |-> "op", op |-> live[i]]])

\* caughtUp(): the base is brought up to date, and what came after the hello is sent.
CaughtUp(x, m, base, recs) ==
  LET a == Acknowledge(x, m.seq)
      b == BaseWrite([a EXCEPT !.base = base, !.epoch = m.epoch, !.v = m.v], recs)
      live == Kept(b.outbox, {o \in Elements(b.outbox) : o.seq > b.answered})
  IN  Sent([b EXCEPT !.synced = TRUE,
                     !.reset = @ \/ (x.epoch # 0 /\ x.v > 0 /\ m.epoch # x.epoch)],
           [i \in DOMAIN live |-> [t |-> "op", op |-> live[i]]])

\* fetch(): a request of its own for what the answer points at.
Asked(x, m) ==
  LET y == Cancelled(x)
      request == [mine |-> TRUE, at |-> "sent", seq |-> m.seq, epoch |-> m.epoch,
                  life |-> 0, v |-> 0, base |-> Nowhere]
  IN  [y EXCEPT !.holds = TRUE, !.asks = @ \cup {request}]

\* A patch: passed over before the answer; one skipped asks for a catch-up.
HearPatch(x, m) ==
  IF ~x.synced THEN x
  ELSE IF m.v > x.v + 1 /\ x.epoch # 0 THEN Hello([x EXCEPT !.synced = FALSE])
  ELSE BaseWrite([x EXCEPT !.v = m.v, !.base = Laid(@, <<m.op>>)], m.op.recs)

\* handle(): while a snapshot is fetched, what comes waits for it, but for the store's end.
Handle(x, m) ==
  CASE x.holds /\ m.t # "closed" -> [x EXCEPT !.held = Append(@, m)]
    [] ~x.holds /\ m.t = "pointer" -> Asked(x, m)
    [] ~x.holds /\ m.t = "snapshot" -> CaughtUp(x, m, m.base, Records)
    [] ~x.holds /\ m.t = "delta" -> CaughtUp(x, m, Laid(x.base, m.ops), Touched(m.ops))
    [] ~x.holds /\ m.t = "patch" -> HearPatch(x, m)
    [] ~x.holds /\ m.t = "ack" -> Acknowledge([x EXCEPT !.v = Larger(@, m.v)], m.seq)
    [] m.t = "closed" -> [Cancelled(x) EXCEPT !.synced = FALSE, !.retry = TRUE]

Over(x) == [x EXCEPT !.holds = FALSE, !.held = <<>>]

\* What waited is handled in its order, but for the patches that a snapshot of version v has.
HandleHeld(x, held, v) ==
  LET after[i \in 0 .. Len(held)] ==
        IF i = 0 THEN x
        ELSE IF held[i].t = "patch" /\ held[i].v <= v THEN after[i - 1]
        ELSE Handle(after[i - 1], held[i])
  IN  after[Len(held)]

\* landed(): the snapshot that request q brought, and on it what waited and is not in it.
SnapshotLands(x, q) ==
  HandleHeld(CaughtUp(Over(x), [seq |-> q.seq, v |-> q.v, epoch |-> q.life], q.base, Records),
             x.held, q.v)

\* What waited, without the snapshot.
Resumed(x) == HandleHeld([Over(x) EXCEPT !.failed = TRUE], x.held, 0)

\* mutant: the client goes on without.
FetchFailsIdle(x) == Resumed(x)

\* failed(): what waited is handled, and the hello is said again without asking to fetch.
FetchFails(x) == Hello(Resumed(x))

-----------------------------------------------------------------------------
(* The page.                                                               *)

Off == [on |-> FALSE, id |-> 0, seq |-> 0, outbox |-> <<>>, base |-> Blank, epoch |-> 0,
        v |-> 0, synced |-> FALSE, answered |-> 0, holds |-> FALSE, held |-> <<>>,
        failed |-> FALSE, asks |-> {}, retry |-> FALSE, dirty |-> FALSE,
        reset |-> FALSE, out |-> <<>>, puts |-> <<>>]

\* What the handler under way did to the client, its storage and the link.
Does(x) ==
  /\ c' = [x EXCEPT !.out = <<>>, !.puts = <<>>, !.reset = FALSE]
  /\ up' = IF link' THEN up \o x.out ELSE up
  /\ IF adapter = "indexeddb"
       THEN writes' = writes \o x.puts /\ UNCHANGED disk
       ELSE disk' = LandedAll(disk, x.puts) /\ UNCHANGED writes
  /\ told' = IF x.reset THEN told \cup mine ELSE told

\* Ops in the order of their seqs.
InOrder(ops) ==
  CHOOSE s \in [1 .. Cardinality(ops) -> ops] :
    /\ Elements(s) = ops
    /\ \A i, j \in DOMAIN s : i < j => s[i].seq < s[j].seq

\* What a page starts from: what storage holds of a replica, or one of its own.
Loaded ==
  IF disk.id = 0 THEN [Off EXCEPT !.on = TRUE, !.id = pages + 1]
  ELSE [Off EXCEPT !.on = TRUE, !.id = disk.id, !.seq = disk.seq,
                   !.outbox = InOrder(disk.ops),
                   !.base = disk.rows, !.epoch = disk.epoch, !.v = disk.v]

\* Numbers of the writes of a history.
Numbers(h) == {h[i].n : i \in DOMAIN h}

\* Those decided in one life of the store or another.
Decided == UNION {Numbers(l) : l \in Elements(lives)}

\* The writes in the base of a client.
Shown(x) == IF x.epoch = 0 THEN {} ELSE Numbers(UpTo(lives[x.epoch], x.v))

\* What is decided and not in the base that a page starts with is counted as told, though
\* nobody is: the page knows that it is behind, and asks for what came since.
Opens(loaded) ==
  /\ ~c.on
  /\ pages' = pages + 1
  /\ c' = loaded
  /\ told' = told \cup ((mine \cap Decided) \ Shown(loaded))
  /\ UNCHANGED <<adapter, kept, net, store, made, mine, moot, turns>>

\* mutant: the page numbers its ops after those it finds pending.
OpenPageRenumbered == Opens([Loaded EXCEPT !.seq = Len(Loaded.outbox)])

\* load() and build().
OpenPage == Opens(Loaded)

Unlinked == link' = FALSE /\ up' = <<>> /\ down' = <<>> /\ sess' = FALSE

\* The page is gone, with the timers it had set and the writes it had under way.
Die ==
  /\ c.on /\ "die" \in Uses /\ Turn
  /\ (writes = <<>> /\ remade = "no") \/ "kill" \in Uses
  /\ c' = Off
  /\ writes' = <<>>
  /\ remade' = "no"
  /\ Unlinked
  /\ UNCHANGED <<adapter, disk, store, ghost, pages>>

\* Nothing is sent to the store while the end of it is on its way.
Quiet == "early" \in Uses \/ ~\E m \in Elements(down) : m.t = "closed"

\* A local batch: an op in place of what older pending ones wrote beneath it (supersede).
Edit ==
  /\ c.on /\ Cardinality(mine) < MaxEdits /\ Quiet
  /\ made + turns < MaxAll /\ made' = made + 1
  /\ \E recs \in Edits :
       LET op == [n |-> made', by |-> c.id, seq |-> c.seq + 1, recs |-> recs]
           less == [i \in DOMAIN c.outbox |-> [c.outbox[i] EXCEPT !.recs = @ \ recs]]
           left == Kept(less, {o \in Elements(less) : o.recs # {}})
           changed == Kept(left, Elements(left) \ Elements(c.outbox))
           removed == Kept(less, {o \in Elements(less) : o.recs = {}})
           x == [c EXCEPT !.seq = op.seq, !.outbox = Append(left, op)]
           y == Wrote(x, [i \in DOMAIN changed |-> OpsWrite(x, {changed[i].seq}, {changed[i]})]
                         \o [i \in DOMAIN removed |-> OpsWrite(x, {removed[i].seq}, {})]
                         \o <<OpsWrite(x, {op.seq}, {op})>>)
       IN  /\ mine' = mine \cup {op.n}
           /\ moot' = moot \cup Numbers(removed)
           /\ UNCHANGED <<adapter, remade, link, down, sess, store, pages, turns>>
           /\ Does(IF link /\ y.synced THEN Sent(y, <<[t |-> "op", op |-> op]>>) ELSE y)

\* A new socket (onOpen).
Open ==
  /\ c.on /\ ~link
  /\ link' = TRUE
  /\ UNCHANGED <<adapter, remade, down, sess, store, made, mine, moot, pages, turns>>
  /\ Does(Hello([Cancelled(c) EXCEPT !.failed = FALSE, !.synced = FALSE]))

\* The socket is gone (onClose).
Drop ==
  /\ link /\ "drop" \in Uses /\ Turn
  /\ c' = [Cancelled(c) EXCEPT !.synced = FALSE]
  /\ Unlinked
  /\ UNCHANGED <<adapter, kept, store, ghost, pages>>

\* The next message on the socket.
Hear ==
  /\ c.on /\ down # <<>>
  /\ down' = Tail(down)
  /\ UNCHANGED <<adapter, remade, link, sess, store, made, mine, moot, pages, turns>>
  /\ Does(Handle(c, Head(down)))

\* Hellos the client said and answers that it has not handled.
Crossing ==
  {m \in Elements(up) \cup Elements(down) \cup Elements(c.held) :
     m.t \in {"hello", "pointer", "snapshot", "delta"}}

\* No hello crosses another.
Settled == "crossed" \in Uses \/ (Crossing = {} /\ ~c.holds)

\* The timer of retryHello.
Retry ==
  /\ c.retry /\ Settled
  /\ UNCHANGED <<adapter, remade, link, down, sess, store, made, mine, moot, pages, turns>>
  /\ Does(IF link THEN Hello([c EXCEPT !.retry = FALSE]) ELSE [c EXCEPT !.retry = FALSE])

\* The app asks for another hello (wantPresence).
Again ==
  /\ "again" \in Uses /\ link /\ ~c.retry /\ Turn
  /\ Settled
  /\ UNCHANGED <<adapter, remade, link, down, sess, store, made, mine, moot, pages>>
  /\ Does(Hello(c))

\* mutant: a request that was let go of is taken all the same.
CurrentAny(q) == c.holds

\* Whether request q is still the one under way.
Current(q) == q.mine

\* A request is answered; one let go of meanwhile is dropped (current).
Fetched ==
  /\ \E q \in c.asks :
       LET x == [c EXCEPT !.asks = @ \ {q}]
       IN  /\ q.at \in {"body", "failed"} /\ Quiet
           /\ UNCHANGED <<adapter, remade, link, down, sess, store, made, mine, moot, pages, turns>>
           /\ Does(IF ~Current(q) THEN x
                   ELSE IF q.at = "body" THEN SnapshotLands(x, q) ELSE FetchFails(x))

-----------------------------------------------------------------------------
(* Its storage.                                                            *)

\* A transaction of IndexedDB lands, in the order it was made (write).
Land ==
  /\ writes # <<>> /\ remade # "gone"
  /\ disk' = Landed(disk, Head(writes))
  /\ writes' = Tail(writes)
  /\ remade' = IF Len(writes) = 1 THEN "no" ELSE remade
  /\ UNCHANGED <<adapter, c, net, store, ghost, pages, turns>>

\* Another tab deletes the database (destroy), and this one steps aside (onversionchange).
Destroy ==
  /\ "destroy" \in Uses /\ adapter = "indexeddb" /\ c.on /\ remade = "no" /\ Turn
  /\ disk' = Empty
  /\ remade' = "gone"
  /\ UNCHANGED <<adapter, c, writes, net, store, ghost, pages>>

\* The next write opens it again, finds it made anew, and has the client write it all
\* again after the writes that wait (onReset).
Reopen ==
  /\ remade = "gone" /\ writes # <<>>
  /\ writes' = writes \o Rewrite(c)
  /\ remade' = "rewriting"
  /\ UNCHANGED <<adapter, c, disk, net, store, ghost, pages, turns>>

\* The base of a document adapter, once changes settled or as the page hides (writeBase).
WriteBase ==
  /\ c.dirty
  /\ disk' = [id |-> disk.id, seq |-> disk.seq, ops |-> disk.ops,
              rows |-> c.base, v |-> c.v, epoch |-> c.epoch]
  /\ c' = [c EXCEPT !.dirty = FALSE]
  /\ UNCHANGED <<adapter, writes, remade, net, store, ghost, pages, turns>>

-----------------------------------------------------------------------------
(* The server.                                                             *)

\* The history is h from here on, its log trimmed to DeltaLog changes.
Grown(h) ==
  /\ lives' = [lives EXCEPT ![epoch] = h]
  /\ floor' = Larger(floor, Len(h) - DeltaLog)

\* The patches of the changes after version v.
Patches(h, v) == [i \in 1 .. Len(h) - v |-> [t |-> "patch", v |-> v + i, op |-> h[v + i]]]

\* catchUp(): a delta, a snapshot, or where to fetch it.
Answer(h, m) ==
  LET seq == Mark(h, m.id)
  IN  IF m.epoch = epoch /\ m.since >= floor' /\ m.since <= Len(h)
        THEN [t |-> "delta", seq |-> seq, v |-> Len(h), epoch |-> epoch,
              ops |-> SubSeq(h, m.since + 1, Len(h))]
      ELSE IF m.fetch THEN [t |-> "pointer", seq |-> seq, v |-> Len(h), epoch |-> epoch]
      ELSE [t |-> "snapshot", seq |-> seq, v |-> Len(h), epoch |-> epoch, base |-> StateOf(h)]

\* A hello, or an op on its own: decided, unless it was before.
Receive ==
  /\ up # <<>>
  /\ up' = Tail(up)
  /\ sess' = TRUE
  /\ UNCHANGED <<adapter, c, kept, link, ghost, pages, turns>>
  /\ LET m == Head(up)
         id == IF m.t = "hello" THEN m.id ELSE m.op.by
         sent == IF m.t = "hello" THEN m.ops ELSE <<m.op>>
         new == Kept(sent, {o \in Elements(sent) : o.seq > Mark(history, id)})
         h == history \o new
         answer == IF m.t = "hello" THEN Answer(h, m)
                   ELSE [t |-> "ack", seq |-> m.op.seq, v |-> Len(h)]
     IN  /\ Grown(h)
         /\ down' = down \o Patches(h, version) \o <<answer>>

OthersWrite ==
  /\ made - Cardinality(mine) < MaxWrites
  /\ made + turns < MaxAll /\ made' = made + 1
  /\ \E recs \in Edits :
       LET h == Append(history, [n |-> made', by |-> 0, seq |-> 0, recs |-> recs])
       IN  /\ Grown(h)
           /\ down' = IF sess THEN down \o Patches(h, version) ELSE down
  /\ UNCHANGED <<adapter, c, kept, link, up, sess, mine, moot, told, pages, turns>>

\* The store is put back from a backup (restore): its sessions are told that it was
\* unloaded, and the document is served under an epoch of its own, with no log.
Restore ==
  /\ "restore" \in Uses /\ Turn
  /\ "early" \in Uses \/ ~sess \/ (up = <<>> /\ Crossing = {})
  /\ \E v \in 0 .. version :
       /\ lives' = Append(lives, UpTo(history, v))
       /\ floor' = v
  /\ sess' = FALSE
  /\ down' = IF sess THEN Append(down, [t |-> "closed"]) ELSE down
  /\ UNCHANGED <<adapter, c, kept, link, up, ghost, pages>>

\* serveSnapshot(): the store is resolved, and its state read with its version and epoch.
Serve ==
  /\ \E q \in c.asks :
       /\ q.at = "sent"
       /\ c' = [c EXCEPT !.asks = (@ \ {q}) \cup
                  {[q EXCEPT !.at = "body", !.life = epoch, !.v = version, !.base = StateOf(history)]}]
  /\ UNCHANGED <<adapter, kept, net, store, ghost, pages, turns>>

\* The request is refused, or the network fails it.
NotServed ==
  /\ "fetchfails" \in Uses /\ Turn
  /\ \E q \in c.asks :
       /\ q.at = "sent"
       /\ c' = [c EXCEPT !.asks = (@ \ {q}) \cup {[q EXCEPT !.at = "failed"]}]
  /\ UNCHANGED <<adapter, kept, net, store, ghost, pages>>

-----------------------------------------------------------------------------
Init ==
  /\ adapter \in Adapters
  /\ c = Off
  /\ disk = Empty /\ writes = <<>> /\ remade = "no"
  /\ link = FALSE /\ up = <<>> /\ down = <<>> /\ sess = FALSE
  /\ lives = <<<<>>>> /\ floor = 0
  /\ made = 0 /\ mine = {} /\ moot = {} /\ told = {}
  /\ pages = 0 /\ turns = 0

Client == OpenPage \/ Die \/ Edit \/ Open \/ Drop \/ Hear \/ Retry \/ Again \/ Fetched
Storage == Land \/ Destroy \/ Reopen \/ WriteBase
Server == Receive \/ OthersWrite \/ Restore \/ Serve \/ NotServed
Next == Client \/ Storage \/ Server

Spec == Init /\ [][Next]_vars

\* A page loads and connects, what was sent is read, a request is answered one way or
\* another, and timers fire.
Served == OpenPage \/ Open \/ Hear \/ Retry \/ Fetched \/ Receive \/ Serve

\* Whether something may: the guards of Served.
MayServe ==
  \/ ~c.on \/ ~link \/ up # <<>> \/ down # <<>> \/ (c.retry /\ Settled)
  \/ \E q \in c.asks : q.at = "sent" \/ Quiet

\* Weak fairness of Served, with ENABLED spelled out: a handler always can.
FairSpec == Spec /\ ([]<>~MayServe \/ []<><<Served>>_vars)

-----------------------------------------------------------------------------
Ops == [n : 1 .. MaxEdits + MaxWrites, by : 0 .. MaxTurns + 1, seq : 0 .. MaxEdits,
        recs : SUBSET Records]

\* What is written down, kept in memory and kept in storage has its types, the outbox is in
\* the order of its seqs, and nothing waits but for a request under way.
TypeOK ==
  /\ c.on \in BOOLEAN /\ c.seq \in 0 .. MaxEdits /\ c.v \in Nat /\ c.epoch \in 0 .. MaxTurns + 1
  /\ Elements(c.outbox) \subseteq Ops
  /\ \A i, j \in DOMAIN c.outbox : i < j => c.outbox[i].seq < c.outbox[j].seq
  /\ c.base \in [Records -> 0 .. made]
  /\ c.holds = (\E q \in c.asks : q.mine)
  /\ disk.ops \subseteq Ops /\ disk.rows \in [Records -> 0 .. made]
  /\ disk.seq \in 0 .. MaxEdits /\ disk.v \in Nat /\ disk.epoch \in 0 .. MaxTurns + 1
  /\ \A l \in Elements(lives) : Elements(l) \subseteq Ops
  /\ floor \in 0 .. version

\* Rows that are kept as of version v of a history are the whole of it once what came
\* after v is laid on them: they may be ahead of v, never behind.
Completes(rows, v, h) ==
  v <= Len(h) /\ Laid(rows, SubSeq(h, v + 1, Len(h))) = StateOf(h)

\* The base of a synced client is never behind the version it says, in the life it says,
\* whatever a fetched snapshot crossed with (snapshot-fetch.js:77): a patch the snapshot has
\* already may still come after it, and puts both back until the next ones come.
BaseIsWhole == c.on /\ c.synced => Completes(c.base, c.v, lives[c.epoch])

\* Nor is what storage would give back now, whenever a page dies (persistence.js:25,
\* indexeddb.js:24).
DiskIsWhole == disk.epoch = epoch /\ remade = "no" => Completes(disk.rows, disk.v, history)

\* Once its writes have landed storage has the outbox, and the last number given out: a
\* database deleted under the page is written again (indexeddb.js:19-25).
OutboxIsKept ==
  c.on /\ writes = <<>> /\ remade = "no" =>
    disk.ops = Elements(c.outbox) /\ (c.seq > 0 => disk.seq = c.seq)

\* An edit is pending, taken over from, in the store, or was made before a `reset' was
\* told (index.js:464).  `told' has also what was decided and is not in the base that a
\* page loads: nobody is told of that, and should it be gone from the store by the time
\* the page is answered, put back from a backup, this property does not say so.
EditsAreAccounted ==
  mine \subseteq moot \cup told
         \cup (IF c.on THEN Numbers(c.outbox) ELSE {o.n : o \in disk.ops})
         \cup (IF c.on /\ c.synced /\ c.epoch = epoch THEN Numbers(history) ELSE Decided)

\* A pending edit leaves the outbox once the base has it, so it does not flicker away.
OwnEditsStay ==
  [][c.on /\ c'.on => Numbers(c.outbox) \ Numbers(c'.outbox) \subseteq moot' \cup told' \cup Shown(c')]_vars

\* In the end the page has all of the store and nothing pending.
Converges ==
  <>[](c.on /\ c.synced /\ c.epoch = epoch /\ c.outbox = <<>> /\ c.base = StateOf(history))

================================================================================
