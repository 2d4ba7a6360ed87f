------------------------------ MODULE Replica_inv ------------------------------
(***************************************************************************)
(* The inductive invariant of Replica.tla, in parts: what a base, the ops  *)
(* of a replica and its storage are to the lives of the store, and what    *)
(* each message that is still to be read says that stays true until it is. *)
(* It holds where no hello crosses another, nothing is sent to the store   *)
(* before its end is heard, and pages die with their writes done.          *)
(***************************************************************************)
EXTENDS Replica

\* Ops and rows.
Op == [n : Nat, by : Nat, seq : Nat, recs : SUBSET Records]
Rows == [Records -> Nat]

\* The ops are in the order of their seqs.
Ascends(s) == \A i, j \in DOMAIN s : i < j => s[i].seq < s[j].seq

\* Of no change after the k-th is r a record.
NoneAfter(ops, k, r) == \A i \in k + 1 .. Len(ops) : r \notin ops[i].recs

\* Rows have what a history h of the store has, but for what it wrote after version v:
\* that may be there or not.
AsOf(rows, v, h) ==
  /\ v <= Len(h)
  /\ \A r \in Records : NoneAfter(h, v, r) => rows[r] = StateOf(h)[r]

\* Among the first v writes of h is op o, of which only the records may be others.
Has(h, v, o) == \E k \in 1 .. v : h[k].n = o.n /\ h[k].by = o.by /\ h[k].seq = o.seq

\* Where h has an op of that replica with this seq or a later one, it has had this one.
Gapless(h, o) == \A j \in DOMAIN h : h[j].by = o.by /\ h[j].seq >= o.seq => Has(h, j, o)

\* The same op, of which only the records may be others.
Same(p, o) == p.n = o.n /\ p.seq = o.seq

-------------------------------------------------------------------------------
(* Types.                                                                  *)

Patch == [t : {"patch"}, v : Nat, op : Op]
Ack == [t : {"ack"}, seq : Nat, v : Nat]
Pointer == [t : {"pointer"}, seq : Nat, v : Nat, epoch : Nat]
Delta == [t : {"delta"}, seq : Nat, v : Nat, epoch : Nat, ops : Seq(Op)]
Snapshot == [t : {"snapshot"}, seq : Nat, v : Nat, epoch : Nat, base : Rows]
Closing == [t : {"closed"}]
DownMessage == Patch \cup Ack \cup Pointer \cup Delta \cup Snapshot \cup Closing

HelloMessage == [t : {"hello"}, id : Nat, ops : Seq(Op), since : Nat, epoch : Nat, fetch : BOOLEAN]
OpMessage == [t : {"op"}, op : Op]
UpMessage == HelloMessage \cup OpMessage

Request ==
  [mine : BOOLEAN, at : {"sent", "body", "failed"}, seq : Nat, epoch : Nat, life : Nat, v : Nat,
   base : Rows \cup {Nowhere}]
Write ==
  [drop : SUBSET Nat, put : SUBSET Op, rows : UNION {[R -> Nat] : R \in SUBSET Records},
   id : Nat, seq : Nat, v : Nat, epoch : Nat]

Page ==
  [on : BOOLEAN, id : Nat, seq : Nat, outbox : Seq(Op), base : Rows, epoch : Nat, v : Nat,
   synced : BOOLEAN, answered : Nat, holds : BOOLEAN, held : Seq(DownMessage), failed : BOOLEAN,
   asks : SUBSET Request, retry : BOOLEAN, dirty : BOOLEAN, reset : BOOLEAN,
   out : Seq(UpMessage), puts : Seq(Write)]

-------------------------------------------------------------------------------
(* A replica, and the lives ls of the store: wherever it is kept.          *)

\* The history of the store.
Now(ls) == ls[Len(ls)]

\* The lives of a store that has seen pg pages.
Lives(ls, pg) ==
  /\ ls \in Seq(Seq(Op)) /\ Len(ls) >= 1
  /\ \A e \in 1 .. Len(ls) : \A j \in 1 .. Len(ls[e]) : ls[e][j].by <= pg

\* Rows of version v of life e, or of none.
Whole(rows, v, e, ls) ==
  /\ rows \in Rows /\ v \in Nat /\ e \in 0 .. Len(ls)
  /\ IF e = 0 THEN v = 0 ELSE AsOf(rows, v, ls[e])

\* Its ops are its own, and no life of the store has one with an earlier one missing.
Owns(id, seq, ops, ls) ==
  /\ \A o \in ops : o \in Op /\ o.by = id /\ o.seq \in 1 .. seq
  /\ \A o \in ops : \A e \in 1 .. Len(ls) : Gapless(ls[e], o)
  /\ \A e \in 1 .. Len(ls) : \A j \in 1 .. Len(ls[e]) : ls[e][j].by = id => ls[e][j].seq <= seq

\* An edit that is not explained otherwise (of un) is pending or in the store.
Explains(ops, v, e, un, ls) == un \ {o.n : o \in ops} \subseteq IF v = 0 THEN {} ELSE Numbers(ls[e])

-------------------------------------------------------------------------------
(* A client x, what is still to come to it (s), of which the k-th says     *)
(* that the store ended (k is 0 if none does), and what is to come from    *)
(* it (u); ss says whether its socket has a session.                       *)

\* A page of the replica: its ops and its base.
PageOK(x, ls, pg) ==
  /\ x \in Page /\ x.on /\ x.id \in 1 .. pg /\ Ascends(x.outbox)
  /\ Owns(x.id, x.seq, Elements(x.outbox), ls)
  /\ Whole(x.base, x.v, x.epoch, ls)

\* The pending ops up to a seq are in the first v writes of h.
Covered(x, seq, h, v) == \A o \in Elements(x.outbox) : o.seq <= seq => Has(h, v, o)

\* The answers to a hello, the version a message is laid on, and the first of those to come.
Answers(m) == m.t \in {"pointer", "snapshot", "delta"}
From(m) == IF m.t = "patch" THEN m.v - 1 ELSE m.v
Start(s, ls) == IF s = <<>> THEN Len(Now(ls)) ELSE From(s[1])

\* The versions of the messages follow one another.
Chained(s, k, ls, ss) ==
  /\ s \in Seq(DownMessage) /\ k \in 0 .. Len(s)
  /\ \A i \in 1 .. Len(s) : s[i].t = "closed" <=> i = k
  /\ \A i \in 1 .. Len(s) - 1 : i # k /\ i + 1 # k => From(s[i + 1]) = s[i].v
  /\ Len(s) # k => ss /\ s[Len(s)].v = Len(Now(ls))
  /\ \A i \in k + 1 .. Len(s) : s[i].v <= Len(Now(ls))

\* A patch has what the life it is of has; nobody looks at those of an earlier one unless synced.
PatchOK(x, m, old, ls) ==
  /\ m.v >= 1
  /\ ~old => m.op = Now(ls)[m.v]
  /\ old /\ x.synced => m.v <= Len(ls[x.epoch]) /\ m.op = ls[x.epoch][m.v]

\* What is acknowledged is in the store.
AckOK(x, m, ls) ==
  /\ x.synced /\ m.v \in 1 .. Len(ls[x.epoch])
  /\ m.seq <= x.seq /\ Covered(x, m.seq, ls[x.epoch], m.v)

\* An answer is of the last life, and acknowledges what that has by its version.
AnswerOK(x, m, ls) ==
  /\ m.epoch = Len(ls)
  /\ x.answered <= m.seq /\ m.seq <= x.seq /\ Covered(x, m.seq, Now(ls), m.v)
  /\ x.epoch = Len(ls) /\ x.v > 0 => m.v > 0
  /\ m.t = "snapshot" => m.base = StateOf(UpTo(Now(ls), m.v))
  /\ m.t = "delta" =>
       /\ x.epoch = Len(ls)
       /\ \E since \in 0 .. m.v : /\ m.ops = SubSeq(Now(ls), since + 1, m.v)
                                  /\ x.synced \/ since = x.v

\* What is on its way to the client; an answer, of which there is one at most, is of the last life.
Downward(x, s, k, ls) ==
  \A i \in 1 .. Len(s) :
    /\ s[i].t = "patch" => PatchOK(x, s[i], i < k, ls)
    /\ s[i].t = "ack" => (k = 0 \/ i < k) /\ AckOK(x, s[i], ls)
    /\ Answers(s[i]) => /\ i > k /\ AnswerOK(x, s[i], ls)
                        /\ i > k + 1 => s[i].v > 0
                        /\ \A j \in 1 .. Len(s) : Answers(s[j]) => i = j

\* A synced client is in the store's life, or will be told that it ended; and nothing that
\* comes is of later versions than the next after the client's.
InTouch(x, s, k, ls, ss) ==
  /\ x.synced => /\ x.epoch # 0
                 /\ k = 0 => ss /\ x.epoch = Len(ls)
                 /\ k # 1 => Start(s, ls) <= x.v
  /\ k # 0 => x.epoch < Len(ls)
  /\ k # 0 /\ ss => \E i \in 1 .. Len(s) : Answers(s[i])

\* The ops that a message to the store says, and those that the first i say.
Said(m) == IF m.t = "hello" THEN Elements(m.ops) ELSE {m.op}
Says(u, i, o) == \E j \in 1 .. i : \E p \in Said(u[j]) : Same(p, o)

\* What a hello says of the client holds until it is answered.
HelloOK(x, m, ls) ==
  /\ m.id = x.id /\ Ascends(m.ops)
  /\ x.answered = IF m.ops = <<>> THEN 0 ELSE m.ops[Len(m.ops)].seq
  /\ \A o \in Elements(x.outbox) : o.seq <= x.answered => \E p \in Elements(m.ops) : Same(p, o)
  /\ m.epoch <= Len(ls)
  /\ m.epoch = Len(ls) => x.epoch = Len(ls) /\ m.since <= Len(Now(ls)) /\ (x.synced \/ m.since = x.v)

\* An op comes no earlier than those before it, and while the client is synced.
OpOK(x, u, i, k, ls, ss) ==
  /\ ss /\ x.synced /\ k = 0
  /\ \A o \in Elements(x.outbox) : o.seq <= u[i].op.seq => Has(Now(ls), Len(Now(ls)), o) \/ Says(u, i, o)

\* What is on its way to the store; of a synced client it has, or will have, all that is pending.
Upward(x, s, k, u, ls, ss) ==
  /\ u \in Seq(UpMessage)
  /\ \A i \in 1 .. Len(u) : \A p \in Said(u[i]) : p.by = x.id /\ p.seq \in 1 .. x.seq
  /\ \A i \in 1 .. Len(u) : u[i].t = "hello" =>
       /\ HelloOK(x, u[i], ls)
       /\ \A j \in 1 .. Len(u) : u[j].t = "hello" => i = j
       /\ \A j \in 1 .. Len(s) : ~Answers(s[j])
  /\ \A i \in 1 .. Len(u) : u[i].t = "op" => OpOK(x, u, i, k, ls, ss)
  /\ x.synced /\ k = 0 =>
       \A o \in Elements(x.outbox) : Has(Now(ls), Len(Now(ls)), o) \/ Says(u, Len(u), o)

\* A request under way has the number acknowledged with it; its body has what it says.
RequestOK(x, q, s, ls) ==
  /\ x.answered <= q.seq /\ q.seq <= x.seq /\ Covered(x, q.seq, Now(ls), Len(Now(ls)))
  /\ q.at = "body" =>
       /\ q.life = Len(ls) /\ q.v <= Len(Now(ls)) /\ q.base = StateOf(UpTo(Now(ls), q.v))
       /\ Start(s, ls) <= q.v /\ Covered(x, q.seq, Now(ls), q.v)
       /\ x.epoch = Len(ls) /\ x.v > 0 => q.v > 0

\* One request at most is under way, and no hello, nor an answer to one, is with it.
Asking(x, s, k, u, ls, ss) ==
  /\ \A q, r \in x.asks : q.mine /\ r.mine => q = r
  /\ \A q \in x.asks : q.mine => x.holds /\ (k = 0 => RequestOK(x, q, s, ls))
  /\ x.holds => /\ k = 0 => ss
                /\ \A i \in 1 .. Len(s) : ~Answers(s[i])
                /\ \A i \in 1 .. Len(u) : u[i].t # "hello"
  /\ ~x.holds => x.held = <<>>
  /\ \A i \in 1 .. Len(x.held) : x.held[i].t # "closed"

\* All that is to come.
Flow(x, s, k, u, ls, ss) ==
  /\ Chained(s, k, ls, ss)
  /\ Downward(x, s, k, ls)
  /\ InTouch(x, s, k, ls, ss)
  /\ Upward(x, s, k, u, ls, ss)
  /\ Asking(x, s, k, u, ls, ss)

-------------------------------------------------------------------------------
(* What storage holds, and will.                                           *)

\* Storage d after a write w, of the adapter ad.
LandedBy(ad, d, w) ==
  [id |-> w.id, seq |-> w.seq,
   ops |-> {o \in d.ops : o.seq \notin w.drop} \cup w.put,
   rows |-> [r \in Records |-> IF r \in DOMAIN w.rows THEN w.rows[r] ELSE d.rows[r]],
   v |-> IF ad = "document" THEN d.v ELSE w.v,
   epoch |-> IF ad = "document" THEN d.epoch ELSE w.epoch]

\* Storage has what the client has: a document adapter, all but its base.
Mirrors(ad, d, x) ==
  /\ d.ops = Elements(x.outbox) /\ d.seq = x.seq
  /\ d.id = x.id \/ (d.id = 0 /\ x.seq = 0 /\ (ad # "document" => d = Empty))
  /\ ad # "document" => d.rows = x.base /\ d.v = x.v /\ d.epoch = x.epoch

\* Once another tab deleted the database there is no more in it than the client has.
Reflects(ad, rm, d, x) ==
  IF rm = "gone" THEN d.ops \subseteq Elements(x.outbox) ELSE Mirrors(ad, d, x)

\* The storage D after each of the writes ws.
Trail(ad, d, ws, D) ==
  /\ D = [i \in 0 .. Len(ws) |-> D[i]] /\ D[0] = d
  /\ \A i \in 1 .. Len(ws) : D[i] = LandedBy(ad, D[i - 1], ws[i])

\* It is whole each time, and after the last has what x has.
Backed(ad, rm, ls, d, ws, x) ==
  \E D :
    /\ Trail(ad, d, ws, D)
    /\ rm = "no" => \A i \in 0 .. Len(ws) : Whole(D[i].rows, D[i].v, D[i].epoch, ls)
    /\ Reflects(ad, rm, D[Len(ws)], x)

-------------------------------------------------------------------------------
(* The invariant.                                                          *)

\* The edits that are not taken over from nor told of, and the messages still to be handled.
Unexplained == mine \ (moot \cup told)
Pending == c.held \o down

\* The types of the rest.
TypesOK ==
  /\ adapter \in AllAdapters /\ remade \in {"no", "gone", "rewriting"}
  /\ link \in BOOLEAN /\ sess \in BOOLEAN /\ made \in Nat /\ pages \in Nat
  /\ up \in Seq(UpMessage) /\ down \in Seq(DownMessage) /\ writes \in Seq(Write)
  /\ adapter # "indexeddb" => writes = <<>> /\ remade = "no"
  /\ remade = "rewriting" => writes # <<>>

\* The page is open.
Opened ==
  /\ PageOK(c, lives, pages)
  /\ c.reset = FALSE /\ c.out = <<>> /\ c.puts = <<>>
  /\ c.dirty => adapter = "document"
  /\ Explains(Elements(c.outbox), c.v, c.epoch, Unexplained, lives)
  /\ \E k \in Nat : Flow(c, Pending, k, up, lives, sess)
  /\ ~link => up = <<>> /\ down = <<>> /\ ~sess /\ ~c.synced /\ ~c.holds
  /\ Backed(adapter, remade, lives, disk, writes, c)

\* No page is open: storage has the replica, or none.
Shut ==
  /\ c = Off /\ ~link /\ up = <<>> /\ down = <<>> /\ ~sess
  /\ writes = <<>> /\ remade = "no"
  /\ disk.id \in 0 .. pages /\ disk.seq \in Nat
  /\ disk.id = 0 => disk.ops = {} /\ disk.seq = 0 /\ (adapter # "document" => disk = Empty)
  /\ disk.id # 0 => Owns(disk.id, disk.seq, disk.ops, lives)
  /\ \E s \in Seq(Op) : Ascends(s) /\ Elements(s) = disk.ops
  /\ Whole(disk.rows, disk.v, disk.epoch, lives)
  /\ mine \subseteq moot \cup told \cup {o.n : o \in disk.ops} \cup Decided

\* All of it.
IInv == TypesOK /\ Lives(lives, pages) /\ (c.on => Opened) /\ (~c.on => Shut)

===============================================================================
