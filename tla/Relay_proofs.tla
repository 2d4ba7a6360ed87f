----------------------------- MODULE Relay_proofs -----------------------------
(***************************************************************************)
(* Proofs about Relay.tla, for any finite set of clients, any bounds and   *)
(* whatever may happen: what the relay shows is its copy of the store with *)
(* the queue on top, but for what a client taken back had in the queue and *)
(* for the relay's own ops that an answer took out of it; and the copy is  *)
(* whole, for a relay that only passes on, as long as nobody tells it that *)
(* the server is away and no store is unloaded under its session.          *)
(***************************************************************************)
EXTENDS Relay, FiniteSetTheorems, SequenceTheorems, WellFoundedInduction, TLAPS

\* What is on a link.
Mail(s) == {s[i] : i \in DOMAIN s}
IsSeq(s) == s \in Seq(Mail(s))

\* What the relay may send up: the clients it vouches for are its own, and so are the
\* ops of its hello.
Letter(m) ==
  /\ m.t = "vouch" => m.as \subseteq As
  /\ m.t = "hello" => m.ops \subseteq OpNumbers

Posts(s) == IsSeq(s) /\ \A m \in Mail(s) : Letter(m)

\* The server turns away no client that it lets in.
Heeds(s, in) == IsSeq(s) /\ \A m \in Mail(s) : m.t = "turned" => m.as[1] \notin in

\* The items that the view may have beyond its copy and the queue.
Loose(in) == {i \in Items : i[1] \notin in}

\* The fields of an edge, and of a session.
Fields == {"have", "base", "v", "fv", "log", "view", "queue", "ownSeq", "acked", "admitted",
           "grants", "synced", "linked", "held", "reopens", "retry", "revouch", "out"}
SessionFields == {"open", "greeted", "follows", "asked", "grants", "checks", "limited"}

\* An edge on which the records are well formed.
Formed(e, k) ==
  /\ DOMAIN e = Fields
  /\ e.queue \in Seq(Entry) /\ Posts(e.out) /\ e.ownSeq = k

\* An edge that shows its copy with the queue on top, but for the items of L.
Shows(e, L) ==
  /\ e.base \cup Queued(e) \subseteq e.view
  /\ e.view \subseteq e.base \cup Queued(e) \cup L

Fits(e, k, L) == Formed(e, k) /\ Shows(e, L)

\* A queue with none of the relay's own ops.
Foreign(queue) == \A x \in QueuedBy(queue) : x[1] # Own

\* An edge that comes of another with its copy and its link left alone: more is said of
\* its clients, and of their ops once the hello is answered.
Aside(e, f) ==
  /\ f.base = e.base /\ f.v = e.v /\ f.synced = e.synced /\ f.linked = e.linked
  /\ f.held = e.held /\ f.reopens = e.reopens
  /\ Foreign(e.queue) => Foreign(f.queue)
  /\ \A m \in Mail(f.out) :
       m \in Mail(e.out) \/ m.t \in {"vouch", "leave"} \/ (e.synced /\ m.t = "op")

\* The relay's side of the inductive invariant.
Copied ==
  /\ made \in [Authors -> Nat] /\ made[Own] <= MaxOwn
  /\ cur \in [Clients -> 0 .. MaxSessions]
  /\ Fits(edge, edge.ownSeq, Loose(allowed)) /\ edge.out = <<>>
  /\ edge.ownSeq \in 0 .. made[Own]
  /\ saved.own \in Seq(Entry) /\ saved.ownSeq \in 0 .. made[Own]
  /\ Posts(up)

\* The server's side.
Served ==
  /\ allowed \subseteq Clients /\ log \in Seq(Mail(log))
  /\ DOMAIN sess = SessionFields
  /\ sess.grants \subseteq As /\ sess.checks \subseteq As /\ IsSeq(sess.asked)
  /\ Heeds(down, allowed)

\* The inductive invariant.
Settles == Copied /\ Served

-----------------------------------------------------------------------------
(* Sequences and numbers.                                                  *)

\* A sequence over a set is one of what is in it.
LEMMA MailOf ==
  ASSUME NEW S, NEW s \in Seq(S)
  PROVE  IsSeq(s) /\ Mail(s) \subseteq S
  <1>1. DOMAIN s = 1 .. Len(s) /\ Len(s) \in Nat /\ s = [i \in 1 .. Len(s) |-> s[i]]
    OBVIOUS
  <1>2. \A i \in 1 .. Len(s) : s[i] \in S
    BY ElementOfSeq
  <1>3. s \in [1 .. Len(s) -> Mail(s)]
    BY <1>1, Zenon DEF Mail
  <1>4. s \in Seq(Mail(s))
    BY <1>1, <1>3 DEF Mail
  <1> QED BY <1>1, <1>2, <1>4 DEF Mail, IsSeq

\* One more message.
LEMMA MailAppend ==
  ASSUME NEW s, IsSeq(s), NEW m
  PROVE  IsSeq(Append(s, m)) /\ Mail(Append(s, m)) \subseteq Mail(s) \cup {m}
  <1> DEFINE S == Mail(s) \cup {m}
  <1>1. s \in Seq(S)
    <2>1. s \in Seq(Mail(s)) /\ Mail(s) \subseteq S
      BY DEF IsSeq
    <2> HIDE DEF S
    <2> QED BY <2>1
  <1>2. m \in S
    OBVIOUS
  <1> HIDE DEF S
  <1>3. Append(s, m) \in Seq(S)
    BY <1>1, <1>2
  <1> QED BY <1>3, MailOf DEF S

\* Messages after others.
LEMMA MailConcat ==
  ASSUME NEW s, IsSeq(s), NEW t, IsSeq(t)
  PROVE  IsSeq(s \o t) /\ Mail(s \o t) \subseteq Mail(s) \cup Mail(t)
  <1> DEFINE S == Mail(s) \cup Mail(t)
  <1>1. s \in Seq(S) /\ t \in Seq(S)
    <2>1. s \in Seq(Mail(s)) /\ Mail(s) \subseteq S /\ t \in Seq(Mail(t)) /\ Mail(t) \subseteq S
      BY DEF IsSeq
    <2> HIDE DEF S
    <2> QED BY <2>1
  <1> HIDE DEF S
  <1>2. s \o t \in Seq(S)
    BY <1>1
  <1> QED BY <1>2, MailOf DEF S

\* The messages but the first.
LEMMA MailTail ==
  ASSUME NEW s, IsSeq(s), s # <<>>
  PROVE  /\ IsSeq(Tail(s)) /\ Mail(Tail(s)) \subseteq Mail(s)
         /\ Head(s) \in Mail(s)
  <1>1. s \in Seq(Mail(s))
    BY DEF IsSeq
  <1>2. Tail(s) \in Seq(Mail(s)) /\ Head(s) \in Mail(s)
    <2> DEFINE S == Mail(s)
    <2>1. s \in Seq(S)
      BY <1>1
    <2> HIDE DEF S
    <2>2. Tail(s) \in Seq(S) /\ Head(s) \in S
      BY <2>1, HeadTailProperties
    <2> QED BY <2>2 DEF S
  <1> QED BY <1>2, MailOf

\* A list made from a rule.
LEMMA MailList ==
  ASSUME NEW n \in Nat, NEW s, DOMAIN s = 1 .. n, s = [i \in 1 .. n |-> s[i]]
  PROVE  IsSeq(s)
  <1>1. s \in [1 .. n -> Mail(s)]
    BY Zenon DEF Mail
  <1> QED BY <1>1 DEF IsSeq

\* No message, and one.
LEMMA MailFew ==
  /\ IsSeq(<<>>) /\ Mail(<<>>) = {}
  /\ \A m : IsSeq(<<m>>) /\ Mail(<<m>>) = {m}
  <1>1. IsSeq(<<>>) /\ Mail(<<>>) = {}
    BY DEF IsSeq, Mail
  <1>2. ASSUME NEW m PROVE IsSeq(<<m>>) /\ Mail(<<m>>) = {m}
    <2>1. Mail(<<m>>) = {m}
      BY DEF Mail
    <2>2. <<m>> \in Seq({m})
      OBVIOUS
    <2> QED BY <2>1, <2>2 DEF IsSeq
  <1> QED BY <1>1, <1>2

\* A set of numbers has a smallest.
LEMMA SmallestOf ==
  ASSUME NEW S \in SUBSET Nat, S # {}
  PROVE  \E x \in S : \A y \in S : x <= y
  <1> DEFINE R == {p \in Nat \X Nat : p[1] < p[2]}
  <1>1. IsWellFoundedOn(R, Nat)
    BY NatLessThanWellFounded, Zenon DEF OpToRel
  <1> HIDE DEF R
  <1>2. PICK x \in S : \A y \in S : ~(<<y, x>> \in R)
    BY <1>1, WFMin
  <1>3. ASSUME NEW y \in S PROVE x <= y
    <2>1. <<y, x>> \notin R
      BY <1>2
    <2>2. x \in Nat /\ y \in Nat
      OBVIOUS
    <2> QED BY <2>1, <2>2 DEF R
  <1> QED BY <1>3

-----------------------------------------------------------------------------
(* The queue.                                                              *)

\* What is kept of a queue, entry by entry.
OneKept(queue, gone, i, kept) == IF i \in gone THEN kept ELSE Append(kept, queue[i])
Keeping(f, queue, gone, n) ==
  f = [i \in 0 .. n |-> IF i = 0 THEN <<>> ELSE OneKept(queue, gone, i, f[i - 1])]

\* Something is kept.
LEMMA KeepingExists ==
  ASSUME NEW queue, NEW gone, NEW n \in Nat
  PROVE  \E f : Keeping(f, queue, gone, n)
  <1> DEFINE T == {m \in Nat : ~\E f : Keeping(f, queue, gone, m)}
  <1> SUFFICES ASSUME T # {} PROVE FALSE
    OBVIOUS
  <1>1. T \subseteq Nat
    OBVIOUS
  <1>2. 0 \notin T
    <2>1. Keeping([i \in 0 .. 0 |-> <<>>], queue, gone, 0)
      BY DEF Keeping
    <2> QED BY <2>1
  <1> HIDE DEF T
  <1>3. PICK m \in T : \A y \in T : m <= y
    BY <1>1, SmallestOf
  <1>4. m \in Nat /\ m - 1 \in Nat /\ m - 1 \notin T
    BY <1>1, <1>2, <1>3
  <1>5. PICK g : Keeping(g, queue, gone, m - 1)
    BY <1>4 DEF T
  <1> DEFINE G == [i \in 0 .. m |-> IF i = 0 THEN <<>> ELSE OneKept(queue, gone, i, g[i - 1])]
  <1>6. \A i \in 0 .. m - 1 : G[i] = g[i]
    <2> SUFFICES ASSUME NEW i \in 0 .. m - 1 PROVE G[i] = g[i]
      OBVIOUS
    <2>1. g[i] = IF i = 0 THEN <<>> ELSE OneKept(queue, gone, i, g[i - 1])
      BY <1>4, <1>5 DEF Keeping
    <2>2. i \in 0 .. m
      BY <1>4
    <2> QED BY <2>1, <2>2
  <1>7. \A i \in 0 .. m : i # 0 => G[i - 1] = g[i - 1]
    <2> SUFFICES ASSUME NEW i \in 0 .. m, i # 0 PROVE G[i - 1] = g[i - 1]
      OBVIOUS
    <2>1. i - 1 \in 0 .. m - 1
      BY <1>4
    <2> HIDE DEF G
    <2> QED BY <1>6, <2>1
  <1>8. Keeping(G, queue, gone, m)
    BY <1>7 DEF Keeping
  <1>9. m \notin T
    <2> HIDE DEF G
    <2> QED BY <1>8 DEF T
  <1> QED BY <1>3, <1>9

\* The items of the entries at these places.
At(queue, places) == {ItemOf(queue[i]) : i \in places}

\* A queue with another entry has its item too.
LEMMA QueuedAppend ==
  ASSUME NEW queue \in Seq(Entry), NEW x \in Entry
  PROVE  /\ Append(queue, x) \in Seq(Entry)
         /\ QueuedBy(Append(queue, x)) = QueuedBy(queue) \cup {ItemOf(x)}
  <1> DEFINE q == Append(queue, x)
  <1>1. /\ q \in Seq(Entry) /\ Len(q) = Len(queue) + 1 /\ q[Len(queue) + 1] = x
        /\ \A i \in 1 .. Len(queue) : q[i] = queue[i]
    OBVIOUS
  <1>2. /\ DOMAIN q = 1 .. Len(queue) + 1 /\ DOMAIN queue = 1 .. Len(queue)
        /\ Len(queue) \in Nat
    BY <1>1
  <1>3. DOMAIN q = DOMAIN queue \cup {Len(queue) + 1}
    BY <1>2
  <1> HIDE DEF q
  <1>4. QueuedBy(q) = QueuedBy(queue) \cup {ItemOf(x)}
    BY <1>1, <1>2, <1>3 DEF QueuedBy
  <1> QED BY <1>1, <1>4 DEF q

\* What is kept of a queue are the entries at the other places.
LEMMA WithoutKeeps ==
  ASSUME NEW queue \in Seq(Entry), NEW gone
  PROVE  /\ Without(queue, gone) \in Seq(Entry)
         /\ QueuedBy(Without(queue, gone)) = At(queue, (DOMAIN queue) \ gone)
  <1> DEFINE n == Len(queue)
             f == CHOOSE g : Keeping(g, queue, gone, n)
             OK(i) == f[i] \in Seq(Entry) /\ QueuedBy(f[i]) = At(queue, (1 .. i) \ gone)
             T == {i \in 0 .. n : ~OK(i)}
  <1>1. n \in Nat /\ DOMAIN queue = 1 .. n
    OBVIOUS
  <1>2. Keeping(f, queue, gone, n)
    BY <1>1, KeepingExists
  <1>3. Without(queue, gone) = f[n]
    BY DEF Without, Keeping, OneKept
  <1> HIDE DEF f, n
  <1>4. OK(0)
    <2>1. f[0] = <<>>
      BY <1>1, <1>2 DEF Keeping
    <2> QED BY <2>1 DEF QueuedBy, At
  <1>5. ASSUME NEW i \in 1 .. n, OK(i - 1) PROVE OK(i)
    <2>1. f[i] = IF i \in gone THEN f[i - 1] ELSE Append(f[i - 1], queue[i])
      <3>1. f[i] = OneKept(queue, gone, i, f[i - 1])
        BY <1>1, <1>2 DEF Keeping
      <3> QED BY <3>1 DEF OneKept
    <2>2. i \in Nat /\ 1 .. i = (1 .. i - 1) \cup {i}
      BY <1>1
    <2>3. queue[i] \in Entry
      BY <1>1, ElementOfSeq DEF n
    <2>4. CASE i \in gone
      <3>1. (1 .. i) \ gone = (1 .. i - 1) \ gone
        BY <2>2, <2>4
      <3> QED BY <1>5, <2>1, <2>4, <3>1
    <2>5. CASE i \notin gone
      <3>1. (1 .. i) \ gone = ((1 .. i - 1) \ gone) \cup {i}
        BY <2>2, <2>5
      <3>2. At(queue, (1 .. i) \ gone) = At(queue, (1 .. i - 1) \ gone) \cup {ItemOf(queue[i])}
        BY <3>1 DEF At
      <3> QED BY <1>5, <2>1, <2>3, <2>5, <3>2, QueuedAppend
    <2> QED BY <2>4, <2>5
  <1>6. T = {}
    <2> SUFFICES ASSUME T # {} PROVE FALSE
      OBVIOUS
    <2>1. PICK i \in T : \A y \in T : i <= y
      <3>1. T \subseteq Nat
        BY <1>1
      <3> HIDE DEF T
      <3> QED BY <3>1, SmallestOf
    <2>2. i # 0
      BY <1>4, <2>1
    <2>3. i \in 1 .. n /\ i - 1 \in 0 .. n
      BY <1>1, <2>1, <2>2
    <2> HIDE DEF OK
    <2>4. OK(i - 1)
      <3>1. i - 1 \notin T
        BY <1>1, <2>1, <2>3
      <3> QED BY <2>3, <3>1
    <2> QED BY <1>5, <2>1, <2>3, <2>4
  <1> HIDE DEF OK
  <1>7. OK(n)
    BY <1>1, <1>6
  <1> USE DEF OK
  <1> HIDE DEF T
  <1> QED BY <1>1, <1>3, <1>7

\* Marking entries changes no item.
LEMMA MarksKeep ==
  ASSUME NEW queue \in Seq(Entry), NEW q \in Seq(Entry), DOMAIN q = DOMAIN queue,
         \A i \in DOMAIN q : ItemOf(q[i]) = ItemOf(queue[i])
  PROVE  QueuedBy(q) = QueuedBy(queue)
  <1>1. \A x \in QueuedBy(q) : x \in QueuedBy(queue)
    BY DEF QueuedBy
  <1>2. \A x \in QueuedBy(queue) : x \in QueuedBy(q)
    BY DEF QueuedBy
  <1> QED BY <1>1, <1>2

-----------------------------------------------------------------------------
(* The view.                                                               *)

\* A patch of the view leaves the rest of the edge.
LEMMA EmitPatchKeeps ==
  ASSUME NEW e, NEW k, Formed(e, k), NEW add, NEW del
  PROVE  LET f == EmitPatch(e, add, del)
         IN  /\ Formed(f, k) /\ f.base = e.base /\ f.queue = e.queue /\ Queued(f) = Queued(e)
             /\ f.view = (e.view \ del) \cup add
  BY DEF EmitPatch, Formed, Fields, Queued

\* An edge is left alone by what leaves it alone twice, or does nothing.
LEMMA AsideAgain ==
  ASSUME NEW e, NEW f, NEW g, Aside(e, f), Aside(f, g)
  PROVE  Aside(e, g)
  BY DEF Aside

\* An edge is left alone by what marks its queue or lets go of some of it, and sends one
\* thing more.
LEMMA AsideOf ==
  ASSUME NEW e, NEW f, NEW m, m.t \in {"vouch", "leave"} \/ (e.synced /\ m.t = "op"),
         f.base = e.base, f.v = e.v, f.synced = e.synced, f.linked = e.linked,
         f.held = e.held, f.reopens = e.reopens,
         QueuedBy(f.queue) \subseteq QueuedBy(e.queue),
         f.out = e.out \/ (Posts(e.out) /\ f.out = Append(e.out, m))
  PROVE  Aside(e, f)
  <1>1. Foreign(e.queue) => Foreign(f.queue)
    BY DEF Foreign
  <1>2. Mail(f.out) \subseteq Mail(e.out) \cup {m}
    BY MailAppend DEF Posts
  <1> QED BY <1>1, <1>2 DEF Aside

\* The same, with nothing sent.
LEMMA AsideMarked ==
  ASSUME NEW e, NEW f, f.base = e.base, f.v = e.v, f.synced = e.synced, f.linked = e.linked,
         f.held = e.held, f.reopens = e.reopens,
         QueuedBy(f.queue) \subseteq QueuedBy(e.queue), f.out = e.out
  PROVE  Aside(e, f)
  BY DEF Aside, Foreign

\* A patch of the view leaves the rest alone.
LEMMA EmitPatchAside ==
  ASSUME NEW e, NEW k, Formed(e, k), NEW add, NEW del
  PROVE  Aside(e, EmitPatch(e, add, del))
  <1> DEFINE f == EmitPatch(e, add, del)
  <1>1. /\ f.base = e.base /\ f.v = e.v /\ f.synced = e.synced /\ f.linked = e.linked
        /\ f.held = e.held /\ f.reopens = e.reopens /\ f.queue = e.queue /\ f.out = e.out
    BY DEF EmitPatch, Formed, Fields
  <1> HIDE DEF f
  <1>2. Aside(e, f)
    BY <1>1, AsideMarked
  <1> QED BY <1>2 DEF f

\* The view worked out again leaves the rest alone.
LEMMA RecomputeAside ==
  ASSUME NEW e, NEW k, Formed(e, k), NEW items
  PROVE  Aside(e, Recompute(e, items))
  <1>1. Aside(e, e)
    BY AsideMarked
  <1> QED BY <1>1, EmitPatchAside DEF Recompute

\* follower.js:360-394: the records of some items worked out again.
LEMMA RecomputeShows ==
  ASSUME NEW e, NEW k, Formed(e, k), NEW L, NEW items,
         e.base \subseteq e.view \cup items,
         e.view \subseteq e.base \cup Queued(e) \cup L \cup items
  PROVE  Fits(Recompute(e, items), k, L)
  <1> DEFINE touched == items \cup Queued(e)
             after == touched \cap (e.base \cup Queued(e))
             add == after \ e.view
             del == (e.view \cap touched) \ after
             f == EmitPatch(e, add, del)
  <1>1. CASE add \cup del = {}
    <2>1. Recompute(e, items) = e
      BY <1>1 DEF Recompute
    <2>2. Shows(e, L)
      BY <1>1 DEF Shows
    <2> QED BY <2>1, <2>2 DEF Fits
  <1>2. CASE add \cup del # {}
    <2>1. Recompute(e, items) = f
      BY <1>2 DEF Recompute
    <2>2. /\ Formed(f, k) /\ f.base = e.base /\ Queued(f) = Queued(e)
          /\ f.view = (e.view \ del) \cup add
      <3> HIDE DEF add, del
      <3> QED BY EmitPatchKeeps
    <2> HIDE DEF f
    <2>3. Shows(f, L)
      BY <2>2 DEF Shows
    <2> QED BY <2>1, <2>2, <2>3 DEF Fits
  <1> QED BY <1>1, <1>2

\* follower.js:397-407: a patch from the server.
LEMMA FromServerShows ==
  ASSUME NEW e, NEW k, NEW L, Fits(e, k, L), NEW items
  PROVE  Fits(FromServer(e, items), k, L)
  <1> DEFINE e2 == [e EXCEPT !.base = @ \cup items]
             f == EmitPatch(e2, items, {})
  <1>1. /\ Formed(e2, k) /\ Queued(e2) = Queued(e) /\ e2.base = e.base \cup items
        /\ e2.view = e.view
    BY DEF Fits, Formed, Fields, Queued
  <1> HIDE DEF e2
  <1>2. CASE e.queue = <<>>
    <2>1. FromServer(e, items) = f
      BY <1>2 DEF FromServer, e2
    <2>2. /\ Formed(f, k) /\ f.base = e2.base /\ Queued(f) = Queued(e2)
          /\ f.view = (e2.view \ {}) \cup items
      BY <1>1, EmitPatchKeeps
    <2> HIDE DEF f
    <2> QED BY <1>1, <2>1, <2>2 DEF Fits, Shows
  <1>3. CASE e.queue # <<>>
    <2>1. FromServer(e, items) = Recompute(e2, items)
      BY <1>3 DEF FromServer, e2
    <2>2. e2.base \subseteq e2.view \cup items
      BY <1>1 DEF Fits, Shows
    <2>3. e2.view \subseteq e2.base \cup Queued(e2) \cup L \cup items
      BY <1>1 DEF Fits, Shows
    <2> QED BY <1>1, <2>1, <2>2, <2>3, RecomputeShows
  <1> QED BY <1>2, <1>3

\* The entries at other places are those that stay.
LEMMA QueueParts ==
  ASSUME NEW queue, NEW gone \in SUBSET DOMAIN queue
  PROVE  QueuedBy(queue) = At(queue, (DOMAIN queue) \ gone) \cup At(queue, gone)
  BY DEF QueuedBy, At

\* Entries of the queue forgotten, and their records worked out again.
LEMMA ForgetShows ==
  ASSUME NEW e, NEW k, NEW L, Fits(e, k, L), NEW gone \in SUBSET DOMAIN e.queue
  PROVE  Fits(Forget(e, gone), k, L) /\ Aside(e, Forget(e, gone))
  <1> DEFINE q == Without(e.queue, gone)
             e2 == [e EXCEPT !.queue = q]
             items == At(e.queue, gone)
  <1>1. q \in Seq(Entry) /\ Queued(e) = QueuedBy(q) \cup items
    BY WithoutKeeps, QueueParts DEF Fits, Formed, Queued
  <1>2. Forget(e, gone) = IF gone = {} THEN e ELSE Recompute(e2, items)
    BY DEF Forget, At
  <1> HIDE DEF q, items
  <1>3. /\ Formed(e2, k) /\ Queued(e2) = QueuedBy(q) /\ e2.base = e.base /\ e2.view = e.view
    BY <1>1 DEF Fits, Formed, Fields, Queued
  <1> HIDE DEF e2
  <1>4. Fits(Recompute(e2, items), k, L)
    <2>1. e2.base \subseteq e2.view \cup items
      BY <1>3 DEF Fits, Shows
    <2>2. e2.view \subseteq e2.base \cup Queued(e2) \cup L \cup items
      BY <1>1, <1>3 DEF Fits, Shows
    <2> QED BY <1>3, <2>1, <2>2, RecomputeShows
  <1>5. Aside(e, e2)
    <2>1. /\ e2.base = e.base /\ e2.v = e.v /\ e2.synced = e.synced /\ e2.linked = e.linked
          /\ e2.held = e.held /\ e2.reopens = e.reopens /\ e2.out = e.out
      BY DEF Fits, Formed, Fields, e2
    <2>2. QueuedBy(e2.queue) \subseteq QueuedBy(e.queue)
      BY <1>1, <1>3 DEF Queued
    <2> QED BY <2>1, <2>2, AsideMarked
  <1>6. Aside(e, Recompute(e2, items))
    BY <1>3, <1>5, RecomputeAside, AsideAgain
  <1>7. Aside(e, e)
    BY AsideMarked
  <1> QED BY <1>2, <1>4, <1>6, <1>7

-----------------------------------------------------------------------------
(* What goes up.                                                           *)

\* An entry marked is an entry, of the same item.
LEMMA MarkedEntry ==
  ASSUME NEW x \in Entry, NEW b \in BOOLEAN
  PROVE  [x EXCEPT !.sent = b] \in Entry /\ ItemOf([x EXCEPT !.sent = b]) = ItemOf(x)
  BY DEF Entry, ItemOf

\* A queue with its entries marked anew, one by one.
LEMMA MarkedQueue ==
  ASSUME NEW queue \in Seq(Entry), NEW q, q = [j \in DOMAIN queue |-> q[j]],
         \A j \in DOMAIN queue : \E b \in BOOLEAN : q[j] = [queue[j] EXCEPT !.sent = b]
  PROVE  q \in Seq(Entry) /\ DOMAIN q = DOMAIN queue /\ QueuedBy(q) = QueuedBy(queue)
  <1>1. Len(queue) \in Nat /\ DOMAIN queue = 1 .. Len(queue)
    OBVIOUS
  <1>2. \A j \in DOMAIN queue : q[j] \in Entry /\ ItemOf(q[j]) = ItemOf(queue[j])
    <2> SUFFICES ASSUME NEW j \in DOMAIN queue PROVE q[j] \in Entry /\ ItemOf(q[j]) = ItemOf(queue[j])
      OBVIOUS
    <2>1. queue[j] \in Entry
      BY <1>1, ElementOfSeq
    <2>2. PICK b \in BOOLEAN : q[j] = [queue[j] EXCEPT !.sent = b]
      OBVIOUS
    <2> QED BY <2>1, <2>2, MarkedEntry
  <1>3. DOMAIN q = DOMAIN queue
    BY Zenon
  <1>4. q \in [1 .. Len(queue) -> Entry]
    BY <1>1, <1>2, Zenon
  <1>5. q \in Seq(Entry)
    BY <1>1, <1>4
  <1> QED BY <1>2, <1>3, <1>5, MarksKeep

\* An edge with its queue marked anew and more to send.
LEMMA MarkedEdge ==
  ASSUME NEW e, NEW k, NEW L, Fits(e, k, L), NEW f, DOMAIN f = Fields,
         f.base = e.base, f.view = e.view, f.ownSeq = e.ownSeq,
         f.queue \in Seq(Entry), QueuedBy(f.queue) = QueuedBy(e.queue), Posts(f.out)
  PROVE  Fits(f, k, L)
  BY DEF Fits, Formed, Shows, Queued

\* One more letter.
LEMMA PostsAppend ==
  ASSUME NEW s, Posts(s), NEW m, Letter(m)
  PROVE  Posts(Append(s, m))
  BY MailAppend DEF Posts

\* follower.js:423-434: an entry goes up.
LEMMA SendUpShows ==
  ASSUME NEW e, NEW k, NEW L, Fits(e, k, L), NEW i \in DOMAIN e.queue
  PROVE  /\ Fits(SendUp(e, i), k, L) /\ DOMAIN SendUp(e, i).queue = DOMAIN e.queue
         /\ Aside(e, SendUp(e, i))
  <1> DEFINE m == [t |-> "op", as |-> e.queue[i].as, n |-> e.queue[i].n]
             q == [e.queue EXCEPT ![i].sent = TRUE]
             f == [e EXCEPT !.queue = q, !.out = Append(@, m)]
  <1>1. (e.synced /\ SendUp(e, i) = f) \/ SendUp(e, i) = e
    BY DEF SendUp
  <1>2. q \in Seq(Entry) /\ DOMAIN q = DOMAIN e.queue /\ QueuedBy(q) = QueuedBy(e.queue)
    <2>1. q = [j \in DOMAIN e.queue |-> q[j]]
      OBVIOUS
    <2>2. \A j \in DOMAIN e.queue : \E b \in BOOLEAN : q[j] = [e.queue[j] EXCEPT !.sent = b]
      <3> SUFFICES ASSUME NEW j \in DOMAIN e.queue
                   PROVE  \E b \in BOOLEAN : q[j] = [e.queue[j] EXCEPT !.sent = b]
        OBVIOUS
      <3>1. j = i => q[j] = [e.queue[j] EXCEPT !.sent = TRUE]
        OBVIOUS
      <3>2. j # i => q[j] = [e.queue[j] EXCEPT !.sent = e.queue[j].sent] /\ e.queue[j].sent \in BOOLEAN
        <4>1. e.queue[j] \in Entry
          BY ElementOfSeq DEF Fits, Formed
        <4> QED BY <4>1 DEF Entry
      <3> QED BY <3>1, <3>2
    <2>3. e.queue \in Seq(Entry)
      BY DEF Fits, Formed
    <2> HIDE DEF q
    <2> QED BY <2>1, <2>2, <2>3, MarkedQueue
  <1>3. Posts(Append(e.out, m))
    <2>1. Letter(m)
      BY DEF Letter
    <2> HIDE DEF m
    <2> QED BY <2>1, PostsAppend DEF Fits, Formed
  <1>4. m.t = "op"
    OBVIOUS
  <1> HIDE DEF q, m
  <1>5. /\ DOMAIN f = Fields /\ f.base = e.base /\ f.view = e.view /\ f.ownSeq = e.ownSeq
        /\ f.queue = q /\ f.out = Append(e.out, m)
    BY DEF Fits, Formed, Fields
  <1>6. /\ f.v = e.v /\ f.synced = e.synced /\ f.linked = e.linked
        /\ f.held = e.held /\ f.reopens = e.reopens
    BY DEF Fits, Formed, Fields
  <1> HIDE DEF f
  <1>7. Fits(f, k, L)
    BY <1>2, <1>3, <1>5, MarkedEdge
  <1>8. e.synced => Aside(e, f)
    BY <1>2, <1>4, <1>5, <1>6, AsideOf DEF Fits, Formed
  <1>9. Aside(e, e)
    BY AsideMarked
  <1> QED BY <1>1, <1>2, <1>5, <1>7, <1>8, <1>9

\* The queue gone through, entry by entry.
OneGone(e, S, i, f) == IF e.queue[i].as \in S THEN SendUp(f, i) ELSE f
Sending(f, e, S, n) == f = [i \in 0 .. n |-> IF i = 0 THEN e ELSE OneGone(e, S, i, f[i - 1])]

\* Something is sent.
LEMMA SendingExists ==
  ASSUME NEW e, NEW S, NEW n \in Nat
  PROVE  \E f : Sending(f, e, S, n)
  <1> DEFINE T == {m \in Nat : ~\E f : Sending(f, e, S, m)}
  <1> SUFFICES ASSUME T # {} PROVE FALSE
    OBVIOUS
  <1>1. T \subseteq Nat
    OBVIOUS
  <1>2. 0 \notin T
    <2>1. Sending([i \in 0 .. 0 |-> e], e, S, 0)
      BY DEF Sending
    <2> QED BY <2>1
  <1> HIDE DEF T
  <1>3. PICK m \in T : \A y \in T : m <= y
    BY <1>1, SmallestOf
  <1>4. m \in Nat /\ m - 1 \in Nat /\ m - 1 \notin T
    BY <1>1, <1>2, <1>3
  <1>5. PICK g : Sending(g, e, S, m - 1)
    BY <1>4 DEF T
  <1> DEFINE G == [i \in 0 .. m |-> IF i = 0 THEN e ELSE OneGone(e, S, i, g[i - 1])]
  <1>6. \A i \in 0 .. m - 1 : G[i] = g[i]
    <2> SUFFICES ASSUME NEW i \in 0 .. m - 1 PROVE G[i] = g[i]
      OBVIOUS
    <2>1. g[i] = IF i = 0 THEN e ELSE OneGone(e, S, i, g[i - 1])
      BY <1>4, <1>5 DEF Sending
    <2>2. i \in 0 .. m
      BY <1>4
    <2> QED BY <2>1, <2>2
  <1>7. \A i \in 0 .. m : i # 0 => G[i - 1] = g[i - 1]
    <2> SUFFICES ASSUME NEW i \in 0 .. m, i # 0 PROVE G[i - 1] = g[i - 1]
      OBVIOUS
    <2>1. i - 1 \in 0 .. m - 1
      BY <1>4
    <2> HIDE DEF G
    <2> QED BY <1>6, <2>1
  <1>8. Sending(G, e, S, m)
    BY <1>7 DEF Sending
  <1>9. m \notin T
    <2> HIDE DEF G
    <2> QED BY <1>8 DEF T
  <1> QED BY <1>3, <1>9

\* The queue goes up.
LEMMA SendQueueShows ==
  ASSUME NEW e, NEW k, NEW L, Fits(e, k, L), NEW S
  PROVE  Fits(SendQueue(e, S), k, L) /\ Aside(e, SendQueue(e, S))
  <1> DEFINE n == Len(e.queue)
             f == CHOOSE g : Sending(g, e, S, n)
             OK(i) == Fits(f[i], k, L) /\ DOMAIN f[i].queue = DOMAIN e.queue /\ Aside(e, f[i])
             T == {i \in 0 .. n : ~OK(i)}
  <1>1. n \in Nat /\ DOMAIN e.queue = 1 .. n
    BY DEF Fits, Formed
  <1>2. Sending(f, e, S, n)
    BY <1>1, SendingExists
  <1>3. SendQueue(e, S) = f[n]
    BY DEF SendQueue, Sending, OneGone
  <1> HIDE DEF f, n
  <1>4. OK(0)
    <2>1. f[0] = e
      BY <1>1, <1>2 DEF Sending
    <2>2. Aside(e, e)
      BY AsideMarked
    <2> QED BY <2>1, <2>2
  <1>5. ASSUME NEW i \in 1 .. n, OK(i - 1) PROVE OK(i)
    <2>1. f[i] = IF e.queue[i].as \in S THEN SendUp(f[i - 1], i) ELSE f[i - 1]
      <3>1. f[i] = OneGone(e, S, i, f[i - 1])
        BY <1>1, <1>2 DEF Sending
      <3> QED BY <3>1 DEF OneGone
    <2>2. i \in DOMAIN f[i - 1].queue
      BY <1>1, <1>5
    <2> QED BY <1>5, <2>1, <2>2, SendUpShows, AsideAgain
  <1> HIDE DEF OK
  <1>6. T = {}
    <2> SUFFICES ASSUME T # {} PROVE FALSE
      OBVIOUS
    <2>1. PICK i \in T : \A y \in T : i <= y
      <3>1. T \subseteq Nat
        BY <1>1
      <3> HIDE DEF T
      <3> QED BY <3>1, SmallestOf
    <2>2. i # 0
      BY <1>4, <2>1
    <2>3. i \in 1 .. n /\ i - 1 \in 0 .. n
      BY <1>1, <2>1, <2>2
    <2>4. OK(i - 1)
      <3>1. i - 1 \notin T
        BY <1>1, <2>1, <2>3
      <3> QED BY <2>3, <3>1
    <2> QED BY <1>5, <2>1, <2>3, <2>4
  <1>7. OK(n)
    BY <1>1, <1>6
  <1> QED BY <1>3, <1>7 DEF OK

\* follower.js:437-441: sessions of the relay's are vouched for.
LEMMA VouchShows ==
  ASSUME NEW e, NEW k, NEW L, Fits(e, k, L), NEW S \in SUBSET As
  PROVE  Fits(Vouch(e, S), k, L) /\ Aside(e, Vouch(e, S))
  <1> DEFINE m == [t |-> "vouch", as |-> S]
             G == [as \in As |-> IF as \in S THEN "asked" ELSE e.grants[as]]
             f == [e EXCEPT !.grants = G, !.out = Append(@, m)]
  <1>1. Vouch(e, S) = f \/ Vouch(e, S) = e
    BY DEF Vouch
  <1>2. Posts(Append(e.out, m))
    <2>1. Letter(m)
      BY DEF Letter
    <2> HIDE DEF m
    <2> QED BY <2>1, PostsAppend DEF Fits, Formed
  <1>3. m.t = "vouch"
    OBVIOUS
  <1> HIDE DEF m, G
  <1>4. /\ DOMAIN f = Fields /\ f.base = e.base /\ f.view = e.view /\ f.ownSeq = e.ownSeq
        /\ f.queue = e.queue /\ f.out = Append(e.out, m)
    BY DEF Fits, Formed, Fields
  <1>5. /\ f.v = e.v /\ f.synced = e.synced /\ f.linked = e.linked
        /\ f.held = e.held /\ f.reopens = e.reopens
    BY DEF Fits, Formed, Fields
  <1> HIDE DEF f
  <1>6. Fits(f, k, L)
    BY <1>2, <1>4, MarkedEdge DEF Fits, Formed
  <1>7. Aside(e, f)
    BY <1>3, <1>4, <1>5, AsideOf DEF Fits, Formed
  <1>8. Aside(e, e)
    BY AsideMarked
  <1> QED BY <1>1, <1>6, <1>7, <1>8

\* follower.js:446-466: the relay's hello.
LEMMA HelloUpShows ==
  ASSUME NEW e, NEW k, NEW L, Fits(e, k, L)
  PROVE  Fits(HelloUp(e), k, L)
  <1> DEFINE own == {e.queue[i].n : i \in {j \in DOMAIN e.queue : e.queue[j].as = Itself}}
             m == [t |-> "hello", ops |-> own, since |-> IF e.have THEN e.v ELSE NoVersion]
             q == [i \in DOMAIN e.queue |-> [e.queue[i] EXCEPT !.sent = (e.queue[i].as = Itself)]]
             f == [e EXCEPT !.synced = FALSE, !.queue = q, !.out = Append(@, m)]
  <1>1. HelloUp(e) = Vouch(f, Pending(f))
    BY DEF HelloUp
  <1>2. e.queue \in Seq(Entry)
    BY DEF Fits, Formed
  <1>3. q \in Seq(Entry) /\ QueuedBy(q) = QueuedBy(e.queue)
    <2>1. \A j \in DOMAIN e.queue : \E b \in BOOLEAN : q[j] = [e.queue[j] EXCEPT !.sent = b]
      <3> SUFFICES ASSUME NEW j \in DOMAIN e.queue
                   PROVE  \E b \in BOOLEAN : q[j] = [e.queue[j] EXCEPT !.sent = b]
        OBVIOUS
      <3>1. q[j] = [e.queue[j] EXCEPT !.sent = (e.queue[j].as = Itself)]
        OBVIOUS
      <3>2. (e.queue[j].as = Itself) \in BOOLEAN
        OBVIOUS
      <3> HIDE DEF q
      <3> QED BY <3>1, <3>2
    <2>2. q = [j \in DOMAIN e.queue |-> q[j]]
      OBVIOUS
    <2> HIDE DEF q
    <2> QED BY <1>2, <2>1, <2>2, MarkedQueue
  <1>4. Posts(Append(e.out, m))
    <2>1. \A j \in DOMAIN e.queue : e.queue[j].n \in OpNumbers
      <3> SUFFICES ASSUME NEW j \in DOMAIN e.queue PROVE e.queue[j].n \in OpNumbers
        OBVIOUS
      <3>1. e.queue[j] \in Entry
        BY <1>2, ElementOfSeq
      <3> QED BY <3>1 DEF Entry
    <2>2. own \subseteq OpNumbers
      BY <2>1
    <2> HIDE DEF own
    <2>3. Letter(m)
      BY <2>2 DEF Letter
    <2> HIDE DEF m
    <2> QED BY <2>3, PostsAppend DEF Fits, Formed
  <1> HIDE DEF q, m
  <1>5. /\ DOMAIN f = Fields /\ f.base = e.base /\ f.view = e.view /\ f.ownSeq = e.ownSeq
        /\ f.queue = q /\ f.out = Append(e.out, m)
    BY DEF Fits, Formed, Fields
  <1> HIDE DEF f
  <1>6. Fits(f, k, L)
    BY <1>3, <1>4, <1>5, MarkedEdge
  <1>7. Pending(f) \subseteq As
    BY DEF Pending
  <1> QED BY <1>1, <1>6, <1>7, VouchShows

-----------------------------------------------------------------------------
(* What is taken, let go of and heard.                                     *)

\* An edge that differs in none of this.
LEMMA SameEdge ==
  ASSUME NEW e, NEW k, NEW L, Fits(e, k, L), NEW f, DOMAIN f = Fields,
         f.base = e.base, f.view = e.view, f.ownSeq = e.ownSeq, f.queue = e.queue, f.out = e.out
  PROVE  Fits(f, k, L)
  BY DEF Fits, Formed, Shows, Queued

\* follower.js:788-826, 947-968: an op is queued, and shown.
LEMMA QueueMore ==
  ASSUME NEW e, NEW k, NEW L, Fits(e, k, L), NEW x \in Entry, NEW j,
         NEW f, DOMAIN f = Fields, f.base = e.base, f.view = e.view, f.ownSeq = j,
         f.queue = Append(e.queue, x), f.out = e.out
  PROVE  /\ Fits(SendUp(EmitPatch(f, {ItemOf(x)} \ e.view, {}), Len(f.queue)), j, L)
         /\ Aside(f, SendUp(EmitPatch(f, {ItemOf(x)} \ e.view, {}), Len(f.queue)))
  <1> DEFINE g == EmitPatch(f, {ItemOf(x)} \ e.view, {})
  <1>1. f.queue \in Seq(Entry) /\ Queued(f) = Queued(e) \cup {ItemOf(x)}
    BY QueuedAppend DEF Fits, Formed, Queued
  <1>2. Formed(f, j)
    BY <1>1 DEF Fits, Formed
  <1>3. /\ Formed(g, j) /\ g.base = f.base /\ g.queue = f.queue /\ Queued(g) = Queued(f)
        /\ g.view = (f.view \ {}) \cup ({ItemOf(x)} \ e.view)
    BY <1>2, EmitPatchKeeps
  <1>4. Aside(f, g)
    BY <1>2, EmitPatchAside
  <1> HIDE DEF g
  <1>5. Fits(g, j, L)
    <2>1. g.base = e.base /\ g.view = e.view \cup {ItemOf(x)} /\ Queued(g) = Queued(e) \cup {ItemOf(x)}
      BY <1>1, <1>3
    <2> QED BY <1>3, <2>1 DEF Fits, Shows
  <1>6. Len(f.queue) \in DOMAIN g.queue
    <2>1. e.queue \in Seq(Entry)
      BY DEF Fits, Formed
    <2>2. Len(f.queue) = Len(e.queue) + 1 /\ Len(e.queue) \in Nat
      BY <2>1
    <2> QED BY <1>1, <1>3, <2>2
  <1>7. Fits(SendUp(g, Len(f.queue)), j, L) /\ Aside(g, SendUp(g, Len(f.queue)))
    BY <1>5, <1>6, SendUpShows
  <1> QED BY <1>4, <1>7, AsideAgain DEF g

\* follower.js:788-826: an op of a session.
LEMMA TakeShows ==
  ASSUME NEW e, NEW k, NEW L, Fits(e, k, L), NEW as \in As, NEW n \in OpNumbers
  PROVE  Fits(Take(e, as, n), k, L) /\ Aside(e, Take(e, as, n))
  <1> DEFINE mine == {i \in DOMAIN e.queue : ItemOf(e.queue[i]) = <<as[1], n>>}
             i == CHOOSE j \in mine : TRUE
             q == [e.queue EXCEPT ![i].as = as]
             f == [e EXCEPT !.queue = q]
             x == [as |-> as, n |-> n, sent |-> FALSE]
             h == [e EXCEPT !.queue = Append(@, x)]
  <1>1. \/ mine # {} /\ Take(e, as, n) = SendUp(f, i)
        \/ Take(e, as, n) = e
        \/ Take(e, as, n) = SendUp(EmitPatch(h, {<<as[1], n>>} \ e.view, {}), Len(h.queue))
    BY DEF Take
  <1>2. as \in Speakers
    BY DEF Speakers
  <1>3. e.queue \in Seq(Entry) /\ DOMAIN e = Fields
    BY DEF Fits, Formed
  <1>4. CASE mine # {} /\ Take(e, as, n) = SendUp(f, i)
    <2>1. i \in mine
      BY <1>4
    <2>2. i \in DOMAIN e.queue /\ ItemOf(e.queue[i]) = <<as[1], n>>
      BY <2>1
    <2> HIDE DEF mine, i
    <2>3. e.queue[i] \in Entry
      BY <1>3, <2>2, ElementOfSeq
    <2>4. q[i] = [e.queue[i] EXCEPT !.as = as] /\ DOMAIN q = DOMAIN e.queue
      BY <2>2
    <2>5. \A j \in DOMAIN e.queue : j # i => q[j] = e.queue[j]
      OBVIOUS
    <2>6. q[i] \in Entry /\ ItemOf(q[i]) = ItemOf(e.queue[i])
      BY <1>2, <2>2, <2>3, <2>4 DEF Entry, ItemOf
    <2>7. q \in Seq(Entry)
      BY <1>2, <1>3, <2>2, <2>4, <2>5, <2>6
    <2> HIDE DEF q
    <2>8. QueuedBy(q) = QueuedBy(e.queue)
      <3>1. \A j \in DOMAIN q : ItemOf(q[j]) = ItemOf(e.queue[j])
        BY <2>4, <2>5, <2>6
      <3> QED BY <1>3, <2>4, <2>7, <3>1, MarksKeep
    <2>9. /\ DOMAIN f = Fields /\ f.base = e.base /\ f.view = e.view /\ f.ownSeq = e.ownSeq
          /\ f.queue = q /\ f.out = e.out
      BY <1>3 DEF Fields
    <2>10. /\ f.v = e.v /\ f.synced = e.synced /\ f.linked = e.linked
           /\ f.held = e.held /\ f.reopens = e.reopens
      BY <1>3 DEF Fields
    <2> HIDE DEF f
    <2>11. Fits(f, k, L)
      BY <2>7, <2>8, <2>9, MarkedEdge DEF Fits, Formed
    <2>12. Aside(e, f)
      BY <2>8, <2>9, <2>10, AsideMarked
    <2>13. Fits(SendUp(f, i), k, L) /\ Aside(f, SendUp(f, i))
      BY <2>2, <2>4, <2>9, <2>11, SendUpShows
    <2> QED BY <1>4, <2>12, <2>13, AsideAgain
  <1>5. CASE Take(e, as, n) = SendUp(EmitPatch(h, {<<as[1], n>>} \ e.view, {}), Len(h.queue))
    <2>1. x \in Entry /\ ItemOf(x) = <<as[1], n>>
      BY <1>2 DEF Entry, ItemOf
    <2> HIDE DEF x
    <2>2. /\ DOMAIN h = Fields /\ h.base = e.base /\ h.view = e.view /\ h.ownSeq = k
          /\ h.queue = Append(e.queue, x) /\ h.out = e.out
      BY <1>3 DEF Fits, Formed, Fields
    <2>3. /\ h.v = e.v /\ h.synced = e.synced /\ h.linked = e.linked
          /\ h.held = e.held /\ h.reopens = e.reopens
      BY <1>3 DEF Fields
    <2> HIDE DEF h
    <2> DEFINE g == SendUp(EmitPatch(h, {ItemOf(x)} \ e.view, {}), Len(h.queue))
    <2>4. Fits(g, k, L) /\ Aside(h, g)
      BY <2>1, <2>2, QueueMore
    <2>5. Foreign(e.queue) => Foreign(h.queue)
      <3>1. QueuedBy(h.queue) = QueuedBy(e.queue) \cup {ItemOf(x)}
        BY <1>3, <2>1, <2>2, QueuedAppend
      <3>2. as[1] \in Clients /\ Own \notin Clients
        BY RelayAssumption DEF As
      <3>3. ItemOf(x)[1] = as[1]
        BY <2>1
      <3> QED BY <3>1, <3>2, <3>3 DEF Foreign
    <2>6. Aside(e, h)
      BY <2>2, <2>3, <2>5 DEF Aside
    <2>7. Take(e, as, n) = g
      BY <1>5, <2>1
    <2> HIDE DEF g
    <2>8. Aside(e, g)
      BY <2>4, <2>6, AsideAgain
    <2> QED BY <2>4, <2>7, <2>8
  <1>6. Aside(e, e)
    BY AsideMarked
  <1> QED BY <1>1, <1>4, <1>5, <1>6

\* Ops taken, one by one.
OneTaken(as, ops, n, e) == IF n \in ops THEN Take(e, as, n) ELSE e
Taking(f, e, as, ops, n) == f = [i \in 0 .. n |-> IF i = 0 THEN e ELSE OneTaken(as, ops, i, f[i - 1])]

\* Something is taken.
LEMMA TakingExists ==
  ASSUME NEW e, NEW as, NEW ops, NEW n \in Nat
  PROVE  \E f : Taking(f, e, as, ops, n)
  <1> DEFINE T == {m \in Nat : ~\E f : Taking(f, e, as, ops, m)}
  <1> SUFFICES ASSUME T # {} PROVE FALSE
    OBVIOUS
  <1>1. T \subseteq Nat
    OBVIOUS
  <1>2. 0 \notin T
    <2>1. Taking([i \in 0 .. 0 |-> e], e, as, ops, 0)
      BY DEF Taking
    <2> QED BY <2>1
  <1> HIDE DEF T
  <1>3. PICK m \in T : \A y \in T : m <= y
    BY <1>1, SmallestOf
  <1>4. m \in Nat /\ m - 1 \in Nat /\ m - 1 \notin T
    BY <1>1, <1>2, <1>3
  <1>5. PICK g : Taking(g, e, as, ops, m - 1)
    BY <1>4 DEF T
  <1> DEFINE G == [i \in 0 .. m |-> IF i = 0 THEN e ELSE OneTaken(as, ops, i, g[i - 1])]
  <1>6. \A i \in 0 .. m - 1 : G[i] = g[i]
    <2> SUFFICES ASSUME NEW i \in 0 .. m - 1 PROVE G[i] = g[i]
      OBVIOUS
    <2>1. g[i] = IF i = 0 THEN e ELSE OneTaken(as, ops, i, g[i - 1])
      BY <1>4, <1>5 DEF Taking
    <2>2. i \in 0 .. m
      BY <1>4
    <2> QED BY <2>1, <2>2
  <1>7. \A i \in 0 .. m : i # 0 => G[i - 1] = g[i - 1]
    <2> SUFFICES ASSUME NEW i \in 0 .. m, i # 0 PROVE G[i - 1] = g[i - 1]
      OBVIOUS
    <2>1. i - 1 \in 0 .. m - 1
      BY <1>4
    <2> HIDE DEF G
    <2> QED BY <1>6, <2>1
  <1>8. Taking(G, e, as, ops, m)
    BY <1>7 DEF Taking
  <1>9. m \notin T
    <2> HIDE DEF G
    <2> QED BY <1>8 DEF T
  <1> QED BY <1>3, <1>9

\* The ops of a hello.
LEMMA TakeAllShows ==
  ASSUME NEW e, NEW k, NEW L, Fits(e, k, L), NEW as \in As, NEW ops
  PROVE  Fits(TakeAll(e, as, ops), k, L) /\ Aside(e, TakeAll(e, as, ops))
  <1> DEFINE f == CHOOSE g : Taking(g, e, as, ops, MaxOps)
             OK(i) == Fits(f[i], k, L) /\ Aside(e, f[i])
             T == {i \in 0 .. MaxOps : ~OK(i)}
  <1>1. MaxOps \in Nat /\ MaxOwn \in Nat
    BY RelayAssumption
  <1>2. Taking(f, e, as, ops, MaxOps)
    BY <1>1, TakingExists
  <1>3. TakeAll(e, as, ops) = f[MaxOps]
    BY DEF TakeAll, Taking, OneTaken
  <1> HIDE DEF f
  <1>4. OK(0)
    <2>1. f[0] = e
      BY <1>1, <1>2 DEF Taking
    <2>2. Aside(e, e)
      BY AsideMarked
    <2> QED BY <2>1, <2>2
  <1>5. ASSUME NEW i \in 1 .. MaxOps, OK(i - 1) PROVE OK(i)
    <2>1. f[i] = IF i \in ops THEN Take(f[i - 1], as, i) ELSE f[i - 1]
      <3> DEFINE N == MaxOps
      <3>1. f[i] = OneTaken(as, ops, i, f[i - 1])
        <4>1. N \in Nat /\ i \in 0 .. N /\ i # 0
          BY <1>1
        <4>2. Taking(f, e, as, ops, N)
          BY <1>2
        <4> HIDE DEF N
        <4> QED BY <4>1, <4>2 DEF Taking
      <3> QED BY <3>1 DEF OneTaken
    <2>2. i \in OpNumbers
      BY <1>1 DEF OpNumbers
    <2> DEFINE g == f[i - 1]
    <2>3. Fits(g, k, L) /\ Aside(e, g)
      BY <1>5
    <2>4. f[i] = IF i \in ops THEN Take(g, as, i) ELSE g
      BY <2>1
    <2> HIDE DEF g
    <2>5. Fits(Take(g, as, i), k, L) /\ Aside(g, Take(g, as, i))
      BY <2>2, <2>3, TakeShows
    <2>6. Aside(e, Take(g, as, i))
      BY <2>3, <2>5, AsideAgain
    <2> QED BY <2>3, <2>4, <2>5, <2>6
  <1> HIDE DEF OK
  <1>6. T = {}
    <2> SUFFICES ASSUME T # {} PROVE FALSE
      OBVIOUS
    <2>1. PICK i \in T : \A y \in T : i <= y
      <3>1. T \subseteq Nat
        BY <1>1
      <3> HIDE DEF T
      <3> QED BY <3>1, SmallestOf
    <2>2. i # 0
      BY <1>4, <2>1
    <2>3. i \in 1 .. MaxOps /\ i - 1 \in 0 .. MaxOps
      BY <1>1, <2>1, <2>2
    <2>4. OK(i - 1)
      <3>1. i - 1 \notin T
        BY <1>1, <2>1, <2>3
      <3> QED BY <2>3, <3>1
    <2> QED BY <1>5, <2>1, <2>3, <2>4
  <1>7. OK(MaxOps)
    BY <1>1, <1>6
  <1> QED BY <1>3, <1>7 DEF OK

\* follower.js:864-881: a client leaves.
LEMMA LeftShows ==
  ASSUME NEW e, NEW k, NEW L, Fits(e, k, L), NEW as
  PROVE  Fits(Left(e, as), k, L) /\ Aside(e, Left(e, as))
  <1> DEFINE m == [t |-> "leave", as |-> as]
             told == IF e.grants[as] = "admitted" /\ e.synced /\ linkUp(e)
                       THEN Append(e.out, m) ELSE e.out
             f == [e EXCEPT !.grants[as] = "none", !.out = told]
             gone == {i \in DOMAIN e.queue : e.queue[i].as = as /\ ~e.queue[i].sent}
  <1>1. Left(e, as) = IF e.grants[as] = "none" THEN e ELSE Forget(f, gone)
    <2>1. f.queue = e.queue
      BY DEF Fits, Formed, Fields
    <2> QED BY <2>1 DEF Left
  <1>2. Posts(told)
    <2>1. Letter(m)
      BY DEF Letter
    <2> HIDE DEF m
    <2>2. Posts(Append(e.out, m)) /\ Posts(e.out)
      BY <2>1, PostsAppend DEF Fits, Formed
    <2> QED BY <2>2
  <1>3. m.t = "leave" /\ (told = e.out \/ told = Append(e.out, m))
    OBVIOUS
  <1> HIDE DEF told, m
  <1>4. /\ DOMAIN f = Fields /\ f.base = e.base /\ f.view = e.view /\ f.ownSeq = e.ownSeq
        /\ f.queue = e.queue /\ f.out = told
    BY DEF Fits, Formed, Fields
  <1>5. /\ f.v = e.v /\ f.synced = e.synced /\ f.linked = e.linked
        /\ f.held = e.held /\ f.reopens = e.reopens
    BY DEF Fits, Formed, Fields
  <1> HIDE DEF f
  <1>6. Fits(f, k, L)
    BY <1>2, <1>4, MarkedEdge DEF Fits, Formed
  <1>7. Aside(e, f)
    BY <1>3, <1>4, <1>5, AsideOf DEF Fits, Formed
  <1>8. gone \in SUBSET DOMAIN f.queue
    BY <1>4
  <1> HIDE DEF gone
  <1>9. Fits(Forget(f, gone), k, L) /\ Aside(f, Forget(f, gone))
    BY <1>6, <1>8, ForgetShows
  <1>10. Aside(e, e)
    BY AsideMarked
  <1>11. Aside(e, Forget(f, gone))
    BY <1>7, <1>9, AsideAgain
  <1> QED BY <1>1, <1>9, <1>10, <1>11

\* follower.js:523-532, 695-701: the server's session is gone.
LEMMA SessionLostShows ==
  ASSUME NEW e, NEW k, NEW L, Fits(e, k, L)
  PROVE  Fits(SessionLost(e), k, L) /\ Aside([e EXCEPT !.synced = FALSE], SessionLost(e))
  <1> DEFINE e1 == [e EXCEPT !.synced = FALSE]
             e2 == Ungranted(e1)
             e3 == ForgetOrphans(e2)
             q == [i \in DOMAIN e3.queue |-> [e3.queue[i] EXCEPT !.sent = FALSE]]
             e4 == [e3 EXCEPT !.queue = q]
             gone == {i \in DOMAIN e2.queue : e2.queue[i].as # Itself /\ e2.grants[e2.queue[i].as] = "none"}
  <1>1. SessionLost(e) = e4
    BY DEF SessionLost, Unsent
  <1>2. Fits(e1, k, L)
    <2>1. /\ DOMAIN e1 = Fields /\ e1.base = e.base /\ e1.view = e.view /\ e1.ownSeq = e.ownSeq
          /\ e1.queue = e.queue /\ e1.out = e.out
      BY DEF Fits, Formed, Fields
    <2> HIDE DEF e1
    <2> QED BY <2>1, SameEdge
  <1> HIDE DEF e1
  <1>3. Fits(e2, k, L) /\ Aside(e1, e2)
    <2>1. /\ DOMAIN e2 = Fields /\ e2.base = e1.base /\ e2.view = e1.view /\ e2.ownSeq = e1.ownSeq
          /\ e2.queue = e1.queue /\ e2.out = e1.out
      BY <1>2 DEF Fits, Formed, Fields, Ungranted
    <2>2. /\ e2.v = e1.v /\ e2.synced = e1.synced /\ e2.linked = e1.linked
          /\ e2.held = e1.held /\ e2.reopens = e1.reopens
      BY <1>2 DEF Fits, Formed, Fields, Ungranted
    <2> HIDE DEF e2
    <2> QED BY <1>2, <2>1, <2>2, SameEdge, AsideMarked
  <1> HIDE DEF e2
  <1>4. Fits(e3, k, L) /\ Aside(e2, e3)
    <2>1. gone \in SUBSET DOMAIN e2.queue
      OBVIOUS
    <2>2. e3 = Forget(e2, gone)
      BY DEF ForgetOrphans
    <2> HIDE DEF gone, e3
    <2> QED BY <1>3, <2>1, <2>2, ForgetShows
  <1> HIDE DEF e3
  <1>5. q \in Seq(Entry) /\ QueuedBy(q) = QueuedBy(e3.queue)
    <2>1. e3.queue \in Seq(Entry)
      BY <1>4 DEF Fits, Formed
    <2>2. q = [j \in DOMAIN e3.queue |-> q[j]]
      OBVIOUS
    <2>3. \A j \in DOMAIN e3.queue : \E b \in BOOLEAN : q[j] = [e3.queue[j] EXCEPT !.sent = b]
      OBVIOUS
    <2> HIDE DEF q
    <2> QED BY <2>1, <2>2, <2>3, MarkedQueue
  <1> HIDE DEF q
  <1>6. /\ DOMAIN e4 = Fields /\ e4.base = e3.base /\ e4.view = e3.view /\ e4.ownSeq = e3.ownSeq
        /\ e4.queue = q /\ e4.out = e3.out
    BY <1>4 DEF Fits, Formed, Fields
  <1>7. /\ e4.v = e3.v /\ e4.synced = e3.synced /\ e4.linked = e3.linked
        /\ e4.held = e3.held /\ e4.reopens = e3.reopens
    BY <1>4 DEF Fits, Formed, Fields
  <1> HIDE DEF e4
  <1>8. Fits(e4, k, L)
    BY <1>4, <1>5, <1>6, MarkedEdge DEF Fits, Formed
  <1>9. Aside(e3, e4)
    BY <1>5, <1>6, <1>7, AsideMarked
  <1>10. Aside(e1, e4)
    BY <1>3, <1>4, <1>9, AsideAgain
  <1> QED BY <1>1, <1>8, <1>10 DEF e1

\* An entry is of an item there is.
LEMMA EntryItem ==
  ASSUME NEW x \in Entry
  PROVE  ItemOf(x) \in Items
  <1>1. x.as \in Speakers /\ x.n \in OpNumbers
    BY DEF Entry
  <1>2. x.as[1] \in Authors
    BY <1>1 DEF Speakers, As, Itself, Authors
  <1> QED BY <1>1, <1>2 DEF ItemOf, Items

\* The items of entries of a queue that all are of those the view may have.
LEMMA LooseAt ==
  ASSUME NEW queue \in Seq(Entry), NEW gone \in SUBSET DOMAIN queue, NEW in,
         \A i \in gone : queue[i].as[1] \notin in
  PROVE  At(queue, gone) \subseteq Loose(in)
  <1> SUFFICES ASSUME NEW i \in gone PROVE ItemOf(queue[i]) \in Loose(in)
    BY DEF At
  <1>1. queue[i] \in Entry
    BY ElementOfSeq
  <1>2. ItemOf(queue[i]) \in Items
    BY <1>1, EntryItem
  <1>3. ItemOf(queue[i])[1] = queue[i].as[1]
    BY DEF ItemOf
  <1> QED BY <1>2, <1>3 DEF Loose

\* follower.js:668-690: entries that are let go of with the view left as it is.
LEMMA LetGo ==
  ASSUME NEW e, NEW k, NEW L, Fits(e, k, L), NEW gone \in SUBSET DOMAIN e.queue,
         At(e.queue, gone) \subseteq L,
         NEW f, DOMAIN f = Fields, f.base = e.base, f.view = e.view, f.ownSeq = e.ownSeq,
         f.queue = Without(e.queue, gone), f.out = e.out
  PROVE  Fits(f, k, L)
  <1>1. f.queue \in Seq(Entry) /\ Queued(e) = Queued(f) \cup At(e.queue, gone)
    <2> DEFINE q == Without(e.queue, gone)
    <2>1. e.queue \in Seq(Entry)
      BY DEF Fits, Formed
    <2>2. q \in Seq(Entry) /\ QueuedBy(q) = At(e.queue, (DOMAIN e.queue) \ gone)
      BY <2>1, WithoutKeeps
    <2>3. QueuedBy(e.queue) = At(e.queue, (DOMAIN e.queue) \ gone) \cup At(e.queue, gone)
      BY QueueParts
    <2>4. f.queue = q
      OBVIOUS
    <2> HIDE DEF q
    <2> QED BY <2>2, <2>3, <2>4 DEF Queued
  <1>2. Formed(f, k)
    BY <1>1 DEF Fits, Formed
  <1>3. Shows(f, L)
    BY <1>1 DEF Fits, Shows
  <1> QED BY <1>2, <1>3 DEF Fits

\* follower.js:537-553: an answer of the server.
LEMMA CaughtUpShows ==
  ASSUME NEW e, NEW k, NEW in, Fits(e, k, Loose(in)), Own \notin in, NEW m
  PROVE  Fits(CaughtUp(e, m), k, Loose(in))
  <1> DEFINE gone == {i \in DOMAIN e.queue : e.queue[i].as = Itself /\ e.queue[i].n <= m.s}
             q == Without(e.queue, gone)
             news == IF m.since = NoVersion THEN Merged(0, m.v) ELSE Merged(m.since, m.v)
             base == IF m.since = NoVersion THEN news ELSE e.base \cup news
             touched == IF m.since = NoVersion THEN e.base \cup news ELSE news
             f == [e EXCEPT !.queue = q, !.base = base, !.v = m.v, !.have = TRUE, !.synced = TRUE]
  <1>1. CaughtUp(e, m) = Recompute(f, touched)
    BY DEF CaughtUp
  <1>2. At(e.queue, gone) \subseteq Loose(in)
    <2>1. \A i \in gone : e.queue[i].as[1] \notin in
      BY DEF Itself
    <2>2. gone \in SUBSET DOMAIN e.queue
      OBVIOUS
    <2> HIDE DEF gone
    <2> QED BY <2>1, <2>2, LooseAt DEF Fits, Formed
  <1>3. gone \in SUBSET DOMAIN e.queue
    OBVIOUS
  <1> HIDE DEF gone
  <1>4. q \in Seq(Entry) /\ Queued(e) = QueuedBy(q) \cup At(e.queue, gone)
    BY <1>3, WithoutKeeps, QueueParts DEF Fits, Formed, Queued
  <1>5. /\ base \subseteq e.base \cup touched
        /\ e.base \subseteq base \cup touched
    OBVIOUS
  <1> HIDE DEF q, base, touched
  <1>6. /\ DOMAIN f = Fields /\ f.base = base /\ f.view = e.view /\ f.ownSeq = e.ownSeq
        /\ f.queue = q /\ f.out = e.out
    BY DEF Fits, Formed, Fields
  <1> HIDE DEF f
  <1>7. Formed(f, k)
    BY <1>4, <1>6 DEF Fits, Formed
  <1>8. f.base \subseteq f.view \cup touched
    BY <1>5, <1>6 DEF Fits, Shows
  <1>9. f.view \subseteq f.base \cup Queued(f) \cup Loose(in) \cup touched
    <2>1. Queued(f) = QueuedBy(q)
      BY <1>6 DEF Queued
    <2> QED BY <1>2, <1>4, <1>5, <1>6, <2>1 DEF Fits, Shows
  <1> QED BY <1>1, <1>7, <1>8, <1>9, RecomputeShows

-----------------------------------------------------------------------------
(* The relay's steps.                                                      *)

\* The relay has a replica of its own, which is let in by no hook.
LEMMA OwnApart ==
  ASSUME Served
  PROVE  Own \notin allowed
  BY RelayAssumption DEF Served

\* A handler is done.
LEMMA DoneKeeps ==
  ASSUME NEW e, NEW k, NEW L, Fits(e, k, L), Posts(up), Done(e)
  PROVE  Fits(edge', k, L) /\ edge'.out = <<>> /\ Posts(up')
  <1>1. /\ DOMAIN edge' = Fields /\ edge'.base = e.base /\ edge'.view = e.view
        /\ edge'.ownSeq = e.ownSeq /\ edge'.queue = e.queue /\ edge'.out = <<>>
    BY DEF Done, Fits, Formed, Fields
  <1>2. Posts(<<>>)
    BY MailFew DEF Posts
  <1>3. Fits(edge', k, L)
    BY <1>1, <1>2, MarkedEdge DEF Fits, Formed
  <1>4. Posts(up \o e.out)
    <2>1. Posts(e.out)
      BY DEF Fits, Formed
    <2> QED BY <2>1, MailConcat DEF Posts
  <1>5. up' = up \o e.out \/ up' = <<>>
    BY DEF Done
  <1> QED BY <1>1, <1>2, <1>3, <1>4, <1>5

\* What a handler of the relay has to leave.
LEMMA HandlerKeeps ==
  ASSUME Copied, NEW e, Fits(e, edge.ownSeq, Loose(allowed)), Done(e),
         made' = made, saved' = saved, allowed' = allowed,
         cur' \in [Clients -> 0 .. MaxSessions]
  PROVE  Copied'
  <1>1. Fits(edge', edge.ownSeq, Loose(allowed)) /\ edge'.out = <<>> /\ Posts(up')
    BY DoneKeeps DEF Copied
  <1>2. edge'.ownSeq = edge.ownSeq
    BY <1>1 DEF Fits, Formed
  <1>3. Fits(edge', edge'.ownSeq, Loose(allowed'))
    BY <1>1, <1>2
  <1> QED BY <1>1, <1>2, <1>3 DEF Copied

\* What the view may have beyond the rest can only grow.
LEMMA LooseGrows ==
  ASSUME NEW e, NEW k, NEW A, NEW B \in SUBSET A, Fits(e, k, Loose(A))
  PROVE  Fits(e, k, Loose(B))
  <1>1. Loose(A) \subseteq Loose(B)
    BY DEF Loose
  <1> HIDE DEF Loose
  <1> QED BY <1>1 DEF Fits, Shows

\* The relay has no part in it.
LEMMA RelaySame ==
  ASSUME Copied, made' = made, cur' = cur, edge' = edge, saved' = saved, Posts(up'),
         allowed' \subseteq allowed
  PROVE  Copied'
  <1>1. Fits(edge', edge'.ownSeq, Loose(allowed'))
    <2>1. Fits(edge, edge.ownSeq, Loose(allowed'))
      BY LooseGrows DEF Copied
    <2> QED BY <2>1
  <1> QED BY <1>1 DEF Copied

\* follower.js:788-826: an op that a client makes.
LEMMA MakeCopied ==
  ASSUME Copied, Served, NEW c \in Clients, Make(c)
  PROVE  Copied'
  <1> DEFINE e == Take(edge, <<c, cur[c]>>, made[c] + 1)
  <1>1. made[c] \in Nat /\ made[c] < MaxOps /\ MaxOps \in Nat /\ MaxOwn \in Nat
    BY RelayAssumption DEF Make, Copied, Authors
  <1>2. made' \in [Authors -> Nat] /\ made'[Own] = made[Own]
    BY <1>1, RelayAssumption DEF Make, Copied, Authors
  <1>3. cur' = cur /\ saved' = saved /\ allowed' = allowed
    BY DEF Make, server
  <1>4. Fits(edge', edge.ownSeq, Loose(allowed)) /\ edge'.out = <<>> /\ Posts(up')
    <2>1. CASE c \in Answered
      <3>1. <<c, cur[c]>> \in As
        BY <2>1 DEF Answered, As, Copied
      <3>2. made[c] + 1 \in OpNumbers
        BY <1>1 DEF OpNumbers
      <3>3. Fits(e, edge.ownSeq, Loose(allowed))
        BY <3>1, <3>2, TakeShows DEF Copied
      <3>4. Done(e)
        BY <2>1 DEF Make
      <3> HIDE DEF e
      <3> QED BY <3>3, <3>4, DoneKeeps DEF Copied
    <2>2. CASE c \notin Answered
      <3>1. edge' = edge /\ up' = up
        BY <2>2 DEF Make
      <3> QED BY <3>1 DEF Copied
    <2> QED BY <2>1, <2>2
  <1>5. edge'.ownSeq = edge.ownSeq
    BY <1>4 DEF Fits, Formed
  <1>6. Fits(edge', edge'.ownSeq, Loose(allowed'))
    BY <1>3, <1>4, <1>5
  <1> QED BY <1>2, <1>3, <1>4, <1>5, <1>6 DEF Copied

\* follower.js:884-918: a client's hello comes.
LEMMA ConnectCopied ==
  ASSUME Copied, NEW c \in Clients, Connect(c)
  PROVE  Copied'
  <1>1. PICK k \in 1 .. MaxSessions :
          /\ cur' = [cur EXCEPT ![c] = k]
          /\ edge' = [edge EXCEPT !.grants[<<c, k>>] = "pending"]
    BY DEF Connect
  <1>2. made' = made /\ saved' = saved /\ up' = up /\ allowed' = allowed
    BY DEF Connect, server
  <1>3. cur' \in [Clients -> 0 .. MaxSessions]
    BY <1>1 DEF Copied
  <1>4. /\ DOMAIN edge' = Fields /\ edge'.base = edge.base /\ edge'.view = edge.view
        /\ edge'.ownSeq = edge.ownSeq /\ edge'.queue = edge.queue /\ edge'.out = edge.out
    BY <1>1 DEF Copied, Fits, Formed, Fields
  <1>5. Fits(edge', edge.ownSeq, Loose(allowed))
    BY <1>4, SameEdge DEF Copied
  <1>6. Fits(edge', edge'.ownSeq, Loose(allowed'))
    BY <1>2, <1>4, <1>5
  <1> QED BY <1>2, <1>3, <1>4, <1>6 DEF Copied

\* follower.js:754-785: a session is tried.
LEMMA TryHelloCopied ==
  ASSUME Copied, NEW as \in As, TryHello(as)
  PROVE  Copied'
  <1> DEFINE asked == IF edge.grants[as] = "pending" THEN Vouch(edge, {as}) ELSE edge
             ops == hello[as].ops \cup IF cur[as[1]] = as[2] THEN outbox[as[1]] ELSE {}
             e == TakeAll(asked, as, ops)
  <1>1. Fits(asked, edge.ownSeq, Loose(allowed))
    <2>1. Fits(edge, edge.ownSeq, Loose(allowed))
      BY DEF Copied
    <2>2. {as} \in SUBSET As
      OBVIOUS
    <2>3. Fits(Vouch(edge, {as}), edge.ownSeq, Loose(allowed))
      BY <2>1, <2>2, VouchShows
    <2> QED BY <2>1, <2>3
  <1>2. Done(e) \/ Done(asked)
    BY DEF TryHello
  <1>3. made' = made /\ saved' = saved /\ allowed' = allowed /\ cur' = cur
    BY DEF TryHello, server
  <1> HIDE DEF asked, ops
  <1>4. Fits(e, edge.ownSeq, Loose(allowed))
    BY <1>1, TakeAllShows
  <1> HIDE DEF e
  <1> QED BY <1>1, <1>2, <1>3, <1>4, HandlerKeeps DEF Copied

\* A client's socket closes, or the relay comes to know that it did.
LEMMA LeaveCopied ==
  ASSUME Copied, \/ \E c \in Clients : Leave(c) \/ SocketLost(c)
                 \/ \E as \in As : NoticeLost(as)
  PROVE  Copied'
  <1>1. ASSUME NEW c \in Clients, Leave(c) PROVE Copied'
    <2> DEFINE e == Left(edge, <<c, cur[c]>>)
    <2>1. Fits(e, edge.ownSeq, Loose(allowed))
      BY LeftShows DEF Copied
    <2>2. Done(e) /\ made' = made /\ saved' = saved /\ allowed' = allowed
      BY <1>1 DEF Leave, server
    <2>3. cur' \in [Clients -> 0 .. MaxSessions]
      BY <1>1, RelayAssumption DEF Leave, Copied
    <2> HIDE DEF e
    <2> QED BY <2>1, <2>2, <2>3, HandlerKeeps
  <1>2. ASSUME NEW c \in Clients, SocketLost(c) PROVE Copied'
    <2>1. /\ made' = made /\ saved' = saved /\ allowed' = allowed /\ edge' = edge /\ up' = up
          /\ cur' = [cur EXCEPT ![c] = 0]
      BY <1>2 DEF SocketLost, server
    <2>2. cur' \in [Clients -> 0 .. MaxSessions]
      BY <2>1, RelayAssumption DEF Copied
    <2> QED BY <2>1, <2>2 DEF Copied
  <1>3. ASSUME NEW as \in As, NoticeLost(as) PROVE Copied'
    <2> DEFINE e == Left(edge, as)
    <2>1. Fits(e, edge.ownSeq, Loose(allowed))
      BY LeftShows DEF Copied
    <2>2. Done(e) /\ made' = made /\ saved' = saved /\ allowed' = allowed /\ cur' = cur
      BY <1>3 DEF NoticeLost, server
    <2> HIDE DEF e
    <2> QED BY <2>1, <2>2, HandlerKeeps DEF Copied
  <1> QED BY <1>1, <1>2, <1>3

\* An edge with other flags.
LEMMA Flagged ==
  ASSUME NEW e, NEW k, NEW L, Fits(e, k, L), NEW b
  PROVE  /\ Fits([e EXCEPT !.linked = b], k, L)
         /\ Fits([e EXCEPT !.held = b], k, L)
         /\ Fits([e EXCEPT !.reopens = b], k, L)
         /\ Fits([e EXCEPT !.retry = b], k, L)
         /\ Fits([e EXCEPT !.revouch = b], k, L)
         /\ Fits([e EXCEPT !.v = b], k, L)
  BY DEF Fits, Formed, Fields, Shows, Queued

\* The link opens and drops, the host says that it does, and timers fire.
LEMMA LinkCopied ==
  ASSUME Copied, \/ LinkOpens \/ LinkDrops \/ UpstreamDown \/ UpstreamUp \/ Reopens
                 \/ Retries \/ AsksAgain
  PROVE  Copied'
  <1> DEFINE k == edge.ownSeq
             L == Loose(allowed)
  <1>1. Fits(edge, k, L)
    BY DEF Copied
  <1>2. cur \in [Clients -> 0 .. MaxSessions]
    BY DEF Copied
  <1> HIDE DEF k, L
  <1>3. CASE LinkOpens
    <2> DEFINE e == [edge EXCEPT !.linked = TRUE]
    <2>1. Fits(e, k, L)
      BY <1>1, Flagged
    <2>2. Done(HelloUp(e)) /\ made' = made /\ saved' = saved /\ allowed' = allowed /\ cur' = cur
      BY <1>3 DEF LinkOpens, client, server
    <2> HIDE DEF e
    <2>3. Fits(HelloUp(e), k, L)
      BY <2>1, HelloUpShows
    <2> QED BY <1>2, <2>2, <2>3, HandlerKeeps DEF k, L
  <1>4. CASE LinkDrops
    <2> DEFINE e == [edge EXCEPT !.linked = FALSE]
    <2>1. Fits(e, k, L)
      BY <1>1, Flagged
    <2>2. Done(SessionLost(e)) /\ made' = made /\ saved' = saved /\ allowed' = allowed /\ cur' = cur
      BY <1>4 DEF LinkDrops
    <2> HIDE DEF e
    <2>3. Fits(SessionLost(e), k, L)
      BY <2>1, SessionLostShows
    <2> QED BY <1>2, <2>2, <2>3, HandlerKeeps DEF k, L
  <1>5. CASE UpstreamDown
    <2>1. Fits(edge', k, L)
      BY <1>1, <1>5, Flagged DEF UpstreamDown
    <2>2. edge'.ownSeq = edge.ownSeq /\ edge'.out = edge.out
      BY <1>5 DEF UpstreamDown, Copied, Fits, Formed, Fields
    <2>3. made' = made /\ saved' = saved /\ allowed' = allowed /\ cur' = cur /\ up' = up
      BY <1>5 DEF UpstreamDown, client, server
    <2>4. Fits(edge', edge'.ownSeq, Loose(allowed'))
      BY <2>1, <2>2, <2>3 DEF k, L
    <2> QED BY <2>2, <2>3, <2>4 DEF Copied
  <1>6. CASE UpstreamUp
    <2> DEFINE e == [edge EXCEPT !.held = FALSE]
               f == IF edge.linked THEN HelloUp(e) ELSE e
    <2>1. Fits(e, k, L)
      BY <1>1, Flagged
    <2>2. Done(f) /\ made' = made /\ saved' = saved /\ allowed' = allowed /\ cur' = cur
      BY <1>6 DEF UpstreamUp, client, server
    <2> HIDE DEF e
    <2>3. Fits(f, k, L)
      BY <2>1, HelloUpShows
    <2> HIDE DEF f
    <2> QED BY <1>2, <2>2, <2>3, HandlerKeeps DEF k, L
  <1>7. CASE Reopens
    <2> DEFINE e == [edge EXCEPT !.reopens = FALSE]
               f == IF edge.linked THEN HelloUp(e) ELSE e
    <2>1. Fits(e, k, L)
      BY <1>1, Flagged
    <2>2. Done(f) /\ made' = made /\ saved' = saved /\ allowed' = allowed /\ cur' = cur
      BY <1>7 DEF Reopens, client, server
    <2> HIDE DEF e
    <2>3. Fits(f, k, L)
      BY <2>1, HelloUpShows
    <2> HIDE DEF f
    <2> QED BY <1>2, <2>2, <2>3, HandlerKeeps DEF k, L
  <1>8. CASE Retries
    <2> DEFINE e == [edge EXCEPT !.retry = FALSE]
    <2>1. Fits(e, k, L)
      BY <1>1, Flagged
    <2>2. /\ Done(SendQueue(e, Speakers))
          /\ made' = made /\ saved' = saved /\ allowed' = allowed /\ cur' = cur
      BY <1>8 DEF Retries, client
    <2> HIDE DEF e
    <2>3. Fits(SendQueue(e, Speakers), k, L)
      BY <2>1, SendQueueShows
    <2> QED BY <1>2, <2>2, <2>3, HandlerKeeps DEF k, L
  <1>9. CASE AsksAgain
    <2> DEFINE e == [edge EXCEPT !.revouch = {}]
               S == edge.revouch \cap Pending(edge)
    <2>1. Fits(e, k, L)
      BY <1>1, Flagged
    <2>2. Done(Vouch(e, S)) /\ made' = made /\ saved' = saved /\ allowed' = allowed /\ cur' = cur
      BY <1>9 DEF AsksAgain, client, server
    <2>3. S \in SUBSET As
      BY DEF Pending
    <2> HIDE DEF e, S
    <2>4. Fits(Vouch(e, S), k, L)
      BY <2>1, <2>3, VouchShows
    <2> QED BY <1>2, <2>2, <2>4, HandlerKeeps DEF k, L
  <1> QED BY <1>3, <1>4, <1>5, <1>6, <1>7, <1>8, <1>9

\* follower.js:561-712: a message from the server.
LEMMA FromUpstreamCopied ==
  ASSUME Copied, Served, FromUpstream
  PROVE  Copied'
  <1> DEFINE k == edge.ownSeq
             L == Loose(allowed)
             m == Head(down)
  <1>1. Fits(edge, k, L)
    BY DEF Copied
  <1>2. m \in Mail(down)
    BY MailTail DEF FromUpstream, Served, Heeds
  <1>3. made' = made /\ saved' = saved /\ allowed' = allowed
    BY DEF FromUpstream, server
  <1>4. cur \in [Clients -> 0 .. MaxSessions]
    BY DEF Copied
  <1>5. ASSUME NEW e, Fits(e, k, L), Done(e), cur' = cur PROVE Copied'
    BY <1>3, <1>4, <1>5, HandlerKeeps
  <1>6. \/ HearAnswer(m) \/ HearPatch(m) \/ HearAck(m) \/ HearRefused(m) \/ HearLimited(m)
        \/ HearAdmitted(m) \/ (m.t = "turned" /\ HearTurned(m)) \/ HearWait(m)
        \/ (HearReported /\ UNCHANGED <<edge, up, cur>>) \/ HearClosed
    BY DEF FromUpstream, HearReported
  <1> HIDE DEF k, m
  <1>7. CASE HearAnswer(m)
    <2> DEFINE e == CaughtUp(edge, m)
               f == Vouch(e, Pending(e))
               g == SendQueue(f, Speakers)
    <2>1. Fits(e, k, L)
      BY <1>1, OwnApart, CaughtUpShows
    <2>2. Done(g) /\ cur' = cur
      BY <1>7 DEF HearAnswer
    <2> HIDE DEF e, L
    <2>3. Pending(e) \in SUBSET As
      BY DEF Pending
    <2>4. Fits(f, k, L)
      BY <2>1, <2>3, VouchShows
    <2> HIDE DEF f
    <2>5. Fits(g, k, L)
      BY <2>4, SendQueueShows
    <2> HIDE DEF g
    <2> QED BY <1>5, <2>2, <2>5
  <1>8. CASE HearPatch(m)
    <2> DEFINE f == [edge EXCEPT !.v = m.v]
               e == IF ~edge.synced THEN edge
                    ELSE IF m.v > edge.v + 1 THEN HelloUp(edge)
                    ELSE FromServer(f, {log[m.v]})
    <2>1. Done(e) /\ cur' = cur
      BY <1>8 DEF HearPatch
    <2>2. Fits(f, k, L)
      BY <1>1, Flagged
    <2> HIDE DEF L, f
    <2>3. Fits(e, k, L)
      BY <1>1, <2>2, HelloUpShows, FromServerShows
    <2> HIDE DEF e
    <2> QED BY <1>5, <2>1, <2>3
  <1>9. CASE HearAck(m)
    <2> DEFINE e == IF m.as = Itself THEN [edge EXCEPT !.v = Larger(@, m.v)]
                    ELSE [edge EXCEPT !.v = Larger(@, m.v), !.acked[m.as[1]] = Larger(@, m.n)]
               gone == {i \in DOMAIN e.queue : ItemOf(e.queue[i]) = <<m.as[1], m.n>>}
    <2>1. Done(Forget(e, gone)) /\ cur' = cur
      BY <1>9 DEF HearAck
    <2> HIDE DEF L
    <2>2. /\ DOMAIN e = Fields /\ e.base = edge.base /\ e.view = edge.view
          /\ e.ownSeq = edge.ownSeq /\ e.queue = edge.queue /\ e.out = edge.out
      BY <1>1 DEF Fits, Formed, Fields
    <2>3. gone \in SUBSET DOMAIN e.queue
      OBVIOUS
    <2> HIDE DEF e, gone
    <2>4. Fits(e, k, L)
      BY <1>1, <2>2, SameEdge
    <2>5. Fits(Forget(e, gone), k, L)
      BY <2>3, <2>4, ForgetShows
    <2> QED BY <1>5, <2>1, <2>5
  <1>10. CASE HearRefused(m)
    <2> DEFINE gone == {i \in DOMAIN edge.queue : ItemOf(edge.queue[i]) = <<m.as[1], m.n>>}
    <2>1. Done(Forget(edge, gone)) /\ cur' = cur
      BY <1>10 DEF HearRefused
    <2>2. gone \in SUBSET DOMAIN edge.queue
      OBVIOUS
    <2> HIDE DEF L, gone
    <2>3. Fits(Forget(edge, gone), k, L)
      BY <1>1, <2>2, ForgetShows
    <2> QED BY <1>5, <2>1, <2>3
  <1>11. CASE HearLimited(m)
    <2> DEFINE q == [i \in DOMAIN edge.queue |->
                      [edge.queue[i] EXCEPT !.sent = edge.queue[i].sent /\ edge.queue[i].as # m.as]]
               e == [edge EXCEPT !.queue = q, !.retry = TRUE]
    <2>1. Done(e) /\ cur' = cur
      BY <1>11 DEF HearLimited
    <2>2. edge.queue \in Seq(Entry)
      BY <1>1 DEF Fits, Formed
    <2>3. q \in Seq(Entry) /\ QueuedBy(q) = QueuedBy(edge.queue)
      <3>1. \A j \in DOMAIN edge.queue : \E b \in BOOLEAN : q[j] = [edge.queue[j] EXCEPT !.sent = b]
        <4> SUFFICES ASSUME NEW j \in DOMAIN edge.queue
                     PROVE  \E b \in BOOLEAN : q[j] = [edge.queue[j] EXCEPT !.sent = b]
          OBVIOUS
        <4> DEFINE x == edge.queue[j]
                   b == x.sent /\ x.as # m.as
        <4>1. x \in Entry
          BY <2>2, ElementOfSeq
        <4>2. b \in BOOLEAN
          OBVIOUS
        <4>3. q[j] = [edge.queue[j] EXCEPT !.sent = b]
          BY <4>1 DEF Entry
        <4> HIDE DEF q, b
        <4> QED BY <4>2, <4>3
      <3>2. q = [j \in DOMAIN edge.queue |-> q[j]]
        OBVIOUS
      <3> HIDE DEF q
      <3> QED BY <2>2, <3>1, <3>2, MarkedQueue
    <2> HIDE DEF L, q
    <2>4. /\ DOMAIN e = Fields /\ e.base = edge.base /\ e.view = edge.view
          /\ e.ownSeq = edge.ownSeq /\ e.queue = q /\ e.out = edge.out
      BY <1>1 DEF Fits, Formed, Fields
    <2> HIDE DEF e
    <2>5. Fits(e, k, L)
      BY <1>1, <2>3, <2>4, MarkedEdge DEF Fits, Formed
    <2> QED BY <1>5, <2>1, <2>5
  <1>12. CASE HearAdmitted(m)
    <2> DEFINE e == [edge EXCEPT !.grants[m.as] = "admitted", !.admitted = @ \cup {m.as[1]}]
    <2>1. (Done(edge) \/ Done(SendQueue(e, {m.as}))) /\ cur' = cur
      BY <1>12 DEF HearAdmitted
    <2> HIDE DEF L
    <2>2. /\ DOMAIN e = Fields /\ e.base = edge.base /\ e.view = edge.view
          /\ e.ownSeq = edge.ownSeq /\ e.queue = edge.queue /\ e.out = edge.out
      BY <1>1 DEF Fits, Formed, Fields
    <2> HIDE DEF e
    <2>3. Fits(e, k, L)
      BY <1>1, <2>2, SameEdge
    <2>4. Fits(SendQueue(e, {m.as}), k, L)
      BY <2>3, SendQueueShows
    <2> QED BY <1>1, <1>5, <2>1, <2>4
  <1>13. CASE m.t = "turned" /\ HearTurned(m)
    <2> DEFINE gone == {i \in DOMAIN edge.queue : edge.queue[i].as = m.as}
               c == m.as[1]
               e == [edge EXCEPT !.grants[m.as] = "none", !.admitted = @ \ {c},
                                 !.queue = Without(@, gone)]
    <2>1. m.as[1] \notin allowed
      BY <1>2, <1>13 DEF Served, Heeds
    <2>2. At(edge.queue, gone) \subseteq L
      <3>1. \A i \in gone : edge.queue[i].as[1] \notin allowed
        BY <2>1
      <3>2. gone \in SUBSET DOMAIN edge.queue /\ edge.queue \in Seq(Entry)
        BY <1>1 DEF Fits, Formed
      <3> HIDE DEF gone
      <3> QED BY <3>1, <3>2, LooseAt
    <2>3. gone \in SUBSET DOMAIN edge.queue
      OBVIOUS
    <2>4. (Done(edge) /\ cur' = cur) \/ (Done(e) /\ (cur' = [cur EXCEPT ![c] = 0] \/ cur' = cur))
      BY <1>13 DEF HearTurned
    <2> HIDE DEF gone
    <2>5. /\ DOMAIN e = Fields /\ e.base = edge.base /\ e.view = edge.view
          /\ e.ownSeq = edge.ownSeq /\ e.queue = Without(edge.queue, gone) /\ e.out = edge.out
      BY <1>1 DEF Fits, Formed, Fields
    <2> HIDE DEF e, L
    <2>6. Fits(e, k, L)
      BY <1>1, <2>2, <2>3, <2>5, LetGo
    <2>7. cur' \in [Clients -> 0 .. MaxSessions]
      BY <1>4, <2>4, RelayAssumption
    <2>8. CASE Done(e)
      BY <1>3, <2>6, <2>7, <2>8, HandlerKeeps DEF k, L
    <2>9. CASE Done(edge)
      BY <1>1, <1>3, <2>7, <2>9, HandlerKeeps DEF k, L
    <2> QED BY <2>4, <2>8, <2>9
  <1>14. CASE HearWait(m)
    <2> DEFINE e == [edge EXCEPT !.grants[m.as] = "pending", !.revouch = @ \cup {m.as}]
    <2>1. (Done(edge) \/ Done(e)) /\ cur' = cur
      BY <1>14 DEF HearWait
    <2> HIDE DEF L
    <2>2. /\ DOMAIN e = Fields /\ e.base = edge.base /\ e.view = edge.view
          /\ e.ownSeq = edge.ownSeq /\ e.queue = edge.queue /\ e.out = edge.out
      BY <1>1 DEF Fits, Formed, Fields
    <2> HIDE DEF e
    <2>3. Fits(e, k, L)
      BY <1>1, <2>2, SameEdge
    <2> QED BY <1>1, <1>5, <2>1, <2>3
  <1>15. CASE HearReported /\ UNCHANGED <<edge, up, cur>>
    BY <1>3, <1>15 DEF Copied
  <1>16. CASE HearClosed
    <2> DEFINE e == [edge EXCEPT !.reopens = TRUE]
    <2>1. Done(SessionLost(e)) /\ cur' = cur
      BY <1>16 DEF HearClosed
    <2> HIDE DEF L
    <2>2. Fits(e, k, L)
      BY <1>1, Flagged
    <2> HIDE DEF e
    <2>3. Fits(SessionLost(e), k, L)
      BY <2>2, SessionLostShows
    <2> QED BY <1>5, <2>1, <2>3
  <1> QED BY <1>6, <1>7, <1>8, <1>9, <1>10, <1>11, <1>12, <1>13, <1>14, <1>15, <1>16

\* follower.js:947-968: the relay's own write.
LEMMA PatchCopied ==
  ASSUME Copied, Patch
  PROVE  Copied'
  <1> DEFINE n == edge.ownSeq + 1
             x == [as |-> Itself, n |-> n, sent |-> FALSE]
             f == [edge EXCEPT !.ownSeq = @ + 1, !.queue = Append(@, x)]
             g == EmitPatch(f, {ItemOf(x)} \ edge.view, {})
             h == SendUp(g, Len(g.queue))
  <1>1. /\ made' = [made EXCEPT ![Own] = @ + 1] /\ made[Own] < MaxOwn
        /\ saved' = saved /\ allowed' = allowed /\ cur' = cur
    BY DEF Patch, server
  <1>2. Own \in Authors
    BY DEF Authors
  <1>3. /\ made[Own] \in Nat /\ edge.ownSeq \in 0 .. made[Own] /\ MaxOwn \in Nat /\ MaxOps \in Nat
        /\ saved.ownSeq \in 0 .. made[Own]
    BY <1>2, RelayAssumption DEF Copied
  <1>4. /\ made' \in [Authors -> Nat] /\ made'[Own] <= MaxOwn /\ n \in 0 .. made'[Own]
        /\ saved.ownSeq \in 0 .. made'[Own]
    BY <1>1, <1>2, <1>3 DEF Copied
  <1>5. n \in OpNumbers
    BY <1>1, <1>3 DEF OpNumbers
  <1> HIDE DEF n
  <1>6. x \in Entry
    BY <1>5 DEF Entry, Speakers
  <1>7. Done(h)
    BY DEF Patch, n
  <1> HIDE DEF x
  <1>8. /\ DOMAIN f = Fields /\ f.base = edge.base /\ f.view = edge.view /\ f.ownSeq = n
        /\ f.queue = Append(edge.queue, x) /\ f.out = edge.out
    BY DEF Copied, Fits, Formed, Fields, n
  <1>9. g.queue = f.queue
    BY <1>8 DEF EmitPatch, Fields
  <1> HIDE DEF f
  <1>10. Fits(h, n, Loose(allowed))
    <2>1. Fits(SendUp(g, Len(f.queue)), n, Loose(allowed))
      BY <1>6, <1>8, QueueMore DEF Copied
    <2> HIDE DEF g
    <2> QED BY <1>9, <2>1
  <1> HIDE DEF h
  <1>11. Fits(edge', n, Loose(allowed)) /\ edge'.out = <<>> /\ Posts(up')
    BY <1>7, <1>10, DoneKeeps DEF Copied
  <1>12. edge'.ownSeq = n
    BY <1>11 DEF Fits, Formed
  <1>13. Fits(edge', edge'.ownSeq, Loose(allowed'))
    BY <1>1, <1>11, <1>12
  <1> QED BY <1>1, <1>4, <1>11, <1>12, <1>13 DEF Copied

\* follower.js:302-342: the copy reaches storage.
LEMMA SaveCopied ==
  ASSUME Copied, Save
  PROVE  Copied'
  <1>1. saved' = Copy(edge) /\ UNCHANGED <<made, cur, edge, up, allowed>>
    BY DEF Save, client, server
  <1> DEFINE gone == {i \in DOMAIN edge.queue : edge.queue[i].as # Itself}
  <1>2. saved'.own = Without(edge.queue, gone) /\ saved'.ownSeq = edge.ownSeq
    BY <1>1 DEF Copy
  <1> HIDE DEF gone
  <1>3. saved'.own \in Seq(Entry)
    BY <1>2, WithoutKeeps DEF Copied, Fits, Formed
  <1> QED BY <1>1, <1>2, <1>3 DEF Copied

\* follower.js:221-263: what is loaded shows itself.
LEMMA LoadedFits ==
  ASSUME NEW copy, copy.own \in Seq(Entry), NEW L
  PROVE  /\ Fits(Loaded(copy), copy.ownSeq, L)
         /\ Loaded(copy).ownSeq = copy.ownSeq /\ Loaded(copy).out = <<>>
  <1> DEFINE q == [i \in DOMAIN copy.own |-> [copy.own[i] EXCEPT !.sent = FALSE]]
             e == Loaded(copy)
  <1>1. q \in Seq(Entry) /\ QueuedBy(q) = QueuedBy(copy.own)
    <2>1. q = [j \in DOMAIN copy.own |-> q[j]]
      OBVIOUS
    <2>2. \A j \in DOMAIN copy.own : \E b \in BOOLEAN : q[j] = [copy.own[j] EXCEPT !.sent = b]
      OBVIOUS
    <2> HIDE DEF q
    <2> QED BY <2>1, <2>2, MarkedQueue
  <1>2. /\ e.base = copy.base /\ e.view = copy.base \cup QueuedBy(copy.own) /\ e.queue = q
        /\ e.ownSeq = copy.ownSeq /\ e.out = <<>>
    BY DEF Loaded
  <1>3. DOMAIN e = Fields
    BY DEF Loaded, Fields
  <1> HIDE DEF q, e
  <1>4. Posts(<<>>)
    BY MailFew DEF Posts
  <1>5. Fits(e, copy.ownSeq, L)
    BY <1>1, <1>2, <1>3, <1>4 DEF Fits, Formed, Shows, Queued
  <1> QED BY <1>2, <1>5 DEF e

\* The relay dies and is started again.
LEMMA CrashCopied ==
  ASSUME Copied, Crash
  PROVE  Copied'
  <1>1. /\ edge' = Loaded(saved) /\ cur' = [c \in Clients |-> 0] /\ up' = <<>>
        /\ made' = made /\ saved' = saved /\ allowed' = allowed
    BY DEF Crash
  <1>2. saved.own \in Seq(Entry) /\ saved.ownSeq \in 0 .. made[Own]
    BY DEF Copied
  <1>3. /\ Fits(Loaded(saved), saved.ownSeq, Loose(allowed))
        /\ Loaded(saved).ownSeq = saved.ownSeq /\ Loaded(saved).out = <<>>
    BY <1>2, LoadedFits
  <1>4. /\ Fits(edge', edge'.ownSeq, Loose(allowed')) /\ edge'.out = <<>>
        /\ edge'.ownSeq \in 0 .. made[Own]
    BY <1>1, <1>2, <1>3
  <1>5. Posts(up') /\ cur' \in [Clients -> 0 .. MaxSessions]
    BY <1>1, MailFew, RelayAssumption DEF Posts
  <1> QED BY <1>1, <1>2, <1>4, <1>5 DEF Copied

\* Nothing has happened.
LEMMA InitCopied ==
  ASSUME Init
  PROVE  Copied
  <1>1. /\ edge = Loaded(NoCopy) /\ cur = [c \in Clients |-> 0] /\ up = <<>>
        /\ made = [r \in Authors |-> 0] /\ saved = NoCopy
    BY DEF Init
  <1>2. NoCopy.own = <<>> /\ NoCopy.ownSeq = 0
    BY DEF NoCopy
  <1>3. NoCopy.own \in Seq(Entry)
    BY <1>2
  <1>4. /\ Fits(Loaded(NoCopy), NoCopy.ownSeq, Loose(allowed))
        /\ Loaded(NoCopy).ownSeq = NoCopy.ownSeq /\ Loaded(NoCopy).out = <<>>
    BY <1>3, LoadedFits
  <1>5. Posts(up) /\ cur \in [Clients -> 0 .. MaxSessions]
    BY <1>1, MailFew, RelayAssumption DEF Posts
  <1>6. made \in [Authors -> Nat] /\ made[Own] = 0 /\ MaxOwn \in Nat
    BY <1>1, RelayAssumption DEF Authors
  <1>7. Fits(edge, edge.ownSeq, Loose(allowed)) /\ edge.out = <<>> /\ edge.ownSeq = 0
    BY <1>1, <1>2, <1>4
  <1> QED BY <1>1, <1>2, <1>3, <1>5, <1>6, <1>7 DEF Copied

-----------------------------------------------------------------------------
(* The server's steps.                                                     *)

\* What turns nobody away.
Calm(s) == IsSeq(s) /\ \A m \in Mail(s) : m.t # "turned"

\* What is sent down after what the link had.
LEMMA HeedsConcat ==
  ASSUME NEW s, NEW in, Heeds(s, in), NEW t, Calm(t)
  PROVE  Heeds(s \o t, in)
  BY MailConcat DEF Heeds, Calm

\* One message more.
LEMMA HeedsAppend ==
  ASSUME NEW s, NEW in, Heeds(s, in), NEW m, m.t = "turned" => m.as[1] \notin in
  PROVE  Heeds(Append(s, m), in)
  BY MailAppend DEF Heeds

\* Whoever is let in by fewer.
LEMMA HeedsFewer ==
  ASSUME NEW s, NEW in, Heeds(s, in), NEW fewer \in SUBSET in
  PROVE  Heeds(s, fewer)
  BY DEF Heeds

\* The link after a message was read, and after it dropped.
LEMMA HeedsLess ==
  ASSUME NEW s, NEW in, Heeds(s, in)
  PROVE  Heeds(<<>>, in) /\ (s # <<>> => Heeds(Tail(s), in))
  BY MailTail, MailFew DEF Heeds

\* No message, and one.
LEMMA CalmFew ==
  /\ Calm(<<>>)
  /\ \A m : m.t # "turned" => Calm(<<m>>)
  BY MailFew DEF Calm

\* A list of messages of a kind.
LEMMA CalmList ==
  ASSUME NEW n \in Nat, NEW s, DOMAIN s = 1 .. n, s = [i \in 1 .. n |-> s[i]],
         \A i \in 1 .. n : s[i].t # "turned"
  PROVE  Calm(s)
  <1>1. IsSeq(s)
    BY MailList
  <1>2. \A m \in Mail(s) : m.t # "turned"
    BY DEF Mail
  <1> QED BY <1>1, <1>2 DEF Calm

\* One list after another.
LEMMA CalmConcat ==
  ASSUME NEW s, Calm(s), NEW t, Calm(t)
  PROVE  Calm(s \o t)
  BY MailConcat DEF Calm

\* What goes down after a step of the server's.
LEMMA DownwardHeeds ==
  ASSUME Heeds(down, allowed), NEW patches, Calm(patches), NEW told, Calm(told),
         Downward(patches, told)
  PROVE  Heeds(down', allowed)
  <1> DEFINE t == IF sess'.open /\ sess'.follows THEN patches ELSE <<>>
  <1>1. Calm(t)
    BY CalmFew
  <1>2. down' = (down \o t) \o told
    BY DEF Downward
  <1> HIDE DEF t
  <1>3. Heeds(down \o t, allowed)
    BY <1>1, HeedsConcat
  <1> QED BY <1>2, <1>3, HeedsConcat

\* The sessions that there are.
LEMMA AsFinite ==
  IsFiniteSet(As)
  <1>1. MaxSessions \in Nat /\ IsFiniteSet(Clients)
    BY RelayAssumption
  <1>2. IsFiniteSet(1 .. MaxSessions)
    BY <1>1, FS_Interval
  <1> QED BY <1>1, <1>2, FS_Product DEF As

\* A finite set in order is a list of as many.
LEMMA AscendingList ==
  ASSUME NEW S, IsFiniteSet(S)
  PROVE  Cardinality(S) \in Nat /\ DOMAIN Ascending(S) = 1 .. Cardinality(S)
  <1>1. Cardinality(S) \in Nat
    BY FS_CardinalityType
  <1> QED BY <1>1 DEF Ascending

\* The patches of what a step appends to the log.
LEMMA PatchesCalm ==
  ASSUME NEW n \in Nat, Len(log') - version = n
  PROVE  Calm(PatchesFrom(version))
  <1> DEFINE s == PatchesFrom(version)
  <1>1. s = [i \in 1 .. n |-> [t |-> "patch", v |-> version + i]]
    BY DEF PatchesFrom
  <1>2. DOMAIN s = 1 .. n /\ s = [i \in 1 .. n |-> s[i]] /\ \A i \in 1 .. n : s[i].t # "turned"
    BY <1>1
  <1> HIDE DEF s
  <1>3. Calm(s)
    BY <1>2, CalmList
  <1> QED BY <1>3 DEF s

\* A log with one more item.
LEMMA LogGrows ==
  ASSUME IsSeq(log), NEW x
  PROVE  IsSeq(Append(log, x)) /\ Len(Append(log, x)) - version = 1
  <1>1. IsSeq(Append(log, x))
    BY MailAppend
  <1>2. Len(Append(log, x)) = Len(log) + 1 /\ Len(log) \in Nat
    BY DEF IsSeq
  <1> QED BY <1>1, <1>2 DEF version

\* A session keeps its shape.
Session(s) ==
  /\ DOMAIN s = SessionFields
  /\ s.grants \subseteq As /\ s.checks \subseteq As /\ IsSeq(s.asked)

\* No session, and one that is opened.
LEMMA SessionShapes ==
  /\ Session(NoSession)
  /\ Session(sess) =>
       /\ Session(Opened)
       /\ \A S : Session([Opened EXCEPT !.limited = S]) /\ Session([sess EXCEPT !.limited = S])
       /\ \A S \in SUBSET As : Session([Opened EXCEPT !.checks = S])
       /\ \A S \in SUBSET As : \A R : Session([Opened EXCEPT !.grants = S, !.limited = R])
       /\ \A S \in SUBSET As : \A R : Session([sess EXCEPT !.grants = S, !.limited = R])
  <1>1. Session(NoSession)
    BY MailFew DEF Session, NoSession, SessionFields
  <1>2. ASSUME Session(sess) PROVE Session(Opened)
    BY <1>2 DEF Session, Opened, SessionFields
  <1>3. ASSUME NEW s, Session(s), NEW S
        PROVE  /\ Session([s EXCEPT !.limited = S])
               /\ S \in SUBSET As => Session([s EXCEPT !.checks = S])
               /\ S \in SUBSET As => \A R : Session([s EXCEPT !.grants = S, !.limited = R])
    BY <1>3 DEF Session, SessionFields
  <1> QED BY <1>1, <1>2, <1>3

\* The parts of what is kept of the server.
LEMMA ServedParts ==
  Served <=> /\ allowed \subseteq Clients /\ IsSeq(log) /\ Session(sess)
             /\ Heeds(down, allowed)
  BY DEF Served, Session, IsSeq

\* The server has no part in it.
LEMMA ServerSame ==
  ASSUME Served, log' = log, allowed' = allowed, sess' = sess \/ sess' = NoSession,
         \/ down' = down \/ down' = <<>> \/ (down # <<>> /\ down' = Tail(down))
         \/ \E m : m.t # "turned" /\ down' = Append(down, m)
  PROVE  Served'
  <1>1. Heeds(down', allowed)
    <2>1. Heeds(down, allowed)
      BY DEF Served
    <2>2. ASSUME NEW m, m.t # "turned" PROVE Heeds(Append(down, m), allowed)
      BY <2>1, <2>2, HeedsAppend
    <2> QED BY <2>1, <2>2, HeedsLess
  <1>2. Session(sess) /\ Session(NoSession)
    BY SessionShapes, ServedParts
  <1>3. Session(sess')
    <2>1. CASE sess' = sess
      BY <1>2, <2>1
    <2>2. CASE sess' = NoSession
      BY <1>2, <2>2
    <2> QED BY <2>1, <2>2
  <1> QED BY <1>1, <1>3 DEF Served, Session

\* store.js:829-845: an op that came live.
LEMMA ApplyServed ==
  ASSUME Served, NEW as, NEW n, Apply(as, n)
  PROVE  Heeds(down', allowed) /\ IsSeq(log')
  <1>1. IsSeq(log) /\ Heeds(down, allowed) /\ Calm(<<>>)
    BY CalmFew, ServedParts
  <1>2. Calm(Tells("ack", as, n)) /\ Calm(Tells("refused", as, n))
    <2>1. ASSUME NEW kind, kind # "turned" PROVE Calm(Tells(kind, as, n))
      <3> DEFINE m == [t |-> kind, as |-> as, n |-> n, v |-> Len(log')]
      <3>1. m.t # "turned" /\ Tells(kind, as, n) = <<m>>
        BY <2>1 DEF Tells
      <3> HIDE DEF m
      <3> QED BY <3>1, CalmFew
    <2> QED BY <2>1
  <1>3. CASE log' = log /\ (Downward(<<>>, Tells("ack", as, n)) \/ Downward(<<>>, Tells("refused", as, n)))
    BY <1>1, <1>2, <1>3, DownwardHeeds
  <1>4. CASE log' = Append(log, <<as[1], n>>) /\ Downward(PatchesFrom(version), Tells("ack", as, n))
    <2>1. IsSeq(log') /\ Len(log') - version = 1
      BY <1>1, <1>4, LogGrows
    <2>2. Calm(PatchesFrom(version))
      BY <2>1, PatchesCalm
    <2> QED BY <1>1, <1>2, <1>4, <2>1, <2>2, DownwardHeeds
  <1> QED BY <1>3, <1>4 DEF Apply

\* store.js:825-849: a live op is read.
LEMMA LiveOpServed ==
  ASSUME Served, NEW m, LiveOp(m), allowed' = allowed
  PROVE  Served'
  <1>1. Session(sess) /\ Heeds(down, allowed) /\ IsSeq(log) /\ Calm(<<>>)
    BY CalmFew, ServedParts
  <1>2. ASSUME NEW told, Calm(told), log' = log, Downward(<<>>, told) PROVE Heeds(down', allowed) /\ IsSeq(log')
    BY <1>1, <1>2, DownwardHeeds
  <1>3. sess' = Opened \/ \E S : sess' = [Opened EXCEPT !.limited = S]
    BY DEF LiveOp, TurnAway
  <1>4. Session(sess')
    <2>1. Session(Opened) /\ \A S : Session([Opened EXCEPT !.limited = S])
      BY <1>1, SessionShapes
    <2>2. CASE sess' = Opened
      BY <2>1, <2>2
    <2>3. ASSUME NEW S, sess' = [Opened EXCEPT !.limited = S] PROVE Session(sess')
      BY <2>1, <2>3
    <2> QED BY <1>3, <2>2, <2>3
  <1>5. Heeds(down', allowed) /\ IsSeq(log')
    <2>1. CASE log' = log /\ Downward(<<>>, <<[t |-> "reported"]>>)
      <3> DEFINE x == [t |-> "reported"]
      <3>1. x.t # "turned"
        OBVIOUS
      <3>2. Downward(<<>>, <<x>>)
        BY <2>1
      <3> HIDE DEF x
      <3> QED BY <1>2, <2>1, <3>1, <3>2, CalmFew
    <2>2. CASE TurnAway(m.as)
      <3> DEFINE x == [t |-> "limited", as |-> m.as]
      <3>1. x.t # "turned"
        OBVIOUS
      <3>2. log' = log /\ Downward(<<>>, <<x>>)
        BY <2>2 DEF TurnAway
      <3> HIDE DEF x
      <3> QED BY <1>2, <3>1, <3>2, CalmFew
    <2>3. CASE Apply(m.as, m.n)
      BY <2>3, ApplyServed
    <2> QED BY <2>1, <2>2, <2>3 DEF LiveOp
  <1> QED BY <1>4, <1>5 DEF Served, Session, IsSeq

\* The seqs an op may have are finitely many.
LEMMA OpsFinite ==
  ASSUME NEW S \in SUBSET OpNumbers
  PROVE  IsFiniteSet(S)
  <1>1. MaxOps \in Nat /\ MaxOwn \in Nat
    BY RelayAssumption
  <1>2. IsFiniteSet(OpNumbers)
    BY <1>1, FS_Interval DEF OpNumbers
  <1> QED BY <1>2, FS_Subset

\* What a hello that is not turned away comes to.
HelloDecides(m, fresh, refused, lost) ==
  LET landed == Ascending(fresh \ (refused \cup lost))
      nays == Ascending(refused)
      acks == Ascending(m.ops \ refused)
      said == [i \in DOMAIN nays |-> Tells("refused", Itself, nays[i])[1]]
  IN  /\ log' = log \o [i \in DOMAIN landed |-> <<Own, landed[i]>>]
      /\ sess' = [Opened EXCEPT
           !.greeted = TRUE, !.limited = @ \ {Itself},
           !.follows = IF sess.grants = {} THEN FALSE ELSE @,
           !.asked = IF sess.grants = {} THEN <<m.since>> ELSE @]
      /\ Downward(PatchesFrom(version), said \o
           IF sess.grants = {} THEN [i \in DOMAIN acks |-> Tells("ack", Itself, acks[i])[1]]
           ELSE <<AnswerFrom(m.since)>>)

\* A hello is turned away for the rate, or decided.
LEMMA HelloOutcomes ==
  ASSUME NEW m, Hello(m)
  PROVE  \/ log' = log /\ sess' = Opened /\ Downward(<<>>, <<[t |-> "reported"]>>)
         \/ \E fresh \in SUBSET m.ops : \E refused \in SUBSET fresh : \E lost :
              HelloDecides(m, fresh, refused, lost)
  <1> DEFINE fresh == {n \in m.ops : ~Decided(Own, n)}
             Refused == IF "refuse" \in Uses THEN SUBSET fresh ELSE {{}}
             Lost(refused) == IF "lose" \in Uses THEN SUBSET (fresh \ refused) ELSE {{}}
  <1>1. \/ log' = log /\ sess' = Opened /\ Downward(<<>>, <<[t |-> "reported"]>>)
        \/ \E refused \in Refused : \E lost \in Lost(refused) : HelloDecides(m, fresh, refused, lost)
    BY ZenonT(90) DEF Hello, HelloDecides
  <1>2. Refused \subseteq SUBSET fresh /\ fresh \in SUBSET m.ops
    OBVIOUS
  <1> HIDE DEF fresh, Refused, Lost
  <1> QED BY <1>1, <1>2

\* store.js:888-955: a hello is read.
LEMMA HelloServed ==
  ASSUME Served, NEW m, m.ops \subseteq OpNumbers, Hello(m), allowed' = allowed
  PROVE  Served'
  <1>1. Session(sess) /\ Heeds(down, allowed) /\ IsSeq(log) /\ Calm(<<>>)
    BY CalmFew, ServedParts
  <1>2. CASE log' = log /\ sess' = Opened /\ Downward(<<>>, <<[t |-> "reported"]>>)
    <2> DEFINE x == [t |-> "reported"]
    <2>1. x.t # "turned" /\ Downward(<<>>, <<x>>)
      BY <1>2
    <2> HIDE DEF x
    <2>2. Heeds(down', allowed)
      BY <1>1, <2>1, CalmFew, DownwardHeeds
    <2>3. Session(sess')
      BY <1>1, <1>2, SessionShapes
    <2> QED BY <1>1, <1>2, <2>2, <2>3 DEF Served, Session, IsSeq
  <1>3. ASSUME NEW fresh \in SUBSET m.ops, NEW refused \in SUBSET fresh, NEW lost,
               HelloDecides(m, fresh, refused, lost)
        PROVE  Served'
    <2> DEFINE landed == Ascending(fresh \ (refused \cup lost))
               nays == Ascending(refused)
               acks == Ascending(m.ops \ refused)
               more == [i \in DOMAIN landed |-> <<Own, landed[i]>>]
               said == [i \in DOMAIN nays |-> Tells("refused", Itself, nays[i])[1]]
               heard == [i \in DOMAIN acks |-> Tells("ack", Itself, acks[i])[1]]
               told == IF sess.grants = {} THEN heard ELSE <<AnswerFrom(m.since)>>
    <2>1. /\ IsFiniteSet(fresh \ (refused \cup lost)) /\ IsFiniteSet(refused)
          /\ IsFiniteSet(m.ops \ refused)
      BY OpsFinite
    <2>2. PICK n \in Nat : DOMAIN landed = 1 .. n
      BY <2>1, AscendingList
    <2>3. PICK k \in Nat : DOMAIN nays = 1 .. k
      BY <2>1, AscendingList
    <2>4. PICK j \in Nat : DOMAIN acks = 1 .. j
      BY <2>1, AscendingList
    <2>5. log' = log \o more /\ Downward(PatchesFrom(version), said \o told)
      BY <1>3 DEF HelloDecides
    <2>6. \A kind, l : Tells(kind, Itself, l)[1].t = kind
      BY DEF Tells
    <2> HIDE DEF landed, nays, acks
    <2>7. DOMAIN more = 1 .. n /\ more = [i \in 1 .. n |-> more[i]]
      BY <2>2
    <2>8. DOMAIN said = 1 .. k /\ said = [i \in 1 .. k |-> said[i]] /\ \A i \in 1 .. k : said[i].t # "turned"
      BY <2>3, <2>6
    <2>9. DOMAIN heard = 1 .. j /\ heard = [i \in 1 .. j |-> heard[i]] /\ \A i \in 1 .. j : heard[i].t # "turned"
      BY <2>4, <2>6
    <2> HIDE DEF more, said, heard
    <2>10. IsSeq(more) /\ Len(more) = n
      <3>1. IsSeq(more)
        BY <2>7, MailList
      <3> QED BY <2>7, <3>1 DEF IsSeq
    <2>11. IsSeq(log') /\ Len(log') - version = n
      <3>1. IsSeq(log \o more)
        BY <1>1, <2>10, MailConcat
      <3>2. Len(log \o more) = Len(log) + n /\ Len(log) \in Nat
        <4> DEFINE S == Mail(log) \cup Mail(more)
        <4>1. log \in Seq(Mail(log)) /\ more \in Seq(Mail(more))
          BY <1>1, <2>10 DEF IsSeq
        <4>2. Mail(log) \subseteq S /\ Mail(more) \subseteq S
          OBVIOUS
        <4> HIDE DEF S
        <4>3. log \in Seq(S) /\ more \in Seq(S)
          BY <4>1, <4>2
        <4> QED BY <2>10, <4>3
      <3> QED BY <2>5, <3>1, <3>2 DEF version
    <2>12. Calm(said) /\ Calm(heard)
      BY <2>8, <2>9, CalmList
    <2>13. Calm(<<AnswerFrom(m.since)>>)
      <3>1. AnswerFrom(m.since).t # "turned"
        BY DEF AnswerFrom
      <3> QED BY <3>1, CalmFew
    <2>14. Calm(told)
      BY <2>12, <2>13
    <2> HIDE DEF told
    <2>15. Calm(said \o told)
      BY <2>12, <2>14, CalmConcat
    <2>16. Heeds(down', allowed)
      BY <1>1, <2>5, <2>11, <2>15, PatchesCalm, DownwardHeeds
    <2>17. Session(sess')
      <3>1. IsSeq(<<m.since>>) /\ IsSeq(sess.asked)
        BY <1>1, MailFew DEF Session
      <3>2. /\ DOMAIN sess' = SessionFields /\ sess'.grants = sess.grants /\ sess'.checks = sess.checks
            /\ (sess'.asked = <<m.since>> \/ sess'.asked = sess.asked)
        BY <1>1, <1>3 DEF Session, SessionFields, Opened, HelloDecides
      <3> QED BY <1>1, <3>1, <3>2 DEF Session
    <2> QED BY <2>11, <2>16, <2>17 DEF Served, Session, IsSeq
  <1>4. \/ log' = log /\ sess' = Opened /\ Downward(<<>>, <<[t |-> "reported"]>>)
        \/ \E fresh \in SUBSET m.ops : \E refused \in SUBSET fresh : \E lost :
             HelloDecides(m, fresh, refused, lost)
    BY HelloOutcomes
  <1> QED BY <1>2, <1>3, <1>4

\* hub.js:113-133: clients are vouched for.
LEMMA VouchedServed ==
  ASSUME Served, NEW m, m.as \subseteq As, Vouched(m), allowed' = allowed
  PROVE  Served'
  <1>1. Session(sess) /\ Heeds(down, allowed) /\ IsSeq(log) /\ Calm(<<>>)
    BY CalmFew, ServedParts
  <1>2. PICK wait \in SUBSET m.as :
          /\ sess' = [Opened EXCEPT !.checks = @ \cup (m.as \ wait)]
          /\ log' = log
          /\ \E f \in [1 .. Cardinality(wait) -> wait] :
               Downward(<<>>, [i \in DOMAIN f |-> [t |-> "wait", as |-> f[i]]])
    BY DEF Vouched
  <1>3. PICK f \in [1 .. Cardinality(wait) -> wait] :
          Downward(<<>>, [i \in DOMAIN f |-> [t |-> "wait", as |-> f[i]]])
    BY <1>2
  <1> DEFINE told == [i \in DOMAIN f |-> [t |-> "wait", as |-> f[i]]]
  <1>4. Cardinality(wait) \in Nat
    <2>1. IsFiniteSet(wait)
      BY AsFinite, FS_Subset
    <2> QED BY <2>1, FS_CardinalityType
  <1>5. Calm(told)
    <2> DEFINE n == Cardinality(wait)
    <2>1. DOMAIN told = 1 .. n /\ told = [i \in 1 .. n |-> told[i]] /\ \A i \in 1 .. n : told[i].t # "turned"
      OBVIOUS
    <2> HIDE DEF told
    <2> QED BY <1>4, <2>1, CalmList
  <1>6. Downward(<<>>, told)
    BY <1>3
  <1> HIDE DEF told
  <1>7. Heeds(down', allowed)
    BY <1>1, <1>5, <1>6, DownwardHeeds
  <1>8. Session(sess')
    <2>1. Opened.checks = sess.checks
      BY <1>1 DEF Opened, Session, SessionFields
    <2>2. (Opened.checks \cup (m.as \ wait)) \in SUBSET As
      BY <1>1, <2>1 DEF Session
    <2> QED BY <1>1, <1>2, <2>2, SessionShapes
  <1> QED BY <1>1, <1>2, <1>7, <1>8 DEF Served, Session, IsSeq

\* The next message of the relay's is read.
LEMMA ServerReadsServed ==
  ASSUME Copied, Served, ServerReads
  PROVE  Served' /\ Posts(up')
  <1> DEFINE m == Head(up)
  <1>1. m \in Mail(up) /\ Posts(up') /\ allowed' = allowed
    <2>1. Posts(up) /\ up # <<>> /\ up' = Tail(up)
      BY DEF Copied, ServerReads
    <2>2. Head(up) \in Mail(up) /\ IsSeq(Tail(up)) /\ Mail(Tail(up)) \subseteq Mail(up)
      BY <2>1, MailTail DEF Posts
    <2> QED BY <2>1, <2>2 DEF Posts, ServerReads
  <1>2. Letter(m)
    BY <1>1 DEF Copied, Posts
  <1>3. \/ LiveOp(m)
        \/ m.t = "hello" /\ Hello(m)
        \/ m.t = "vouch" /\ Vouched(m)
        \/ Ungrant(m)
    BY DEF ServerReads
  <1> HIDE DEF m
  <1>4. CASE LiveOp(m)
    BY <1>1, <1>4, LiveOpServed
  <1>5. CASE m.t = "hello" /\ Hello(m)
    <2>1. m.ops \subseteq OpNumbers
      BY <1>2, <1>5 DEF Letter
    <2> QED BY <1>1, <1>5, <2>1, HelloServed
  <1>6. CASE m.t = "vouch" /\ Vouched(m)
    <2>1. m.as \subseteq As
      BY <1>2, <1>6 DEF Letter
    <2> QED BY <1>1, <1>6, <2>1, VouchedServed
  <1>7. CASE Ungrant(m)
    <2>1. Session(sess) /\ Heeds(down, allowed) /\ IsSeq(log)
      BY ServedParts
    <2>2. sess' = [Opened EXCEPT !.grants = @ \ {m.as}, !.limited = @ \ {m.as}]
      BY <1>7 DEF Ungrant
    <2>3. Opened.grants = sess.grants
      BY <2>1 DEF Opened, Session, SessionFields
    <2>4. (Opened.grants \ {m.as}) \in SUBSET As
      BY <2>1, <2>3 DEF Session
    <2>5. Session(sess')
      BY <2>1, <2>2, <2>4, SessionShapes
    <2>6. log' = log /\ down' = down
      BY <1>7 DEF Ungrant
    <2> QED BY <1>1, <2>1, <2>5, <2>6 DEF Served, Session, IsSeq
  <1> QED BY <1>1, <1>3, <1>4, <1>5, <1>6, <1>7

\* hub.js:135-144, store.js:979-1010: the verdict on a client.
LEMMA VerdictServed ==
  ASSUME Served, NEW as \in As, Verdict(as)
  PROVE  Served'
  <1>1. Session(sess) /\ Heeds(down, allowed) /\ IsSeq(log)
    BY ServedParts
  <1>2. log' = log /\ allowed' = allowed /\ as \in sess.checks
    BY DEF Verdict
  <1>3. CASE as[1] \in allowed
    <2> DEFINE answer == [i \in DOMAIN sess.asked |->
                 [t |-> "answer", since |-> sess.asked[i], v |-> version, s |-> last[Own]]]
               x == [t |-> "admitted", as |-> as]
    <2>1. /\ sess' = [sess EXCEPT !.checks = @ \ {as}, !.grants = @ \cup {as},
                                  !.follows = @ \/ sess.asked # <<>>, !.asked = <<>>]
          /\ (down' = down \o answer \o <<x>> \/ down' = down \o <<x>> \o answer)
      BY <1>3 DEF Verdict
    <2>2. Calm(answer)
      <3> DEFINE n == Len(sess.asked)
      <3>1. n \in Nat /\ DOMAIN sess.asked = 1 .. n
        BY <1>1 DEF Session, IsSeq
      <3> HIDE DEF n
      <3>2. DOMAIN answer = 1 .. n /\ answer = [i \in 1 .. n |-> answer[i]]
            /\ \A i \in 1 .. n : answer[i].t # "turned"
        BY <3>1
      <3> HIDE DEF answer
      <3> QED BY <3>1, <3>2, CalmList
    <2>3. Calm(<<x>>)
      <3>1. x.t # "turned"
        OBVIOUS
      <3> HIDE DEF x
      <3> QED BY <3>1, CalmFew
    <2> DEFINE one == <<x>>
    <2>4. Calm(one) /\ (down' = (down \o answer) \o one \/ down' = (down \o one) \o answer)
      BY <2>1, <2>3
    <2> HIDE DEF answer, one
    <2>5. Heeds(down', allowed)
      BY <1>1, <2>2, <2>4, HeedsConcat
    <2>6. Session(sess')
      <3>1. /\ DOMAIN sess' = SessionFields /\ sess'.checks = sess.checks \ {as}
            /\ sess'.grants = sess.grants \cup {as} /\ sess'.asked = <<>>
        BY <1>1, <2>1 DEF Session, SessionFields
      <3> QED BY <1>1, <3>1, MailFew DEF Session
    <2> QED BY <1>1, <1>2, <2>5, <2>6 DEF Served, Session, IsSeq
  <1>4. CASE as[1] \notin allowed
    <2> DEFINE x == [t |-> "turned", as |-> as]
    <2>1. sess' = [sess EXCEPT !.checks = @ \ {as}] /\ down' = Append(down, x)
      BY <1>4 DEF Verdict
    <2>2. x.as[1] \notin allowed
      BY <1>4
    <2> HIDE DEF x
    <2>3. Heeds(down', allowed)
      BY <1>1, <2>1, <2>2, HeedsAppend
    <2>4. Session(sess')
      BY <1>1, <2>1 DEF Session, SessionFields
    <2> QED BY <1>1, <1>2, <2>3, <2>4 DEF Served, Session, IsSeq
  <1> QED BY <1>3, <1>4

\* store.js:1012-1022: a client is taken back.
LEMMA TakesBackServed ==
  ASSUME Served, NEW c \in Clients, TakesBack(c)
  PROVE  Served'
  <1> DEFINE S == {as[2] : as \in {a \in sess.grants : a[1] = c}}
             on == Ascending(S)
             t == [i \in DOMAIN on |-> [t |-> "turned", as |-> <<c, on[i]>>]]
  <1>1. Session(sess) /\ Heeds(down, allowed) /\ IsSeq(log)
    BY ServedParts
  <1>2. /\ log' = log /\ allowed' = allowed \ {c} /\ down' = down \o t
        /\ sess' = [sess EXCEPT !.grants = {as \in @ : as[1] # c}, !.limited = {as \in @ : as[1] # c}]
    BY DEF TakesBack
  <1>3. IsFiniteSet(S)
    <2>1. S \subseteq 1 .. MaxSessions
      BY <1>1 DEF Session, As
    <2>2. IsFiniteSet(1 .. MaxSessions)
      BY FS_Interval, RelayAssumption
    <2> HIDE DEF S
    <2> QED BY <2>1, <2>2, FS_Subset
  <1> HIDE DEF S
  <1>4. PICK n \in Nat : DOMAIN on = 1 .. n
    BY <1>3, AscendingList
  <1> HIDE DEF on
  <1>5. /\ DOMAIN t = 1 .. n /\ t = [i \in 1 .. n |-> t[i]]
        /\ \A i \in 1 .. n : t[i].as[1] = c
    BY <1>4
  <1> HIDE DEF t
  <1>6. IsSeq(t) /\ \A m \in Mail(t) : m.as[1] = c
    <2>1. IsSeq(t)
      BY <1>5, MailList
    <2> QED BY <1>5, <2>1 DEF Mail
  <1>7. Heeds(down \o t, allowed')
    <2>1. Heeds(down, allowed \ {c})
      BY <1>1, HeedsFewer
    <2>2. IsSeq(down \o t) /\ Mail(down \o t) \subseteq Mail(down) \cup Mail(t)
      BY <1>6, <2>1, MailConcat DEF Heeds
    <2> QED BY <1>2, <1>6, <2>1, <2>2 DEF Heeds
  <1>8. Session(sess')
    <2>1. {as \in sess.grants : as[1] # c} \in SUBSET As
      BY <1>1 DEF Session
    <2> QED BY <1>1, <1>2, <2>1, SessionShapes
  <1> QED BY <1>1, <1>2, <1>7, <1>8 DEF Served, Session, IsSeq

\* Another's op lands.
LEMMA OthersWriteServed ==
  ASSUME Served, OthersWrite
  PROVE  Served'
  <1> DEFINE x == [t |-> "patch", v |-> version + 1]
  <1>1. Session(sess) /\ Heeds(down, allowed) /\ IsSeq(log)
    BY ServedParts
  <1>2. allowed' = allowed /\ sess' = sess /\ (down' = Append(down, x) \/ down' = down)
    BY DEF OthersWrite
  <1>3. PICK y : log' = Append(log, y)
    BY DEF OthersWrite
  <1>4. x.t # "turned"
    OBVIOUS
  <1> HIDE DEF x
  <1>5. Heeds(down', allowed)
    BY <1>1, <1>2, <1>4, HeedsAppend
  <1>6. IsSeq(log')
    BY <1>1, <1>3, MailAppend
  <1> QED BY <1>1, <1>2, <1>5, <1>6 DEF Served, Session, IsSeq

\* The store unloads itself.
LEMMA UnloadServed ==
  ASSUME Served, Unload
  PROVE  Served'
  <1> DEFINE x == [t |-> "closed"]
  <1>1. log' = log /\ allowed' = allowed /\ sess' = NoSession /\ down' = Append(down, x)
    BY DEF Unload
  <1>2. x.t # "turned"
    OBVIOUS
  <1> HIDE DEF x
  <1> QED BY <1>1, <1>2, ServerSame

\* The relay and its clients change nothing at the server, but for what its own timer
\* shows to be over (627-629).
LEMMA RelayingServed ==
  ASSUME Served,
         \/ Relaying \/ LinkDrops \/ UpstreamDown \/ Patch \/ Save \/ Crash
         \/ \E c \in Clients : Make(c) \/ Connect(c) \/ Leave(c) \/ SocketLost(c)
  PROVE  Served'
  <1>1. CASE FromUpstream
    <2>1. log' = log /\ allowed' = allowed /\ sess' = sess /\ down # <<>> /\ down' = Tail(down)
      BY <1>1 DEF FromUpstream, server
    <2> QED BY <2>1, ServerSame
  <1>2. CASE Retries
    <2>1. /\ log' = log /\ allowed' = allowed /\ down' = down
          /\ sess' = [sess EXCEPT !.limited = @ \cap {Itself}]
      BY <1>2 DEF Retries
    <2>2. Session(sess)
      BY ServedParts
    <2>3. Session(sess')
      BY <2>1, <2>2 DEF Session, SessionFields
    <2> QED BY <2>1, <2>3 DEF Served, Session
  <1>3. CASE LinkDrops \/ Crash
    <2>1. log' = log /\ allowed' = allowed /\ sess' = NoSession /\ down' = <<>>
      BY <1>3 DEF LinkDrops, Crash
    <2> QED BY <2>1, ServerSame
  <1>4. CASE LinkOpens \/ UpstreamUp \/ Reopens \/ AsksAgain \/ UpstreamDown \/ Patch \/ Save
    <2>1. log' = log /\ allowed' = allowed /\ sess' = sess /\ down' = down
      BY <1>4 DEF LinkOpens, UpstreamUp, Reopens, AsksAgain, UpstreamDown, Patch, Save, server
    <2> QED BY <2>1, ServerSame
  <1>5. CASE \/ \E as \in As : TryHello(as) \/ NoticeLost(as)
             \/ \E c \in Clients : Make(c) \/ Connect(c) \/ Leave(c) \/ SocketLost(c)
    <2>1. log' = log /\ allowed' = allowed /\ sess' = sess /\ down' = down
      BY <1>5 DEF TryHello, NoticeLost, Make, Connect, Leave, SocketLost, server
    <2> QED BY <2>1, ServerSame
  <1> QED BY <1>1, <1>2, <1>3, <1>4, <1>5 DEF Relaying

-----------------------------------------------------------------------------
(* The theorem of the view.                                                *)

\* Nothing has happened, at the server either.
LEMMA InitSettles ==
  Init => Settles
  <1> SUFFICES ASSUME Init PROVE Settles
    OBVIOUS
  <1>1. /\ allowed = Clients /\ log = <<>> /\ sess = NoSession /\ down = <<>>
    BY DEF Init
  <1>2. IsSeq(log) /\ Heeds(down, allowed) /\ Session(sess)
    BY <1>1, MailFew, SessionShapes DEF Heeds
  <1>3. Served
    BY <1>1, <1>2, ServedParts
  <1> QED BY <1>3, InitCopied DEF Settles

\* Every step keeps the invariant.
LEMMA StepSettles ==
  Settles /\ [Next]_vars => Settles'
  <1> SUFFICES ASSUME Settles, [Next]_vars PROVE Settles'
    OBVIOUS
  <1>1. Copied /\ Served
    BY DEF Settles
  <1>2. Posts(up)
    BY <1>1 DEF Copied
  <1>3. CASE \E c \in Clients : Make(c) \/ Connect(c) \/ Leave(c) \/ SocketLost(c)
    BY <1>1, <1>3, MakeCopied, ConnectCopied, LeaveCopied, RelayingServed DEF Settles
  <1>4. ASSUME NEW c \in Clients, TakesBack(c) PROVE Settles'
    <2>1. /\ made' = made /\ cur' = cur /\ edge' = edge /\ saved' = saved /\ up' = up
          /\ allowed' = allowed \ {c}
      BY <1>4 DEF TakesBack, client
    <2>2. allowed' \subseteq allowed
      BY <2>1
    <2>3. Copied'
      BY <1>1, <1>2, <2>1, <2>2, RelaySame
    <2> QED BY <1>1, <1>4, <2>3, TakesBackServed DEF Settles
  <1>5. CASE Relaying
    <2>1. Served'
      BY <1>1, <1>5, RelayingServed
    <2>2. Copied'
      BY <1>1, <1>5, FromUpstreamCopied, LinkCopied, TryHelloCopied, LeaveCopied DEF Relaying
    <2> QED BY <2>1, <2>2 DEF Settles
  <1>6. CASE ServerReads
    <2>1. Served' /\ Posts(up')
      BY <1>1, <1>6, ServerReadsServed
    <2>2. /\ made' = made /\ cur' = cur /\ edge' = edge /\ saved' = saved
          /\ allowed' \subseteq allowed
      BY <1>6 DEF ServerReads, client
    <2>3. Copied'
      BY <1>1, <2>1, <2>2, RelaySame
    <2> QED BY <2>1, <2>3 DEF Settles
  <1>7. ASSUME NEW as \in As, Verdict(as) PROVE Settles'
    <2>1. /\ made' = made /\ cur' = cur /\ edge' = edge /\ saved' = saved /\ up' = up
          /\ allowed' \subseteq allowed
      BY <1>7 DEF Verdict, client
    <2>2. Copied'
      BY <1>1, <1>2, <2>1, RelaySame
    <2> QED BY <1>1, <1>7, <2>2, VerdictServed DEF Settles
  <1>8. CASE OthersWrite \/ Unload
    <2>1. /\ made' = made /\ cur' = cur /\ edge' = edge /\ saved' = saved /\ up' = up
          /\ allowed' \subseteq allowed
      BY <1>8 DEF OthersWrite, Unload, client
    <2>2. Copied'
      BY <1>1, <1>2, <2>1, RelaySame
    <2> QED BY <1>1, <1>8, <2>2, OthersWriteServed, UnloadServed DEF Settles
  <1>9. CASE LinkDrops \/ UpstreamDown \/ Patch \/ Save \/ Crash
    BY <1>1, <1>9, LinkCopied, PatchCopied, SaveCopied, CrashCopied, RelayingServed DEF Settles
  <1>10. CASE UNCHANGED vars
    <2>1. UNCHANGED <<made, cur, edge, saved, up, down, log, allowed, sess>>
      BY <1>10 DEF vars, client, server
    <2>2. Copied' /\ Served'
      BY <1>1, <2>1 DEF Copied, Served
    <2> QED BY <2>2 DEF Settles
  <1> QED BY <1>3, <1>4, <1>5, <1>6, <1>7, <1>8, <1>9, <1>10 DEF Next, Serving

\* follower.js:974, docs/relays.md:29: for any clients and whatever happens, what the
\* relay shows is its copy of the store with the queue on top, but for what a client
\* taken back had in the queue and the relay's own ops that an answer took out of it.
THEOREM Settled == Spec => []ViewIsSettled
  <1>1. Settles => ViewIsSettled
    BY DEF Settles, Copied, Fits, Shows, Loose, ViewIsSettled
  <1> QED BY <1>1, InitSettles, StepSettles, PTL DEF Spec

-----------------------------------------------------------------------------
(* What comes down the link.                                               *)

\* What brings nothing of the server's version.
Idle(m) == m.t \notin {"patch", "ack", "answer", "closed"}

\* A message that takes a copy at version a (-1 before the answer) to version b.
Counts(m, a, b) ==
  /\ m.t # "closed"
  /\ m.t = "patch" => a \in Nat /\ m.v = a + 1 /\ b = a + 1
  /\ m.t = "ack" => a \in Nat /\ m.v \in 0 .. a /\ b = a
  /\ m.t = "answer" => a = -1 /\ m.v \in Nat /\ b = m.v
  /\ Idle(m) => b = a

\* Messages that take a copy at version x to version y, one version after the other.
Versions == Nat \cup {-1}
Runs(d, x, y) ==
  \E f \in [0 .. Len(d) -> Versions] :
    /\ f[0] = x /\ f[Len(d)] = y
    /\ \A i \in 0 .. Len(d) : f[i] <= y
    /\ \A i \in 1 .. Len(d) : Counts(d[i], f[i - 1], f[i])

\* Messages after others.
LEMMA RunsConcat ==
  ASSUME NEW d, IsSeq(d), NEW t, IsSeq(t), NEW x, NEW y, NEW z, Runs(d, x, y), Runs(t, y, z)
  PROVE  Runs(d \o t, x, z)
  <1> DEFINE n == Len(d)
             k == Len(t)
             s == d \o t
  <1>1. /\ n \in Nat /\ k \in Nat /\ Len(s) = n + k
        /\ \A i \in 1 .. n : s[i] = d[i]
        /\ \A i \in 1 .. k : s[n + i] = t[i]
    <2> DEFINE S == Mail(d) \cup Mail(t)
    <2>1. d \in Seq(S) /\ t \in Seq(S)
      <3>1. d \in Seq(Mail(d)) /\ Mail(d) \subseteq S /\ t \in Seq(Mail(t)) /\ Mail(t) \subseteq S
        BY DEF IsSeq
      <3> HIDE DEF S
      <3> QED BY <3>1
    <2> HIDE DEF S
    <2> QED BY <2>1
  <1>2. PICK f \in [0 .. n -> Versions] :
          /\ f[0] = x /\ f[n] = y /\ \A i \in 0 .. n : f[i] <= y
          /\ \A i \in 1 .. n : Counts(d[i], f[i - 1], f[i])
    BY DEF Runs
  <1>3. PICK g \in [0 .. k -> Versions] :
          /\ g[0] = y /\ g[k] = z /\ \A i \in 0 .. k : g[i] <= z
          /\ \A i \in 1 .. k : Counts(t[i], g[i - 1], g[i])
    BY DEF Runs
  <1> DEFINE h == [i \in 0 .. n + k |-> IF i <= n THEN f[i] ELSE g[i - n]]
  <1> HIDE DEF n, k, s
  <1>4. /\ \A i \in 0 .. n : h[i] = f[i]
        /\ \A i \in 0 .. k : h[n + i] = g[i]
    <2>1. \A i \in 0 .. n : h[i] = f[i]
      BY <1>1
    <2>2. ASSUME NEW i \in 0 .. k PROVE h[n + i] = g[i]
      <3>1. n + i \in 0 .. n + k /\ (n + i) - n = i
        BY <1>1
      <3>2. CASE i = 0
        BY <1>1, <1>2, <1>3, <3>1, <3>2
      <3>3. CASE i # 0
        <4>1. ~(n + i <= n)
          BY <1>1, <3>3
        <4> QED BY <3>1, <4>1
      <3> QED BY <3>2, <3>3
    <2> QED BY <2>1, <2>2
  <1>5. h \in [0 .. n + k -> Versions]
    <2>1. ASSUME NEW i \in 0 .. n + k PROVE (IF i <= n THEN f[i] ELSE g[i - n]) \in Versions
      <3>1. CASE i <= n
        BY <1>1, <3>1
      <3>2. CASE ~(i <= n)
        <4>1. i - n \in 0 .. k
          BY <1>1, <3>2
        <4> QED BY <3>2, <4>1
      <3> QED BY <3>1, <3>2
    <2> QED BY <2>1
  <1> HIDE DEF h
  <1>6. h[0] = x /\ h[n + k] = z
    BY <1>1, <1>2, <1>3, <1>4
  <1>7. y <= z /\ y \in Int /\ z \in Int
    BY <1>1, <1>3 DEF Versions
  <1>8. ASSUME NEW i \in 0 .. n + k PROVE h[i] <= z
    <2>1. CASE i <= n
      <3>1. i \in 0 .. n
        BY <1>1, <2>1
      <3>2. h[i] = f[i] /\ f[i] <= y /\ f[i] \in Versions
        BY <1>2, <1>4, <3>1
      <3> QED BY <1>7, <3>2 DEF Versions
    <2>2. CASE ~(i <= n)
      <3>1. i - n \in 0 .. k /\ n + (i - n) = i
        BY <1>1, <2>2
      <3>2. h[n + (i - n)] = g[i - n]
        BY <1>4, <3>1
      <3> QED BY <1>3, <3>1, <3>2
    <2> QED BY <2>1, <2>2
  <1>9. ASSUME NEW i \in 1 .. n + k PROVE Counts(s[i], h[i - 1], h[i])
    <2>1. CASE i <= n
      <3>1. i \in 1 .. n /\ i \in 0 .. n /\ i - 1 \in 0 .. n
        BY <1>1, <2>1
      <3> QED BY <1>1, <1>2, <1>4, <3>1
    <2>2. CASE ~(i <= n)
      <3> DEFINE j == i - n
      <3>1. j \in 1 .. k /\ j \in 0 .. k /\ j - 1 \in 0 .. k /\ n + j = i /\ n + (j - 1) = i - 1
        BY <1>1, <2>2
      <3> HIDE DEF j
      <3>2. s[n + j] = t[j] /\ h[n + j] = g[j] /\ h[n + (j - 1)] = g[j - 1]
        BY <1>1, <1>4, <3>1
      <3>3. Counts(t[j], g[j - 1], g[j])
        BY <1>3, <3>1
      <3> QED BY <3>1, <3>2, <3>3
    <2> QED BY <2>1, <2>2
  <1>10. Runs(s, x, z)
    <2>1. Len(s) = n + k
      BY <1>1
    <2> QED BY <1>5, <1>6, <1>8, <1>9, <2>1 DEF Runs
  <1> QED BY <1>10 DEF s

\* The first message read.
LEMMA RunsTail ==
  ASSUME NEW d, IsSeq(d), d # <<>>, NEW x, NEW y, Runs(d, x, y)
  PROVE  \E w \in Versions : Counts(Head(d), x, w) /\ w <= y /\ Runs(Tail(d), w, y)
  <1> DEFINE n == Len(d)
             t == Tail(d)
  <1>1. /\ n \in Nat /\ n # 0 /\ Len(t) = n - 1 /\ Head(d) = d[1]
        /\ \A i \in 1 .. n - 1 : t[i] = d[i + 1]
    <2> DEFINE S == Mail(d)
    <2>1. d \in Seq(S)
      BY DEF IsSeq
    <2> HIDE DEF S
    <2> QED BY <2>1
  <1>2. PICK f \in [0 .. n -> Versions] :
          /\ f[0] = x /\ f[n] = y /\ \A i \in 0 .. n : f[i] <= y
          /\ \A i \in 1 .. n : Counts(d[i], f[i - 1], f[i])
    BY DEF Runs
  <1> HIDE DEF n, t
  <1> DEFINE g == [i \in 0 .. n - 1 |-> f[i + 1]]
  <1>3. \A i \in 0 .. n - 1 : i + 1 \in 0 .. n
    BY <1>1
  <1>4. g \in [0 .. n - 1 -> Versions]
    BY <1>3
  <1>5. \A i \in 0 .. n - 1 : g[i] = f[i + 1]
    OBVIOUS
  <1> HIDE DEF g
  <1>6. g[0] = f[1] /\ g[n - 1] = y
    <2>1. 0 \in 0 .. n - 1 /\ n - 1 \in 0 .. n - 1 /\ (n - 1) + 1 = n /\ 0 + 1 = 1
      BY <1>1
    <2> QED BY <1>2, <1>5, <2>1
  <1>7. \A i \in 0 .. n - 1 : g[i] <= y
    BY <1>2, <1>3, <1>5
  <1>8. ASSUME NEW i \in 1 .. n - 1 PROVE Counts(t[i], g[i - 1], g[i])
    <2>1. i + 1 \in 1 .. n /\ i \in 0 .. n - 1 /\ i - 1 \in 0 .. n - 1 /\ (i - 1) + 1 = i /\ (i + 1) - 1 = i
      BY <1>1
    <2>2. Counts(d[i + 1], f[(i + 1) - 1], f[i + 1])
      BY <1>2, <2>1
    <2>3. g[i] = f[i + 1] /\ g[i - 1] = f[i]
      BY <1>5, <2>1
    <2> QED BY <1>1, <2>1, <2>2, <2>3
  <1>9. Runs(t, g[0], y)
    <2>1. Len(t) = n - 1
      BY <1>1
    <2> QED BY <1>4, <1>6, <1>7, <1>8, <2>1 DEF Runs
  <1>10. f[1] \in Versions /\ f[1] <= y /\ Counts(Head(d), x, f[1])
    <2>1. 1 \in 0 .. n /\ 1 \in 1 .. n /\ 1 - 1 = 0
      BY <1>1
    <2>2. Counts(d[1], f[1 - 1], f[1])
      BY <1>2, <2>1
    <2> QED BY <1>1, <1>2, <2>1, <2>2
  <1>11. Runs(t, f[1], y)
    BY <1>6, <1>9
  <1> QED BY <1>10, <1>11 DEF t

\* Messages that bring nothing of the version.
LEMMA RunsIdle ==
  ASSUME NEW t, IsSeq(t), NEW x \in Versions, \A m \in Mail(t) : Idle(m)
  PROVE  Runs(t, x, x)
  <1> DEFINE n == Len(t)
             f == [i \in 0 .. n |-> x]
  <1>1. n \in Nat /\ DOMAIN t = 1 .. n
    BY DEF IsSeq
  <1>2. \A i \in 1 .. n : Counts(t[i], x, x)
    <2> SUFFICES ASSUME NEW i \in 1 .. n PROVE Counts(t[i], x, x)
      OBVIOUS
    <2>1. Idle(t[i])
      BY <1>1 DEF Mail
    <2> QED BY <2>1 DEF Counts, Idle
  <1> HIDE DEF n
  <1>3. f \in [0 .. n -> Versions] /\ \A i \in 0 .. n : f[i] = x
    OBVIOUS
  <1>4. \A i \in 1 .. n : i \in 0 .. n /\ i - 1 \in 0 .. n
    BY <1>1
  <1>5. 0 \in 0 .. n /\ n \in 0 .. n /\ x <= x
    BY <1>1 DEF Versions
  <1> HIDE DEF f
  <1>6. \A i \in 1 .. n : Counts(t[i], f[i - 1], f[i])
    BY <1>2, <1>3, <1>4
  <1>7. /\ f[0] = x /\ f[n] = x /\ \A i \in 0 .. n : f[i] <= x
    BY <1>3, <1>5
  <1> QED BY <1>3, <1>6, <1>7 DEF Runs, n

\* One message.
LEMMA RunsOne ==
  ASSUME NEW m, NEW x \in Versions, NEW y \in Versions, x <= y, Counts(m, x, y)
  PROVE  Runs(<<m>>, x, y)
  <1> DEFINE f == [i \in 0 .. 1 |-> IF i = 0 THEN x ELSE y]
             s == <<m>>
  <1>1. Len(s) = 1 /\ s[1] = m
    OBVIOUS
  <1>2. f \in [0 .. 1 -> Versions] /\ f[0] = x /\ f[1] = y
    OBVIOUS
  <1>3. y <= y
    BY DEF Versions
  <1> HIDE DEF f, s
  <1>4. \A i \in 0 .. 1 : f[i] <= y
    BY <1>2, <1>3
  <1>5. \A i \in 1 .. 1 : Counts(s[i], f[i - 1], f[i])
    BY <1>1, <1>2
  <1>6. Runs(s, x, y)
    BY <1>1, <1>2, <1>4, <1>5 DEF Runs
  <1> QED BY <1>6 DEF s

-----------------------------------------------------------------------------
(* The link between the relay and the server.                              *)

\* What goes up that asks for no version and no op.
Plain(m) == m.t \notin {"hello", "op"}

\* A copy at version v of a log: all of the log up to v, and nothing the log has not.
Whole(l, base, v) ==
  /\ v \in 0 .. Len(l)
  /\ {l[i] : i \in 1 .. v} \subseteq base /\ base \subseteq {l[i] : i \in 1 .. Len(l)}

\* The server has no session of the relay's (synced, d down the link, s the session).
Shut(synced, d, s) ==
  /\ ~synced /\ ~s.open /\ s.grants = {} /\ s.checks = {} /\ s.asked = <<>>
  /\ \A m \in Mail(d) : Idle(m)

\* The hello is on its way up, u, from version v.
Greets(v, u) ==
  /\ u # <<>> /\ Head(u).t = "hello" /\ Head(u).ops = {} /\ Head(u).since \in {NoVersion, v}
  /\ \A m \in Mail(Tail(u)) : Plain(m)

\* The hello was read: its answer waits, is on its way or was heard, and then each
\* version comes down in turn, up to the n of the log.
Followed(synced, v, u, d, s, n) ==
  /\ s.open /\ \A m \in Mail(u) : m.t # "hello" /\ (~synced => Plain(m))
  /\ s.follows = (s.asked = <<>>)
  /\ s.asked # <<>> => ~synced /\ \E x \in {NoVersion, v} : s.asked = <<x>>
  /\ Runs(d, IF synced THEN v ELSE -1, IF s.asked = <<>> THEN n ELSE -1)
  /\ ~synced => \A m \in Mail(d) : m.t = "answer" => m.since \in {NoVersion, v}

\* The hello was turned away for the rate: no answer comes on this link.
Deaf(synced, u, d, s) ==
  /\ ~synced /\ s.open /\ s.asked = <<>> /\ \A m \in Mail(u) : Plain(m)
  /\ \A m \in Mail(d) : m.t \notin {"ack", "answer", "closed"}

Met(synced, v, u, d, s, n) == Followed(synced, v, u, d, s, n) \/ Deaf(synced, u, d, s)

Link(synced, v, linked, u, d, s, n) ==
  IF linked THEN (Shut(synced, d, s) /\ Greets(v, u)) \/ Met(synced, v, u, d, s, n)
  ELSE Shut(synced, d, s) /\ u = <<>>

\* More goes up.
LEMMA LinkUp ==
  ASSUME NEW y, NEW v, NEW u, IsSeq(u), NEW d, NEW s, NEW n, Link(y, v, TRUE, u, d, s, n),
         NEW t, IsSeq(t), \A m \in Mail(t) : m.t # "hello" /\ (~y => Plain(m))
  PROVE  Link(y, v, TRUE, u \o t, d, s, n)
  <1>1. IsSeq(u \o t) /\ Mail(u \o t) \subseteq Mail(u) \cup Mail(t)
    BY MailConcat
  <1>2. CASE Shut(y, d, s) /\ Greets(v, u)
    <2>1. u # <<>> /\ IsSeq(Tail(u)) /\ ~y
      BY <1>2, MailTail DEF Greets, Shut
    <2>2. u \o t # <<>> /\ Head(u \o t) = Head(u) /\ Tail(u \o t) = Tail(u) \o t
      <3> DEFINE S == Mail(u) \cup Mail(t)
      <3>1. u \in Seq(S) /\ t \in Seq(S)
        <4>1. u \in Seq(Mail(u)) /\ Mail(u) \subseteq S /\ t \in Seq(Mail(t)) /\ Mail(t) \subseteq S
          BY DEF IsSeq
        <4> HIDE DEF S
        <4> QED BY <4>1
      <3> HIDE DEF S
      <3> QED BY <2>1, <3>1
    <2>3. Mail(Tail(u) \o t) \subseteq Mail(Tail(u)) \cup Mail(t)
      BY <2>1, MailConcat
    <2>4. Greets(v, u \o t)
      BY <1>2, <2>1, <2>2, <2>3 DEF Greets
    <2> QED BY <1>2, <2>4 DEF Link
  <1>3. CASE Followed(y, v, u, d, s, n)
    <2>1. Followed(y, v, u \o t, d, s, n)
      BY <1>1, <1>3 DEF Followed
    <2> QED BY <2>1 DEF Link, Met
  <1>4. CASE Deaf(y, u, d, s)
    <2>1. Deaf(y, u \o t, d, s)
      BY <1>1, <1>4 DEF Deaf
    <2> QED BY <2>1 DEF Link, Met
  <1> QED BY <1>2, <1>3, <1>4 DEF Link, Met

\* A message that brings nothing of the version is heard.
LEMMA LinkHears ==
  ASSUME NEW y, NEW v, NEW u, NEW d, IsSeq(d), d # <<>>, NEW s, NEW n,
         Link(y, v, TRUE, u, d, s, n), Idle(Head(d))
  PROVE  Link(y, v, TRUE, u, Tail(d), s, n)
  <1>1. IsSeq(Tail(d)) /\ Mail(Tail(d)) \subseteq Mail(d) /\ Head(d) \in Mail(d)
    BY MailTail
  <1>2. CASE Shut(y, d, s) /\ Greets(v, u)
    <2>1. Shut(y, Tail(d), s)
      BY <1>1, <1>2 DEF Shut
    <2> QED BY <1>2, <2>1 DEF Link
  <1>3. CASE Followed(y, v, u, d, s, n)
    <2> DEFINE x == IF y THEN v ELSE -1
               z == IF s.asked = <<>> THEN n ELSE -1
    <2>1. Runs(d, x, z)
      BY <1>3 DEF Followed
    <2> HIDE DEF x, z
    <2>2. Runs(Tail(d), x, z)
      BY <2>1, RunsTail DEF Counts
    <2>3. Followed(y, v, u, Tail(d), s, n)
      BY <1>1, <1>3, <2>2 DEF Followed, x, z
    <2> QED BY <2>3 DEF Link, Met
  <1>4. CASE Deaf(y, u, d, s)
    <2>1. Deaf(y, u, Tail(d), s)
      BY <1>1, <1>4 DEF Deaf
    <2> QED BY <2>1 DEF Link, Met
  <1> QED BY <1>2, <1>3, <1>4 DEF Link, Met

\* The server has heard the hello, reads something else and says nothing of the version.
LEMMA MetMore ==
  ASSUME NEW y, NEW v \in Nat, NEW u, NEW d, IsSeq(d), NEW s, NEW n \in Nat, Met(y, v, u, d, s, n),
         NEW w, Mail(w) \subseteq Mail(u), NEW r, r.open, r.follows = s.follows, r.asked = s.asked,
         NEW t, IsSeq(t), \A m \in Mail(t) : Idle(m)
  PROVE  Met(y, v, w, d \o t, r, n)
  <1>1. Mail(d \o t) \subseteq Mail(d) \cup Mail(t)
    BY MailConcat
  <1>2. CASE Followed(y, v, u, d, s, n)
    <2> DEFINE x == IF y THEN v ELSE -1
               z == IF s.asked = <<>> THEN n ELSE -1
    <2>1. Runs(d, x, z)
      BY <1>2 DEF Followed
    <2>2. z \in Versions
      BY DEF Versions
    <2> HIDE DEF x, z
    <2>3. Runs(d \o t, x, z)
      BY <2>1, <2>2, RunsIdle, RunsConcat
    <2>4. ~y => \A m \in Mail(d \o t) : m.t = "answer" => m.since \in {NoVersion, v}
      BY <1>1, <1>2 DEF Followed, Idle
    <2>5. Followed(y, v, w, d \o t, r, n)
      BY <1>2, <2>3, <2>4 DEF Followed, x, z
    <2> QED BY <2>5 DEF Met
  <1>3. CASE Deaf(y, u, d, s)
    <2>1. Deaf(y, w, d \o t, r)
      BY <1>1, <1>3 DEF Deaf, Idle
    <2> QED BY <2>1 DEF Met
  <1> QED BY <1>2, <1>3 DEF Met

\* The link whatever the session is, while it holds what it held of this.
LEMMA LinkSame ==
  ASSUME NEW y, NEW v, NEW k, NEW u, NEW d, NEW s, NEW n, Link(y, v, k, u, d, s, n),
         NEW r, r.open = s.open, r.follows = s.follows, r.asked = s.asked,
         s.grants = {} => r.grants = {}, r.checks = s.checks
  PROVE  Link(y, v, k, u, d, r, n)
  <1>1. Shut(y, d, s) => Shut(y, d, r)
    BY DEF Shut
  <1>2. Met(y, v, u, d, s, n) => Met(y, v, u, d, r, n)
    BY DEF Met, Followed, Deaf
  <1> QED BY <1>1, <1>2 DEF Link

\* What brings nothing of the version is sent down, with the rest as it is.
LEMMA LinkDown ==
  ASSUME NEW y, NEW v \in Nat, NEW k, NEW u, NEW d, IsSeq(d), NEW s, NEW n \in Nat,
         Link(y, v, k, u, d, s, n), NEW t, IsSeq(t), \A m \in Mail(t) : Idle(m)
  PROVE  Link(y, v, k, u, d \o t, s, n)
  <1>1. Mail(d \o t) \subseteq Mail(d) \cup Mail(t)
    BY MailConcat
  <1>2. Shut(y, d, s) => Shut(y, d \o t, s)
    BY <1>1 DEF Shut
  <1>3. Met(y, v, u, d, s, n) => Met(y, v, u, d \o t, s, n)
    <2> SUFFICES ASSUME Met(y, v, u, d, s, n) PROVE Met(y, v, u, d \o t, s, n)
      OBVIOUS
    <2>1. s.open /\ Mail(u) \subseteq Mail(u)
      BY DEF Met, Followed, Deaf
    <2> QED BY <2>1, MetMore
  <1> QED BY <1>2, <1>3 DEF Link

-----------------------------------------------------------------------------
(* The relay's copies.                                                     *)

\* A relay that writes nothing of its own, whose host does not say that the server is
\* away, at a server that unloads no store with a session on it.
Steady == MaxOwn = 0 /\ Uses \cap {"hold", "unload"} = {}

\* The inductive invariant, with Settles: both copies are whole, and the link goes
\* through its phases.
Copies ==
  /\ Whole(log, edge.base, edge.v) /\ Whole(log, saved.base, saved.v)
  /\ ~edge.held /\ ~edge.reopens /\ Foreign(edge.queue) /\ Foreign(saved.own)
  /\ Link(edge.synced, edge.v, edge.linked, up, down, sess, Len(log))

\* What the parts of the invariant say of types.
LEMMA CopyTypes ==
  ASSUME Settles, Copies
  PROVE  /\ IsSeq(log) /\ Len(log) \in Nat /\ edge.v \in Nat /\ IsSeq(up) /\ IsSeq(down)
         /\ Session(sess) /\ Posts(up) /\ edge.out = <<>>
         /\ Fits(edge, edge.ownSeq, Loose(allowed))
  <1>1. IsSeq(log) /\ Session(sess) /\ Heeds(down, allowed)
    BY ServedParts DEF Settles
  <1>2. Len(log) \in Nat
    BY <1>1 DEF IsSeq
  <1>3. edge.v \in Nat
    BY <1>2 DEF Copies, Whole
  <1> QED BY <1>1, <1>2, <1>3 DEF Settles, Copied, Posts, Heeds

\* A link that is up, and one that is not.
LEMMA LinkOn ==
  ASSUME NEW y, NEW v, NEW k, NEW u, NEW d, NEW s, NEW n
  PROVE  /\ k => (Link(y, v, k, u, d, s, n) <=> Link(y, v, TRUE, u, d, s, n))
         /\ ~k => (Link(y, v, k, u, d, s, n) <=> Shut(y, d, s) /\ u = <<>>)
  BY DEF Link

\* A handler that comes of a whole copy f and leaves it and the link alone.
LEMMA MovedCopies ==
  ASSUME Settles, Copies, NEW f, f.linked = edge.linked, ~f.held, ~f.reopens, f.out = <<>>,
         Foreign(f.queue), Whole(log, f.base, f.v),
         Link(f.synced, f.v, f.linked, up, down', sess, Len(log)),
         NEW e, Fits(e, edge.ownSeq, Loose(allowed)), Aside(f, e), Done(e),
         saved' = saved, log' = log,
         sess' = sess \/ \E S : sess' = [sess EXCEPT !.limited = S]
  PROVE  Copies'
  <1> DEFINE y == f.synced
             v == f.v
             k == f.linked
             n == Len(log)
  <1>1. IsSeq(up) /\ Session(sess)
    BY CopyTypes
  <1>2. /\ edge'.base = f.base /\ edge'.v = v /\ edge'.synced = y /\ edge'.linked = k
        /\ edge'.held = f.held /\ edge'.reopens = f.reopens /\ edge'.queue = e.queue
        /\ up' = IF k THEN up \o e.out ELSE <<>>
    <2>1. DOMAIN e = Fields
      BY DEF Fits, Formed
    <2>2. /\ edge'.base = e.base /\ edge'.v = e.v /\ edge'.synced = e.synced /\ edge'.linked = e.linked
          /\ edge'.held = e.held /\ edge'.reopens = e.reopens /\ edge'.queue = e.queue
          /\ up' = IF e.linked THEN up \o e.out ELSE <<>>
      BY <2>1 DEF Done, Fields
    <2> QED BY <2>2 DEF Aside
  <1>3. Foreign(edge'.queue)
    BY <1>2 DEF Aside
  <1>4. /\ sess'.open = sess.open /\ sess'.follows = sess.follows /\ sess'.asked = sess.asked
        /\ sess'.grants = sess.grants /\ sess'.checks = sess.checks
    BY <1>1 DEF Session, SessionFields
  <1>5. Link(y, v, k, up', down', sess, n)
    <2>1. CASE k
      <3>1. Link(y, v, TRUE, up, down', sess, n)
        BY <2>1, LinkOn
      <3>2. IsSeq(e.out) /\ \A m \in Mail(e.out) : m.t # "hello" /\ (~y => Plain(m))
        <4>1. Mail(f.out) = {}
          BY MailFew
        <4>2. IsSeq(e.out)
          BY DEF Fits, Formed, Posts
        <4> QED BY <4>1, <4>2 DEF Aside, Plain
      <3>3. Link(y, v, TRUE, up \o e.out, down', sess, n)
        BY <1>1, <3>1, <3>2, LinkUp
      <3> QED BY <1>2, <2>1, <3>3, LinkOn
    <2>2. CASE ~k
      <3>1. up = <<>>
        BY <2>2 DEF Link
      <3>2. up' = <<>>
        BY <1>2, <2>2
      <3> QED BY <3>1, <3>2
    <2> QED BY <2>1, <2>2
  <1>6. Link(y, v, k, up', down', sess', n)
    BY <1>4, <1>5, LinkSame
  <1> QED BY <1>2, <1>3, <1>6 DEF Copies

\* A handler that leaves the copy and the link alone.
LEMMA AsideCopies ==
  ASSUME Settles, Copies, NEW e, Fits(e, edge.ownSeq, Loose(allowed)), Aside(edge, e), Done(e),
         saved' = saved, log' = log, down' = down,
         sess' = sess \/ \E S : sess' = [sess EXCEPT !.limited = S]
  PROVE  Copies'
  BY CopyTypes, MovedCopies DEF Copies

\* The relay and its clients among themselves, and the timers of its ops and vouches.
LEMMA ClientCopies ==
  ASSUME Settles, Copies,
         \/ \E c \in Clients : Make(c) \/ Connect(c) \/ Leave(c) \/ SocketLost(c)
         \/ \E as \in As : TryHello(as) \/ NoticeLost(as)
         \/ Retries \/ AsksAgain
  PROVE  Copies'
  <1> DEFINE k == edge.ownSeq
             L == Loose(allowed)
  <1>1. Fits(edge, k, L)
    BY CopyTypes
  <1>2. Aside(edge, edge)
    BY AsideMarked
  <1>3. ASSUME NEW e, Fits(e, k, L), Aside(edge, e), Done(e),
               saved' = saved, log' = log, sess' = sess, down' = down
        PROVE  Copies'
    BY <1>3, AsideCopies
  <1>4. ASSUME UNCHANGED <<edge, saved, up, down, log, sess>> PROVE Copies'
    BY <1>4 DEF Copies
  <1> HIDE DEF k, L
  <1>5. ASSUME NEW c \in Clients, Make(c) PROVE Copies'
    <2> DEFINE e == Take(edge, <<c, cur[c]>>, made[c] + 1)
    <2>1. saved' = saved /\ log' = log /\ sess' = sess /\ down' = down
      BY <1>5 DEF Make, server
    <2>2. CASE c \in Answered
      <3>1. <<c, cur[c]>> \in As
        BY <2>2 DEF Answered, As, Settles, Copied
      <3>2. made[c] + 1 \in OpNumbers
        <4>1. made[c] \in Nat /\ made[c] < MaxOps /\ MaxOps \in Nat /\ MaxOwn \in Nat
          BY <1>5, RelayAssumption DEF Make, Settles, Copied, Authors
        <4> QED BY <4>1 DEF OpNumbers
      <3>3. Fits(e, k, L) /\ Aside(edge, e)
        BY <1>1, <3>1, <3>2, TakeShows
      <3>4. Done(e)
        BY <1>5, <2>2 DEF Make
      <3> HIDE DEF e
      <3> QED BY <1>3, <2>1, <3>3, <3>4
    <2>3. CASE c \notin Answered
      BY <1>4, <1>5, <2>1, <2>3 DEF Make
    <2> QED BY <2>2, <2>3
  <1>6. ASSUME NEW c \in Clients, Connect(c) PROVE Copies'
    <2>1. PICK j : edge' = [edge EXCEPT !.grants[<<c, j>>] = "pending"]
      BY <1>6 DEF Connect
    <2>2. UNCHANGED <<saved, up, down, log, sess>>
      BY <1>6 DEF Connect, server
    <2>3. /\ edge'.base = edge.base /\ edge'.v = edge.v /\ edge'.synced = edge.synced
          /\ edge'.linked = edge.linked /\ edge'.held = edge.held /\ edge'.reopens = edge.reopens
          /\ edge'.queue = edge.queue
      BY <1>1, <2>1 DEF Fits, Formed, Fields
    <2> QED BY <2>2, <2>3 DEF Copies
  <1>7. ASSUME NEW c \in Clients, Leave(c) PROVE Copies'
    <2> DEFINE e == Left(edge, <<c, cur[c]>>)
    <2>1. Fits(e, k, L) /\ Aside(edge, e)
      BY <1>1, LeftShows
    <2>2. Done(e) /\ saved' = saved /\ log' = log /\ sess' = sess /\ down' = down
      BY <1>7 DEF Leave, server
    <2> HIDE DEF e
    <2> QED BY <1>3, <2>1, <2>2
  <1>8. ASSUME NEW c \in Clients, SocketLost(c) PROVE Copies'
    BY <1>4, <1>8 DEF SocketLost, server
  <1>9. ASSUME NEW as \in As, TryHello(as) PROVE Copies'
    <2> DEFINE asked == IF edge.grants[as] = "pending" THEN Vouch(edge, {as}) ELSE edge
               ops == hello[as].ops \cup IF cur[as[1]] = as[2] THEN outbox[as[1]] ELSE {}
               e == TakeAll(asked, as, ops)
    <2>1. Fits(asked, k, L) /\ Aside(edge, asked)
      <3>1. {as} \in SUBSET As
        OBVIOUS
      <3>2. Fits(Vouch(edge, {as}), k, L) /\ Aside(edge, Vouch(edge, {as}))
        BY <1>1, <3>1, VouchShows
      <3> QED BY <1>1, <1>2, <3>2
    <2>2. Done(e) \/ Done(asked)
      BY <1>9 DEF TryHello
    <2>3. saved' = saved /\ log' = log /\ sess' = sess /\ down' = down
      BY <1>9 DEF TryHello, server
    <2> HIDE DEF asked, ops
    <2>4. Fits(e, k, L) /\ Aside(asked, e)
      BY <2>1, TakeAllShows
    <2> HIDE DEF e
    <2>5. Aside(edge, e)
      BY <2>1, <2>4, AsideAgain
    <2> QED BY <1>3, <2>1, <2>2, <2>3, <2>4, <2>5
  <1>10. ASSUME NEW as \in As, NoticeLost(as) PROVE Copies'
    <2> DEFINE e == Left(edge, as)
    <2>1. Fits(e, k, L) /\ Aside(edge, e)
      BY <1>1, LeftShows
    <2>2. Done(e) /\ saved' = saved /\ log' = log /\ sess' = sess /\ down' = down
      BY <1>10 DEF NoticeLost, server
    <2> HIDE DEF e
    <2> QED BY <1>3, <2>1, <2>2
  <1>11. CASE Retries
    <2> DEFINE e == [edge EXCEPT !.retry = FALSE]
               f == SendQueue(e, Speakers)
    <2>1. /\ Done(f) /\ saved' = saved /\ log' = log /\ down' = down
          /\ \E S : sess' = [sess EXCEPT !.limited = S]
      BY <1>11 DEF Retries
    <2>2. Fits(e, k, L)
      BY <1>1, Flagged
    <2>3. Aside(edge, e)
      <3>1. /\ e.base = edge.base /\ e.v = edge.v /\ e.synced = edge.synced /\ e.linked = edge.linked
            /\ e.held = edge.held /\ e.reopens = edge.reopens /\ e.queue = edge.queue
            /\ e.out = edge.out
        BY <1>1 DEF Fits, Formed, Fields
      <3> HIDE DEF e
      <3> QED BY <3>1, AsideMarked
    <2> HIDE DEF e
    <2>4. Fits(f, k, L) /\ Aside(e, f)
      BY <2>2, SendQueueShows
    <2> HIDE DEF f
    <2>5. Aside(edge, f)
      BY <2>3, <2>4, AsideAgain
    <2> QED BY <2>1, <2>4, <2>5, AsideCopies DEF k, L
  <1>12. CASE AsksAgain
    <2> DEFINE e == [edge EXCEPT !.revouch = {}]
               S == edge.revouch \cap Pending(edge)
               f == Vouch(e, S)
    <2>1. Done(f) /\ saved' = saved /\ log' = log /\ down' = down /\ sess' = sess
      BY <1>12 DEF AsksAgain, server
    <2>2. Fits(e, k, L)
      BY <1>1, Flagged
    <2>3. Aside(edge, e)
      <3>1. /\ e.base = edge.base /\ e.v = edge.v /\ e.synced = edge.synced /\ e.linked = edge.linked
            /\ e.held = edge.held /\ e.reopens = edge.reopens /\ e.queue = edge.queue
            /\ e.out = edge.out
        BY <1>1 DEF Fits, Formed, Fields
      <3> HIDE DEF e
      <3> QED BY <3>1, AsideMarked
    <2>4. S \in SUBSET As
      BY DEF Pending
    <2> HIDE DEF e, S
    <2>5. Fits(f, k, L) /\ Aside(e, f)
      BY <2>2, <2>4, VouchShows
    <2> HIDE DEF f
    <2>6. Aside(edge, f)
      BY <2>3, <2>5, AsideAgain
    <2> QED BY <1>3, <2>1, <2>5, <2>6
  <1> QED BY <1>5, <1>6, <1>7, <1>8, <1>9, <1>10, <1>11, <1>12

\* A message after a first one.
LEMMA MailTwo ==
  ASSUME NEW m, NEW w
  PROVE  LET s == Append(<<m>>, w)
         IN  s # <<>> /\ Head(s) = m /\ Mail(Tail(s)) \subseteq {w}
  <1> DEFINE S == {m, w}
             one == <<m>>
             s == Append(one, w)
             t == Tail(s)
  <1>1. one \in Seq(S) /\ w \in S
    OBVIOUS
  <1>2. Len(one) = 1 /\ one[1] = m
    OBVIOUS
  <1> HIDE DEF S, one
  <1>3. /\ s \in Seq(S) /\ Len(s) = Len(one) + 1
        /\ \A i \in 1 .. Len(one) : s[i] = one[i]
        /\ s[Len(one) + 1] = w
    BY <1>1, AppendProperties
  <1> HIDE DEF s
  <1>4. s \in Seq(S) /\ Len(s) = 2 /\ s[1] = m /\ s[2] = w
    BY <1>2, <1>3
  <1>5. s # <<>> /\ Head(s) = m /\ t \in Seq(S) /\ Len(t) = 1 /\ t[1] = w
    BY <1>4
  <1> HIDE DEF t
  <1>6. Mail(t) \subseteq {w}
    BY <1>5 DEF Mail
  <1> QED BY <1>5, <1>6 DEF s, t, one

\* follower.js:446-466: the relay's hello, with nothing of its own in the queue.
LEMMA HelloGreets ==
  ASSUME NEW e, NEW k, NEW L, Fits(e, k, L), Foreign(e.queue), e.out = <<>>
  PROVE  LET f == HelloUp(e)
         IN  /\ f.base = e.base /\ f.v = e.v /\ ~f.synced /\ f.linked = e.linked
             /\ f.held = e.held /\ f.reopens = e.reopens /\ Foreign(f.queue)
             /\ Greets(e.v, f.out) /\ DOMAIN f = Fields /\ IsSeq(f.out)
  <1> DEFINE own == {e.queue[i].n : i \in {j \in DOMAIN e.queue : e.queue[j].as = Itself}}
             m == [t |-> "hello", ops |-> own, since |-> IF e.have THEN e.v ELSE NoVersion]
             q == [i \in DOMAIN e.queue |-> [e.queue[i] EXCEPT !.sent = (e.queue[i].as = Itself)]]
             f == [e EXCEPT !.synced = FALSE, !.queue = q, !.out = Append(@, m)]
             G == [as \in As |-> IF as \in Pending(f) THEN "asked" ELSE f.grants[as]]
             w == [t |-> "vouch", as |-> Pending(f)]
             g == [f EXCEPT !.grants = G, !.out = Append(@, w)]
  <1>1. HelloUp(e) = f \/ HelloUp(e) = g
    BY DEF HelloUp, Vouch
  <1>2. e.queue \in Seq(Entry) /\ DOMAIN e = Fields
    BY DEF Fits, Formed
  <1>3. own = {}
    <2> SUFFICES ASSUME NEW i \in DOMAIN e.queue, e.queue[i].as = Itself PROVE FALSE
      OBVIOUS
    <2>1. ItemOf(e.queue[i]) \in QueuedBy(e.queue)
      BY DEF QueuedBy
    <2>2. ItemOf(e.queue[i])[1] = Own
      BY DEF ItemOf, Itself
    <2> QED BY <2>1, <2>2 DEF Foreign
  <1>4. Foreign(q)
    <2>1. \A j \in DOMAIN e.queue : \E b \in BOOLEAN : q[j] = [e.queue[j] EXCEPT !.sent = b]
      <3> SUFFICES ASSUME NEW j \in DOMAIN e.queue
                   PROVE  \E b \in BOOLEAN : q[j] = [e.queue[j] EXCEPT !.sent = b]
        OBVIOUS
      <3>1. q[j] = [e.queue[j] EXCEPT !.sent = (e.queue[j].as = Itself)]
        OBVIOUS
      <3>2. (e.queue[j].as = Itself) \in BOOLEAN
        OBVIOUS
      <3> HIDE DEF q
      <3> QED BY <3>1, <3>2
    <2>2. q = [j \in DOMAIN e.queue |-> q[j]]
      OBVIOUS
    <2> HIDE DEF q
    <2>3. QueuedBy(q) = QueuedBy(e.queue)
      BY <1>2, <2>1, <2>2, MarkedQueue
    <2> QED BY <2>3 DEF Foreign
  <1>5. m.t = "hello" /\ m.ops = {} /\ m.since \in {NoVersion, e.v}
    BY <1>3
  <1> HIDE DEF own, q, m
  <1>6. /\ f.base = e.base /\ f.v = e.v /\ ~f.synced /\ f.linked = e.linked
        /\ f.held = e.held /\ f.reopens = e.reopens /\ f.queue = q /\ f.out = Append(e.out, m)
        /\ DOMAIN f = Fields
    BY <1>2 DEF Fields
  <1>7. w.t = "vouch"
    OBVIOUS
  <1> HIDE DEF f, G, w
  <1>8. /\ g.base = e.base /\ g.v = e.v /\ ~g.synced /\ g.linked = e.linked
        /\ g.held = e.held /\ g.reopens = e.reopens /\ g.queue = q /\ g.out = Append(f.out, w)
        /\ DOMAIN g = Fields
    BY <1>6 DEF Fields
  <1> HIDE DEF g
  <1>9. f.out = <<m>> /\ g.out = Append(<<m>>, w)
    BY <1>6, <1>8
  <1>10. Greets(e.v, f.out) /\ IsSeq(f.out)
    <2>1. f.out # <<>> /\ Head(f.out) = m /\ Tail(f.out) = <<>>
      BY <1>9
    <2> QED BY <1>5, <1>9, <2>1, MailFew DEF Greets
  <1>11. Greets(e.v, g.out) /\ IsSeq(g.out)
    <2>1. g.out # <<>> /\ Head(g.out) = m /\ Mail(Tail(g.out)) \subseteq {w}
      BY <1>9, MailTwo
    <2>2. \A x \in Mail(Tail(g.out)) : Plain(x)
      BY <1>7, <2>1 DEF Plain
    <2>3. IsSeq(g.out)
      BY <1>8, <1>10, MailAppend
    <2> QED BY <1>5, <2>1, <2>2, <2>3 DEF Greets
  <1> QED BY <1>1, <1>4, <1>6, <1>8, <1>10, <1>11

\* The link opens, and drops.
LEMMA LinkCopies ==
  ASSUME Settles, Copies, LinkOpens \/ LinkDrops
  PROVE  Copies'
  <1> DEFINE k == edge.ownSeq
             L == Loose(allowed)
  <1>1. Fits(edge, k, L) /\ edge.out = <<>> /\ DOMAIN edge = Fields
    BY CopyTypes DEF Fits, Formed
  <1> HIDE DEF k, L
  <1>2. CASE LinkOpens
    <2> DEFINE e == [edge EXCEPT !.linked = TRUE]
               f == HelloUp(e)
    <2>1. /\ Done(f) /\ saved' = saved /\ down' = down /\ log' = log /\ sess' = sess
          /\ ~edge.linked
      BY <1>2 DEF LinkOpens, server
    <2>2. Fits(e, k, L)
      BY <1>1, Flagged
    <2>3. /\ e.base = edge.base /\ e.v = edge.v /\ e.linked = TRUE /\ e.held = edge.held
          /\ e.reopens = edge.reopens /\ e.queue = edge.queue /\ e.out = <<>>
      BY <1>1 DEF Fields
    <2> HIDE DEF e
    <2>4. Foreign(e.queue)
      BY <2>3 DEF Copies
    <2>5. /\ f.base = e.base /\ f.v = e.v /\ ~f.synced /\ f.linked = e.linked
          /\ f.held = e.held /\ f.reopens = e.reopens /\ Foreign(f.queue)
          /\ Greets(e.v, f.out) /\ DOMAIN f = Fields /\ IsSeq(f.out)
      BY <2>2, <2>3, <2>4, HelloGreets
    <2> HIDE DEF f
    <2>6. /\ edge'.base = f.base /\ edge'.v = f.v /\ edge'.synced = f.synced
          /\ edge'.linked = f.linked /\ edge'.held = f.held /\ edge'.reopens = f.reopens
          /\ edge'.queue = f.queue /\ up' = up \o f.out
      BY <2>1, <2>3, <2>5 DEF Done, Fields
    <2>7. Shut(edge.synced, down, sess) /\ up = <<>>
      BY <2>1 DEF Copies, Link
    <2>8. up' = f.out
      <3>1. f.out \in Seq(Mail(f.out))
        BY <2>5 DEF IsSeq
      <3> QED BY <2>6, <2>7, <3>1
    <2>9. Shut(edge'.synced, down', sess')
      BY <2>1, <2>5, <2>6, <2>7 DEF Shut
    <2>10. Link(edge'.synced, edge'.v, edge'.linked, up', down', sess', Len(log'))
      BY <2>3, <2>5, <2>6, <2>8, <2>9 DEF Link
    <2> QED BY <2>1, <2>3, <2>5, <2>6, <2>10 DEF Copies
  <1>3. CASE LinkDrops
    <2> DEFINE e == [edge EXCEPT !.linked = FALSE]
               h == [e EXCEPT !.synced = FALSE]
               f == SessionLost(e)
    <2>1. /\ Done(f) /\ saved' = saved /\ down' = <<>> /\ log' = log /\ sess' = NoSession
      BY <1>3 DEF LinkDrops
    <2>2. Fits(e, k, L)
      BY <1>1, Flagged
    <2>3. Fits(f, k, L) /\ Aside(h, f)
      BY <2>2, SessionLostShows
    <2>4. /\ h.base = edge.base /\ h.v = edge.v /\ h.linked = FALSE /\ h.synced = FALSE
          /\ h.held = edge.held /\ h.reopens = edge.reopens /\ h.queue = edge.queue
      BY <1>1 DEF Fields
    <2> HIDE DEF e, h, f
    <2>5. /\ f.base = edge.base /\ f.v = edge.v /\ f.linked = FALSE /\ f.synced = FALSE
          /\ f.held = edge.held /\ f.reopens = edge.reopens /\ Foreign(f.queue)
          /\ DOMAIN f = Fields
      BY <2>3, <2>4 DEF Aside, Copies, Fits, Formed
    <2>6. /\ edge'.base = f.base /\ edge'.v = f.v /\ edge'.synced = f.synced
          /\ edge'.linked = f.linked /\ edge'.held = f.held /\ edge'.reopens = f.reopens
          /\ edge'.queue = f.queue /\ up' = <<>>
      BY <2>1, <2>5 DEF Done, Fields
    <2>7. Shut(edge'.synced, down', sess')
      BY <2>1, <2>5, <2>6, MailFew DEF Shut, NoSession
    <2>8. Link(edge'.synced, edge'.v, edge'.linked, up', down', sess', Len(log'))
      BY <2>5, <2>6, <2>7 DEF Link
    <2> QED BY <2>1, <2>5, <2>6, <2>8 DEF Copies
  <1> QED BY <1>2, <1>3

\* follower.js:302-342: the copy reaches storage, as whole as it is.
LEMMA SaveCopies ==
  ASSUME Settles, Copies, Save
  PROVE  Copies'
  <1>1. saved' = Copy(edge) /\ UNCHANGED <<edge, up, down, log, sess>>
    BY DEF Save, server
  <1> DEFINE gone == {i \in DOMAIN edge.queue : edge.queue[i].as # Itself}
  <1>2. saved'.own = Without(edge.queue, gone) /\ saved'.base = edge.base /\ saved'.v = edge.v
    BY <1>1 DEF Copy
  <1> HIDE DEF gone
  <1>3. edge.queue \in Seq(Entry)
    BY CopyTypes DEF Fits, Formed
  <1>4. QueuedBy(saved'.own) = At(edge.queue, (DOMAIN edge.queue) \ gone)
    BY <1>2, <1>3, WithoutKeeps
  <1>5. Foreign(saved'.own)
    <2>1. QueuedBy(saved'.own) \subseteq QueuedBy(edge.queue)
      BY <1>4 DEF At, QueuedBy
    <2> QED BY <2>1 DEF Copies, Foreign
  <1> QED BY <1>1, <1>2, <1>5 DEF Copies

\* The relay dies, and starts again from the copy that storage has.
LEMMA CrashCopies ==
  ASSUME Settles, Copies, Crash
  PROVE  Copies'
  <1>1. /\ edge' = Loaded(saved) /\ up' = <<>> /\ down' = <<>> /\ sess' = NoSession
        /\ saved' = saved /\ log' = log
    BY DEF Crash
  <1> DEFINE q == [i \in DOMAIN saved.own |-> [saved.own[i] EXCEPT !.sent = FALSE]]
  <1>2. QueuedBy(q) = QueuedBy(saved.own)
    <2>1. q = [j \in DOMAIN saved.own |-> q[j]]
      OBVIOUS
    <2>2. \A j \in DOMAIN saved.own : \E b \in BOOLEAN : q[j] = [saved.own[j] EXCEPT !.sent = b]
      OBVIOUS
    <2>3. saved.own \in Seq(Entry)
      BY DEF Settles, Copied
    <2> HIDE DEF q
    <2> QED BY <2>1, <2>2, <2>3, MarkedQueue
  <1>3. /\ edge'.base = saved.base /\ edge'.v = saved.v /\ edge'.queue = q
        /\ edge'.synced = FALSE /\ edge'.linked = FALSE /\ edge'.held = FALSE /\ edge'.reopens = FALSE
    BY <1>1 DEF Loaded
  <1> HIDE DEF q
  <1>4. Foreign(edge'.queue)
    BY <1>2, <1>3 DEF Copies, Foreign
  <1>5. Shut(edge'.synced, down', sess')
    BY <1>1, <1>3, MailFew DEF Shut, NoSession
  <1>6. Link(edge'.synced, edge'.v, edge'.linked, up', down', sess', Len(log'))
    BY <1>1, <1>3, <1>5 DEF Link
  <1> QED BY <1>1, <1>3, <1>4, <1>6 DEF Copies

\* Nothing has happened.
LEMMA InitCopies ==
  ASSUME Init
  PROVE  Copies
  <1>1. /\ edge = Loaded(NoCopy) /\ saved = NoCopy /\ up = <<>> /\ down = <<>>
        /\ log = <<>> /\ sess = NoSession
    BY DEF Init
  <1>2. /\ saved.own = <<>> /\ saved.base = {} /\ saved.v = 0
        /\ edge.base = {} /\ edge.v = 0 /\ edge.queue = <<>>
        /\ edge.synced = FALSE /\ edge.linked = FALSE /\ edge.held = FALSE /\ edge.reopens = FALSE
    BY <1>1 DEF Loaded, NoCopy
  <1>3. Whole(log, {}, 0)
    BY <1>1 DEF Whole
  <1>4. Foreign(<<>>)
    BY DEF Foreign, QueuedBy
  <1>5. Shut(edge.synced, down, sess)
    BY <1>1, <1>2, MailFew DEF Shut, NoSession
  <1>6. Link(edge.synced, edge.v, edge.linked, up, down, sess, Len(log))
    BY <1>1, <1>2, <1>5 DEF Link
  <1> QED BY <1>2, <1>3, <1>4, <1>6 DEF Copies

\* What the next message says of the link, and what is left to hear.
LEMMA LinkTold ==
  ASSUME NEW y, NEW v \in Nat, NEW u, NEW d, IsSeq(d), d # <<>>, NEW s, NEW n \in Nat,
         Link(y, v, TRUE, u, d, s, n), NEW m, m = Head(d)
  PROVE  /\ m.t # "closed"
         /\ m.t = "ack" => m.v \in 0 .. v /\ Link(y, v, TRUE, u, Tail(d), s, n)
         /\ m.t = "patch" /\ ~y => Link(y, v, TRUE, u, Tail(d), s, n)
         /\ m.t = "patch" /\ y => /\ m.v = v + 1 /\ v + 1 \in 0 .. n
                                  /\ Link(y, v + 1, TRUE, u, Tail(d), s, n)
         /\ m.t = "answer" => /\ m.since \in {NoVersion, v} /\ m.v \in 0 .. n
                              /\ Link(TRUE, m.v, TRUE, u, Tail(d), s, n)
  <1> DEFINE t == Tail(d)
  <1>1. IsSeq(t) /\ Mail(t) \subseteq Mail(d) /\ m \in Mail(d)
    BY MailTail
  <1> HIDE DEF t
  <1>2. CASE Shut(y, d, s) /\ Greets(v, u)
    BY <1>1, <1>2 DEF Shut, Idle
  <1>3. CASE Followed(y, v, u, d, s, n)
    <2> DEFINE x == IF y THEN v ELSE -1
               z == IF s.asked = <<>> THEN n ELSE -1
    <2>1. Runs(d, x, z)
      BY <1>3 DEF Followed
    <2>2. (y => x = v) /\ (~y => x = -1) /\ (s.asked = <<>> => z = n) /\ (s.asked # <<>> => z = -1)
      OBVIOUS
    <2> HIDE DEF x, z
    <2>3. PICK w \in Versions : Counts(m, x, w) /\ w <= z /\ Runs(t, w, z)
      BY <2>1, RunsTail DEF t
    <2>4. m.t # "closed"
      BY <2>3 DEF Counts
    <2>5. ASSUME m.t = "ack" PROVE m.v \in 0 .. v /\ Link(y, v, TRUE, u, t, s, n)
      <3>1. x \in Nat /\ m.v \in 0 .. x /\ w = x
        BY <2>3, <2>5 DEF Counts
      <3>2. y /\ x = v
        BY <2>2, <3>1
      <3>3. Followed(y, v, u, t, s, n)
        BY <1>3, <2>2, <2>3, <3>1, <3>2 DEF Followed
      <3> QED BY <3>1, <3>2, <3>3 DEF Link, Met
    <2>6. ~(m.t = "patch" /\ ~y)
      BY <2>2, <2>3 DEF Counts
    <2>7. ASSUME m.t = "patch", y
          PROVE  m.v = v + 1 /\ v + 1 \in 0 .. n /\ Link(y, v + 1, TRUE, u, t, s, n)
      <3>1. m.v = v + 1 /\ w = v + 1
        BY <2>2, <2>3, <2>7 DEF Counts
      <3>2. s.asked = <<>> /\ z = n
        BY <1>3, <2>2, <2>7 DEF Followed
      <3>3. v + 1 \in 0 .. n
        BY <2>3, <3>1, <3>2
      <3>4. Followed(y, v + 1, u, t, s, n)
        BY <1>3, <2>3, <2>7, <3>1, <3>2 DEF Followed
      <3> QED BY <3>1, <3>3, <3>4 DEF Link, Met
    <2>8. ASSUME m.t = "answer"
          PROVE  /\ m.since \in {NoVersion, v} /\ m.v \in 0 .. n
                 /\ Link(TRUE, m.v, TRUE, u, t, s, n)
      <3>1. x = -1 /\ m.v \in Nat /\ w = m.v
        BY <2>3, <2>8 DEF Counts
      <3>2. ~y
        BY <2>2, <3>1
      <3>3. z = n /\ s.asked = <<>> /\ m.v \in 0 .. n
        BY <2>2, <2>3, <3>1
      <3>4. m.since \in {NoVersion, v}
        BY <1>1, <1>3, <2>8, <3>2 DEF Followed
      <3>5. Followed(TRUE, m.v, u, t, s, n)
        BY <1>3, <2>3, <3>1, <3>3 DEF Followed
      <3> QED BY <3>3, <3>4, <3>5 DEF Link, Met
    <2> QED BY <2>4, <2>5, <2>6, <2>7, <2>8 DEF t
  <1>4. CASE Deaf(y, u, d, s)
    <2>1. Deaf(y, u, t, s) /\ m.t \notin {"ack", "answer", "closed"} /\ ~y
      BY <1>1, <1>4 DEF Deaf
    <2>2. Link(y, v, TRUE, u, t, s, n)
      BY <2>1 DEF Link, Met
    <2> QED BY <2>1, <2>2 DEF t
  <1> QED BY <1>2, <1>3, <1>4 DEF Link, Met

\* follower.js:537-553: what an answer leaves of the edge.
LEMMA CaughtUpAside ==
  ASSUME NEW e, NEW k, NEW L, Fits(e, k, L), Foreign(e.queue), e.out = <<>>, NEW m
  PROVE  \E f : /\ Aside(f, CaughtUp(e, m))
                /\ f.linked = e.linked /\ f.held = e.held /\ f.reopens = e.reopens
                /\ f.out = <<>> /\ Foreign(f.queue) /\ f.v = m.v /\ f.synced = TRUE
                /\ f.base = IF m.since = NoVersion THEN Merged(0, m.v)
                            ELSE e.base \cup Merged(m.since, m.v)
  <1> DEFINE gone == {i \in DOMAIN e.queue : e.queue[i].as = Itself /\ e.queue[i].n <= m.s}
             q == Without(e.queue, gone)
             news == IF m.since = NoVersion THEN Merged(0, m.v) ELSE Merged(m.since, m.v)
             base == IF m.since = NoVersion THEN news ELSE e.base \cup news
             touched == IF m.since = NoVersion THEN e.base \cup news ELSE news
             f == [e EXCEPT !.queue = q, !.base = base, !.v = m.v, !.have = TRUE, !.synced = TRUE]
  <1>1. CaughtUp(e, m) = Recompute(f, touched)
    BY DEF CaughtUp
  <1>2. base = IF m.since = NoVersion THEN Merged(0, m.v) ELSE e.base \cup Merged(m.since, m.v)
    OBVIOUS
  <1> HIDE DEF gone
  <1>3. q \in Seq(Entry) /\ QueuedBy(q) \subseteq QueuedBy(e.queue)
    <2>1. e.queue \in Seq(Entry)
      BY DEF Fits, Formed
    <2>2. q \in Seq(Entry) /\ QueuedBy(q) = At(e.queue, (DOMAIN e.queue) \ gone)
      BY <2>1, WithoutKeeps
    <2> QED BY <2>2 DEF At, QueuedBy
  <1> HIDE DEF q, base, touched
  <1>4. /\ DOMAIN f = Fields /\ f.base = base /\ f.ownSeq = e.ownSeq /\ f.queue = q /\ f.out = e.out
        /\ f.linked = e.linked /\ f.held = e.held /\ f.reopens = e.reopens /\ f.v = m.v
        /\ f.synced = TRUE
    BY DEF Fits, Formed, Fields
  <1> HIDE DEF f
  <1>5. Foreign(f.queue)
    BY <1>3, <1>4 DEF Foreign
  <1>6. Formed(f, k)
    BY <1>3, <1>4 DEF Fits, Formed
  <1>7. Aside(f, CaughtUp(e, m))
    BY <1>1, <1>6, RecomputeAside
  <1> QED BY <1>2, <1>4, <1>5, <1>7

\* follower.js:397-407: what a patch leaves of the edge.
LEMMA FromServerAside ==
  ASSUME NEW e, NEW k, NEW L, Fits(e, k, L), NEW items
  PROVE  Aside([e EXCEPT !.base = @ \cup items], FromServer(e, items))
  <1> DEFINE f == [e EXCEPT !.base = @ \cup items]
  <1>1. Formed(f, k)
    BY DEF Fits, Formed, Fields
  <1>2. FromServer(e, items) = EmitPatch(f, items, {}) \/ FromServer(e, items) = Recompute(f, items)
    BY DEF FromServer
  <1> HIDE DEF f
  <1>3. Aside(f, EmitPatch(f, items, {})) /\ Aside(f, Recompute(f, items))
    BY <1>1, EmitPatchAside, RecomputeAside
  <1> QED BY <1>2, <1>3 DEF f

\* A copy that an answer makes is whole, and one that a patch brings further.
LEMMA WholeNext ==
  ASSUME NEW base, NEW v \in Nat, Whole(log, base, v), Len(log) \in Nat
  PROVE  /\ \A w \in 0 .. Len(log) : Whole(log, Merged(0, w), w) /\ Whole(log, base \cup Merged(v, w), w)
         /\ v + 1 \in 0 .. Len(log) => Whole(log, base \cup {log[v + 1]}, v + 1)
  <1>1. ASSUME NEW w \in 0 .. Len(log) PROVE Whole(log, Merged(0, w), w)
    BY <1>1 DEF Whole, Merged
  <1>2. ASSUME NEW w \in 0 .. Len(log) PROVE Whole(log, base \cup Merged(v, w), w)
    <2>1. ASSUME NEW i \in 1 .. w PROVE log[i] \in base \cup Merged(v, w)
      <3>1. i \in 1 .. v \/ i \in v + 1 .. w
        OBVIOUS
      <3> QED BY <3>1 DEF Whole, Merged
    <2>2. ASSUME NEW i \in v + 1 .. w PROVE i \in 1 .. Len(log)
      OBVIOUS
    <2> QED BY <2>1, <2>2 DEF Whole, Merged
  <1>3. ASSUME v + 1 \in 0 .. Len(log) PROVE Whole(log, base \cup {log[v + 1]}, v + 1)
    <2>1. ASSUME NEW i \in 1 .. v + 1 PROVE i \in 1 .. v \/ i = v + 1
      OBVIOUS
    <2>2. v + 1 \in 1 .. Len(log)
      BY <1>3
    <2> QED BY <1>3, <2>1, <2>2 DEF Whole
  <1> QED BY <1>1, <1>2, <1>3

\* follower.js:561-712: a message from the server.
LEMMA FromUpstreamCopies ==
  ASSUME Settles, Copies, FromUpstream
  PROVE  Copies'
  <1> DEFINE k == edge.ownSeq
             L == Loose(allowed)
             m == Head(down)
             n == Len(log)
             v == edge.v
             y == edge.synced
  <1>1. /\ Fits(edge, k, L) /\ edge.out = <<>> /\ DOMAIN edge = Fields
        /\ IsSeq(down) /\ v \in Nat /\ n \in Nat
    BY CopyTypes DEF Fits, Formed
  <1>2. /\ edge.linked /\ down # <<>> /\ down' = Tail(down)
        /\ saved' = saved /\ log' = log /\ sess' = sess
    BY DEF FromUpstream, server
  <1>3. Link(y, v, TRUE, up, down, sess, n)
    BY <1>2, LinkOn DEF Copies
  <1>4. Idle(m) => Link(y, v, TRUE, up, Tail(down), sess, n)
    BY <1>1, <1>2, <1>3, LinkHears
  <1>5. /\ m.t # "closed"
        /\ m.t = "ack" => m.v \in 0 .. v /\ Link(y, v, TRUE, up, Tail(down), sess, n)
        /\ m.t = "patch" /\ ~y => Link(y, v, TRUE, up, Tail(down), sess, n)
        /\ m.t = "patch" /\ y => /\ m.v = v + 1 /\ v + 1 \in 0 .. n
                                 /\ Link(y, v + 1, TRUE, up, Tail(down), sess, n)
        /\ m.t = "answer" => /\ m.since \in {NoVersion, v} /\ m.v \in 0 .. n
                             /\ Link(TRUE, m.v, TRUE, up, Tail(down), sess, n)
    BY <1>1, <1>2, <1>3, LinkTold
  <1>6. Aside(edge, edge)
    BY AsideMarked
  <1>7. ASSUME NEW f, f.linked = edge.linked, f.held = edge.held, f.reopens = edge.reopens,
               f.out = <<>>, Foreign(f.queue), Whole(log, f.base, f.v),
               Link(f.synced, f.v, TRUE, up, Tail(down), sess, n),
               NEW e, Fits(e, k, L), Aside(f, e), Done(e)
        PROVE  Copies'
    <2>1. ~f.held /\ ~f.reopens
      BY <1>7 DEF Copies
    <2>2. Link(f.synced, f.v, f.linked, up, down', sess, Len(log))
      <3>1. Link(f.synced, f.v, TRUE, up, down', sess, Len(log))
        BY <1>2, <1>7
      <3> QED BY <1>2, <1>7, <3>1, LinkOn
    <2> QED BY <1>2, <1>7, <2>1, <2>2, MovedCopies
  <1>8. ASSUME Idle(m) \/ m.t = "ack" \/ (m.t = "patch" /\ ~y),
               NEW e, Fits(e, k, L), Aside(edge, e), Done(e)
        PROVE  Copies'
    <2>1. Foreign(edge.queue) /\ Whole(log, edge.base, edge.v)
      BY DEF Copies
    <2>2. Link(edge.synced, edge.v, TRUE, up, Tail(down), sess, n)
      BY <1>4, <1>5, <1>8
    <2> QED BY <1>1, <1>7, <1>8, <2>1, <2>2
  <1>9. \/ m.t = "answer" /\ HearAnswer(m)
        \/ m.t = "patch" /\ HearPatch(m)
        \/ m.t = "ack" /\ HearAck(m)
        \/ m.t = "refused" /\ HearRefused(m)
        \/ m.t = "limited" /\ HearLimited(m)
        \/ m.t = "admitted" /\ HearAdmitted(m)
        \/ m.t = "turned" /\ HearTurned(m)
        \/ m.t = "wait" /\ HearWait(m)
        \/ m.t = "reported" /\ UNCHANGED <<edge, up>>
    BY <1>5 DEF FromUpstream, HearReported
  <1> HIDE DEF k, L, m, n, v, y
  <1>10. CASE m.t = "answer" /\ HearAnswer(m)
    <2> DEFINE e == CaughtUp(edge, m)
               g == Vouch(e, Pending(e))
               h == SendQueue(g, Speakers)
    <2>1. Done(h)
      BY <1>10 DEF HearAnswer
    <2>2. Fits(e, k, L)
      BY <1>1, OwnApart, CaughtUpShows DEF L, Settles
    <2>3. PICK f : /\ Aside(f, e)
                   /\ f.linked = edge.linked /\ f.held = edge.held /\ f.reopens = edge.reopens
                   /\ f.out = <<>> /\ Foreign(f.queue) /\ f.v = m.v /\ f.synced = TRUE
                   /\ f.base = IF m.since = NoVersion THEN Merged(0, m.v)
                               ELSE edge.base \cup Merged(m.since, m.v)
      <3>1. Foreign(edge.queue)
        BY DEF Copies
      <3> QED BY <1>1, <3>1, CaughtUpAside
    <2> HIDE DEF e
    <2>4. Pending(e) \in SUBSET As
      BY DEF Pending
    <2>5. Fits(g, k, L) /\ Aside(e, g)
      BY <2>2, <2>4, VouchShows
    <2> HIDE DEF g
    <2>6. Fits(h, k, L) /\ Aside(g, h)
      BY <2>5, SendQueueShows
    <2> HIDE DEF h
    <2>7. Aside(f, h)
      <3>1. Aside(f, g)
        BY <2>3, <2>5, AsideAgain
      <3> QED BY <2>6, <3>1, AsideAgain
    <2>8. Whole(log, f.base, f.v)
      <3>1. Whole(log, edge.base, v) /\ Len(log) \in Nat /\ m.v \in 0 .. Len(log)
        BY <1>1, <1>5, <1>10 DEF Copies, v, n
      <3>2. /\ Whole(log, Merged(0, m.v), m.v)
            /\ Whole(log, edge.base \cup Merged(v, m.v), m.v)
        BY <1>1, <3>1, WholeNext
      <3>3. m.since = NoVersion \/ m.since = v
        BY <1>5, <1>10
      <3> QED BY <2>3, <3>2, <3>3
    <2>9. Link(f.synced, f.v, TRUE, up, Tail(down), sess, n)
      BY <1>5, <1>10, <2>3
    <2> QED BY <1>7, <2>1, <2>3, <2>6, <2>7, <2>8, <2>9
  <1>11. CASE m.t = "patch" /\ HearPatch(m)
    <2>1. CASE ~y
      <3>1. Done(edge)
        BY <1>11, <2>1 DEF HearPatch, y
      <3> QED BY <1>1, <1>6, <1>8, <1>11, <2>1, <3>1
    <2>2. CASE y
      <3> DEFINE f0 == [edge EXCEPT !.v = m.v]
                 items == {log[m.v]}
                 f == [f0 EXCEPT !.base = @ \cup items]
                 e == FromServer(f0, items)
      <3>1. m.v = v + 1 /\ v + 1 \in 0 .. n /\ Link(y, v + 1, TRUE, up, Tail(down), sess, n)
        BY <1>5, <1>11, <2>2
      <3>2. Done(e)
        <4>1. ~(m.v > edge.v + 1)
          BY <1>1, <3>1 DEF v
        <4> QED BY <1>11, <2>2, <4>1 DEF HearPatch, y
      <3>3. Fits(f0, k, L)
        BY <1>1, Flagged
      <3>4. /\ f.linked = edge.linked /\ f.held = edge.held /\ f.reopens = edge.reopens
            /\ f.out = <<>> /\ f.queue = edge.queue /\ f.v = m.v /\ f.synced = edge.synced
            /\ f.base = edge.base \cup items
        BY <1>1 DEF Fields
      <3> HIDE DEF f0, items
      <3>5. Fits(e, k, L) /\ Aside(f, e)
        BY <3>3, FromServerShows, FromServerAside
      <3> HIDE DEF e, f
      <3>6. Whole(log, f.base, f.v)
        <4>1. Whole(log, edge.base, v) /\ Len(log) \in Nat
          BY <1>1 DEF Copies, v, n
        <4>2. Whole(log, edge.base \cup {log[v + 1]}, v + 1)
          BY <1>1, <3>1, <4>1, WholeNext DEF n
        <4> QED BY <3>1, <3>4, <4>2 DEF items
      <3>7. Link(f.synced, f.v, TRUE, up, Tail(down), sess, n)
        BY <3>1, <3>4 DEF y
      <3>8. Foreign(f.queue)
        BY <3>4 DEF Copies
      <3> QED BY <1>7, <3>2, <3>4, <3>5, <3>6, <3>7, <3>8
    <2> QED BY <2>1, <2>2
  <1>12. CASE m.t = "ack" /\ HearAck(m)
    <2> DEFINE e == IF m.as = Itself THEN [edge EXCEPT !.v = Larger(@, m.v)]
                    ELSE [edge EXCEPT !.v = Larger(@, m.v), !.acked[m.as[1]] = Larger(@, m.n)]
               gone == {i \in DOMAIN e.queue : ItemOf(e.queue[i]) = <<m.as[1], m.n>>}
    <2>1. Done(Forget(e, gone))
      BY <1>12 DEF HearAck
    <2>2. Larger(edge.v, m.v) = edge.v
      BY <1>1, <1>5, <1>12 DEF Larger, v
    <2>3. /\ DOMAIN e = Fields /\ e.base = edge.base /\ e.view = edge.view
          /\ e.ownSeq = edge.ownSeq /\ e.queue = edge.queue /\ e.out = edge.out
      BY <1>1 DEF Fields
    <2>4. /\ e.v = edge.v /\ e.synced = edge.synced /\ e.linked = edge.linked
          /\ e.held = edge.held /\ e.reopens = edge.reopens
      BY <1>1, <2>2 DEF Fields
    <2>5. gone \in SUBSET DOMAIN e.queue
      OBVIOUS
    <2> HIDE DEF e, gone
    <2>6. Fits(e, k, L) /\ Aside(edge, e)
      BY <1>1, <2>3, <2>4, SameEdge, AsideMarked
    <2>7. Fits(Forget(e, gone), k, L) /\ Aside(e, Forget(e, gone))
      BY <2>5, <2>6, ForgetShows
    <2>8. Aside(edge, Forget(e, gone))
      BY <2>6, <2>7, AsideAgain
    <2> QED BY <1>8, <1>12, <2>1, <2>7, <2>8
  <1>13. CASE m.t = "refused" /\ HearRefused(m)
    <2> DEFINE gone == {i \in DOMAIN edge.queue : ItemOf(edge.queue[i]) = <<m.as[1], m.n>>}
    <2>1. Done(Forget(edge, gone))
      BY <1>13 DEF HearRefused
    <2>2. gone \in SUBSET DOMAIN edge.queue
      OBVIOUS
    <2> HIDE DEF gone
    <2>3. Fits(Forget(edge, gone), k, L) /\ Aside(edge, Forget(edge, gone))
      BY <1>1, <2>2, ForgetShows
    <2> QED BY <1>8, <1>13, <2>1, <2>3 DEF Idle
  <1>14. CASE m.t = "limited" /\ HearLimited(m)
    <2> DEFINE q == [i \in DOMAIN edge.queue |->
                      [edge.queue[i] EXCEPT !.sent = edge.queue[i].sent /\ edge.queue[i].as # m.as]]
               e == [edge EXCEPT !.queue = q, !.retry = TRUE]
    <2>1. Done(e)
      BY <1>14 DEF HearLimited
    <2>2. edge.queue \in Seq(Entry)
      BY <1>1 DEF Fits, Formed
    <2>3. q \in Seq(Entry) /\ QueuedBy(q) = QueuedBy(edge.queue)
      <3>1. \A j \in DOMAIN edge.queue : \E b \in BOOLEAN : q[j] = [edge.queue[j] EXCEPT !.sent = b]
        <4> SUFFICES ASSUME NEW j \in DOMAIN edge.queue
                     PROVE  \E b \in BOOLEAN : q[j] = [edge.queue[j] EXCEPT !.sent = b]
          OBVIOUS
        <4> DEFINE x == edge.queue[j]
                   b == x.sent /\ x.as # m.as
        <4>1. x \in Entry
          BY <2>2, ElementOfSeq
        <4>2. b \in BOOLEAN
          OBVIOUS
        <4>3. q[j] = [edge.queue[j] EXCEPT !.sent = b]
          BY <4>1 DEF Entry
        <4> HIDE DEF q, b
        <4> QED BY <4>2, <4>3
      <3>2. q = [j \in DOMAIN edge.queue |-> q[j]]
        OBVIOUS
      <3> HIDE DEF q
      <3> QED BY <2>2, <3>1, <3>2, MarkedQueue
    <2> HIDE DEF q
    <2>4. /\ DOMAIN e = Fields /\ e.base = edge.base /\ e.view = edge.view
          /\ e.ownSeq = edge.ownSeq /\ e.queue = q /\ e.out = edge.out
      BY <1>1 DEF Fields
    <2>5. /\ e.v = edge.v /\ e.synced = edge.synced /\ e.linked = edge.linked
          /\ e.held = edge.held /\ e.reopens = edge.reopens
      BY <1>1 DEF Fields
    <2> HIDE DEF e
    <2>6. Fits(e, k, L) /\ Aside(edge, e)
      BY <1>1, <2>3, <2>4, <2>5, MarkedEdge, AsideMarked DEF Fits, Formed
    <2> QED BY <1>8, <1>14, <2>1, <2>6 DEF Idle
  <1>15. CASE m.t = "admitted" /\ HearAdmitted(m)
    <2> DEFINE e == [edge EXCEPT !.grants[m.as] = "admitted", !.admitted = @ \cup {m.as[1]}]
    <2>1. Done(edge) \/ Done(SendQueue(e, {m.as}))
      BY <1>15 DEF HearAdmitted
    <2>2. /\ DOMAIN e = Fields /\ e.base = edge.base /\ e.view = edge.view
          /\ e.ownSeq = edge.ownSeq /\ e.queue = edge.queue /\ e.out = edge.out
      BY <1>1 DEF Fields
    <2>3. /\ e.v = edge.v /\ e.synced = edge.synced /\ e.linked = edge.linked
          /\ e.held = edge.held /\ e.reopens = edge.reopens
      BY <1>1 DEF Fields
    <2> HIDE DEF e
    <2>4. Fits(e, k, L) /\ Aside(edge, e)
      BY <1>1, <2>2, <2>3, SameEdge, AsideMarked
    <2> DEFINE f == SendQueue(e, {m.as})
    <2>5. Fits(f, k, L) /\ Aside(e, f)
      BY <2>4, SendQueueShows
    <2> HIDE DEF f
    <2>6. Aside(edge, f)
      BY <2>4, <2>5, AsideAgain
    <2>7. Done(edge) \/ Done(f)
      BY <2>1 DEF f
    <2> QED BY <1>1, <1>6, <1>8, <1>15, <2>5, <2>6, <2>7 DEF Idle
  <1>16. CASE m.t = "turned" /\ HearTurned(m)
    <2> DEFINE gone == {i \in DOMAIN edge.queue : edge.queue[i].as = m.as}
               c == m.as[1]
               e == [edge EXCEPT !.grants[m.as] = "none", !.admitted = @ \ {c},
                                 !.queue = Without(@, gone)]
    <2>1. m.as[1] \notin allowed
      <3>1. m \in Mail(down)
        BY <1>1, <1>2, MailTail DEF m
      <3> QED BY <1>16, <3>1 DEF Settles, Served, Heeds
    <2>2. At(edge.queue, gone) \subseteq L
      <3>1. \A i \in gone : edge.queue[i].as[1] \notin allowed
        BY <2>1
      <3>2. gone \in SUBSET DOMAIN edge.queue /\ edge.queue \in Seq(Entry)
        BY <1>1 DEF Fits, Formed
      <3> HIDE DEF gone
      <3> QED BY <3>1, <3>2, LooseAt DEF L
    <2>3. gone \in SUBSET DOMAIN edge.queue
      OBVIOUS
    <2>4. Done(edge) \/ Done(e)
      BY <1>16 DEF HearTurned
    <2> HIDE DEF gone
    <2>5. /\ DOMAIN e = Fields /\ e.base = edge.base /\ e.view = edge.view
          /\ e.ownSeq = edge.ownSeq /\ e.queue = Without(edge.queue, gone) /\ e.out = edge.out
      BY <1>1 DEF Fields
    <2>6. /\ e.v = edge.v /\ e.synced = edge.synced /\ e.linked = edge.linked
          /\ e.held = edge.held /\ e.reopens = edge.reopens
      BY <1>1 DEF Fields
    <2> HIDE DEF e
    <2>7. Fits(e, k, L)
      BY <1>1, <2>2, <2>3, <2>5, LetGo
    <2>8. QueuedBy(e.queue) \subseteq QueuedBy(edge.queue)
      <3>1. edge.queue \in Seq(Entry)
        BY <1>1 DEF Fits, Formed
      <3>2. QueuedBy(e.queue) = At(edge.queue, (DOMAIN edge.queue) \ gone)
        BY <2>5, <3>1, WithoutKeeps
      <3> QED BY <3>2 DEF At, QueuedBy
    <2>9. Aside(edge, e)
      BY <2>5, <2>6, <2>8, AsideMarked
    <2> QED BY <1>1, <1>6, <1>8, <1>16, <2>4, <2>7, <2>9 DEF Idle
  <1>17. CASE m.t = "wait" /\ HearWait(m)
    <2> DEFINE e == [edge EXCEPT !.grants[m.as] = "pending", !.revouch = @ \cup {m.as}]
    <2>1. Done(edge) \/ Done(e)
      BY <1>17 DEF HearWait
    <2>2. /\ DOMAIN e = Fields /\ e.base = edge.base /\ e.view = edge.view
          /\ e.ownSeq = edge.ownSeq /\ e.queue = edge.queue /\ e.out = edge.out
      BY <1>1 DEF Fields
    <2>3. /\ e.v = edge.v /\ e.synced = edge.synced /\ e.linked = edge.linked
          /\ e.held = edge.held /\ e.reopens = edge.reopens
      BY <1>1 DEF Fields
    <2> HIDE DEF e
    <2>4. Fits(e, k, L) /\ Aside(edge, e)
      BY <1>1, <2>2, <2>3, SameEdge, AsideMarked
    <2> QED BY <1>1, <1>6, <1>8, <1>17, <2>1, <2>4 DEF Idle
  <1>18. CASE m.t = "reported" /\ UNCHANGED <<edge, up>>
    <2>1. Link(y, v, TRUE, up, down', sess, n)
      BY <1>2, <1>4, <1>18 DEF Idle
    <2>2. Link(edge'.synced, edge'.v, edge'.linked, up', down', sess', Len(log'))
      BY <1>2, <1>18, <2>1, LinkOn DEF y, v, n
    <2> QED BY <1>2, <1>18, <2>2 DEF Copies
  <1> QED BY <1>9, <1>10, <1>11, <1>12, <1>13, <1>14, <1>15, <1>16, <1>17, <1>18

-----------------------------------------------------------------------------
(* The server's steps, the copies and the link.                            *)

\* A copy that is whole stays so as the log grows.
LEMMA WholeGrows ==
  ASSUME NEW l, IsSeq(l), NEW base, NEW v, Whole(l, base, v), NEW x
  PROVE  Whole(Append(l, x), base, v)
  <1> DEFINE n == Len(l)
             S == Mail(l) \cup {x}
             g == Append(l, x)
  <1>1. l \in Seq(S) /\ x \in S
    <2>1. l \in Seq(Mail(l)) /\ Mail(l) \subseteq S
      BY DEF IsSeq
    <2> HIDE DEF S
    <2> QED BY <2>1 DEF S
  <1> HIDE DEF S
  <1>2. n \in Nat /\ Len(g) = n + 1 /\ \A i \in 1 .. n : g[i] = l[i]
    BY <1>1, AppendProperties
  <1>3. v \in 0 .. n /\ {l[i] : i \in 1 .. v} \subseteq base /\ base \subseteq {l[i] : i \in 1 .. n}
    BY DEF Whole
  <1> HIDE DEF n, g
  <1>4. v \in 0 .. Len(g)
    BY <1>2, <1>3
  <1>5. {g[i] : i \in 1 .. v} \subseteq base
    <2>1. ASSUME NEW i \in 1 .. v PROVE g[i] \in base
      <3>1. i \in 1 .. n
        BY <1>2, <1>3
      <3> QED BY <1>2, <1>3, <3>1
    <2> QED BY <2>1
  <1>6. base \subseteq {g[i] : i \in 1 .. Len(g)}
    <2>1. ASSUME NEW i \in 1 .. n PROVE l[i] \in {g[j] : j \in 1 .. Len(g)}
      <3>1. i \in 1 .. Len(g) /\ l[i] = g[i]
        BY <1>2
      <3> QED BY <3>1
    <2> QED BY <1>3, <2>1
  <1> QED BY <1>4, <1>5, <1>6 DEF Whole, g

\* The server has heard the hello, its log comes to k versions, and what it sends of
\* that runs as far.
LEMMA MetGrows ==
  ASSUME NEW y, NEW v \in Nat, NEW u, NEW d, IsSeq(d), NEW s, NEW n \in Nat, Met(y, v, u, d, s, n),
         NEW w, Mail(w) \subseteq Mail(u), NEW r, r.open, r.follows = s.follows, r.asked = s.asked,
         NEW k \in Nat, NEW t, IsSeq(t), s.follows => Runs(t, n, k),
         ~s.follows => \A m \in Mail(t) : Idle(m),
         ~y => \A m \in Mail(t) : m.t \notin {"ack", "answer", "closed"}
  PROVE  Met(y, v, w, d \o t, r, k)
  <1>1. Mail(d \o t) \subseteq Mail(d) \cup Mail(t)
    BY MailConcat
  <1>2. CASE Followed(y, v, u, d, s, n)
    <2> DEFINE x == IF y THEN v ELSE -1
               z == IF s.asked = <<>> THEN n ELSE -1
               q == IF s.asked = <<>> THEN k ELSE -1
    <2>1. Runs(d, x, z)
      BY <1>2 DEF Followed
    <2>2. Runs(t, z, q)
      <3>1. CASE s.asked = <<>>
        <4>1. s.follows
          BY <1>2, <3>1 DEF Followed
        <4> QED BY <3>1, <4>1
      <3>2. CASE s.asked # <<>>
        <4>1. ~s.follows /\ z = -1 /\ q = -1
          BY <1>2, <3>2 DEF Followed
        <4>2. -1 \in Versions
          BY DEF Versions
        <4> QED BY <4>1, <4>2, RunsIdle
      <3> QED BY <3>1, <3>2
    <2> HIDE DEF x, z, q
    <2>3. Runs(d \o t, x, q)
      BY <2>1, <2>2, RunsConcat
    <2>4. ~y => \A m \in Mail(d \o t) : m.t = "answer" => m.since \in {NoVersion, v}
      BY <1>1, <1>2 DEF Followed
    <2>5. Followed(y, v, w, d \o t, r, k)
      BY <1>2, <2>3, <2>4 DEF Followed, x, q
    <2> QED BY <2>5 DEF Met
  <1>3. CASE Deaf(y, u, d, s)
    <2>1. Deaf(y, w, d \o t, r)
      BY <1>1, <1>3 DEF Deaf
    <2> QED BY <2>1 DEF Met
  <1> QED BY <1>2, <1>3 DEF Met

\* A step of the server's leaves the copies whole while the link goes on as it does.
LEMMA ServerCopies ==
  ASSUME Settles, Copies, edge' = edge, saved' = saved, log' = log \/ \E x : log' = Append(log, x),
         Link(edge.synced, edge.v, edge.linked, up', down', sess', Len(log'))
  PROVE  Copies'
  <1>1. IsSeq(log)
    BY CopyTypes
  <1>2. Whole(log', edge.base, edge.v) /\ Whole(log', saved.base, saved.v)
    <2>1. ASSUME NEW base, NEW v, Whole(log, base, v) PROVE Whole(log', base, v)
      <3>1. ASSUME NEW x, log' = Append(log, x) PROVE Whole(log', base, v)
        BY <1>1, <2>1, <3>1, WholeGrows
      <3> QED BY <2>1, <3>1
    <2> QED BY <2>1 DEF Copies
  <1> QED BY <1>2 DEF Copies

\* Nothing is after a link.
LEMMA NoneAfter ==
  ASSUME NEW d, IsSeq(d)
  PROVE  d \o <<>> = d
  <1> DEFINE S == Mail(d)
  <1>1. d \in Seq(S)
    BY DEF IsSeq
  <1> HIDE DEF S
  <1> QED BY <1>1

\* What is told of no patch.
LEMMA DownwardNone ==
  ASSUME IsSeq(down), NEW told, Downward(<<>>, told)
  PROVE  down' = down \o told
  <1>1. down' = (down \o <<>>) \o told
    BY DEF Downward
  <1> QED BY <1>1, NoneAfter

\* A message of the server's own log, and the ack of an op.
LEMMA RunsFew ==
  ASSUME NEW n \in Nat
  PROVE  /\ Runs(<<>>, n, n)
         /\ \A m : m.t = "patch" /\ m.v = n + 1 => Runs(<<m>>, n, n + 1)
         /\ \A m : m.t = "ack" /\ m.v = n => Runs(<<m>>, n, n)
         /\ \A m : Idle(m) => Runs(<<m>>, n, n)
  <1>1. n \in Versions /\ n + 1 \in Versions /\ n <= n + 1 /\ n <= n /\ n \in 0 .. n
    BY DEF Versions
  <1>2. Runs(<<>>, n, n)
    BY <1>1, MailFew, RunsIdle
  <1>3. ASSUME NEW m, m.t = "patch", m.v = n + 1 PROVE Runs(<<m>>, n, n + 1)
    <2>1. Counts(m, n, n + 1)
      BY <1>3 DEF Counts, Idle
    <2> QED BY <1>1, <2>1, RunsOne
  <1>4. ASSUME NEW m, m.t = "ack", m.v = n PROVE Runs(<<m>>, n, n)
    <2>1. Counts(m, n, n)
      BY <1>1, <1>4 DEF Counts, Idle
    <2> QED BY <1>1, <2>1, RunsOne
  <1>5. ASSUME NEW m, Idle(m) PROVE Runs(<<m>>, n, n)
    <2>1. Counts(m, n, n)
      BY <1>5 DEF Counts, Idle
    <2> QED BY <1>1, <2>1, RunsOne
  <1> QED BY <1>2, <1>3, <1>4, <1>5

\* store.js:829-845: an op that came live on a session that follows.
LEMMA ApplyLink ==
  ASSUME IsSeq(log), IsSeq(down), NEW y, y, NEW v \in Nat, NEW u, NEW s, Met(y, v, u, down, s, Len(log)),
         NEW w, Mail(w) \subseteq Mail(u), s.follows,
         sess'.open, sess'.follows = s.follows, sess'.asked = s.asked,
         NEW as, NEW i, Apply(as, i)
  PROVE  /\ log' = log \/ \E x : log' = Append(log, x)
         /\ Met(y, v, w, down', sess', Len(log'))
  <1> DEFINE n == Len(log)
             r == [open |-> TRUE, follows |-> s.follows, asked |-> s.asked]
             T(kind) == [t |-> kind, as |-> as, n |-> i, v |-> Len(log')]
  <1>1. n \in Nat
    BY DEF IsSeq
  <1>2. r.open /\ r.follows = s.follows /\ r.asked = s.asked
    OBVIOUS
  <1> HIDE DEF r
  <1>3. \A kind : Tells(kind, as, i) = <<T(kind)>> /\ T(kind).t = kind /\ T(kind).v = Len(log')
    BY DEF Tells
  <1> HIDE DEF T
  <1>4. CASE log' = log /\ Downward(<<>>, Tells("ack", as, i))
    <2> DEFINE m == T("ack")
    <2>1. Tells("ack", as, i) = <<m>> /\ m.t = "ack" /\ m.v = n
      BY <1>3, <1>4
    <2>2. down' = down \o <<m>>
      BY <1>4, <2>1, DownwardNone
    <2>3. Runs(<<m>>, n, n) /\ IsSeq(<<m>>)
      BY <1>1, <2>1, MailFew, RunsFew
    <2>4. Met(y, v, w, down', sess', n)
      BY <1>1, <2>2, <2>3, MetGrows
    <2> QED BY <1>4, <2>4
  <1>5. CASE log' = log /\ Downward(<<>>, Tells("refused", as, i))
    <2> DEFINE m == T("refused")
    <2>1. Tells("refused", as, i) = <<m>> /\ m.t = "refused"
      BY <1>3
    <2>2. down' = down \o <<m>>
      BY <1>5, <2>1, DownwardNone
    <2>3. Runs(<<m>>, n, n) /\ IsSeq(<<m>>)
      BY <1>1, <2>1, MailFew, RunsFew DEF Idle
    <2>4. Met(y, v, w, down', sess', n)
      BY <1>1, <2>2, <2>3, MetGrows
    <2> QED BY <1>5, <2>4
  <1>6. CASE log' = Append(log, <<as[1], i>>) /\ Downward(PatchesFrom(version), Tells("ack", as, i))
    <2>1. Len(log') = n + 1 /\ n + 1 \in Nat
      <3>1. Len(Append(log, <<as[1], i>>)) - version = 1 /\ IsSeq(log')
        BY <1>6, LogGrows
      <3>2. Len(log') \in Nat
        BY <3>1 DEF IsSeq
      <3> QED BY <1>1, <1>6, <3>1, <3>2 DEF version
    <2> DEFINE m == T("ack")
    <2>2. Tells("ack", as, i) = <<m>> /\ m.t = "ack" /\ m.v = n + 1
      BY <1>3, <2>1
    <2>3. PICK p : PatchesFrom(version) = <<p>> /\ p.t = "patch" /\ p.v = n + 1
      <3> DEFINE p == [t |-> "patch", v |-> n + 1]
      <3>1. PatchesFrom(version) = [j \in 1 .. 1 |-> [t |-> "patch", v |-> n + j]]
        BY <1>1, <2>1 DEF PatchesFrom, version
      <3>2. PatchesFrom(version) = <<p>>
        BY <3>1
      <3> QED BY <3>2
    <2>4. down' = (down \o <<p>>) \o <<m>>
      BY <1>6, <2>2, <2>3 DEF Downward
    <2>5. Runs(<<p>>, n, n + 1) /\ IsSeq(<<p>>) /\ Runs(<<m>>, n + 1, n + 1) /\ IsSeq(<<m>>)
      BY <1>1, <2>1, <2>2, <2>3, MailFew, RunsFew
    <2>6. IsSeq(down \o <<p>>)
      BY <2>5, MailConcat
    <2>7. Met(y, v, w, down \o <<p>>, r, n + 1)
      BY <1>1, <1>2, <2>1, <2>5, MetGrows
    <2>8. Met(y, v, w, (down \o <<p>>) \o <<m>>, sess', n + 1)
      BY <1>2, <2>1, <2>5, <2>6, <2>7, MetGrows
    <2> QED BY <1>6, <2>1, <2>4, <2>8
  <1> QED BY <1>4, <1>5, <1>6 DEF Apply

\* The server reads anything but a hello, with the hello heard.
LEMMA MetReads ==
  ASSUME Settles, Copies, ServerReads, Met(edge.synced, edge.v, up, down, sess, Len(log))
  PROVE  /\ log' = log \/ \E x : log' = Append(log, x)
         /\ Met(edge.synced, edge.v, up', down', sess', Len(log'))
  <1> DEFINE m == Head(up)
             y == edge.synced
             v == edge.v
             n == Len(log)
  <1>1. /\ IsSeq(log) /\ n \in Nat /\ v \in Nat /\ IsSeq(up) /\ IsSeq(down) /\ Session(sess) /\ Posts(up)
    BY CopyTypes
  <1>2. m \in Mail(up) /\ Mail(up') \subseteq Mail(up) /\ Letter(m)
    <2>1. up # <<>> /\ up' = Tail(up)
      BY DEF ServerReads
    <2> QED BY <1>1, <2>1, MailTail DEF Posts
  <1>3. \/ m.t = "op" /\ LiveOp(m)
        \/ m.t = "hello" /\ Hello(m)
        \/ m.t = "vouch" /\ Vouched(m)
        \/ m.t = "leave" /\ Ungrant(m)
    BY DEF ServerReads
  <1> HIDE DEF m, n
  <1>4. m.t # "hello"
    BY <1>2 DEF Met, Followed, Deaf, Plain
  <1>5. m.t = "op" => y /\ sess.follows
    BY <1>2 DEF Met, Followed, Deaf, Plain
  <1> HIDE DEF y, v
  <1>6. /\ Opened.open /\ Opened.follows = sess.follows /\ Opened.asked = sess.asked
        /\ DOMAIN Opened = SessionFields
    BY <1>1 DEF Opened, Session, SessionFields
  <1>7. ASSUME NEW told, IsSeq(told), \A x \in Mail(told) : Idle(x), log' = log,
               sess'.open, sess'.follows = sess.follows, sess'.asked = sess.asked,
               Downward(<<>>, told)
        PROVE  Met(y, v, up', down', sess', Len(log'))
    <2>1. down' = down \o told
      BY <1>1, <1>7, DownwardNone
    <2> QED BY <1>1, <1>2, <1>7, <2>1, MetMore DEF y, v, n
  <1>8. CASE m.t = "op" /\ LiveOp(m)
    <2>1. sess' = Opened \/ \E S : sess' = [Opened EXCEPT !.limited = S]
      BY <1>8 DEF LiveOp, TurnAway
    <2>2. sess'.open /\ sess'.follows = sess.follows /\ sess'.asked = sess.asked
      BY <1>6, <2>1 DEF SessionFields
    <2>3. CASE log' = log /\ Downward(<<>>, <<[t |-> "reported"]>>)
      <3> DEFINE x == [t |-> "reported"]
      <3>1. Idle(x)
        BY DEF Idle
      <3>2. Downward(<<>>, <<x>>)
        BY <2>3
      <3> HIDE DEF x
      <3> QED BY <1>7, <2>2, <2>3, <3>1, <3>2, MailFew DEF y, v
    <2>4. CASE TurnAway(m.as)
      <3> DEFINE x == [t |-> "limited", as |-> m.as]
      <3>1. Idle(x)
        BY DEF Idle
      <3>2. log' = log /\ Downward(<<>>, <<x>>)
        BY <2>4 DEF TurnAway
      <3> HIDE DEF x
      <3> QED BY <1>7, <2>2, <3>1, <3>2, MailFew DEF y, v
    <2>5. CASE Apply(m.as, m.n)
      <3>1. y /\ sess.follows
        BY <1>5, <1>8
      <3> QED BY <1>1, <1>2, <2>2, <2>5, <3>1, ApplyLink DEF y, v
    <2> QED BY <1>8, <2>3, <2>4, <2>5 DEF LiveOp
  <1>9. CASE m.t = "vouch" /\ Vouched(m)
    <2>1. PICK wait \in SUBSET m.as :
            /\ \E S : sess' = [Opened EXCEPT !.checks = S]
            /\ log' = log
            /\ \E f \in [1 .. Cardinality(wait) -> wait] :
                 Downward(<<>>, [j \in DOMAIN f |-> [t |-> "wait", as |-> f[j]]])
      BY <1>9 DEF Vouched
    <2>2. PICK f \in [1 .. Cardinality(wait) -> wait] :
            Downward(<<>>, [j \in DOMAIN f |-> [t |-> "wait", as |-> f[j]]])
      BY <2>1
    <2> DEFINE told == [j \in DOMAIN f |-> [t |-> "wait", as |-> f[j]]]
               k == Cardinality(wait)
    <2>3. k \in Nat
      <3>1. m.as \subseteq As
        BY <1>2, <1>9 DEF Letter
      <3>2. IsFiniteSet(wait)
        BY <3>1, AsFinite, FS_Subset
      <3> QED BY <3>2, FS_CardinalityType
    <2> HIDE DEF k
    <2>4. DOMAIN told = 1 .. k /\ told = [j \in 1 .. k |-> told[j]] /\ \A j \in 1 .. k : Idle(told[j])
      BY DEF Idle, k
    <2>5. Downward(<<>>, told)
      BY <2>2
    <2> HIDE DEF told
    <2>6. IsSeq(told) /\ \A x \in Mail(told) : Idle(x)
      BY <2>3, <2>4, MailList DEF Mail
    <2>7. sess'.open /\ sess'.follows = sess.follows /\ sess'.asked = sess.asked
      BY <1>6, <2>1 DEF SessionFields
    <2> QED BY <1>7, <2>1, <2>5, <2>6, <2>7 DEF y, v
  <1>10. CASE m.t = "leave" /\ Ungrant(m)
    <2>1. /\ sess' = [Opened EXCEPT !.grants = @ \ {m.as}, !.limited = @ \ {m.as}]
          /\ log' = log /\ down' = down
      BY <1>10 DEF Ungrant
    <2>2. sess'.open /\ sess'.follows = sess.follows /\ sess'.asked = sess.asked
      BY <1>6, <2>1 DEF SessionFields
    <2>3. down' = down \o <<>>
      BY <1>1, <2>1, NoneAfter
    <2>4. Met(y, v, up', down \o <<>>, sess', n)
      BY <1>1, <1>2, <2>2, MailFew, MetMore DEF y, v, n
    <2> QED BY <2>1, <2>3, <2>4 DEF y, v, n
  <1> QED BY <1>3, <1>4, <1>8, <1>9, <1>10 DEF y, v

\* store.js:888-955: the hello of a link is read, with nobody let in and no op in it.
LEMMA ShutReads ==
  ASSUME Settles, Copies, ServerReads, Shut(edge.synced, down, sess), Greets(edge.v, up)
  PROVE  log' = log /\ Met(edge.synced, edge.v, up', down', sess', Len(log))
  <1> DEFINE m == Head(up)
             y == edge.synced
             v == edge.v
             n == Len(log)
  <1>1. IsSeq(log) /\ IsSeq(down) /\ Session(sess)
    BY CopyTypes
  <1>2. /\ m.t = "hello" /\ m.ops = {} /\ m.since \in {NoVersion, v} /\ Hello(m)
        /\ \A x \in Mail(up') : Plain(x)
    BY DEF Greets, ServerReads
  <1>3. ~y /\ sess.grants = {} /\ sess.asked = <<>> /\ \A x \in Mail(down) : Idle(x)
    BY DEF Shut
  <1> HIDE DEF m, y, v, n
  <1>4. CASE log' = log /\ sess' = Opened /\ Downward(<<>>, <<[t |-> "reported"]>>)
    <2> DEFINE x == [t |-> "reported"]
    <2>1. Idle(x) /\ down' = down \o <<x>>
      BY <1>1, <1>4, DownwardNone DEF Idle
    <2> HIDE DEF x
    <2>2. \A z \in Mail(down') : Idle(z)
      BY <1>1, <1>3, <2>1, MailFew, MailConcat
    <2>3. sess'.open /\ sess'.asked = <<>>
      BY <1>1, <1>3, <1>4 DEF Opened, Session, SessionFields
    <2>4. Deaf(y, up', down', sess')
      BY <1>2, <1>3, <2>2, <2>3 DEF Deaf, Idle
    <2> QED BY <1>4, <2>4 DEF Met, y
  <1>5. ASSUME NEW fresh \in SUBSET m.ops, NEW refused \in SUBSET fresh, NEW lost,
               HelloDecides(m, fresh, refused, lost)
        PROVE  log' = log /\ Met(y, v, up', down', sess', n)
    <2> DEFINE landed == Ascending(fresh \ (refused \cup lost))
               nays == Ascending(refused)
               acks == Ascending(m.ops \ refused)
               more == [i \in DOMAIN landed |-> <<Own, landed[i]>>]
               said == [i \in DOMAIN nays |-> Tells("refused", Itself, nays[i])[1]]
               heard == [i \in DOMAIN acks |-> Tells("ack", Itself, acks[i])[1]]
    <2>1. /\ log' = log \o more
          /\ sess' = [Opened EXCEPT
               !.greeted = TRUE, !.limited = @ \ {Itself}, !.follows = FALSE, !.asked = <<m.since>>]
          /\ Downward(PatchesFrom(version), said \o heard)
      BY <1>3, <1>5 DEF HelloDecides
    <2>2. fresh \ (refused \cup lost) = {} /\ refused = {} /\ m.ops \ refused = {}
      BY <1>2
    <2>3. DOMAIN Ascending({}) = {}
      BY FS_EmptySet DEF Ascending
    <2>4. DOMAIN landed = {} /\ DOMAIN nays = {} /\ DOMAIN acks = {}
      BY <2>2, <2>3
    <2> HIDE DEF landed, nays, acks
    <2>5. more = <<>> /\ said = <<>> /\ heard = <<>>
      BY <2>4
    <2> HIDE DEF more, said, heard
    <2>6. log' = log
      BY <1>1, <2>1, <2>5, NoneAfter
    <2>7. sess'.open /\ sess'.follows = FALSE /\ sess'.asked = <<m.since>>
      BY <1>1, <2>1 DEF Opened, Session, SessionFields
    <2>8. down' = down
      <3>1. down' = (down \o <<>>) \o (<<>> \o <<>>)
        BY <2>1, <2>5, <2>7 DEF Downward
      <3>2. <<>> \o <<>> = <<>>
        BY MailFew, NoneAfter
      <3> QED BY <1>1, <3>1, <3>2, NoneAfter
    <2>9. Runs(down, -1, -1)
      <3>1. -1 \in Versions
        BY DEF Versions
      <3> QED BY <1>1, <1>3, <3>1, RunsIdle
    <2>10. <<m.since>> # <<>>
      OBVIOUS
    <2>11. Followed(y, v, up', down', sess', n)
      BY <1>2, <1>3, <2>7, <2>8, <2>9, <2>10 DEF Followed, Plain, Idle
    <2> QED BY <2>6, <2>11 DEF Met
  <1>6. \/ log' = log /\ sess' = Opened /\ Downward(<<>>, <<[t |-> "reported"]>>)
        \/ \E fresh \in SUBSET m.ops : \E refused \in SUBSET fresh : \E lost :
             HelloDecides(m, fresh, refused, lost)
    BY <1>2, HelloOutcomes
  <1> QED BY <1>4, <1>5, <1>6 DEF y, v, n

\* The next message of the relay's is read.
LEMMA ServerReadsCopies ==
  ASSUME Settles, Copies, ServerReads
  PROVE  Copies'
  <1>1. edge' = edge /\ saved' = saved /\ edge.linked
    BY DEF ServerReads
  <1>2. Link(edge.synced, edge.v, TRUE, up, down, sess, Len(log))
    BY <1>1, LinkOn DEF Copies
  <1>3. \/ Shut(edge.synced, down, sess) /\ Greets(edge.v, up)
        \/ Met(edge.synced, edge.v, up, down, sess, Len(log))
    BY <1>2 DEF Link
  <1>4. /\ log' = log \/ \E x : log' = Append(log, x)
        /\ Met(edge.synced, edge.v, up', down', sess', Len(log'))
    <2>1. CASE Shut(edge.synced, down, sess) /\ Greets(edge.v, up)
      <3>1. log' = log /\ Met(edge.synced, edge.v, up', down', sess', Len(log))
        BY <2>1, ShutReads
      <3> QED BY <3>1
    <2>2. CASE Met(edge.synced, edge.v, up, down, sess, Len(log))
      BY <2>2, MetReads
    <2> QED BY <1>3, <2>1, <2>2
  <1>5. Link(edge.synced, edge.v, TRUE, up', down', sess', Len(log'))
    BY <1>4 DEF Link
  <1>6. Link(edge.synced, edge.v, edge.linked, up', down', sess', Len(log'))
    BY <1>1, <1>5, LinkOn
  <1> QED BY <1>1, <1>4, <1>6, ServerCopies

\* hub.js:135-144, store.js:979-1010: the verdict on a client, with the answer that
\* waited for the first one let in.
LEMMA VerdictCopies ==
  ASSUME Settles, Copies, NEW as \in As, Verdict(as)
  PROVE  Copies'
  <1> DEFINE y == edge.synced
             v == edge.v
             n == Len(log)
  <1>1. IsSeq(log) /\ n \in Nat /\ v \in Nat /\ IsSeq(up) /\ IsSeq(down) /\ Session(sess)
    BY CopyTypes
  <1>2. /\ edge' = edge /\ saved' = saved /\ up' = up /\ log' = log /\ as \in sess.checks
    BY DEF Verdict
  <1> HIDE DEF y, v, n
  <1>3. edge.linked /\ Met(y, v, up, down, sess, n)
    BY <1>2 DEF Copies, Link, Shut, y, v, n
  <1>4. Mail(up) \subseteq Mail(up)
    OBVIOUS
  <1>5. Met(y, v, up, down', sess', n)
    <2>1. CASE as[1] \notin allowed
      <3> DEFINE x == [t |-> "turned", as |-> as]
      <3>1. sess' = [sess EXCEPT !.checks = @ \ {as}] /\ down' = Append(down, x)
        BY <2>1 DEF Verdict
      <3>2. Idle(x)
        BY DEF Idle
      <3> HIDE DEF x
      <3>3. down' = down \o <<x>>
        <4> DEFINE S == Mail(down) \cup {x}
        <4>1. down \in Seq(Mail(down)) /\ Mail(down) \subseteq S /\ x \in S
          BY <1>1 DEF IsSeq
        <4> HIDE DEF S
        <4>2. down \in Seq(S) /\ x \in S
          BY <4>1
        <4> QED BY <3>1, <4>2
      <3>4. sess'.open = sess.open /\ sess'.follows = sess.follows /\ sess'.asked = sess.asked
        BY <1>1, <3>1 DEF Session, SessionFields
      <3>5. sess.open
        BY <1>3 DEF Met, Followed, Deaf
      <3>6. IsSeq(<<x>>) /\ \A z \in Mail(<<x>>) : Idle(z)
        BY <3>2, MailFew
      <3>7. sess'.open
        BY <3>4, <3>5
      <3>8. Met(y, v, up, down \o <<x>>, sess', n)
        BY <1>1, <1>3, <1>4, <3>4, <3>6, <3>7, MetMore
      <3> QED BY <3>3, <3>8
    <2>2. CASE as[1] \in allowed
      <3> DEFINE answer == [i \in DOMAIN sess.asked |->
                   [t |-> "answer", since |-> sess.asked[i], v |-> version, s |-> last[Own]]]
                 x == [t |-> "admitted", as |-> as]
                 one == <<x>>
      <3>1. /\ sess' = [sess EXCEPT !.checks = @ \ {as}, !.grants = @ \cup {as},
                                    !.follows = @ \/ sess.asked # <<>>, !.asked = <<>>]
            /\ \/ down' = (down \o answer) \o one
               \/ answer # <<>> /\ down' = (down \o one) \o answer
        BY <2>2 DEF Verdict
      <3>2. /\ sess'.open = sess.open /\ sess'.follows = (sess.follows \/ sess.asked # <<>>)
            /\ sess'.asked = <<>>
        BY <1>1, <3>1 DEF Session, SessionFields
      <3>3. Idle(x)
        BY DEF Idle
      <3> HIDE DEF x
      <3>4. IsSeq(one) /\ \A z \in Mail(one) : Idle(z)
        BY <3>3, MailFew
      <3>5. sess.open
        BY <1>3 DEF Met, Followed, Deaf
      <3> HIDE DEF one
      <3>6. CASE sess.asked = <<>>
        <4>1. answer = <<>>
          BY <3>6
        <4> HIDE DEF answer
        <4>2. down' = down \o one
          BY <1>1, <3>1, <4>1, NoneAfter
        <4>3. CASE Followed(y, v, up, down, sess, n)
          <5>1. sess.follows = TRUE /\ sess'.follows = TRUE
            BY <3>2, <3>6, <4>3 DEF Followed
          <5> QED BY <1>1, <1>3, <1>4, <3>2, <3>4, <3>5, <3>6, <4>2, <5>1, MetMore
        <4>4. CASE Deaf(y, up, down, sess)
          <5>1. Mail(down') \subseteq Mail(down) \cup Mail(one)
            BY <1>1, <3>4, <4>2, MailConcat
          <5>2. Deaf(y, up, down', sess')
            BY <3>2, <3>4, <3>5, <4>4, <5>1 DEF Deaf, Idle
          <5> QED BY <5>2 DEF Met
        <4> QED BY <1>3, <4>3, <4>4 DEF Met
      <3>7. CASE sess.asked # <<>>
        <4>1. Followed(y, v, up, down, sess, n)
          BY <1>3, <3>7 DEF Met, Deaf
        <4>2. ~y
          BY <3>7, <4>1 DEF Followed
        <4>3. PICK c \in {NoVersion, v} : sess.asked = <<c>>
          BY <3>7, <4>1 DEF Followed
        <4> DEFINE a == [t |-> "answer", since |-> c, v |-> n, s |-> last[Own]]
        <4>4. answer = <<a>>
          BY <4>3 DEF version, n
        <4>5. a.t = "answer" /\ a.since = c /\ a.v = n
          OBVIOUS
        <4> HIDE DEF answer, a
        <4>6. IsSeq(answer) /\ Mail(answer) = {a}
          BY <4>4, MailFew
        <4>7. Runs(down, -1, -1)
          BY <3>7, <4>1, <4>2 DEF Followed
        <4>8. -1 \in Versions /\ n \in Versions /\ -1 <= n /\ n \in Nat
          BY <1>1 DEF Versions
        <4>9. Runs(answer, -1, n)
          <5>1. Counts(a, -1, n)
            BY <1>1, <4>5 DEF Counts, Idle
          <5> QED BY <4>4, <4>8, <5>1, RunsOne
        <4>10. Runs(one, -1, -1) /\ Runs(one, n, n)
          BY <3>4, <4>8, RunsIdle
        <4>11. /\ IsSeq(down \o answer) /\ Mail(down \o answer) \subseteq Mail(down) \cup {a}
               /\ IsSeq(down \o one) /\ Mail(down \o one) \subseteq Mail(down) \cup Mail(one)
          BY <1>1, <3>4, <4>6, MailConcat
        <4>12. Runs((down \o answer) \o one, -1, n)
          <5>1. Runs(down \o answer, -1, n)
            BY <1>1, <4>6, <4>7, <4>9, RunsConcat
          <5> QED BY <3>4, <4>10, <4>11, <5>1, RunsConcat
        <4>13. Runs((down \o one) \o answer, -1, n)
          <5>1. Runs(down \o one, -1, -1)
            BY <1>1, <3>4, <4>7, <4>10, RunsConcat
          <5> QED BY <4>6, <4>9, <4>11, <5>1, RunsConcat
        <4>14. Runs(down', -1, n)
          BY <3>1, <4>12, <4>13
        <4>15. Mail(down') \subseteq Mail(down) \cup Mail(one) \cup {a}
          <5>1. Mail((down \o answer) \o one) \subseteq Mail(down \o answer) \cup Mail(one)
            BY <3>4, <4>11, MailConcat
          <5>2. Mail((down \o one) \o answer) \subseteq Mail(down \o one) \cup Mail(answer)
            BY <4>6, <4>11, MailConcat
          <5> QED BY <3>1, <4>6, <4>11, <5>1, <5>2
        <4>16. \A z \in Mail(down') : z.t = "answer" => z.since \in {NoVersion, v}
          BY <3>4, <4>1, <4>2, <4>5, <4>15 DEF Followed, Idle
        <4>17. sess'.open /\ sess'.follows = TRUE /\ sess'.asked = <<>>
          BY <3>2, <3>5, <3>7
        <4>18. Followed(y, v, up, down', sess', n)
          BY <4>1, <4>2, <4>14, <4>16, <4>17 DEF Followed
        <4> QED BY <4>18 DEF Met
      <3> QED BY <3>6, <3>7
    <2> QED BY <2>1, <2>2
  <1>6. Link(edge.synced, edge.v, TRUE, up', down', sess', Len(log'))
    BY <1>2, <1>5 DEF Link, y, v, n
  <1>7. Link(edge.synced, edge.v, edge.linked, up', down', sess', Len(log'))
    BY <1>3, <1>6, LinkOn
  <1> QED BY <1>2, <1>7, ServerCopies

\* store.js:1012-1022: a client is taken back.
LEMMA TakesBackCopies ==
  ASSUME Settles, Copies, NEW c \in Clients, TakesBack(c)
  PROVE  Copies'
  <1> DEFINE S == {as[2] : as \in {a \in sess.grants : a[1] = c}}
             on == Ascending(S)
             t == [i \in DOMAIN on |-> [t |-> "turned", as |-> <<c, on[i]>>]]
  <1>1. /\ IsSeq(log) /\ Len(log) \in Nat /\ edge.v \in Nat /\ IsSeq(down) /\ Session(sess)
    BY CopyTypes
  <1>2. /\ edge' = edge /\ saved' = saved /\ up' = up /\ log' = log /\ down' = down \o t
        /\ sess' = [sess EXCEPT !.grants = {as \in @ : as[1] # c}, !.limited = {as \in @ : as[1] # c}]
    BY DEF TakesBack
  <1>3. IsFiniteSet(S)
    <2>1. S \subseteq 1 .. MaxSessions
      BY <1>1 DEF Session, As
    <2>2. IsFiniteSet(1 .. MaxSessions)
      BY FS_Interval, RelayAssumption
    <2> HIDE DEF S
    <2> QED BY <2>1, <2>2, FS_Subset
  <1> HIDE DEF S
  <1>4. PICK n \in Nat : DOMAIN on = 1 .. n
    BY <1>3, AscendingList
  <1> HIDE DEF on
  <1>5. DOMAIN t = 1 .. n /\ t = [i \in 1 .. n |-> t[i]] /\ \A i \in 1 .. n : Idle(t[i])
    BY <1>4 DEF Idle
  <1> HIDE DEF t
  <1>6. IsSeq(t) /\ \A m \in Mail(t) : Idle(m)
    <2>1. IsSeq(t)
      BY <1>5, MailList
    <2> QED BY <1>5, <2>1 DEF Mail
  <1>7. Link(edge.synced, edge.v, edge.linked, up, down \o t, sess, Len(log))
    BY <1>1, <1>6, LinkDown DEF Copies
  <1>8. /\ sess'.open = sess.open /\ sess'.follows = sess.follows /\ sess'.asked = sess.asked
        /\ sess'.checks = sess.checks /\ (sess.grants = {} => sess'.grants = {})
    BY <1>1, <1>2 DEF Session, SessionFields
  <1>9. Link(edge.synced, edge.v, edge.linked, up, down \o t, sess', Len(log))
    BY <1>7, <1>8, LinkSame
  <1> QED BY <1>2, <1>9, ServerCopies

\* Another's op lands.
LEMMA OthersWriteCopies ==
  ASSUME Settles, Copies, OthersWrite
  PROVE  Copies'
  <1> DEFINE n == Len(log)
             y == edge.synced
             v == edge.v
             p == [t |-> "patch", v |-> version + 1]
  <1>1. IsSeq(log) /\ n \in Nat /\ v \in Nat /\ IsSeq(down) /\ Session(sess)
    BY CopyTypes
  <1>2. /\ edge' = edge /\ saved' = saved /\ up' = up /\ sess' = sess
        /\ down' = IF sess.open /\ sess.follows THEN Append(down, p) ELSE down
    BY DEF OthersWrite
  <1>3. PICK x : log' = Append(log, x)
    BY DEF OthersWrite
  <1>4. Len(log') = n + 1 /\ n + 1 \in Nat
    <2>1. IsSeq(log') /\ Len(log') - version = 1
      BY <1>1, <1>3, LogGrows
    <2>2. Len(log') \in Nat
      BY <2>1 DEF IsSeq
    <2> QED BY <1>1, <2>1, <2>2 DEF version
  <1>5. p.t = "patch" /\ p.v = n + 1
    BY DEF version
  <1> HIDE DEF p, n, y, v
  <1>6. Link(y, v, edge.linked, up, down, sess, n)
    BY DEF Copies, y, v, n
  <1>7. ASSUME Met(y, v, up, down, sess, n) PROVE Met(y, v, up, down', sess, n + 1)
    <2>1. sess.open /\ Mail(up) \subseteq Mail(up)
      BY <1>7 DEF Met, Followed, Deaf
    <2>2. CASE sess.follows
      <3>1. down' = down \o <<p>>
        <4> DEFINE S == Mail(down) \cup {p}
        <4>1. down \in Seq(Mail(down)) /\ Mail(down) \subseteq S /\ p \in S
          BY <1>1 DEF IsSeq
        <4> HIDE DEF S
        <4>2. down \in Seq(S) /\ p \in S
          BY <4>1
        <4>3. down' = Append(down, p)
          BY <1>2, <2>1, <2>2
        <4> QED BY <4>2, <4>3
      <3>2. Runs(<<p>>, n, n + 1) /\ IsSeq(<<p>>) /\ Mail(<<p>>) = {p}
        BY <1>1, <1>5, MailFew, RunsFew
      <3>3. ~y => \A m \in Mail(<<p>>) : m.t \notin {"ack", "answer", "closed"}
        BY <1>5, <3>2
      <3>4. Met(y, v, up, down \o <<p>>, sess, n + 1)
        BY <1>1, <1>4, <1>7, <2>1, <2>2, <3>2, <3>3, MetGrows
      <3> QED BY <3>1, <3>4
    <2>3. CASE ~sess.follows
      <3>1. down' = down \o <<>>
        BY <1>1, <1>2, <2>3, NoneAfter
      <3>2. Met(y, v, up, down \o <<>>, sess, n + 1)
        BY <1>1, <1>4, <1>7, <2>1, <2>3, MailFew, MetGrows
      <3> QED BY <3>1, <3>2
    <2> QED BY <2>2, <2>3
  <1>8. Shut(y, down, sess) => Shut(y, down', sess)
    BY <1>2 DEF Shut
  <1>9. Link(y, v, edge.linked, up, down', sess, n + 1)
    BY <1>6, <1>7, <1>8 DEF Link
  <1>10. Link(edge.synced, edge.v, edge.linked, up', down', sess', Len(log'))
    BY <1>2, <1>4, <1>9 DEF y, v
  <1> QED BY <1>2, <1>3, <1>10, ServerCopies

-----------------------------------------------------------------------------
(* The theorem of the copies.                                              *)

\* Every step keeps the copies whole.
LEMMA StepCopies ==
  ASSUME Steady, Settles, Copies, [Next]_vars
  PROVE  Copies'
  <1>1. MaxOwn = 0 /\ "hold" \notin Uses /\ "unload" \notin Uses
    BY DEF Steady
  <1>2. ~UpstreamDown /\ ~Unload
    BY <1>1 DEF UpstreamDown, Unload
  <1>3. ~UpstreamUp /\ ~Reopens
    BY DEF Copies, UpstreamUp, Reopens
  <1>4. ~Patch
    <2>1. made[Own] \in Nat
      BY DEF Settles, Copied, Authors
    <2> QED BY <1>1, <2>1 DEF Patch
  <1>5. CASE \E c \in Clients : Make(c) \/ Connect(c) \/ Leave(c) \/ SocketLost(c)
    BY <1>5, ClientCopies
  <1>6. ASSUME NEW c \in Clients, TakesBack(c) PROVE Copies'
    BY <1>6, TakesBackCopies
  <1>7. CASE Relaying
    BY <1>3, <1>7, FromUpstreamCopies, LinkCopies, ClientCopies DEF Relaying
  <1>8. CASE Serving
    BY <1>8, ServerReadsCopies, VerdictCopies DEF Serving
  <1>9. CASE LinkDrops \/ OthersWrite \/ Save \/ Crash
    BY <1>9, LinkCopies, OthersWriteCopies, SaveCopies, CrashCopies
  <1>10. CASE UNCHANGED vars
    <2>1. UNCHANGED <<edge, saved, up, down, log, sess>>
      BY <1>10 DEF vars, server
    <2> QED BY <2>1 DEF Copies
  <1> QED BY <1>2, <1>4, <1>5, <1>6, <1>7, <1>8, <1>9, <1>10 DEF Next

\* follower.js:309-310, docs/relays.md:103: at a relay that writes nothing of its own,
\* whose host does not say that the server is away, and at a server that unloads no
\* store with a session on it, the copy has all that came up to its version and nothing
\* the server has not: whatever of the rest happens, for any clients and any bounds.
THEOREM CopiesWhole == Steady => (Spec => []BaseIsWhole)
  <1>1. Settles /\ Copies => BaseIsWhole
    BY DEF Copies, Whole, BaseIsWhole, Merged, Landed, version
  <1>2. Init => Settles /\ Copies
    BY InitSettles, InitCopies
  <1>3. ASSUME Steady PROVE Settles /\ Copies /\ [Next]_vars => Settles' /\ Copies'
    BY <1>3, StepSettles, StepCopies
  <1>4. SUFFICES ASSUME Steady PROVE Spec => []BaseIsWhole
    OBVIOUS
  <1>5. Settles /\ Copies /\ [Next]_vars => Settles' /\ Copies'
    BY <1>3, <1>4
  <1> QED BY <1>1, <1>2, <1>5, PTL DEF Spec
=============================================================================
