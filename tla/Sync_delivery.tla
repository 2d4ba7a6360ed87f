--------------------------- MODULE Sync_delivery ---------------------------
(***************************************************************************)
(* Proof that Sync.tla keeps the promise of OpDelivery.tla: each op is     *)
(* decided at most once, in the order they were made, and leaves the       *)
(* outbox only once it was, or a newer one took its place.  That is so of  *)
(* a store that refuses no op, neither unloads itself nor fails a commit,  *)
(* and turns away no hello; and, if live ops are turned away, of an outbox *)
(* that one hello can carry.                                               *)
(*                                                                         *)
(* The heart of it: no op is decided while an earlier one waits that the   *)
(* store is still to hear of.  What is on a socket, then, comes in order,  *)
(* but for what a session that is held passes over.                        *)
(***************************************************************************)
EXTENDS Sync_proofs

-----------------------------------------------------------------------------
(* What is on its way to the store: a queue q, read by a session at s.     *)

Ops(m) == IF m.t = "op" THEN {m.s} ELSE m.ops

HelloBy(q, i) == \E k \in 1 .. i : q[k].t = "hello"

\* A session that is held passes over live ops up to the next hello.
Heeded(q, s, i) == s # "held" \/ HelloBy(q, i)

Brings(q, s, i, r) == \E j \in 1 .. i : Heeded(q, s, j) /\ r \in Ops(q[j])

\* A: the ops that wait; J: those of the hello being handled.  An op that waits is brought
\* no later than any made after it.
InOrder(q, s, A, J) == \A i \in 1 .. Len(q) : \A a \in Ops(q[i]) : \A r \in A :
  Heeded(q, s, i) /\ r < a => r \in J \/ Brings(q, s, i, r)

\* And should a session be held, each hello starts again from all that waits.
Refills(q, A) == \A k, i \in 1 .. Len(q) : \A a \in Ops(q[i]) : \A r \in A :
  k <= i /\ q[k].t = "hello" /\ r < a => \E j \in k .. i : r \in Ops(q[j])

Line(q, s, A, J) == InOrder(q, s, A, J) /\ ("limit" \in Uses => Refills(q, A))

\* P: the ops that wait and that the client thinks sent.  They are on their way, unless the
\* session is held and no hello is.
Comes(q, s, P, J) == \A r \in P :
  r \in J \/ Brings(q, s, Len(q), r) \/ (s = "held" /\ ~HelloBy(q, Len(q)))

Repeats(q, P) == \A r \in P : \A k \in 1 .. Len(q) :
  q[k].t = "hello" => \E j \in k .. Len(q) : r \in Ops(q[j])

Trust(q, s, P, J) == Comes(q, s, P, J) /\ ("limit" \in Uses => Repeats(q, P))

\* Fewer ops wait: what is in line stays so.
LEMMA FewerWait ==
  ASSUME NEW q, NEW s, NEW A, NEW J, NEW B, NEW K, B \subseteq A, J \cap B \subseteq K,
         Line(q, s, A, J)
  PROVE  Line(q, s, B, K)
  <1>1. InOrder(q, s, B, K)
    <2>1. \A r \in B : r \in A /\ (r \in J => r \in K)
      OBVIOUS
    <2> QED BY <2>1 DEF Line, InOrder
  <1>2. "limit" \in Uses => Refills(q, B)
    BY DEF Line, Refills
  <1> QED BY <1>1, <1>2 DEF Line

\* And fewer are thought sent.
LEMMA FewerSent ==
  ASSUME NEW q, NEW s, NEW P, NEW J, NEW R, NEW K, R \subseteq P, J \cap R \subseteq K,
         Trust(q, s, P, J)
  PROVE  Trust(q, s, R, K)
  <1>1. Comes(q, s, R, K)
    <2>1. \A r \in R : r \in P /\ (r \in J => r \in K)
      OBVIOUS
    <2> QED BY <2>1 DEF Trust, Comes
  <1>2. "limit" \in Uses => Repeats(q, R)
    BY DEF Trust, Repeats
  <1> QED BY <1>1, <1>2 DEF Trust

\* A queue with nothing on it is in line.
LEMMA NothingInLine ==
  ASSUME NEW s, NEW A, NEW J
  PROVE  Line(<<>>, s, A, J)
  <1>1. Len(<<>>) = 0 /\ \A i : i \notin 1 .. 0
    OBVIOUS
  <1> QED BY <1>1 DEF Line, InOrder, Refills

\* What is brought by some message is brought by a later one.
LEMMA BroughtBy ==
  ASSUME NEW q, NEW s, NEW i \in Nat, NEW k \in Nat, i <= k, NEW r, Brings(q, s, i, r)
  PROVE  Brings(q, s, k, r)
  <1>1. PICK j \in 1 .. i : Heeded(q, s, j) /\ r \in Ops(q[j])
    BY DEF Brings
  <1>2. j \in 1 .. k
    OBVIOUS
  <1> QED BY <1>1, <1>2 DEF Brings

-----------------------------------------------------------------------------
(* Messages put at the end of the queue.                                   *)

\* The messages before them are what they were.
LEMMA Joined ==
  ASSUME NEW q \in Seq(UpMessage), NEW g \in Seq(UpMessage), NEW s
  PROVE  LET e == q \o g
             l == Len(q) IN
         /\ e \in Seq(UpMessage) /\ Len(e) = l + Len(g) /\ l \in Nat /\ Len(g) \in Nat
         /\ \A i \in 1 .. l : e[i] = q[i] /\ i \in 1 .. Len(e)
         /\ \A i \in 1 .. Len(g) : e[l + i] = g[i] /\ l + i \in 1 .. Len(e)
         /\ \A i \in 1 .. Len(e) : i \in 1 .. l \/ (\E j \in 1 .. Len(g) : i = l + j)
         /\ \A i \in 0 .. l : HelloBy(e, i) <=> HelloBy(q, i)
         /\ \A i \in 0 .. l : Heeded(e, s, i) <=> Heeded(q, s, i)
         /\ \A i \in 0 .. l : \A r : Brings(q, s, i, r) => Brings(e, s, i, r)
  <1> DEFINE e == q \o g
  <1> DEFINE l == Len(q)
  <1>1. /\ e \in Seq(UpMessage) /\ Len(e) = l + Len(g) /\ l \in Nat /\ Len(g) \in Nat
        /\ \A i \in 1 .. l + Len(g) : e[i] = IF i <= l THEN q[i] ELSE g[i - l]
    BY ConcatProperties
  <1> HIDE DEF e, l
  <1>2. \A i \in 1 .. l : e[i] = q[i] /\ i \in 1 .. Len(e)
    BY <1>1
  <1>3. ASSUME NEW i \in 1 .. Len(g)
        PROVE  e[l + i] = g[i] /\ l + i \in 1 .. Len(e)
    <2>1. l + i \in 1 .. l + Len(g) /\ ~(l + i <= l) /\ (l + i) - l = i
      BY <1>1
    <2> QED BY <1>1, <2>1
  <1>4. ASSUME NEW i \in 1 .. Len(e), i \notin 1 .. l
        PROVE  \E j \in 1 .. Len(g) : i = l + j
    <2>1. i - l \in 1 .. Len(g) /\ i = l + (i - l)
      BY <1>1, <1>4
    <2> QED BY <2>1
  <1>5. ASSUME NEW i \in 0 .. l
        PROVE  HelloBy(e, i) <=> HelloBy(q, i)
    <2>1. \A k \in 1 .. i : e[k] = q[k]
      BY <1>1, <1>2
    <2> QED BY <2>1 DEF HelloBy
  <1>6. \A i \in 0 .. l : Heeded(e, s, i) <=> Heeded(q, s, i)
    BY <1>5 DEF Heeded
  <1>7. ASSUME NEW i \in 0 .. l, NEW r, Brings(q, s, i, r)
        PROVE  Brings(e, s, i, r)
    <2>1. PICK j \in 1 .. i : Heeded(q, s, j) /\ r \in Ops(q[j])
      BY <1>7 DEF Brings
    <2>2. j \in 0 .. l /\ j \in 1 .. l
      BY <1>1
    <2> QED BY <1>2, <1>6, <2>1, <2>2 DEF Brings
  <1> QED BY <1>1, <1>2, <1>3, <1>4, <1>5, <1>6, <1>7 DEF e, l

\* What came in line does so with more behind.
LEMMA JoinedLine ==
  ASSUME NEW q \in Seq(UpMessage), NEW g \in Seq(UpMessage), NEW s, NEW A, NEW J,
         InOrder(q, s, A, J)
  PROVE  LET e == q \o g IN
         \A i \in 1 .. Len(q) : \A a \in Ops(e[i]) : \A r \in A :
           Heeded(e, s, i) /\ r < a => r \in J \/ Brings(e, s, i, r)
  <1> DEFINE e == q \o g
  <1> DEFINE l == Len(q)
  <1>1. /\ l \in Nat /\ \A i \in 1 .. l : e[i] = q[i]
        /\ \A i \in 0 .. l : Heeded(e, s, i) <=> Heeded(q, s, i)
        /\ \A i \in 0 .. l : \A r : Brings(q, s, i, r) => Brings(e, s, i, r)
    BY Joined
  <1> HIDE DEF e, l
  <1>2. ASSUME NEW i \in 1 .. l, NEW a \in Ops(e[i]), NEW r \in A, Heeded(e, s, i), r < a
        PROVE  r \in J \/ Brings(e, s, i, r)
    <2>1. i \in 0 .. l /\ e[i] = q[i] /\ Heeded(q, s, i)
      BY <1>1, <1>2
    <2>2. r \in J \/ Brings(q, s, i, r)
      BY <1>2, <2>1 DEF InOrder, l
    <2> QED BY <1>1, <2>1, <2>2
  <1> QED BY <1>2 DEF e, l

\* And starts again as it did.
LEMMA JoinedRefills ==
  ASSUME NEW q \in Seq(UpMessage), NEW g \in Seq(UpMessage), NEW A, Refills(q, A)
  PROVE  LET e == q \o g IN
         \A k, i \in 1 .. Len(q) : \A a \in Ops(e[i]) : \A r \in A :
           k <= i /\ e[k].t = "hello" /\ r < a => \E j \in k .. i : r \in Ops(e[j])
  <1> DEFINE e == q \o g
  <1> DEFINE l == Len(q)
  <1>1. l \in Nat /\ \A i \in 1 .. l : e[i] = q[i]
    BY Joined
  <1> HIDE DEF e, l
  <1>2. ASSUME NEW k \in 1 .. l, NEW i \in 1 .. l, NEW a \in Ops(e[i]), NEW r \in A,
               k <= i, e[k].t = "hello", r < a
        PROVE  \E j \in k .. i : r \in Ops(e[j])
    <2>1. e[i] = q[i] /\ e[k] = q[k]
      BY <1>1
    <2>2. PICK j \in k .. i : r \in Ops(q[j])
      BY <1>2, <2>1 DEF Refills, l
    <2>3. j \in 1 .. l
      BY <1>1
    <2> QED BY <1>1, <2>2, <2>3
  <1> QED BY <1>2 DEF e, l

\* A hello goes out: it brings all that waits and comes before what it carries.
LEMMA JoinedHello ==
  ASSUME NEW q \in Seq(UpMessage), NEW x \in UpMessage, x.t = "hello", NEW s, NEW A, NEW J,
         Line(q, s, A, J), \A a \in x.ops : \A r \in A : r < a => r \in x.ops
  PROVE  Line(q \o <<x>>, s, A, J)
  <1> DEFINE g == <<x>>
  <1> DEFINE e == q \o g
  <1> DEFINE l == Len(q)
  <1>1. g \in Seq(UpMessage) /\ Len(g) = 1 /\ g[1] = x
    OBVIOUS
  <1> HIDE DEF g
  <1>2. /\ Len(e) = l + 1 /\ l \in Nat /\ e[l + 1] = x /\ l + 1 \in 1 .. Len(e)
        /\ \A i \in 1 .. Len(e) : i \in 1 .. l \/ i = l + 1
    <2>1. /\ Len(e) = l + Len(g) /\ l \in Nat
          /\ \A i \in 1 .. Len(g) : e[l + i] = g[i] /\ l + i \in 1 .. Len(e)
      BY <1>1, Joined
    <2> HIDE DEF e, l
    <2>2. Len(e) = l + 1 /\ 1 \in 1 .. Len(g)
      BY <1>1, <2>1
    <2>3. e[l + 1] = x /\ l + 1 \in 1 .. Len(e)
      BY <1>1, <2>1, <2>2
    <2> QED BY <2>1, <2>2, <2>3, Place
  <1>3. Ops(x) = x.ops
    BY DEF Ops
  <1>4. \A i \in 1 .. l : \A a \in Ops(e[i]) : \A r \in A :
          Heeded(e, s, i) /\ r < a => r \in J \/ Brings(e, s, i, r)
    BY <1>1, JoinedLine DEF Line
  <1>5. "limit" \in Uses =>
          \A k, i \in 1 .. l : \A a \in Ops(e[i]) : \A r \in A :
            k <= i /\ e[k].t = "hello" /\ r < a => \E j \in k .. i : r \in Ops(e[j])
    BY <1>1, JoinedRefills DEF Line
  <1> HIDE DEF e, l
  <1>6. InOrder(e, s, A, J)
    <2> SUFFICES ASSUME NEW i \in 1 .. Len(e), NEW a \in Ops(e[i]), NEW r \in A,
                        Heeded(e, s, i), r < a
                 PROVE  r \in J \/ Brings(e, s, i, r)
      BY DEF InOrder
    <2>1. CASE i = l + 1
      <3>1. r \in Ops(e[i])
        BY <1>2, <1>3, <2>1
      <3>2. i \in 1 .. i
        BY <1>2, <2>1
      <3> QED BY <3>1, <3>2 DEF Brings
    <2>2. CASE i \in 1 .. l
      BY <1>4, <2>2
    <2> QED BY <1>2, <2>1, <2>2
  <1>7. ASSUME "limit" \in Uses
        PROVE  Refills(e, A)
    <2> SUFFICES ASSUME NEW k \in 1 .. Len(e), NEW i \in 1 .. Len(e), NEW a \in Ops(e[i]), NEW r \in A,
                        k <= i, e[k].t = "hello", r < a
                 PROVE  \E j \in k .. i : r \in Ops(e[j])
      BY DEF Refills
    <2>1. CASE i = l + 1
      <3>1. r \in Ops(e[i])
        BY <1>2, <1>3, <2>1
      <3>2. i \in k .. i
        BY <1>2, <2>1
      <3> QED BY <3>1, <3>2
    <2>2. CASE i \in 1 .. l
      <3>1. k \in 1 .. l
        BY <1>2, <2>2
      <3> QED BY <1>5, <1>7, <2>2, <3>1
    <2> QED BY <1>2, <2>1, <2>2
  <1> QED BY <1>6, <1>7 DEF Line, e, g

\* What the client thinks sent once it said hello: what the hello carries and, on a session
\* that is not held, what it thought so before.
LEMMA JoinedHelloTrust ==
  ASSUME NEW q \in Seq(UpMessage), NEW x \in UpMessage, x.t = "hello", NEW s, NEW P, NEW J, NEW R,
         Trust(q, s, P, J), \A r \in R : r \in x.ops \/ (r \in P /\ s # "held"),
         "limit" \in Uses => R \subseteq x.ops
  PROVE  Trust(q \o <<x>>, s, R, J)
  <1> DEFINE g == <<x>>
  <1> DEFINE e == q \o g
  <1> DEFINE l == Len(q)
  <1>1. g \in Seq(UpMessage) /\ Len(g) = 1 /\ g[1] = x
    OBVIOUS
  <1> HIDE DEF g
  <1>2. /\ Len(e) = l + 1 /\ l \in Nat /\ e[l + 1] = x /\ l + 1 \in 1 .. Len(e)
        /\ \A i \in 0 .. l : \A r : Brings(q, s, i, r) => Brings(e, s, i, r)
    <2>1. /\ Len(e) = l + Len(g) /\ l \in Nat
          /\ \A i \in 1 .. Len(g) : e[l + i] = g[i] /\ l + i \in 1 .. Len(e)
          /\ \A i \in 0 .. l : \A r : Brings(q, s, i, r) => Brings(e, s, i, r)
      BY <1>1, Joined
    <2> HIDE DEF e, l
    <2>2. Len(e) = l + 1 /\ 1 \in 1 .. Len(g)
      BY <1>1, <2>1
    <2> QED BY <1>1, <2>1, <2>2
  <1>3. Ops(x) = x.ops
    BY DEF Ops
  <1>4. Comes(q, s, P, J)
    BY DEF Trust
  <1> HIDE DEF e
  <1>5. HelloBy(e, l + 1)
    BY <1>2 DEF HelloBy
  <1>6. Comes(e, s, R, J)
    <2> SUFFICES ASSUME NEW r \in R PROVE r \in J \/ Brings(e, s, Len(e), r)
      BY DEF Comes
    <2>1. CASE r \in x.ops
      BY <1>2, <1>3, <1>5, <2>1 DEF Brings, Heeded
    <2>2. CASE r \in P /\ s # "held"
      <3>1. r \in J \/ Brings(q, s, l, r)
        BY <1>4, <2>2 DEF Comes, l
      <3>2. l \in 0 .. l /\ l <= l + 1 /\ l + 1 \in Nat
        BY <1>2
      <3>3. Brings(q, s, l, r) => Brings(e, s, l, r)
        BY <1>2, <3>2
      <3> HIDE DEF l
      <3>4. Brings(e, s, l, r) => Brings(e, s, l + 1, r)
        BY <1>2, <3>2, BroughtBy
      <3> QED BY <1>2, <3>1, <3>3, <3>4
    <2> QED BY <2>1, <2>2
  <1>7. ASSUME "limit" \in Uses
        PROVE  Repeats(e, R)
    <2> SUFFICES ASSUME NEW r \in R, NEW k \in 1 .. Len(e)
                 PROVE  \E j \in k .. Len(e) : r \in Ops(e[j])
      BY DEF Repeats
    <2>1. r \in Ops(e[l + 1]) /\ l + 1 \in k .. Len(e)
      BY <1>2, <1>3, <1>7
    <2> QED BY <2>1
  <1> QED BY <1>6, <1>7 DEF Trust, e, g

\* Ops go out live, each after those that wait before it, or that the client thinks sent.
LEMMA JoinedOps ==
  ASSUME NEW q \in Seq(UpMessage), NEW g \in Seq(UpMessage), NEW s, NEW A, NEW J, NEW P, NEW R,
         Line(q, s, A, J), Trust(q, s, P, J),
         \A i \in 1 .. Len(g) : g[i].t = "op",
         \A i \in 1 .. Len(g) : \A r \in A :
           r < g[i].s => r \in P \/ \E j \in 1 .. i : g[j].s = r,
         \A r \in R : r \in P \/ \E j \in 1 .. Len(g) : g[j].s = r
  PROVE  Line(q \o g, s, A, J) /\ Trust(q \o g, s, R, J)
  <1> DEFINE e == q \o g
  <1> DEFINE l == Len(q)
  <1>1. /\ Len(e) = l + Len(g) /\ l \in Nat /\ Len(g) \in Nat
        /\ \A i \in 1 .. l : e[i] = q[i] /\ i \in 1 .. Len(e)
        /\ \A i \in 1 .. Len(g) : e[l + i] = g[i] /\ l + i \in 1 .. Len(e)
        /\ \A i \in 1 .. Len(e) : i \in 1 .. l \/ (\E j \in 1 .. Len(g) : i = l + j)
        /\ \A i \in 0 .. l : HelloBy(e, i) <=> HelloBy(q, i)
        /\ \A i \in 0 .. l : \A r : Brings(q, s, i, r) => Brings(e, s, i, r)
    BY Joined
  <1>2. \A i \in 1 .. l : \A a \in Ops(e[i]) : \A r \in A :
          Heeded(e, s, i) /\ r < a => r \in J \/ Brings(e, s, i, r)
    BY JoinedLine DEF Line
  <1>3. "limit" \in Uses =>
          \A k, i \in 1 .. l : \A a \in Ops(e[i]) : \A r \in A :
            k <= i /\ e[k].t = "hello" /\ r < a => \E j \in k .. i : r \in Ops(e[j])
    BY JoinedRefills DEF Line
  <1>4. /\ \A r \in P : r \in J \/ Brings(q, s, l, r) \/ (s = "held" /\ ~HelloBy(q, l))
        /\ "limit" \in Uses => \A r \in P : \A k \in 1 .. l :
             q[k].t = "hello" => \E j \in k .. l : r \in Ops(q[j])
    BY DEF Trust, Comes, Repeats
  <1> HIDE DEF e, l
  <1>5. \A i \in 1 .. Len(g) : Ops(e[l + i]) = {g[i].s} /\ e[l + i].t = "op"
    BY <1>1 DEF Ops
  <1>6. ASSUME NEW i \in 0 .. Len(g)
        PROVE  HelloBy(e, l + i) <=> HelloBy(q, l)
    <2>1. l \in 0 .. l /\ l + i \in Nat
      BY <1>1
    <2>2. HelloBy(e, l) <=> HelloBy(q, l)
      BY <1>1, <2>1
    <2>3. HelloBy(e, l) => HelloBy(e, l + i)
      <3>1. \A k \in 1 .. l : k \in 1 .. l + i
        BY <1>1
      <3> QED BY <3>1 DEF HelloBy
    <2>4. HelloBy(e, l + i) => HelloBy(e, l)
      <3>1. \A k \in 1 .. l + i : k \in 1 .. Len(e)
        BY <1>1
      <3>2. \A k \in 1 .. l + i : e[k].t = "hello" => k \in 1 .. l
        BY <1>1, <1>5, <3>1
      <3> QED BY <3>2 DEF HelloBy
    <2> QED BY <2>2, <2>3, <2>4
  <1>7. \A i \in 0 .. Len(g) : Heeded(e, s, l + i) <=> s # "held" \/ HelloBy(q, l)
    BY <1>6 DEF Heeded
  <1>8. ASSUME NEW i \in 0 .. Len(g), NEW r, Brings(q, s, l, r)
        PROVE  Brings(e, s, l + i, r)
    <2>1. l \in 0 .. l /\ l <= l + i /\ l + i \in Nat
      BY <1>1
    <2>2. Brings(e, s, l, r)
      BY <1>1, <1>8, <2>1
    <2> QED BY <1>1, <2>1, <2>2, BroughtBy
  <1>9. ASSUME NEW i \in 0 .. Len(g), NEW j \in 1 .. Len(g), j <= i, s # "held" \/ HelloBy(q, l)
        PROVE  Brings(e, s, l + i, g[j].s)
    <2>1. Heeded(e, s, l + j) /\ g[j].s \in Ops(e[l + j])
      <3>1. j \in 0 .. Len(g)
        BY <1>1
      <3> QED BY <1>5, <1>7, <1>9, <3>1
    <2>2. l + j \in 1 .. l + i
      BY <1>1, <1>9
    <2> QED BY <2>1, <2>2 DEF Brings
  <1>10. InOrder(e, s, A, J)
    <2> SUFFICES ASSUME NEW i \in 1 .. Len(e), NEW a \in Ops(e[i]), NEW r \in A,
                        Heeded(e, s, i), r < a
                 PROVE  r \in J \/ Brings(e, s, i, r)
      BY DEF InOrder
    <2>1. CASE i \in 1 .. l
      BY <1>2, <2>1
    <2>2. ASSUME NEW n \in 1 .. Len(g), i = l + n
          PROVE  r \in J \/ Brings(e, s, i, r)
      <3>1. a = g[n].s /\ n \in 0 .. Len(g)
        <4>1. Ops(e[l + n]) = {g[n].s}
          BY <1>5
        <4>2. Ops(e[i]) = {g[n].s}
          BY <2>2, <4>1
        <4> QED BY <1>1, <4>2
      <3>2. s # "held" \/ HelloBy(q, l)
        BY <1>7, <2>2, <3>1
      <3>3. CASE r \in P
        BY <1>4, <1>8, <2>2, <3>1, <3>2, <3>3
      <3>4. ASSUME NEW j \in 1 .. n, g[j].s = r
            PROVE  Brings(e, s, i, r)
        <4>1. j \in 1 .. Len(g) /\ j <= n
          BY <1>1
        <4> QED BY <1>9, <2>2, <3>1, <3>2, <3>4, <4>1
      <3>5. r \in P \/ \E j \in 1 .. n : g[j].s = r
        BY <3>1
      <3> QED BY <3>3, <3>4, <3>5
    <2> QED BY <1>1, <2>1, <2>2
  <1>11. ASSUME "limit" \in Uses
         PROVE  Refills(e, A)
    <2> SUFFICES ASSUME NEW k \in 1 .. Len(e), NEW i \in 1 .. Len(e), NEW a \in Ops(e[i]), NEW r \in A,
                        k <= i, e[k].t = "hello", r < a
                 PROVE  \E j \in k .. i : r \in Ops(e[j])
      BY DEF Refills
    <2>1. k \in 1 .. l
      BY <1>1, <1>5
    <2>2. CASE i \in 1 .. l
      BY <1>3, <1>11, <2>1, <2>2
    <2>3. ASSUME NEW n \in 1 .. Len(g), i = l + n
          PROVE  \E j \in k .. i : r \in Ops(e[j])
      <3>1. a = g[n].s
        <4>1. Ops(e[l + n]) = {g[n].s}
          BY <1>5
        <4>2. Ops(e[i]) = {g[n].s}
          BY <2>3, <4>1
        <4> QED BY <4>2
      <3>2. CASE r \in P
        <4>1. q[k].t = "hello"
          BY <1>1, <2>1
        <4>2. PICK j \in k .. l : r \in Ops(q[j])
          BY <1>4, <1>11, <2>1, <3>2, <4>1
        <4>3. j \in 1 .. l /\ j \in k .. i
          BY <1>1, <2>1, <2>3
        <4> QED BY <1>1, <4>2, <4>3
      <3>3. ASSUME NEW j \in 1 .. n, g[j].s = r
            PROVE  \E p \in k .. i : r \in Ops(e[p])
        <4>1. j \in 1 .. Len(g) /\ l + j \in k .. i
          BY <1>1, <2>1, <2>3
        <4> QED BY <1>5, <3>3, <4>1
      <3>4. r \in P \/ \E j \in 1 .. n : g[j].s = r
        BY <3>1
      <3> QED BY <3>2, <3>3, <3>4
    <2> QED BY <1>1, <2>2, <2>3
  <1>12. Comes(e, s, R, J)
    <2> SUFFICES ASSUME NEW r \in R
                 PROVE  r \in J \/ Brings(e, s, Len(e), r) \/ (s = "held" /\ ~HelloBy(e, Len(e)))
      BY DEF Comes
    <2>1. Len(g) \in 0 .. Len(g) /\ Len(e) = l + Len(g)
      BY <1>1
    <2>2. HelloBy(e, Len(e)) <=> HelloBy(q, l)
      BY <1>6, <2>1
    <2>3. CASE r \in P
      BY <1>4, <1>8, <2>1, <2>2, <2>3
    <2>4. ASSUME NEW j \in 1 .. Len(g), g[j].s = r, s # "held" \/ HelloBy(q, l)
          PROVE  Brings(e, s, Len(e), r)
      <3>1. j <= Len(g)
        BY <1>1
      <3> QED BY <1>9, <2>1, <2>4, <3>1
    <2> QED BY <2>2, <2>3, <2>4
  <1>13. ASSUME "limit" \in Uses
         PROVE  Repeats(e, R)
    <2> SUFFICES ASSUME NEW r \in R, NEW k \in 1 .. Len(e), e[k].t = "hello"
                 PROVE  \E j \in k .. Len(e) : r \in Ops(e[j])
      BY DEF Repeats
    <2>1. k \in 1 .. l
      BY <1>1, <1>5
    <2>2. CASE r \in P
      <3>1. q[k].t = "hello"
        BY <1>1, <2>1
      <3>2. PICK j \in k .. l : r \in Ops(q[j])
        BY <1>4, <1>13, <2>1, <2>2, <3>1
      <3>3. j \in 1 .. l /\ j \in k .. Len(e)
        BY <1>1, <2>1
      <3> QED BY <1>1, <3>2, <3>3
    <2>3. ASSUME NEW j \in 1 .. Len(g), g[j].s = r
          PROVE  \E p \in k .. Len(e) : r \in Ops(e[p])
      <3>1. l + j \in k .. Len(e)
        BY <1>1, <2>1
      <3> QED BY <1>5, <2>3, <3>1
    <2> QED BY <2>2, <2>3
  <1> QED BY <1>10, <1>11, <1>12, <1>13 DEF Line, Trust, e

-----------------------------------------------------------------------------
(* The store reads the first message of the queue.                         *)

\* The messages behind it are what they were, and start again as they did.
LEMMA Behind ==
  ASSUME NEW q \in Seq(UpMessage), q # <<>>
  PROVE  LET e == Tail(q) IN
         /\ e \in Seq(UpMessage) /\ Len(e) \in Nat /\ Len(q) = Len(e) + 1
         /\ \A i \in 1 .. Len(e) : e[i] = q[i + 1] /\ i + 1 \in 1 .. Len(q) /\ i \in Nat
         /\ \A i \in 1 .. Len(q) : i = 1 \/ (i - 1 \in 1 .. Len(e) /\ e[i - 1] = q[i])
         /\ 1 \in 1 .. Len(q) /\ Head(q) = q[1]
  <1> DEFINE e == Tail(q)
  <1>1. /\ e \in Seq(UpMessage) /\ Len(e) = Len(q) - 1 /\ Len(q) \in Nat /\ Len(q) # 0
        /\ \A i \in 1 .. Len(e) : e[i] = q[i + 1]
        /\ Head(q) = q[1]
    BY HeadTailProperties, EmptySeq
  <1> HIDE DEF e
  <1>2. \A i \in 1 .. Len(e) : i + 1 \in 1 .. Len(q) /\ i \in Nat
    BY <1>1
  <1>3. ASSUME NEW i \in 1 .. Len(q), i # 1
        PROVE  i - 1 \in 1 .. Len(e) /\ e[i - 1] = q[i]
    <2>1. i - 1 \in 1 .. Len(e) /\ (i - 1) + 1 = i
      BY <1>1, <1>3
    <2> QED BY <1>1, <2>1
  <1>4. Len(e) \in Nat /\ Len(q) = Len(e) + 1 /\ 1 \in 1 .. Len(q)
    BY <1>1
  <1> QED BY <1>1, <1>2, <1>3, <1>4 DEF e

\* Each hello behind starts again from all that waits.
LEMMA RefillsBehind ==
  ASSUME NEW q \in Seq(UpMessage), q # <<>>, NEW A, Refills(q, A)
  PROVE  Refills(Tail(q), A)
  <1> DEFINE e == Tail(q)
  <1>1. /\ Len(q) = Len(e) + 1 /\ Len(e) \in Nat
        /\ \A i \in 1 .. Len(e) : e[i] = q[i + 1] /\ i + 1 \in 1 .. Len(q) /\ i \in Nat
        /\ \A i \in 1 .. Len(q) : i = 1 \/ (i - 1 \in 1 .. Len(e) /\ e[i - 1] = q[i])
    BY Behind
  <1> HIDE DEF e
  <1> SUFFICES ASSUME NEW k \in 1 .. Len(e), NEW i \in 1 .. Len(e), NEW a \in Ops(e[i]), NEW r \in A,
                      k <= i, e[k].t = "hello", r < a
               PROVE  \E j \in k .. i : r \in Ops(e[j])
    BY DEF Refills, e
  <1>2. /\ q[k + 1].t = "hello" /\ a \in Ops(q[i + 1]) /\ k + 1 \in 1 .. Len(q) /\ i + 1 \in 1 .. Len(q)
        /\ k + 1 <= i + 1
    BY <1>1
  <1>3. PICK j \in k + 1 .. i + 1 : r \in Ops(q[j])
    BY <1>2 DEF Refills
  <1>4. j \in 1 .. Len(q) /\ j # 1 /\ j - 1 \in k .. i
    BY <1>1, <1>2
  <1> QED BY <1>1, <1>3, <1>4

\* And brings all the client thinks sent.
LEMMA RepeatsBehind ==
  ASSUME NEW q \in Seq(UpMessage), q # <<>>, NEW P, Repeats(q, P)
  PROVE  Repeats(Tail(q), P)
  <1> DEFINE e == Tail(q)
  <1>1. /\ Len(q) = Len(e) + 1 /\ Len(e) \in Nat
        /\ \A i \in 1 .. Len(e) : e[i] = q[i + 1] /\ i + 1 \in 1 .. Len(q) /\ i \in Nat
        /\ \A i \in 1 .. Len(q) : i = 1 \/ (i - 1 \in 1 .. Len(e) /\ e[i - 1] = q[i])
    BY Behind
  <1> HIDE DEF e
  <1> SUFFICES ASSUME NEW r \in P, NEW k \in 1 .. Len(e), e[k].t = "hello"
               PROVE  \E j \in k .. Len(e) : r \in Ops(e[j])
    BY DEF Repeats, e
  <1>2. q[k + 1].t = "hello" /\ k + 1 \in 1 .. Len(q)
    BY <1>1
  <1>3. PICK j \in k + 1 .. Len(q) : r \in Ops(q[j])
    BY <1>2 DEF Repeats
  <1>4. j \in 1 .. Len(q) /\ j # 1 /\ j - 1 \in k .. Len(e)
    BY <1>1, <1>2
  <1> QED BY <1>1, <1>3, <1>4

\* A session not held is brought what it was, the first message aside.
LEMMA BroughtBehind ==
  ASSUME NEW q \in Seq(UpMessage), q # <<>>, NEW s, NEW z, z # "held", NEW i \in 0 .. Len(Tail(q)),
         NEW r, Brings(q, s, i + 1, r), r \notin Ops(q[1])
  PROVE  Brings(Tail(q), z, i, r)
  <1> DEFINE e == Tail(q)
  <1>1. /\ Len(q) = Len(e) + 1 /\ Len(e) \in Nat
        /\ \A n \in 1 .. Len(q) : n = 1 \/ (n - 1 \in 1 .. Len(e) /\ e[n - 1] = q[n])
    BY Behind
  <1> HIDE DEF e
  <1>2. PICK j \in 1 .. i + 1 : r \in Ops(q[j])
    BY DEF Brings
  <1>3. j # 1 /\ j \in 1 .. Len(q) /\ j - 1 \in 1 .. i
    <2>1. i \in 0 .. Len(e)
      BY DEF e
    <2> QED BY <1>1, <1>2, <2>1
  <1>4. r \in Ops(e[j - 1])
    BY <1>1, <1>2, <1>3
  <1> QED BY <1>3, <1>4 DEF Brings, Heeded, e

\* A live op, decided: what is behind comes to a session still open.
LEMMA BehindDecided ==
  ASSUME NEW q \in Seq(UpMessage), q # <<>>, NEW s, s # "held", NEW z, z # "held",
         NEW A, NEW J, NEW P, P \subseteq A, \A r \in A : r \notin Ops(q[1]),
         Line(q, s, A, J), Trust(q, s, P, J)
  PROVE  Line(Tail(q), z, A, J) /\ Trust(Tail(q), z, P, J)
  <1> DEFINE e == Tail(q)
  <1>1. /\ Len(q) = Len(e) + 1 /\ Len(e) \in Nat
        /\ \A i \in 1 .. Len(e) : e[i] = q[i + 1] /\ i + 1 \in 1 .. Len(q) /\ i \in 0 .. Len(e)
    BY Behind
  <1>2. \A i \in 0 .. Len(e) : \A r \in A : Brings(q, s, i + 1, r) => Brings(e, z, i, r)
    BY BroughtBehind
  <1> HIDE DEF e
  <1>3. ASSUME NEW i \in 1 .. Len(e), NEW a \in Ops(e[i]), NEW r \in A, r < a
        PROVE  r \in J \/ Brings(e, z, i, r)
    <2>1. a \in Ops(q[i + 1]) /\ i + 1 \in 1 .. Len(q) /\ i \in 0 .. Len(e)
      BY <1>1
    <2>2. r \in J \/ Brings(q, s, i + 1, r)
      BY <1>3, <2>1 DEF Line, InOrder, Heeded
    <2> QED BY <1>2, <2>1, <2>2
  <1>4. ASSUME NEW r \in P
        PROVE  r \in J \/ Brings(e, z, Len(e), r)
    <2>1. r \in J \/ Brings(q, s, Len(q), r)
      BY DEF Trust, Comes
    <2>2. r \in A /\ Len(e) \in 0 .. Len(e)
      BY <1>1
    <2> QED BY <1>1, <1>2, <2>1, <2>2
  <1>5. "limit" \in Uses => Refills(e, A) /\ Repeats(e, P)
    BY RefillsBehind, RepeatsBehind DEF Line, Trust, e
  <1> QED BY <1>3, <1>4, <1>5 DEF Line, InOrder, Trust, Comes, e

\* A hello, begun: its ops are the job's.
LEMMA BehindHello ==
  ASSUME NEW q \in Seq(UpMessage), q # <<>>, q[1].t = "hello", NEW s, NEW z, z # "held",
         NEW A, NEW P, P \subseteq A, Line(q, s, A, {}), Trust(q, s, P, {})
  PROVE  /\ Line(Tail(q), z, A, q[1].ops) /\ Trust(Tail(q), z, P, q[1].ops)
         /\ \A a \in q[1].ops : \A r \in A : r < a => r \in q[1].ops
  <1> DEFINE e == Tail(q)
  <1> DEFINE K == q[1].ops
  <1>1. /\ Len(q) = Len(e) + 1 /\ Len(e) \in Nat /\ 1 \in 1 .. Len(q)
        /\ \A i \in 1 .. Len(e) : e[i] = q[i + 1] /\ i + 1 \in 1 .. Len(q) /\ i \in 0 .. Len(e)
    BY Behind
  <1>2. Ops(q[1]) = K
    BY DEF Ops
  <1>3. \A i \in 0 .. Len(e) : \A r : Brings(q, s, i + 1, r) => r \in K \/ Brings(e, z, i, r)
    BY <1>2, BroughtBehind
  <1> HIDE DEF e, K
  <1>4. \A i \in 1 .. Len(q) : HelloBy(q, i)
    BY <1>1 DEF HelloBy
  <1>5. ASSUME NEW i \in 1 .. Len(e), NEW a \in Ops(e[i]), NEW r \in A, r < a
        PROVE  r \in K \/ Brings(e, z, i, r)
    <2>1. a \in Ops(q[i + 1]) /\ i + 1 \in 1 .. Len(q) /\ i \in 0 .. Len(e)
      BY <1>1
    <2>2. Brings(q, s, i + 1, r)
      BY <1>4, <1>5, <2>1 DEF Line, InOrder, Heeded
    <2> QED BY <1>3, <2>1, <2>2
  <1>6. ASSUME NEW r \in P
        PROVE  r \in K \/ Brings(e, z, Len(e), r)
    <2>1. Brings(q, s, Len(q), r)
      <3>1. Len(q) \in 1 .. Len(q)
        BY <1>1
      <3> QED BY <1>4, <3>1 DEF Trust, Comes
    <2>2. Len(e) \in 0 .. Len(e)
      BY <1>1
    <2> QED BY <1>1, <1>3, <2>1, <2>2
  <1>7. ASSUME NEW a \in K, NEW r \in A, r < a
        PROVE  r \in K
    <2>1. Brings(q, s, 1, r)
      BY <1>1, <1>2, <1>4, <1>7 DEF Line, InOrder, Heeded
    <2>2. \A j \in 1 .. 1 : j = 1
      OBVIOUS
    <2> QED BY <1>2, <2>1, <2>2 DEF Brings
  <1>8. "limit" \in Uses => Refills(e, A) /\ Repeats(e, P)
    BY RefillsBehind, RepeatsBehind DEF Line, Trust, e
  <1>9. Line(e, z, A, K) /\ Trust(e, z, P, K)
    BY <1>5, <1>6, <1>8 DEF Line, InOrder, Trust, Comes
  <1> QED BY <1>7, <1>9 DEF e, K

\* A live op, passed over by a session that is held.
LEMMA BehindHeld ==
  ASSUME NEW q \in Seq(UpMessage), q # <<>>, q[1].t = "op", NEW s, s = "held",
         NEW A, NEW J, NEW P, Line(q, s, A, J), Trust(q, s, P, J)
  PROVE  Line(Tail(q), s, A, J) /\ Trust(Tail(q), s, P, J)
  <1> DEFINE e == Tail(q)
  <1>1. /\ Len(q) = Len(e) + 1 /\ Len(e) \in Nat
        /\ \A i \in 1 .. Len(e) : e[i] = q[i + 1] /\ i + 1 \in 1 .. Len(q) /\ i \in 0 .. Len(e)
        /\ \A i \in 1 .. Len(q) : i = 1 \/ (i - 1 \in 1 .. Len(e) /\ e[i - 1] = q[i])
    BY Behind
  <1> HIDE DEF e
  <1>2. ASSUME NEW i \in 0 .. Len(e)
        PROVE  HelloBy(e, i) <=> HelloBy(q, i + 1)
    <2>1. ASSUME NEW k \in 1 .. i, e[k].t = "hello"
          PROVE  HelloBy(q, i + 1)
      <3>1. k \in 1 .. Len(e) /\ k + 1 \in 1 .. i + 1
        BY <1>1
      <3>2. q[k + 1].t = "hello"
        BY <1>1, <2>1, <3>1
      <3> QED BY <3>1, <3>2 DEF HelloBy
    <2>2. ASSUME NEW k \in 1 .. i + 1, q[k].t = "hello"
          PROVE  HelloBy(e, i)
      <3>1. k # 1
        BY <2>2
      <3>2. k \in 1 .. Len(q) /\ k - 1 \in 1 .. i
        BY <1>1, <3>1
      <3>3. e[k - 1].t = "hello"
        BY <1>1, <2>2, <3>1, <3>2
      <3> QED BY <3>2, <3>3 DEF HelloBy
    <2> QED BY <2>1, <2>2 DEF HelloBy
  <1>3. ASSUME NEW i \in 0 .. Len(e), NEW r, Brings(q, s, i + 1, r)
        PROVE  Brings(e, s, i, r)
    <2>1. PICK j \in 1 .. i + 1 : HelloBy(q, j) /\ r \in Ops(q[j])
      BY <1>3 DEF Brings, Heeded
    <2>2. j # 1
      <3>1. ~HelloBy(q, 1)
        <4>1. \A k \in 1 .. 1 : k = 1
          OBVIOUS
        <4> QED BY <4>1 DEF HelloBy
      <3> QED BY <2>1, <3>1
    <2>3. j \in 1 .. Len(q) /\ j - 1 \in 1 .. i /\ j - 1 \in 0 .. Len(e) /\ (j - 1) + 1 = j
      BY <1>1, <2>2
    <2>4. HelloBy(e, j - 1) /\ r \in Ops(e[j - 1])
      <3>1. e[j - 1] = q[j]
        BY <1>1, <2>2, <2>3
      <3>2. HelloBy(e, j - 1) <=> HelloBy(q, (j - 1) + 1)
        BY <1>2, <2>3
      <3> QED BY <2>1, <2>3, <3>1, <3>2
    <2> QED BY <2>3, <2>4 DEF Brings, Heeded
  <1>4. ASSUME NEW i \in 1 .. Len(e), NEW a \in Ops(e[i]), NEW r \in A, r < a, Heeded(e, s, i)
        PROVE  r \in J \/ Brings(e, s, i, r)
    <2>1. a \in Ops(q[i + 1]) /\ i + 1 \in 1 .. Len(q) /\ i \in 0 .. Len(e)
      BY <1>1
    <2>2. Heeded(q, s, i + 1)
      BY <1>2, <1>4, <2>1 DEF Heeded
    <2>3. r \in J \/ Brings(q, s, i + 1, r)
      BY <1>4, <2>1, <2>2 DEF Line, InOrder
    <2> QED BY <1>3, <2>1, <2>3
  <1>5. ASSUME NEW r \in P
        PROVE  r \in J \/ Brings(e, s, Len(e), r) \/ ~HelloBy(e, Len(e))
    <2>1. r \in J \/ Brings(q, s, Len(q), r) \/ ~HelloBy(q, Len(q))
      BY DEF Trust, Comes
    <2>2. Len(e) \in 0 .. Len(e) /\ Len(q) = Len(e) + 1
      BY <1>1
    <2> QED BY <1>2, <1>3, <2>1, <2>2
  <1>6. "limit" \in Uses => Refills(e, A) /\ Repeats(e, P)
    BY RefillsBehind, RepeatsBehind DEF Line, Trust, e
  <1> QED BY <1>4, <1>5, <1>6 DEF Line, InOrder, Trust, Comes, e

\* A live op, turned away: from now on the session passes over live ops.
LEMMA BehindTurnedAway ==
  ASSUME NEW q \in Seq(UpMessage), q # <<>>, "limit" \in Uses, NEW s, NEW z, z = "held",
         NEW A, NEW J, NEW P, Line(q, s, A, J), Trust(q, s, P, J)
  PROVE  Line(Tail(q), z, A, J) /\ Trust(Tail(q), z, P, J)
  <1> DEFINE e == Tail(q)
  <1>1. Refills(e, A) /\ Repeats(e, P) /\ Len(e) \in Nat
    BY RefillsBehind, RepeatsBehind, Behind DEF Line, Trust
  <1> HIDE DEF e
  <1>2. ASSUME NEW i \in 1 .. Len(e), NEW a \in Ops(e[i]), NEW r \in A, r < a, HelloBy(e, i)
        PROVE  Brings(e, z, i, r)
    <2>1. PICK k \in 1 .. i : e[k].t = "hello"
      BY <1>2 DEF HelloBy
    <2>2. k \in 1 .. Len(e) /\ k <= i
      BY <1>1
    <2>3. PICK j \in k .. i : r \in Ops(e[j])
      BY <1>1, <1>2, <2>1, <2>2 DEF Refills
    <2>4. j \in 1 .. i /\ k \in 1 .. j
      BY <2>2
    <2> QED BY <2>1, <2>3, <2>4 DEF Brings, Heeded, HelloBy
  <1>3. ASSUME NEW r \in P, HelloBy(e, Len(e))
        PROVE  Brings(e, z, Len(e), r)
    <2>1. PICK k \in 1 .. Len(e) : e[k].t = "hello"
      BY <1>3 DEF HelloBy
    <2>2. PICK j \in k .. Len(e) : r \in Ops(e[j])
      BY <1>1, <2>1 DEF Repeats
    <2>3. j \in 1 .. Len(e) /\ k \in 1 .. j
      BY <1>1
    <2> QED BY <2>1, <2>2, <2>3 DEF Brings, Heeded, HelloBy
  <1> QED BY <1>1, <1>2, <1>3 DEF Line, InOrder, Heeded, Trust, Comes, e

-----------------------------------------------------------------------------
(* What the client sends.                                                  *)

\* An op is a number.
LEMMA OpsCount == \A t \in OpNumbers : t \in Nat /\ t # 0
  BY SyncAssumption DEF OpNumbers

\* A hello's ops come before any it leaves out.
LEMMA LowestFirst ==
  ASSUME NEW S, S \subseteq OpNumbers, NEW n \in Nat, NEW a \in Lowest(S, n), NEW r \in S, r < a
  PROVE  r \in Lowest(S, n)
  <1> DEFINE R == {t \in S : t < r}
  <1> DEFINE T == {t \in S : t < a}
  <1>1. T \subseteq OpNumbers /\ R \subseteq OpNumbers
    OBVIOUS
  <1>2. R \subseteq T
    <2>1. a \in S
      BY DEF Lowest
    <2>2. a \in Nat /\ r \in Nat /\ \A t \in S : t \in Nat
      BY <2>1, OpsCount
    <2>3. \A t \in S : t < r => t < a
      BY <2>2
    <2> QED BY <2>3
  <1>3. Cardinality(T) < n
    BY DEF Lowest
  <1> HIDE DEF R, T
  <1>4. IsFiniteSet(T) /\ Cardinality(T) \in Nat /\ Cardinality(R) \in Nat
    BY <1>1, OpsFinite
  <1>5. Cardinality(R) <= Cardinality(T)
    BY <1>2, <1>4, FS_Subset
  <1>6. Cardinality(R) < n
    BY <1>3, <1>4, <1>5
  <1> QED BY <1>6 DEF Lowest, R

\* A hello that may carry as many as there can be carries them all.
LEMMA LowestAll ==
  ASSUME NEW S, S \subseteq OpNumbers, NEW n \in Nat, MaxOps <= n
  PROVE  Lowest(S, n) = S
  <1> SUFFICES ASSUME NEW a \in S PROVE a \in Lowest(S, n)
    BY DEF Lowest
  <1> DEFINE T == {t \in S : t < a}
  <1>1. a \in OpNumbers /\ a \in Nat /\ ~(a < a)
    BY OpsCount
  <1>2. T \subseteq OpNumbers /\ a \notin T
    BY <1>1
  <1> HIDE DEF T
  <1>3. IsFiniteSet(OpNumbers) /\ Cardinality(OpNumbers) = MaxOps
    BY FS_Interval, SyncAssumption DEF OpNumbers
  <1>4. Cardinality(T) <= MaxOps /\ Cardinality(T) # MaxOps /\ Cardinality(T) \in Nat
    BY <1>1, <1>2, <1>3, FS_Subset, OpsFinite
  <1>5. Cardinality(T) < n
    BY <1>4, SyncAssumption
  <1> QED BY <1>5 DEF Lowest, T

\* Ops that go live one by one are all of them, in order.
LEMMA SentLive ==
  ASSUME NEW S, S \subseteq OpNumbers, UpwardLive(S)
  PROVE  \E g \in Seq(UpMessage) :
           /\ Upward(g)
           /\ \A i \in 1 .. Len(g) : g[i].t = "op" /\ g[i].s \in S
           /\ \A r \in S : \E i \in 1 .. Len(g) : g[i].s = r
           /\ \A i \in 1 .. Len(g) : \A r \in S : r < g[i].s => \E j \in 1 .. i : g[j].s = r
  <1> DEFINE n == Cardinality(S)
  <1>1. PICK f \in [1 .. n -> S] :
          /\ \A i, j \in DOMAIN f : i < j => f[i] < f[j]
          /\ Upward([i \in DOMAIN f |-> [t |-> "op", s |-> f[i]]])
    BY DEF UpwardLive
  <1> DEFINE g == [i \in DOMAIN f |-> [t |-> "op", s |-> f[i]]]
  <1>2. n \in Nat /\ IsFiniteSet(S)
    BY OpsFinite
  <1>3. ASSUME NEW i \in 1 .. n
        PROVE  [t |-> "op", s |-> f[i]] \in UpMessage
    BY <1>3 DEF UpMessage
  <1>4. g \in Seq(UpMessage) /\ Len(g) = n /\ \A i \in 1 .. n : g[i].t = "op" /\ g[i].s = f[i]
    BY <1>2, <1>3
  <1>5. Upward(g)
    BY <1>1
  <1> HIDE DEF g
  <1>6. \A i \in 1 .. n : f[i] \in Nat
    BY OpsCount
  <1>7. \A i, j \in 1 .. n : i < j => f[i] < f[j]
    BY <1>1
  <1> HIDE DEF n
  <1>8. \A r \in S : \E i \in 1 .. n : f[i] = r
    <2>1. \A i, j \in 1 .. n : f[i] = f[j] => i = j
      <3> SUFFICES ASSUME NEW i \in 1 .. n, NEW j \in 1 .. n, f[i] = f[j] PROVE i = j
        OBVIOUS
      <3>1. ~(i < j) /\ ~(j < i)
        BY <1>6, <1>7
      <3> QED BY <1>2, <3>1
    <2>2. f \in Injection(1 .. n, S)
      BY <2>1 DEF Injection, IsInjective
    <2>3. Cardinality(1 .. n) = n
      BY <1>2, FS_Interval
    <2>4. f \in Surjection(1 .. n, S)
      BY <1>2, <2>2, <2>3, FS_Injection DEF n
    <2> QED BY <2>4 DEF Surjection
  <1>9. ASSUME NEW i \in 1 .. n, NEW r \in S, r < f[i]
        PROVE  \E j \in 1 .. i : f[j] = r
    <2>1. PICK j \in 1 .. n : f[j] = r
      BY <1>8
    <2>2. ~(i < j)
      BY <1>6, <1>7, <1>9, <2>1
    <2>3. j \in 1 .. i
      BY <1>2, <2>2
    <2> QED BY <2>1, <2>3
  <1>10. ASSUME NEW i \in 1 .. Len(g), NEW r \in S, r < g[i].s
         PROVE  \E j \in 1 .. i : g[j].s = r
    <2>1. i \in 1 .. n /\ g[i].s = f[i]
      BY <1>4
    <2>2. PICK j \in 1 .. i : f[j] = r
      BY <1>9, <1>10, <2>1
    <2>3. j \in 1 .. n
      BY <1>2, <2>1
    <2> QED BY <1>4, <2>2, <2>3
  <1>11. \A i \in 1 .. Len(g) : g[i].t = "op" /\ g[i].s \in S
    BY <1>4
  <1>12. \A r \in S : \E i \in 1 .. Len(g) : g[i].s = r
    BY <1>4, <1>8
  <1> QED BY <1>4, <1>5, <1>10, <1>11, <1>12

\* Only the socket in use is sent to, unless the server closed it.
LEMMA SentTo ==
  ASSUME TypeOK, NEW g \in Seq(UpMessage), Upward(g), cur' \in Sockets \cup {0}
  PROVE  /\ cur' = 0 \/ sess[cur'] = "gone" => up' = up
         /\ ~(cur' = 0 \/ sess[cur'] = "gone") =>
              /\ cur' \in Sockets /\ up[cur'] \in Seq(UpMessage)
              /\ up'[cur'] = up[cur'] \o g
         /\ \A c \in Sockets : c # cur' => up'[c] = up[c]
  <1>1. CASE cur' = 0 \/ sess[cur'] = "gone"
    BY <1>1 DEF Upward
  <1>2. CASE ~(cur' = 0 \/ sess[cur'] = "gone")
    <2>1. cur' \in Sockets /\ up \in UpQueues
      BY <1>2, Numbers
    <2>2. up' = [up EXCEPT ![cur'] = up[cur'] \o g]
      BY <1>2 DEF Upward
    <2> QED BY <1>2, <2>1, <2>2 DEF UpQueues
  <1> QED BY <1>1, <1>2

-----------------------------------------------------------------------------
(* The invariant.                                                          *)

\* What the promise is kept by: a store that refuses nothing, is not unloaded, fails no
\* commit and turns away no hello; and, if it turns away live ops, hellos that carry the
\* whole outbox.
Willing ==
  /\ Uses \cap {"refuse", "unload", "fail", "limithello"} = {}
  /\ "limit" \in Uses => MaxOps <= HelloLimit

\* The ops the store is still to decide, those of them in the hello it is handling, and
\* those the client thinks sent: up to what its last hello carried or, live, all.
Waiting == {r \in outbox : r > last}
Begun == IF job = <<>> THEN {} ELSE job[1].ops
Relied == {r \in Waiting : r <= answered \/ (synced /\ ~throttled)}

Lines == \A c \in Sockets : Line(up[c], sess[c], Waiting, Begun)
Trusted == cur # 0 /\ sess[cur] # "gone" => Trust(up[cur], sess[cur], Relied, Begun)
Started == \A a \in Begun : \A r \in Waiting : r < a => r \in Begun

\* A pending op the store is past was decided.
Past == \A r \in outbox : r <= last => r \in Landed \cup void

\* Nothing is decided, carried or answered before it is made, nor decided past the last.
Made ==
  /\ last <= seq /\ answered <= seq
  /\ \A r \in Landed \cup void : r <= last
  /\ \A c \in Sockets : \A i \in 1 .. Len(up[c]) : \A a \in Ops(up[c][i]) : a <= seq
  /\ \A a \in Begun : a <= seq

Says(x) == x.t # "refused" /\ (x.t = "limited" => "limit" \in Uses)

\* Only live ops are turned away, and nothing is refused.
Turned ==
  /\ throttled => "limit" \in Uses
  /\ \A c \in Sockets : sess[c] = "held" => "limit" \in Uses
  /\ \A i \in 1 .. Len(down) : Says(down[i])

OrderInv == Lines /\ Trusted /\ Started /\ Past /\ Made /\ Turned

Done == Landed \cup void

\* Numbers are numbers, and an op of the outbox is one that was made.
LEMMA Amounts ==
  TypeOK => /\ seq \in Nat /\ last \in Nat /\ answered \in Nat /\ throttled \in BOOLEAN
            /\ synced \in BOOLEAN
            /\ outbox \subseteq OpNumbers /\ \A r \in outbox : r \in Nat /\ r # 0 /\ r <= seq
            /\ Waiting \subseteq outbox /\ Relied \subseteq Waiting /\ Begun \subseteq OpNumbers
  <1> SUFFICES ASSUME TypeOK PROVE
                 /\ seq \in Nat /\ last \in Nat /\ answered \in Nat /\ throttled \in BOOLEAN
                 /\ synced \in BOOLEAN
                 /\ outbox \subseteq OpNumbers /\ \A r \in outbox : r \in Nat /\ r # 0 /\ r <= seq
                 /\ Waiting \subseteq outbox /\ Relied \subseteq Waiting /\ Begun \subseteq OpNumbers
    OBVIOUS
  <1>1. /\ seq \in Nat /\ last \in Nat /\ answered \in Nat /\ throttled \in BOOLEAN
        /\ synced \in BOOLEAN
    BY SyncAssumption DEF TypeOK, ClientOK, StoreOK
  <1>2. \A r \in outbox : r \in Nat /\ r # 0 /\ r <= seq
    BY <1>1 DEF TypeOK, ClientOK
  <1>3. outbox \subseteq OpNumbers
    BY OutboxOps DEF TypeOK
  <1>4. Begun \subseteq OpNumbers
    BY JobTypes DEF Begun
  <1>5. Waiting \subseteq outbox /\ Relied \subseteq Waiting
    BY DEF Waiting, Relied
  <1> QED BY <1>1, <1>2, <1>3, <1>4, <1>5

\* What lands is added to what landed, a write of others aside.
LEMMA LandedWith ==
  ASSUME TypeOK, NEW x \in 0 .. MaxOps, log' = Append(log, x)
  PROVE  Landed' = Landed \cup ({x} \ {0})
  <1>1. /\ log \in Seq(0 .. MaxOps) /\ Len(log) \in Nat
        /\ Len(log') = Len(log) + 1 /\ log'[Len(log) + 1] = x
        /\ \A v \in 1 .. Len(log) : log'[v] = log[v]
    BY Numbers, Appended
  <1> DEFINE n == Len(log)
  <1> HIDE DEF n
  <1>2. \A v \in 1 .. n + 1 : v \in 1 .. n \/ v = n + 1
    BY <1>1, Place DEF n
  <1>3. \A v \in 1 .. n : v \in 1 .. n + 1
    BY <1>1, Place DEF n
  <1>4. n + 1 \in 1 .. n + 1
    BY <1>1, Place DEF n
  <1>5. {log'[v] : v \in 1 .. n + 1} = {log[v] : v \in 1 .. n} \cup {x}
    BY <1>1, <1>2, <1>3, <1>4 DEF n
  <1> QED BY <1>1, <1>5 DEF Landed, version, n

\* Nothing said says nothing amiss.
LEMMA NothingSaid == <<>> \in Seq(DownMessage) /\ \A j \in 1 .. Len(<<>>) : Says(<<>>[j])
  <1>1. Len(<<>>) = 0 /\ \A i : i \notin 1 .. 0
    OBVIOUS
  <1> QED BY <1>1

\* Whatever is said by a step that turns no op away refuses and limits none.
LEMMA SaysStill ==
  ASSUME TypeOK, NEW c, NEW patch \in Seq(DownMessage), NEW told \in Seq(DownMessage),
         Downward(c, patch, told), \A i \in 1 .. Len(down) : Says(down[i]),
         \A j \in 1 .. Len(patch) : Says(patch[j]), \A j \in 1 .. Len(told) : Says(told[j])
  PROVE  \A i \in 1 .. Len(down') : Says(down'[i])
  BY Said

\* Nothing is sent or read, and no more waits or is thought sent: the order stays.
LEMMA QuietOrder ==
  ASSUME Lines, Trusted, Started, UNCHANGED <<up, sess>>, Waiting' \subseteq Waiting,
         Begun' \subseteq Begun, Begun \cap Waiting' \subseteq Begun',
         cur' = 0 \/ (cur' = cur /\ Relied' \subseteq Relied /\ Relied' \subseteq Waiting')
  PROVE  Lines' /\ Trusted' /\ Started'
  <1> DEFINE A == Waiting
  <1> DEFINE B == Waiting'
  <1> DEFINE J == Begun
  <1> DEFINE K == Begun'
  <1>1. B \subseteq A /\ K \subseteq J /\ J \cap B \subseteq K
    OBVIOUS
  <1>2. /\ \A c \in Sockets : Line(up[c], sess[c], A, J)
        /\ \A a \in J : \A r \in A : r < a => r \in J
    BY DEF Lines, Started
  <1> HIDE DEF A, B, J, K
  <1>3. \A c \in Sockets : Line(up[c], sess[c], B, K)
    BY <1>1, <1>2, FewerWait
  <1>4. \A a \in K : \A r \in B : r < a => r \in K
    BY <1>1, <1>2
  <1>5. Lines' /\ Started'
    BY <1>3, <1>4 DEF Lines, Started, B, K
  <1>6. Trusted'
    <2>1. CASE cur' = 0
      BY <2>1 DEF Trusted
    <2>2. CASE cur' = cur /\ Relied' \subseteq Relied /\ Relied' \subseteq B
      <3> SUFFICES ASSUME cur # 0, sess[cur] # "gone"
                   PROVE  Trust(up[cur], sess[cur], Relied', K)
        BY <2>2 DEF Trusted, K
      <3>1. Trust(up[cur], sess[cur], Relied, J)
        BY DEF Trusted, J
      <3>2. J \cap Relied' \subseteq K
        BY <1>1, <2>2
      <3> QED BY <2>2, <3>1, <3>2, FewerSent
    <2> QED BY <2>1, <2>2 DEF B
  <1> QED BY <1>5, <1>6

\* A step of the client alone, that sends nothing.
LEMMA IdleOrder ==
  ASSUME TypeOK, OrderInv, UNCHANGED <<seq, outbox, up, sess, log, last, void, job>>,
         down' = down \/ down' = <<>>,
         \/ cur' = 0 /\ answered' \in {answered, 0} /\ (throttled' => throttled)
         \/ cur' = cur /\ answered' = answered /\ throttled' = throttled /\ synced' = synced
  PROVE  OrderInv'
  <1>1. Waiting' = Waiting /\ Begun' = Begun /\ Done' = Done
    BY DEF Waiting, Begun, Done, Landed, version
  <1>2. cur' = cur /\ answered' = answered /\ throttled' = throttled /\ synced' = synced
          => Relied' = Relied
    BY <1>1 DEF Relied
  <1>3. Relied \subseteq Waiting
    BY Amounts
  <1>4. Lines' /\ Trusted' /\ Started'
    BY <1>1, <1>2, <1>3, QuietOrder DEF OrderInv
  <1>5. Past'
    BY <1>1 DEF OrderInv, Past, Done
  <1>6. Made'
    <2>1. answered' <= seq
      BY Amounts DEF OrderInv, Made
    <2> QED BY <1>1, <2>1 DEF OrderInv, Made, Done
  <1>7. Turned'
    <2>1. Len(<<>>) = 0 /\ \A i : i \notin 1 .. 0
      OBVIOUS
    <2>2. throttled' => throttled
      OBVIOUS
    <2> QED BY <2>1, <2>2 DEF OrderInv, Turned
  <1> QED BY <1>4, <1>5, <1>6, <1>7 DEF OrderInv

\* A write of others decides nothing of the client's.
LEMMA OthersOrder == TypeOK /\ OrderInv /\ OthersWrite => OrderInv'
  <1> SUFFICES ASSUME TypeOK, OrderInv, OthersWrite PROVE OrderInv'
    OBVIOUS
  <1>1. /\ UNCHANGED <<seq, outbox, up, sess, last, void, job, cur, answered, throttled, synced>>
        /\ log' = Append(log, 0) /\ Downward(0, PatchOf(version + 1), <<>>)
    BY DEF OthersWrite, client, state
  <1>2. Waiting' = Waiting /\ Begun' = Begun /\ Relied' = Relied /\ Relied \subseteq Waiting
    <2>1. Waiting' = Waiting /\ Begun' = Begun
      BY <1>1 DEF Waiting, Begun
    <2> QED BY <1>1, <2>1, Amounts DEF Relied
  <1>3. Done' = Done
    <2>1. 0 \in 0 .. MaxOps
      BY SyncAssumption
    <2>2. Landed' = Landed \cup ({0} \ {0})
      BY <1>1, <2>1, LandedWith
    <2> QED BY <1>1, <2>2 DEF Done
  <1>4. Lines' /\ Trusted' /\ Started'
    BY <1>1, <1>2, QuietOrder DEF OrderInv
  <1>5. Past' /\ Made'
    BY <1>1, <1>2, <1>3 DEF OrderInv, Past, Made, Done
  <1>6. Turned'
    <2> DEFINE x == [t |-> "patch", v |-> version + 1]
    <2>1. x \in DownMessage /\ Says(x)
      BY Numbers DEF DownMessage, Says
    <2>2. PatchOf(version + 1) = <<x>>
      BY DEF PatchOf
    <2> HIDE DEF x
    <2>3. <<x>> \in Seq(DownMessage) /\ \A j \in 1 .. Len(<<x>>) : Says(<<x>>[j])
      BY <2>1
    <2>4. <<>> \in Seq(DownMessage) /\ \A j \in 1 .. Len(<<>>) : Says(<<>>[j])
      BY NothingSaid
    <2>5. \A i \in 1 .. Len(down') : Says(down'[i])
      BY <1>1, <2>2, <2>3, <2>4, SaysStill DEF OrderInv, Turned
    <2> QED BY <1>1, <2>5 DEF OrderInv, Turned
  <1> QED BY <1>4, <1>5, <1>6 DEF OrderInv

-----------------------------------------------------------------------------
(* The store's actions.                                                    *)

\* apply(): the op was decided before, or is by now, and no other is.
LEMMA ApplyDecides ==
  ASSUME TypeOK, Willing, NEW c, NEW s \in OpNumbers, NEW isLive, Apply(c, s, isLive)
  PROVE  \/ s <= last /\ last' = last /\ Done' = Done
         \/ s > last /\ last' = s /\ Done' = Done \cup {s}
  <1>1. s \in Nat /\ s # 0 /\ s \in 0 .. MaxOps /\ last \in Nat
    BY OpsCount, Amounts DEF OpNumbers
  <1>2. CASE Decided(s) /\ UNCHANGED store
    <2>1. last' = last /\ Done' = Done
      BY <1>2 DEF store, Done, Landed, version
    <2> QED BY <1>2, <2>1 DEF Decided
  <1>3. CASE ~Decided(s) /\ log' = Append(log, s) /\ last' = s /\ UNCHANGED void
    <2>1. Landed' = Landed \cup ({s} \ {0})
      BY <1>1, <1>3, LandedWith
    <2>2. Done' = Done \cup {s}
      BY <1>1, <1>3, <2>1 DEF Done
    <2>3. s > last
      BY <1>1, <1>3 DEF Decided
    <2> QED BY <1>3, <2>2, <2>3
  <1>4. CASE ~Decided(s) /\ void' = void \cup {s} /\ last' = s /\ UNCHANGED log
    <2>1. Done' = Done \cup {s}
      BY <1>4 DEF Done, Landed, version
    <2>2. s > last
      BY <1>1, <1>4 DEF Decided
    <2> QED BY <1>4, <2>1, <2>2
  <1>5. "refuse" \notin Uses
    BY DEF Willing
  <1> QED BY <1>2, <1>3, <1>4, <1>5 DEF Apply

\* It refuses none, and says no more than a patch and an ack.
LEMMA ApplySays ==
  ASSUME TypeOK, Willing, NEW c, NEW s \in OpNumbers, NEW isLive, Apply(c, s, isLive),
         \A i \in 1 .. Len(down) : Says(down[i])
  PROVE  \A i \in 1 .. Len(down') : Says(down'[i])
  <1>1. LogOK'
    BY ApplyTypes
  <1>2. Len(log') \in Nat
    BY <1>1 DEF LogOK
  <1> DEFINE p == [t |-> "patch", v |-> Len(log')]
  <1> DEFINE a == [t |-> "ack", s |-> s, v |-> Len(log')]
  <1>3. p \in DownMessage /\ Says(p) /\ a \in DownMessage /\ Says(a)
    BY <1>2 DEF DownMessage, Says
  <1>4. PatchOf(Len(log')) = <<p>> /\ AckOf(s, isLive) \in {<<a>>, <<>>}
    BY DEF PatchOf, AckOf
  <1> HIDE DEF p, a
  <1>5. /\ <<p>> \in Seq(DownMessage) /\ \A j \in 1 .. Len(<<p>>) : Says(<<p>>[j])
        /\ <<a>> \in Seq(DownMessage) /\ \A j \in 1 .. Len(<<a>>) : Says(<<a>>[j])
    BY <1>3
  <1>6. PICK patch, told :
          /\ patch \in {<<>>, <<p>>} /\ told \in {<<>>, <<a>>}
          /\ Downward(c, patch, told)
    <2>1. "refuse" \notin Uses
      BY DEF Willing
    <2>2. \/ Downward(c, <<>>, AckOf(s, isLive))
          \/ Downward(c, PatchOf(Len(log')), AckOf(s, isLive))
      BY <2>1 DEF Apply
    <2> QED BY <1>4, <2>2
  <1>7. /\ patch \in Seq(DownMessage) /\ \A j \in 1 .. Len(patch) : Says(patch[j])
        /\ told \in Seq(DownMessage) /\ \A j \in 1 .. Len(told) : Says(told[j])
    BY <1>5, <1>6, NothingSaid
  <1> QED BY <1>6, <1>7, SaysStill

\* What landed, or lost, is ops.
LEMMA LandedOps == TypeOK => Done \subseteq OpNumbers
  <1> SUFFICES ASSUME TypeOK, NEW v \in 1 .. Len(log), log[v] # 0 PROVE log[v] \in OpNumbers
    BY DEF Done, Landed, version, TypeOK, StoreOK
  <1>1. log \in Seq(0 .. MaxOps)
    BY Numbers
  <1>2. log[v] \in 0 .. MaxOps
    BY <1>1, ElementOfSeq
  <1> QED BY <1>2, SyncAssumption DEF OpNumbers

\* What an op decided leaves of the rest, when none that waits was made before it.
LEMMA DecidedPast ==
  ASSUME TypeOK, OrderInv, NEW s \in OpNumbers, outbox' = outbox, seq' = seq, s <= seq,
         \/ s <= last /\ last' = last /\ Done' = Done
         \/ s > last /\ last' = s /\ Done' = Done \cup {s},
         \A r \in Waiting : ~(r < s)
  PROVE  /\ Past' /\ Waiting' \subseteq Waiting /\ s \notin Waiting'
         /\ last' <= seq' /\ \A r \in Done' : r <= last'
  <1>1. /\ s \in Nat /\ last \in Nat /\ \A r \in outbox : r \in Nat
        /\ last <= seq /\ \A r \in Done : r <= last
    BY Amounts, OpsCount DEF OrderInv, Made, Done
  <1>2. Waiting' \subseteq Waiting /\ s \notin Waiting'
    BY <1>1 DEF Waiting
  <1>3. Past'
    <2> SUFFICES ASSUME NEW r \in outbox, r <= last' PROVE r \in Done'
      BY DEF Past, Done
    <2>1. CASE r <= last
      BY <2>1 DEF OrderInv, Past, Done
    <2>2. CASE ~(r <= last)
      <3>1. last' = s /\ r \in Waiting
        BY <1>1, <2>2 DEF Waiting
      <3>2. r = s
        BY <1>1, <3>1
      <3> QED BY <2>2, <3>2
    <2> QED BY <2>1, <2>2
  <1>4. \A r \in Done : r \in Nat
    BY OpsCount, LandedOps DEF Done
  <1>5. last' <= seq' /\ \A r \in Done' : r <= last'
    BY <1>1, <1>4
  <1> QED BY <1>2, <1>3, <1>5

\* The next op of a hello: the lowest, so that none that waits was made before it.
LEMMA HelloOpOrder == TypeOK /\ Willing /\ OrderInv /\ HelloOp => OrderInv'
  <1> SUFFICES ASSUME TypeOK, Willing, OrderInv, HelloOp PROVE OrderInv'
    OBVIOUS
  <1>1. /\ UNCHANGED <<seq, outbox, up, sess, cur, answered, throttled, synced>> /\ job # <<>>
    BY DEF HelloOp, client, state
  <1>2. PICK s \in job[1].ops : /\ \A r \in job[1].ops : s <= r
                                /\ job' = <<[job[1] EXCEPT !.ops = @ \ {s}]>>
                                /\ Apply(job[1].c, s, FALSE)
    BY DEF HelloOp
  <1>3. Begun = job[1].ops /\ job[1] \in Jobs /\ s \in OpNumbers /\ s \in Nat /\ s \in Begun
    BY <1>1, <1>2, JobTypes, OpsCount DEF Begun
  <1>4. Begun' = Begun \ {s}
    <2>1. job' # <<>> /\ job'[1].ops = job[1].ops \ {s}
      BY <1>2, <1>3 DEF Jobs
    <2> QED BY <1>3, <2>1 DEF Begun
  <1>5. \A r \in Waiting : ~(r < s)
    <2> SUFFICES ASSUME NEW r \in Waiting, r < s PROVE FALSE
      OBVIOUS
    <2>1. r \in Begun
      BY <1>3 DEF OrderInv, Started
    <2> QED BY <1>2, <1>3, <2>1, Amounts, OpsCount
  <1>6. s <= seq
    BY <1>3 DEF OrderInv, Made
  <1>7. \/ s <= last /\ last' = last /\ Done' = Done
        \/ s > last /\ last' = s /\ Done' = Done \cup {s}
    BY <1>2, <1>3, ApplyDecides
  <1>8. /\ Past' /\ Waiting' \subseteq Waiting /\ s \notin Waiting'
        /\ last' <= seq' /\ \A r \in Done' : r <= last'
    BY <1>1, <1>3, <1>5, <1>6, <1>7, DecidedPast
  <1>9. Relied' \subseteq Relied /\ Relied' \subseteq Waiting'
    BY <1>1, <1>8 DEF Relied
  <1>10. Lines' /\ Trusted' /\ Started'
    <2>1. Begun \cap Waiting' \subseteq Begun' /\ Begun' \subseteq Begun
      BY <1>4, <1>8
    <2> QED BY <1>1, <1>8, <1>9, <2>1, QuietOrder DEF OrderInv
  <1>11. Made'
    BY <1>1, <1>4, <1>8 DEF OrderInv, Made, Done
  <1>12. Turned'
    BY <1>1, <1>2, <1>3, ApplySays DEF OrderInv, Turned
  <1> QED BY <1>8, <1>10, <1>11, <1>12 DEF OrderInv

\* A hello answered leaves nothing to handle.
LEMMA HelloAnsweredOrder == TypeOK /\ OrderInv /\ HelloAnswered => OrderInv'
  <1> SUFFICES ASSUME TypeOK, OrderInv, HelloAnswered PROVE OrderInv'
    OBVIOUS
  <1>1. /\ UNCHANGED <<seq, outbox, up, sess, cur, answered, throttled, synced, log, last, void>>
        /\ job # <<>> /\ job[1].ops = {} /\ job' = <<>>
    BY DEF HelloAnswered, client, state, store
  <1>2. Begun = {} /\ Begun' = {}
    BY <1>1 DEF Begun
  <1>3. Waiting' = Waiting /\ Relied' = Relied /\ Done' = Done /\ Relied \subseteq Waiting
    <2>1. Waiting' = Waiting
      BY <1>1 DEF Waiting
    <2> QED BY <1>1, <2>1, Amounts DEF Relied, Done, Landed, version
  <1>4. Lines' /\ Trusted' /\ Started'
    BY <1>1, <1>2, <1>3, QuietOrder DEF OrderInv
  <1>5. Past' /\ Made'
    BY <1>1, <1>2, <1>3 DEF OrderInv, Past, Made, Done
  <1>6. Turned'
    <2>1. PICK whole \in BOOLEAN :
            Downward(job[1].c, <<>>, <<[t |-> "answer", whole |-> whole, since |-> job[1].since,
                                        v |-> version, s |-> last]>>)
      BY DEF HelloAnswered
    <2> DEFINE x == [t |-> "answer", whole |-> whole, since |-> job[1].since,
                     v |-> version, s |-> last]
    <2>2. x \in DownMessage
      BY <1>1, JobTypes, Numbers, Amounts DEF DownMessage
    <2>3. Says(x)
      BY DEF Says
    <2>4. Downward(job[1].c, <<>>, <<x>>)
      BY <2>1
    <2> HIDE DEF x
    <2>5. <<x>> \in Seq(DownMessage) /\ \A j \in 1 .. Len(<<x>>) : Says(<<x>>[j])
      BY <2>2, <2>3
    <2>6. \A i \in 1 .. Len(down') : Says(down'[i])
      BY <2>4, <2>5, NothingSaid, SaysStill DEF OrderInv, Turned
    <2> QED BY <1>1, <2>6 DEF OrderInv, Turned
  <1> QED BY <1>4, <1>5, <1>6 DEF OrderInv

\* A socket the server closed brings nothing more, and the client finds out.
LEMMA ServerDropOrder ==
  ASSUME TypeOK, OrderInv, NEW c \in Sockets, ServerDrop(c)
  PROVE  OrderInv'
  <1>1. /\ UNCHANGED <<seq, outbox, cur, answered, throttled, synced, log, last, void, job, down>>
        /\ sess' = [sess EXCEPT ![c] = "gone"] /\ up' = [up EXCEPT ![c] = <<>>]
    BY DEF ServerDrop, client, state, store
  <1>2. /\ sess'[c] = "gone" /\ up'[c] = <<>>
        /\ \A d \in Sockets \ {c} : sess'[d] = sess[d] /\ up'[d] = up[d]
    BY <1>1, Numbers DEF UpQueues
  <1>3. Waiting' = Waiting /\ Begun' = Begun /\ Done' = Done
    BY <1>1 DEF Waiting, Begun, Done, Landed, version
  <1>4. Relied' = Relied
    BY <1>1, <1>3 DEF Relied
  <1>5. Lines'
    <2>1. Line(<<>>, "gone", Waiting, Begun)
      BY NothingInLine
    <2>2. \A d \in Sockets : Line(up'[d], sess'[d], Waiting, Begun)
      BY <1>2, <2>1 DEF OrderInv, Lines
    <2> QED BY <1>3, <2>2 DEF Lines
  <1>6. Trusted'
    <2> SUFFICES ASSUME cur # 0, sess'[cur] # "gone"
                 PROVE  Trust(up'[cur], sess'[cur], Relied, Begun)
      BY <1>1, <1>3, <1>4 DEF Trusted
    <2>1. cur \in Sockets \ {c}
      BY <1>2, Numbers
    <2> QED BY <1>2, <2>1 DEF OrderInv, Trusted
  <1>7. Started' /\ Past'
    BY <1>1, <1>3 DEF OrderInv, Started, Past, Done
  <1>8. Made'
    <2>1. Len(<<>>) = 0 /\ \A i : i \notin 1 .. 0
      OBVIOUS
    <2>2. \A d \in Sockets : \A i \in 1 .. Len(up'[d]) : \A a \in Ops(up'[d][i]) : a <= seq
      BY <1>2, <2>1 DEF OrderInv, Made
    <2> QED BY <1>1, <1>3, <2>2 DEF OrderInv, Made, Done
  <1>9. Turned'
    BY <1>1, <1>2 DEF OrderInv, Turned
  <1> QED BY <1>5, <1>6, <1>7, <1>8, <1>9 DEF OrderInv

-----------------------------------------------------------------------------
(* The client's actions.                                                   *)

\* What a hello carries: the lowest of the outbox, all of it if live ops may be turned away.
LEMMA HelloCarries ==
  ASSUME TypeOK, Willing, SayHello, outbox' \subseteq OpNumbers
  PROVE  \E C \in SUBSET OpNumbers :
           /\ C \subseteq outbox' /\ Upward(<<[t |-> "hello", ops |-> C, since |-> known']>>)
           /\ \A a \in C : \A r \in outbox' : r < a => r \in C
           /\ \A r \in outbox' : r <= answered' => r \in C
           /\ "limit" \in Uses => C = outbox'
           /\ answered' = 0 \/ answered' \in C
           /\ throttled' = FALSE
  <1> DEFINE C == Lowest(outbox', HelloLimit)
  <1>1. /\ \/ C = {} /\ answered' = 0
           \/ \E a \in C : (\A s \in C : s <= a) /\ answered' = a
        /\ throttled' = FALSE /\ Upward(<<[t |-> "hello", ops |-> C, since |-> known']>>)
    BY DEF SayHello
  <1>2. C \subseteq outbox' /\ C \in SUBSET OpNumbers
    BY DEF Lowest
  <1>3. HelloLimit \in Nat
    BY SyncAssumption
  <1>4. \A a \in C : \A r \in outbox' : r < a => r \in C
    BY <1>3, LowestFirst
  <1>5. "limit" \in Uses => C = outbox'
    BY <1>3, LowestAll DEF Willing
  <1> HIDE DEF C
  <1>6. ASSUME NEW r \in outbox', r <= answered'
        PROVE  r \in C
    <2>1. r \in Nat /\ r # 0
      BY OpsCount
    <2>2. CASE C = {} /\ answered' = 0
      BY <1>6, <2>1, <2>2
    <2>3. ASSUME NEW a \in C, answered' = a
          PROVE  r \in C
      <3>1. r = a \/ r < a
        <4>1. a \in Nat
          BY <1>2, OpsCount
        <4> QED BY <1>6, <2>1, <2>3, <4>1
      <3> QED BY <1>4, <2>3, <3>1
    <2> QED BY <1>1, <2>2, <2>3
  <1> QED BY <1>1, <1>2, <1>4, <1>5, <1>6

\* What is put on the socket in use is of ops that were made, as is what was there.
LEMMA MadeStill ==
  ASSUME TypeOK, Made, NEW g \in Seq(UpMessage), Upward(g), cur' \in Sockets \cup {0},
         NEW n \in Nat, seq <= n, \A i \in 1 .. Len(g) : \A a \in Ops(g[i]) : a <= n
  PROVE  \A c \in Sockets : \A i \in 1 .. Len(up'[c]) : \A a \in Ops(up'[c][i]) : a <= n
  <1>1. ASSUME NEW q \in Seq(UpMessage), NEW i \in 1 .. Len(q), NEW a \in Ops(q[i])
        PROVE  a \in Nat
    <2>1. q[i] \in UpMessage
      BY <1>1, ElementOfSeq
    <2>2. a \in OpNumbers
      BY <1>1, <2>1 DEF Ops, UpMessage
    <2> QED BY <2>2, OpsCount
  <1>2. seq \in Nat /\ up \in UpQueues
    BY Amounts, Numbers
  <1>3. ASSUME NEW c \in Sockets, NEW i \in 1 .. Len(up[c]), NEW a \in Ops(up[c][i])
        PROVE  a <= n
    <2>1. up[c] \in Seq(UpMessage)
      BY <1>2 DEF UpQueues
    <2>2. a \in Nat /\ a <= seq
      BY <1>1, <1>3, <2>1 DEF Made
    <2> QED BY <1>2, <2>2
  <1> SUFFICES ASSUME NEW c \in Sockets
               PROVE  \A i \in 1 .. Len(up'[c]) : \A a \in Ops(up'[c][i]) : a <= n
    OBVIOUS
  <1>4. CASE up'[c] = up[c]
    BY <1>3, <1>4
  <1>5. CASE up[c] \in Seq(UpMessage) /\ up'[c] = up[c] \o g
    <2> DEFINE e == up[c] \o g
    <2>1. /\ \A i \in 1 .. Len(up[c]) : e[i] = up[c][i]
          /\ \A i \in 1 .. Len(g) : e[Len(up[c]) + i] = g[i]
          /\ \A i \in 1 .. Len(e) : i \in 1 .. Len(up[c]) \/ (\E j \in 1 .. Len(g) : i = Len(up[c]) + j)
      BY <1>5, Joined
    <2> HIDE DEF e
    <2>2. \A i \in 1 .. Len(e) : \A a \in Ops(e[i]) : a <= n
      BY <1>3, <2>1
    <2> QED BY <1>5, <2>2 DEF e
  <1> QED BY <1>4, <1>5, SentTo

\* A hello goes out on a socket; P is what the client thought sent on it before.
LEMMA HelloOrder ==
  ASSUME TypeOK, Willing, OrderInv, SayHello, UNCHANGED <<seq, outbox, known, down, log, last, void, job>>,
         cur' \in Sockets, \A c \in Sockets : c # cur' => sess'[c] = sess[c],
         sess'[cur'] = "gone" <=> sess[cur'] = "gone",
         sess'[cur'] = "held" => "limit" \in Uses,
         Line(up[cur'], sess'[cur'], Waiting, Begun),
         NEW P, sess[cur'] # "gone" => Trust(up[cur'], sess'[cur'], P, Begun),
         synced' /\ "limit" \notin Uses => Waiting \subseteq P
  PROVE  OrderInv'
  <1> DEFINE A == Waiting
  <1> DEFINE J == Begun
  <1>1. Waiting' = A /\ Begun' = J /\ Done' = Done
    BY DEF Waiting, Begun, Done, Landed, version
  <1>2. /\ outbox' = outbox /\ outbox \subseteq OpNumbers /\ A \subseteq outbox
        /\ (\A r \in outbox : r \in Nat /\ r <= seq) /\ seq \in Nat
    BY Amounts
  <1>3. PICK C \in SUBSET OpNumbers :
           /\ C \subseteq outbox /\ Upward(<<[t |-> "hello", ops |-> C, since |-> known']>>)
           /\ \A a \in C : \A r \in outbox : r < a => r \in C
           /\ \A r \in outbox : r <= answered' => r \in C
           /\ "limit" \in Uses => C = outbox
           /\ answered' = 0 \/ answered' \in C
           /\ throttled' = FALSE
    BY <1>2, HelloCarries
  <1> DEFINE x == [t |-> "hello", ops |-> C, since |-> known']
  <1>4. x \in UpMessage /\ x.t = "hello" /\ x.ops = C /\ Upward(<<x>>)
    <2>1. known' \in Nat
      BY Numbers
    <2> QED BY <1>3, <2>1 DEF UpMessage
  <1> HIDE DEF x
  <1>5. <<x>> \in Seq(UpMessage) /\ Len(<<x>>) = 1 /\ <<x>>[1] = x
    BY <1>4
  <1>6. /\ sess[cur'] = "gone" => up' = up
        /\ sess[cur'] # "gone" => up[cur'] \in Seq(UpMessage) /\ up'[cur'] = up[cur'] \o <<x>>
        /\ \A c \in Sockets : c # cur' => up'[c] = up[c]
    <2>1. cur' \in Sockets \cup {0} /\ cur' # 0
      BY Numbers
    <2> QED BY <1>4, <1>5, <2>1, SentTo
  <1>7. \A a \in x.ops : \A r \in A : r < a => r \in x.ops
    BY <1>2, <1>3, <1>4
  <1>8. Lines'
    <2> SUFFICES ASSUME NEW c \in Sockets PROVE Line(up'[c], sess'[c], A, J)
      BY <1>1 DEF Lines
    <2>1. CASE c # cur'
      <3>1. Line(up[c], sess[c], A, J)
        BY DEF OrderInv, Lines
      <3> QED BY <1>6, <2>1, <3>1
    <2>2. CASE c = cur' /\ sess[cur'] = "gone"
      BY <1>6, <2>2
    <2>3. CASE c = cur' /\ sess[cur'] # "gone"
      <3>1. Line(up[cur'], sess'[cur'], A, J) /\ up[cur'] \in Seq(UpMessage)
        BY <1>6, <2>3
      <3> HIDE DEF A, J
      <3>2. Line(up[cur'] \o <<x>>, sess'[cur'], A, J)
        BY <1>4, <1>7, <3>1, JoinedHello
      <3> QED BY <1>6, <2>3, <3>2
    <2> QED BY <2>1, <2>2, <2>3
  <1>9. Trusted'
    <2> DEFINE R == Relied'
    <2> SUFFICES ASSUME sess[cur'] # "gone"
                 PROVE  Trust(up'[cur'], sess'[cur'], R, J)
      BY <1>1 DEF Trusted
    <2>1. \A r \in R : r \in A /\ (r <= answered' \/ synced')
      BY <1>1 DEF Relied
    <2>2. "limit" \in Uses => R \subseteq x.ops
      BY <1>2, <1>3, <1>4, <2>1
    <2>3. \A r \in R : r \in x.ops \/ (r \in P /\ sess'[cur'] # "held")
      <3> SUFFICES ASSUME NEW r \in R, r \notin x.ops PROVE r \in P /\ sess'[cur'] # "held"
        OBVIOUS
      <3>1. "limit" \notin Uses /\ r \in A /\ r \in outbox
        BY <1>2, <2>1, <2>2
      <3>2. synced'
        BY <1>3, <1>4, <2>1, <3>1
      <3> QED BY <3>1, <3>2
    <2>4. Trust(up[cur'], sess'[cur'], P, J) /\ up[cur'] \in Seq(UpMessage)
      BY <1>6
    <2> HIDE DEF R, J
    <2>5. Trust(up[cur'] \o <<x>>, sess'[cur'], R, J)
      BY <1>4, <2>2, <2>3, <2>4, JoinedHelloTrust
    <2> QED BY <1>6, <2>5
  <1>10. Started' /\ Past'
    BY <1>1, <1>2 DEF OrderInv, Started, Past, Done
  <1>11. Made'
    <2>1. answered' <= seq
      BY <1>2, <1>3
    <2>2. \A i \in 1 .. Len(<<x>>) : \A a \in Ops(<<x>>[i]) : a <= seq
      <3>1. \A a \in Ops(x) : a <= seq
        BY <1>2, <1>3, <1>4 DEF Ops
      <3>2. \A i \in 1 .. 1 : i = 1
        OBVIOUS
      <3> QED BY <1>5, <3>1, <3>2
    <2>3. \A c \in Sockets : \A i \in 1 .. Len(up'[c]) : \A a \in Ops(up'[c][i]) : a <= seq
      <3>1. Made /\ seq <= seq
        BY <1>2 DEF OrderInv
      <3> QED BY <1>2, <1>4, <1>5, <2>2, <3>1, MadeStill
    <2> QED BY <1>1, <2>1, <2>3 DEF OrderInv, Made, Done
  <1>12. Turned'
    BY <1>3 DEF OrderInv, Turned
  <1> QED BY <1>8, <1>9, <1>10, <1>11, <1>12 DEF OrderInv

\* A new socket: nothing is on it, and only what its hello carries is thought sent.
LEMMA OpenOrder == TypeOK /\ BaseInv /\ Willing /\ OrderInv /\ Open => OrderInv'
  <1> SUFFICES ASSUME TypeOK, BaseInv, Willing, OrderInv, Open PROVE OrderInv'
    OBVIOUS
  <1>1. /\ UNCHANGED <<seq, outbox, known, down, log, last, void, job>>
        /\ synced' = FALSE /\ SayHello
    BY DEF Open, client, store
  <1>2. PICK c \in Sockets : sess[c] = "new" /\ cur' = c /\ sess' = [sess EXCEPT ![c] = "none"]
    BY DEF Open
  <1>3. sess'[c] = "none" /\ \A d \in Sockets : d # c => sess'[d] = sess[d]
    BY <1>2, Numbers
  <1>4. up[c] = <<>>
    BY <1>2 DEF BaseInv, Asking
  <1>5. Line(up[c], sess'[c], Waiting, Begun)
    BY <1>4, NothingInLine
  <1>6. Trust(up[c], sess'[c], {}, Begun)
    BY DEF Trust, Comes, Repeats
  <1> QED BY <1>1, <1>2, <1>3, <1>5, <1>6, HelloOrder

\* A hello said again: what the client thought sent may have been turned away.
LEMMA AgainOrder ==
  ASSUME TypeOK, BaseInv, Willing, OrderInv, SayHello, cur # 0,
         UNCHANGED <<seq, outbox, known, down, log, last, void, job, cur, sess, synced>>
  PROVE  OrderInv'
  <1>1. cur' = cur /\ cur \in Sockets /\ sess' = sess
    BY Numbers
  <1>2. Line(up[cur], sess[cur], Waiting, Begun)
    BY <1>1 DEF OrderInv, Lines
  <1>3. sess[cur] # "gone" => Trust(up[cur], sess[cur], Relied, Begun)
    BY <1>1 DEF OrderInv, Trusted
  <1>4. sess[cur] = "held" => "limit" \in Uses
    BY <1>1 DEF OrderInv, Turned
  <1>5. synced' /\ "limit" \notin Uses => Waiting \subseteq Relied
    BY DEF OrderInv, Turned, Relied
  <1> QED BY <1>1, <1>2, <1>3, <1>4, <1>5, HelloOrder

\* The client's steps that make no op and hear nothing.
LEMMA ClientOrder ==
  ASSUME TypeOK, BaseInv, Willing, OrderInv,
         Open \/ Drop \/ Restart \/ Save \/ Retry \/ HelloAgain \/ UNCHANGED vars
  PROVE  OrderInv'
  <1>1. CASE Open
    BY <1>1, OpenOrder
  <1>2. CASE Drop
    BY <1>2, IdleOrder DEF Drop, Closed, client, store
  <1>3. CASE Restart
    BY <1>3, IdleOrder DEF Restart, Closed, store
  <1>4. CASE Save
    BY <1>4, IdleOrder DEF Save, state, store
  <1>5. CASE Retry
    <2>1. CASE cur # 0
      BY <1>5, <2>1, AgainOrder DEF Retry, store
    <2>2. CASE cur = 0
      BY <1>5, <2>2, IdleOrder DEF Retry, store
    <2> QED BY <2>1, <2>2
  <1>6. CASE HelloAgain
    BY <1>6, AgainOrder DEF HelloAgain, client, store
  <1>7. CASE UNCHANGED vars
    BY <1>7, IdleOrder DEF vars, client, state, store
  <1> QED BY <1>1, <1>2, <1>3, <1>4, <1>5, <1>6, <1>7

\* One more op waits, made after all that is on its way.
LEMMA MoreWait ==
  ASSUME NEW q, NEW s, NEW A, NEW J, NEW n, Line(q, s, A, J),
         \A i \in 1 .. Len(q) : \A a \in Ops(q[i]) : ~(n < a)
  PROVE  Line(q, s, A \cup {n}, J)
  <1>1. InOrder(q, s, A \cup {n}, J)
    BY DEF Line, InOrder
  <1>2. "limit" \in Uses => Refills(q, A \cup {n})
    BY DEF Line, Refills
  <1> QED BY <1>1, <1>2 DEF Line

\* A new op goes out live, after all that waits; or waits for a hello.
LEMMA EditOrder == TypeOK /\ OrderInv /\ Edit => OrderInv'
  <1> SUFFICES ASSUME TypeOK, OrderInv, Edit PROVE OrderInv'
    OBVIOUS
  <1> DEFINE A == Waiting
  <1> DEFINE J == Begun
  <1> DEFINE n == seq + 1
  <1>1. /\ UNCHANGED <<cur, synced, throttled, answered, sess, down, log, last, void, job>>
        /\ seq' = n /\ seq < MaxOps
    BY DEF Edit, state, store
  <1>2. /\ seq \in Nat /\ n \in Nat /\ n \in OpNumbers /\ seq < n /\ seq <= n
        /\ last \in Nat /\ last <= seq /\ answered \in Nat /\ answered <= seq
        /\ \A r \in outbox : r \in Nat /\ r <= seq
        /\ cur' \in Sockets \cup {0}
    BY <1>1, Amounts, Numbers, SyncAssumption DEF OpNumbers, OrderInv, Made
  <1>3. outbox' \subseteq outbox \cup {n} /\ n \in outbox'
    BY <1>1 DEF Edit
  <1>4. Begun' = J /\ Done' = Done
    BY <1>1 DEF Begun, Done, Landed, version
  <1> DEFINE B == Waiting'
  <1>5. B \subseteq A \cup {n} /\ \A r \in A : r <= seq /\ r \in Nat
    BY <1>1, <1>2, <1>3 DEF Waiting
  <1> HIDE DEF n
  <1>6. \A c \in Sockets : \A i \in 1 .. Len(up[c]) : \A a \in Ops(up[c][i]) : ~(n < a) /\ a <= n
    <2> SUFFICES ASSUME NEW c \in Sockets, NEW i \in 1 .. Len(up[c]), NEW a \in Ops(up[c][i])
                 PROVE  ~(n < a) /\ a <= n
      OBVIOUS
    <2>1. a \in Nat
      <3>1. up[c] \in Seq(UpMessage)
        BY Numbers DEF UpQueues
      <3>2. up[c][i] \in UpMessage
        BY <3>1, ElementOfSeq
      <3>3. a \in OpNumbers
        BY <3>2 DEF Ops, UpMessage
      <3> QED BY <3>3, OpsCount
    <2>2. a <= seq
      BY DEF OrderInv, Made
    <2> QED BY <1>2, <2>1, <2>2
  <1>7. \A c \in Sockets : Line(up[c], sess[c], A \cup {n}, J)
    <2>1. \A c \in Sockets : Line(up[c], sess[c], A, J)
      BY DEF OrderInv, Lines
    <2> HIDE DEF A, J
    <2> QED BY <1>6, <2>1, MoreWait
  <1>8. Started' /\ Past'
    <2>1. Started'
      <3> SUFFICES ASSUME NEW a \in J, NEW r \in B, r < a PROVE r \in J
        BY <1>4 DEF Started
      <3>1. a <= seq /\ a \in Nat
        BY Amounts, OpsCount DEF OrderInv, Made
      <3>2. r # n
        BY <1>2, <3>1
      <3> QED BY <1>5, <3>2 DEF OrderInv, Started
    <2>2. Past'
      <3> SUFFICES ASSUME NEW r \in outbox', r <= last PROVE r \in Done
        BY <1>1, <1>4 DEF Past, Done
      <3>1. r # n
        BY <1>2
      <3> QED BY <1>3, <3>1 DEF OrderInv, Past, Done
    <2> QED BY <2>1, <2>2
  <1>9. Turned'
    BY <1>1 DEF OrderInv, Turned
  <1>10. CASE live
    <2>1. UpwardLive({n}) /\ cur # 0 /\ synced /\ ~throttled
      BY <1>1, <1>10 DEF Edit, live
    <2>2. PICK g \in Seq(UpMessage) :
             /\ Upward(g)
             /\ \A i \in 1 .. Len(g) : g[i].t = "op" /\ g[i].s \in {n}
             /\ \A r \in {n} : \E i \in 1 .. Len(g) : g[i].s = r
      <3>1. {n} \subseteq OpNumbers
        BY <1>2
      <3> QED BY SMTT(60), <2>1, <3>1, SentLive
    <2>3. /\ sess[cur] = "gone" => up' = up
          /\ sess[cur] # "gone" => up[cur] \in Seq(UpMessage) /\ up'[cur] = up[cur] \o g
          /\ \A c \in Sockets : c # cur => up'[c] = up[c]
          /\ cur \in Sockets
      BY <1>1, <1>2, <2>1, <2>2, SentTo
    <2>4. Relied = A /\ Relied' = B
      BY <1>1, <2>1 DEF Relied
    <2>5. ASSUME sess[cur] # "gone"
          PROVE  Line(up'[cur], sess[cur], B, J) /\ Trust(up'[cur], sess[cur], B, J)
      <3>1. /\ Line(up[cur], sess[cur], A \cup {n}, J) /\ Trust(up[cur], sess[cur], A, J)
            /\ up[cur] \in Seq(UpMessage)
        BY <1>7, <2>1, <2>3, <2>4, <2>5 DEF OrderInv, Trusted
      <3>2. \A i \in 1 .. Len(g) : \A r \in A \cup {n} :
              r < g[i].s => r \in A \/ \E j \in 1 .. i : g[j].s = r
        <4>1. ~(n < n) /\ \A i \in 1 .. Len(g) : g[i].s = n
          BY <1>2, <2>2
        <4> QED BY <4>1
      <3>3. \A r \in B : r \in A \/ \E j \in 1 .. Len(g) : g[j].s = r
        BY <1>5, <2>2
      <3>4. B \subseteq A \cup {n} /\ J \cap B \subseteq J
        BY <1>5
      <3> HIDE DEF A, B, J
      <3>5. /\ Line(up[cur] \o g, sess[cur], A \cup {n}, J)
            /\ Trust(up[cur] \o g, sess[cur], B, J)
        BY <2>2, <3>1, <3>2, <3>3, JoinedOps
      <3>6. Line(up[cur] \o g, sess[cur], B, J)
        BY <3>4, <3>5, FewerWait
      <3> QED BY <2>3, <2>5, <3>5, <3>6
    <2>6. Lines'
      <3> SUFFICES ASSUME NEW c \in Sockets PROVE Line(up'[c], sess[c], B, J)
        BY <1>1, <1>4 DEF Lines
      <3>1. CASE c = cur /\ sess[cur] # "gone"
        BY <2>5, <3>1
      <3>2. CASE c # cur \/ sess[cur] = "gone"
        <4>1. up'[c] = up[c] /\ Line(up[c], sess[c], A \cup {n}, J)
          BY <1>7, <2>3, <3>2
        <4>2. B \subseteq A \cup {n} /\ J \cap B \subseteq J
          BY <1>5
        <4> HIDE DEF A, B, J
        <4>3. Line(up[c], sess[c], B, J)
          BY <4>1, <4>2, FewerWait
        <4> QED BY <4>1, <4>3
      <3> QED BY <3>1, <3>2
    <2>7. Trusted'
      BY <1>1, <1>4, <2>4, <2>5 DEF Trusted
    <2>8. Made'
      <3>1. \A i \in 1 .. Len(g) : \A a \in Ops(g[i]) : a <= n
        <4>1. \A i \in 1 .. Len(g) : Ops(g[i]) = {g[i].s} /\ g[i].s = n
          BY <2>2 DEF Ops
        <4>2. n <= n
          BY <1>2
        <4> QED BY <4>1, <4>2
      <3>2. \A c \in Sockets : \A i \in 1 .. Len(up'[c]) : \A a \in Ops(up'[c][i]) : a <= n
        BY <1>2, <2>2, <3>1, MadeStill DEF OrderInv
      <3>3. last <= n /\ answered <= n
        BY <1>2
      <3>4. \A a \in J : a <= n
        <4>1. \A a \in J : a <= seq /\ a \in Nat
          BY Amounts, OpsCount DEF OrderInv, Made
        <4> QED BY <1>2, <4>1
      <3> QED BY <1>1, <1>4, <3>2, <3>3, <3>4 DEF OrderInv, Made, Done
    <2> QED BY <1>8, <1>9, <2>6, <2>7, <2>8 DEF OrderInv
  <1>11. CASE ~live
    <2>1. up' = up
      BY <1>11 DEF Edit
    <2>2. Lines'
      <3> SUFFICES ASSUME NEW c \in Sockets PROVE Line(up[c], sess[c], B, J)
        BY <1>1, <1>4, <2>1 DEF Lines
      <3>1. B \subseteq A \cup {n} /\ J \cap B \subseteq J
        BY <1>5
      <3> HIDE DEF A, B, J
      <3> QED BY <1>7, <3>1, FewerWait
    <2>3. Trusted'
      <3> SUFFICES ASSUME cur # 0, sess[cur] # "gone"
                   PROVE  Trust(up[cur], sess[cur], Relied', J)
        BY <1>1, <1>4, <2>1 DEF Trusted
      <3>1. Relied' \subseteq Relied
        <4> SUFFICES ASSUME NEW r \in Relied' PROVE r \in Relied
          OBVIOUS
        <4>1. r \in B /\ r <= answered
          BY <1>1, <1>11 DEF Relied, live
        <4>2. r # n
          BY <1>2, <4>1
        <4> QED BY <1>5, <4>1, <4>2 DEF Relied
      <3>2. Trust(up[cur], sess[cur], Relied, J)
        BY DEF OrderInv, Trusted
      <3> DEFINE R == Relied'
      <3>3. R \subseteq Relied /\ J \cap R \subseteq J
        BY <3>1
      <3> HIDE DEF R, J
      <3> QED BY <3>2, <3>3, FewerSent DEF R
    <2>4. Made'
      <3>1. \A c \in Sockets : \A i \in 1 .. Len(up[c]) : \A a \in Ops(up[c][i]) : a <= n
        BY <1>6
      <3>2. last <= n /\ answered <= n
        BY <1>2
      <3>3. \A a \in J : a <= n
        <4>1. \A a \in J : a <= seq /\ a \in Nat
          BY Amounts, OpsCount DEF OrderInv, Made
        <4> QED BY <1>2, <4>1
      <3> QED BY <1>1, <1>4, <2>1, <3>1, <3>2, <3>3 DEF OrderInv, Made, Done
    <2> QED BY <1>8, <1>9, <2>2, <2>3, <2>4 DEF OrderInv
  <1> QED BY <1>10, <1>11

\* The client hears something: no more is pending; what it thinks sent was, or goes out now.
LEMMA HearOrder == TypeOK /\ BaseInv /\ OrderInv /\ Hear => OrderInv'
  <1> SUFFICES ASSUME TypeOK, BaseInv, OrderInv, Hear PROVE OrderInv'
    OBVIOUS
  <1> DEFINE m == Head(down)
  <1> DEFINE A == Waiting
  <1> DEFINE B == Waiting'
  <1> DEFINE J == Begun
  <1>1. /\ UNCHANGED <<seq, cur, sess, log, last, void, job>>
        /\ cur # 0 /\ down # <<>> /\ down' = Tail(down)
    BY DEF Hear, store
  <1>2. /\ cur \in Sockets /\ cur' \in Sockets \cup {0} /\ down \in Seq(DownMessage)
        /\ known \in Nat /\ version \in Nat /\ synced \in BOOLEAN /\ throttled \in BOOLEAN
        /\ seq \in Nat /\ answered \in Nat
        /\ outbox \subseteq OpNumbers /\ \A r \in outbox : r \in Nat /\ r <= seq
    BY <1>1, Numbers, Amounts
  <1>3. /\ Len(Tail(down)) = Len(down) - 1 /\ Len(down) \in Nat /\ Len(down) # 0 /\ m = down[1]
        /\ \A i \in 1 .. Len(Tail(down)) : Tail(down)[i] = down[i + 1]
    BY <1>1, <1>2, HeadTailProperties, EmptySeq
  <1>4. Says(m) /\ \A i \in 1 .. Len(down') : Says(down'[i])
    <2>1. \A i \in 1 .. Len(down) : Says(down[i])
      BY DEF OrderInv, Turned
    <2>2. 1 \in 1 .. Len(down) /\ \A i \in 1 .. Len(Tail(down)) : i + 1 \in 1 .. Len(down)
      BY <1>3
    <2> QED BY <1>1, <1>3, <2>1, <2>2
  <1>5. /\ m.t # "closed"
        /\ m.t = "patch" /\ synced => m.v = known + 1
    BY <1>1, <1>2, FirstIs DEF BaseInv, Flow
  <1>6. m.t # "refused" /\ (m.t = "limited" => "limit" \in Uses)
    BY <1>4 DEF Says
  <1>7. CASE /\ outbox' \subseteq outbox /\ up' = up /\ answered' = answered
             /\ Relied' \subseteq Relied
             /\ throttled' => throttled \/ "limit" \in Uses
    <2>1. B \subseteq A /\ Begun' = J /\ Done' = Done
      BY <1>1, <1>7 DEF Waiting, Begun, Done, Landed, version
    <2>2. Relied' \subseteq Relied /\ Relied' \subseteq B
      BY <1>7 DEF Relied
    <2>3. Lines' /\ Trusted' /\ Started'
      BY <1>1, <1>7, <2>1, <2>2, QuietOrder DEF OrderInv
    <2>4. Past' /\ Made'
      BY <1>1, <1>7, <2>1 DEF OrderInv, Past, Made, Done
    <2>5. Turned'
      BY <1>1, <1>4, <1>7 DEF OrderInv, Turned
    <2> QED BY <2>3, <2>4, <2>5 DEF OrderInv
  <1>8. ASSUME outbox' \subseteq outbox
        PROVE  B \subseteq A
    BY <1>1, <1>8 DEF Waiting
  <1> HIDE DEF m
  <1>9. CASE m.t = "patch" /\ HearPatch(m)
    <2>1. UNCHANGED <<outbox, state, up>>
      <3>1. known + 1 \in Nat /\ ~(known + 1 > known + 1)
        BY <1>2
      <3> QED BY <1>5, <1>9, <3>1 DEF HearPatch
    <2>2. Relied' = Relied
      BY <1>1, <2>1 DEF Relied, Waiting, state
    <2> QED BY <1>7, <2>1, <2>2 DEF state
  <1>10. CASE m.t = "ack" /\ HearAck(m)
    <2>1. UNCHANGED <<state, up>> /\ outbox' \subseteq outbox
      BY <1>10 DEF HearAck, Acknowledge
    <2>2. Relied' \subseteq Relied
      BY <1>8, <2>1 DEF Relied, state
    <2> QED BY <1>7, <2>1, <2>2 DEF state
  <1>11. CASE m.t = "limited" /\ HearLimited(m)
    <2>1. UNCHANGED <<outbox, synced, answered, up>> /\ throttled' = (throttled \/ m.s # 0)
      BY <1>11 DEF HearLimited
    <2>2. Relied' \subseteq Relied
      BY <1>8, <2>1 DEF Relied
    <2> QED BY <1>6, <1>7, <1>11, <2>1, <2>2
  <1>12. CASE m.t = "answer" /\ HearAnswer(m)
    <2>1. /\ outbox' \subseteq outbox /\ UNCHANGED <<throttled, answered>> /\ synced'
          /\ IF throttled THEN up' = up ELSE UpwardLive({s \in outbox' : s > answered})
      BY <1>12 DEF HearAnswer, Acknowledge
    <2>2. CASE throttled
      <3>1. Relied' \subseteq Relied
        BY <1>8, <2>1, <2>2 DEF Relied
      <3> QED BY <1>7, <2>1, <2>2, <3>1
    <2>3. CASE ~throttled
      <3> DEFINE S == {s \in outbox' : s > answered}
      <3> DEFINE P == {r \in B : r <= answered}
      <3>1. PICK g \in Seq(UpMessage) :
              /\ Upward(g)
              /\ \A i \in 1 .. Len(g) : g[i].t = "op" /\ g[i].s \in S
              /\ \A r \in S : \E i \in 1 .. Len(g) : g[i].s = r
              /\ \A i \in 1 .. Len(g) : \A r \in S : r < g[i].s => \E j \in 1 .. i : g[j].s = r
        <4>1. S \subseteq OpNumbers /\ UpwardLive(S)
          BY <1>2, <2>1, <2>3
        <4> HIDE DEF S
        <4> QED BY <4>1, SentLive
      <3>2. /\ sess[cur] = "gone" => up' = up
            /\ sess[cur] # "gone" => up[cur] \in Seq(UpMessage) /\ up'[cur] = up[cur] \o g
            /\ \A c \in Sockets : c # cur => up'[c] = up[c]
        BY <1>1, <1>2, <3>1, SentTo
      <3>3. B \subseteq A /\ Begun' = J /\ Done' = Done /\ J \cap B \subseteq J
        BY <1>1, <1>8, <2>1 DEF Begun, Done, Landed, version
      <3>4. Relied' = B
        BY <2>1, <2>3 DEF Relied
      <3>5. P \subseteq Relied /\ J \cap P \subseteq J
        BY <3>3 DEF Relied
      <3>6. \A r \in B : r \in P \/ r \in S
        <4> SUFFICES ASSUME NEW r \in B PROVE r \in P \/ r \in S
          OBVIOUS
        <4>1. r \in outbox' /\ r \in Nat
          BY <1>2, <2>1 DEF Waiting
        <4>2. r <= answered \/ r > answered
          BY <1>2, <4>1
        <4> QED BY <4>1, <4>2
      <3>7. \A c \in Sockets : Line(up[c], sess[c], B, J)
        <4>1. \A c \in Sockets : Line(up[c], sess[c], A, J)
          BY DEF OrderInv, Lines
        <4> HIDE DEF A, B, J
        <4> QED BY <3>3, <4>1, FewerWait
      <3>8. ASSUME sess[cur] # "gone"
            PROVE  Line(up'[cur], sess[cur], B, J) /\ Trust(up'[cur], sess[cur], B, J)
        <4>1. Line(up[cur], sess[cur], B, J) /\ up[cur] \in Seq(UpMessage)
          BY <1>2, <3>2, <3>7, <3>8
        <4>2. Trust(up[cur], sess[cur], Relied, J)
          BY <1>1, <3>8 DEF OrderInv, Trusted
        <4> HIDE DEF A, B, J, P, S
        <4>3. Trust(up[cur], sess[cur], P, J)
          BY <3>5, <4>2, FewerSent
        <4>4. \A i \in 1 .. Len(g) : \A r \in B :
                r < g[i].s => r \in P \/ \E j \in 1 .. i : g[j].s = r
          BY <3>1, <3>6
        <4>5. \A r \in B : r \in P \/ \E j \in 1 .. Len(g) : g[j].s = r
          BY <3>1, <3>6
        <4>6. \A i \in 1 .. Len(g) : g[i].t = "op"
          BY <3>1
        <4>7. Line(up[cur] \o g, sess[cur], B, J) /\ Trust(up[cur] \o g, sess[cur], B, J)
          BY <4>1, <4>3, <4>4, <4>5, <4>6, JoinedOps
        <4> QED BY <3>2, <3>8, <4>7
      <3>9. Lines'
        <4> SUFFICES ASSUME NEW c \in Sockets PROVE Line(up'[c], sess[c], B, J)
          BY <1>1, <3>3 DEF Lines
        <4>1. CASE c = cur /\ sess[cur] # "gone"
          BY <3>8, <4>1
        <4>2. CASE c # cur \/ sess[cur] = "gone"
          BY <3>2, <3>7, <4>2
        <4> QED BY <4>1, <4>2
      <3>10. Trusted'
        BY <1>1, <3>3, <3>4, <3>8 DEF Trusted
      <3>11. Started' /\ Past'
        BY <1>1, <2>1, <3>3 DEF OrderInv, Started, Past, Done
      <3>12. Made'
        <4>1. \A i \in 1 .. Len(g) : \A a \in Ops(g[i]) : a <= seq
          <5>1. \A i \in 1 .. Len(g) : Ops(g[i]) = {g[i].s} /\ g[i].s \in outbox
            BY <2>1, <3>1 DEF Ops
          <5> QED BY <1>2, <5>1
        <4>2. seq <= seq
          BY <1>2
        <4>3. \A c \in Sockets : \A i \in 1 .. Len(up'[c]) : \A a \in Ops(up'[c][i]) : a <= seq
          BY <1>2, <3>1, <4>1, <4>2, MadeStill DEF OrderInv
        <4> QED BY <1>1, <2>1, <3>3, <4>3 DEF OrderInv, Made, Done
      <3>13. Turned'
        BY <1>1, <1>4, <2>1 DEF OrderInv, Turned
      <3> QED BY <3>9, <3>10, <3>11, <3>12, <3>13 DEF OrderInv
    <2> QED BY <2>2, <2>3
  <1> QED BY <1>5, <1>6, <1>9, <1>10, <1>11, <1>12 DEF Hear, m

-----------------------------------------------------------------------------
(* A message is read.                                                      *)

\* What that takes of the socket it came on; K is the hello begun, if it is one.
LEMMA ReadOrder ==
  ASSUME TypeOK, OrderInv, NEW c \in Sockets, up[c] # <<>>, up' = [up EXCEPT ![c] = Tail(@)],
         \A d \in Sockets : d # c => sess'[d] = sess[d],
         UNCHANGED <<seq, outbox, cur, synced, throttled, answered>>,
         Begun = {}, NEW K, Begun' = K, \A a \in K : a <= seq,
         Waiting' \subseteq Waiting, Line(Tail(up[c]), sess'[c], Waiting', K),
         c = cur => Trust(Tail(up[c]), sess'[c], Relied', K),
         Started', Past', last' <= seq', \A r \in Done' : r <= last',
         sess'[c] = "held" => "limit" \in Uses,
         \A i \in 1 .. Len(down') : Says(down'[i])
  PROVE  OrderInv'
  <1> DEFINE A == Waiting
  <1> DEFINE B == Waiting'
  <1>1. /\ up'[c] = Tail(up[c]) /\ \A d \in Sockets : d # c => up'[d] = up[d]
        /\ up[c] \in Seq(UpMessage) /\ cur \in Sockets \cup {0}
    BY Numbers DEF UpQueues
  <1>2. Lines'
    <2> SUFFICES ASSUME NEW d \in Sockets PROVE Line(up'[d], sess'[d], B, K)
      BY DEF Lines
    <2>1. CASE d = c
      BY <1>1, <2>1
    <2>2. CASE d # c
      <3>1. Line(up[d], sess[d], A, {})
        BY DEF OrderInv, Lines
      <3>2. B \subseteq A /\ {} \cap B \subseteq K
        OBVIOUS
      <3> HIDE DEF A, B
      <3>3. Line(up[d], sess[d], B, K)
        BY <3>1, <3>2, FewerWait
      <3> QED BY <1>1, <2>2, <3>3
    <2> QED BY <2>1, <2>2
  <1>3. Trusted'
    <2> DEFINE R == Relied'
    <2> SUFFICES ASSUME cur # 0, sess'[cur] # "gone"
                 PROVE  Trust(up'[cur], sess'[cur], R, K)
      BY DEF Trusted
    <2>1. CASE c = cur
      BY <1>1, <2>1
    <2>2. CASE c # cur
      <3>1. cur \in Sockets /\ up'[cur] = up[cur] /\ sess'[cur] = sess[cur]
        BY <1>1, <2>2
      <3>2. Trust(up[cur], sess[cur], Relied, {})
        BY <3>1 DEF OrderInv, Trusted
      <3>3. R \subseteq Relied /\ {} \cap R \subseteq K
        BY DEF Relied
      <3> HIDE DEF R
      <3>4. Trust(up[cur], sess[cur], R, K)
        BY <3>2, <3>3, FewerSent
      <3> QED BY <3>1, <3>4
    <2> QED BY <2>1, <2>2
  <1>4. Made'
    <2>1. \A i \in 1 .. Len(Tail(up[c])) : Tail(up[c])[i] = up[c][i + 1] /\ i + 1 \in 1 .. Len(up[c])
      BY <1>1, Behind
    <2>2. \A d \in Sockets : \A i \in 1 .. Len(up'[d]) : \A a \in Ops(up'[d][i]) : a <= seq
      BY <1>1, <2>1 DEF OrderInv, Made
    <2> QED BY <2>2 DEF OrderInv, Made, Done
  <1>5. Turned'
    BY DEF OrderInv, Turned
  <1> QED BY <1>2, <1>3, <1>4, <1>5 DEF OrderInv

\* A live op turned away says so.
LEMMA LimitedSays ==
  ASSUME TypeOK, NEW c, NEW s \in Nat, Limited(c, s), "limit" \in Uses,
         \A i \in 1 .. Len(down) : Says(down[i])
  PROVE  \A i \in 1 .. Len(down') : Says(down'[i])
  <1> DEFINE x == [t |-> "limited", s |-> s]
  <1>1. x \in DownMessage /\ Says(x) /\ Downward(c, <<>>, <<x>>)
    BY DEF DownMessage, Says, Limited
  <1> HIDE DEF x
  <1>2. <<x>> \in Seq(DownMessage) /\ \A j \in 1 .. Len(<<x>>) : Says(<<x>>[j])
    BY <1>1
  <1> QED BY <1>1, <1>2, NothingSaid, SaysStill

\* The next message of a socket.
LEMMA ReceiveOrder ==
  ASSUME TypeOK, Willing, OrderInv, NEW c \in Sockets, Receive(c)
  PROVE  OrderInv'
  <1> DEFINE q == up[c]
  <1> DEFINE s == sess[c]
  <1> DEFINE m == Head(q)
  <1> DEFINE A == Waiting
  <1> DEFINE B == Waiting'
  <1> DEFINE P == IF c = cur THEN Relied ELSE {}
  <1> DEFINE R == IF c = cur THEN Relied' ELSE {}
  <1>1. /\ job = <<>> /\ s # "gone" /\ q # <<>> /\ up' = [up EXCEPT ![c] = Tail(@)]
        /\ UNCHANGED <<seq, outbox, cur, synced, throttled, answered>>
    BY DEF Receive, client, state
  <1>2. Begun = {}
    BY <1>1 DEF Begun
  <1>3. q \in Seq(UpMessage) /\ m \in UpMessage /\ m = q[1] /\ 1 \in 1 .. Len(q)
    <2>1. q \in Seq(UpMessage)
      BY Numbers DEF UpQueues
    <2>2. m \in UpMessage
      BY <1>1, ReadTypes
    <2> QED BY <1>1, <2>1, <2>2, Behind
  <1>4. Line(q, s, A, {}) /\ Trust(q, s, P, {}) /\ P \subseteq A
    <2>1. Line(q, s, A, {})
      BY <1>2 DEF OrderInv, Lines
    <2>2. c = cur => Trust(q, s, Relied, {})
      <3>1. c = cur => cur # 0
        BY Numbers
      <3> QED BY <1>1, <1>2, <3>1 DEF OrderInv, Trusted
    <2>3. Trust(q, s, {}, {})
      BY DEF Trust, Comes, Repeats
    <2> QED BY <2>1, <2>2, <2>3 DEF Relied
  <1>5. R \subseteq B /\ (B \subseteq A => R \subseteq P)
    BY <1>1 DEF Relied
  <1>6. \A a \in Ops(m) : a <= seq
    BY <1>3 DEF OrderInv, Made
  <1>7. \A i \in 1 .. Len(down) : Says(down[i])
    BY DEF OrderInv, Turned
  <1>8. /\ \A d \in Sockets : d # c => sess'[d] = sess[d]
        /\ \A z : sess' = [sess EXCEPT ![c] = z] => sess'[c] = z
    <2>1. \A z : sess' = [sess EXCEPT ![c] = z] => sess'[c] = z /\ \A d \in Sockets : d # c => sess'[d] = sess[d]
      BY Numbers
    <2>2. sess' = sess \/ \E z : sess' = [sess EXCEPT ![c] = z]
      BY DEF Receive, LiveOp, Hello
    <2> QED BY <2>1, <2>2
  <1>9. ASSUME Limited(c, m.s), m.t = "op", UNCHANGED job, "limit" \in Uses,
               Line(Tail(q), sess'[c], A, {}), Trust(Tail(q), sess'[c], P, {})
        PROVE  OrderInv'
    <2>1. UNCHANGED <<log, last, void, job>> /\ m.s \in Nat
      BY <1>3, <1>9 DEF Limited, store, UpMessage, OpNumbers
    <2>2. Waiting' = Waiting /\ Begun' = {} /\ Done' = Done
      BY <1>1, <1>2, <2>1 DEF Waiting, Begun, Done, Landed, version
    <2>3. Relied' = Relied
      BY <1>1, <2>2 DEF Relied
    <2>4. Started' /\ Past' /\ last' <= seq' /\ \A r \in Done' : r <= last'
      BY <1>1, <2>1, <2>2 DEF OrderInv, Started, Past, Made, Done
    <2>5. \A i \in 1 .. Len(down') : Says(down'[i])
      BY <1>7, <1>9, <2>1, LimitedSays
    <2>6. c = cur => Trust(Tail(q), sess'[c], Relied', {})
      BY <1>9, <2>3
    <2>7. Line(Tail(q), sess'[c], Waiting', {})
      BY <1>9, <2>2
    <2> DEFINE K == {}
    <2>8. /\ Begun' = K /\ \A a \in K : a <= seq
          /\ Line(Tail(q), sess'[c], Waiting', K)
          /\ c = cur => Trust(Tail(q), sess'[c], Relied', K)
      BY <2>2, <2>6, <2>7
    <2> HIDE DEF K
    <2> QED BY <1>1, <1>2, <1>8, <1>9, <2>2, <2>4, <2>5, <2>8, ReadOrder
  <1>10. CASE m.t = "op" /\ LiveOp(c, m.s) /\ UNCHANGED job
    <2>1. CASE s = "held" /\ UNCHANGED sess /\ Limited(c, m.s)
      <3>1. "limit" \in Uses
        BY <2>1 DEF OrderInv, Turned
      <3>2. q[1].t = "op" /\ q # <<>> /\ s = "held"
        BY <1>1, <1>3, <1>10, <2>1
      <3>3. Line(Tail(q), s, A, {}) /\ Trust(Tail(q), s, P, {})
        <4> HIDE DEF q, s, A, P, m
        <4> QED BY <1>3, <1>4, <3>2, BehindHeld
      <3> QED BY <1>9, <1>10, <2>1, <3>1, <3>3
    <2>2. CASE "limit" \in Uses /\ sess' = [sess EXCEPT ![c] = "held"] /\ Limited(c, m.s)
      <3>1. sess'[c] = "held"
        BY <1>8, <2>2
      <3> DEFINE z == sess'[c]
      <3>2. Line(Tail(q), z, A, {}) /\ Trust(Tail(q), z, P, {})
        <4>1. z = "held" /\ q # <<>> /\ "limit" \in Uses
          BY <1>1, <2>2, <3>1
        <4> HIDE DEF q, s, A, P, m, z
        <4> QED BY <1>3, <1>4, <4>1, BehindTurnedAway
      <3> QED BY <1>9, <1>10, <2>2, <3>2
    <2>3. CASE s # "held" /\ sess' = [sess EXCEPT ![c] = "open"] /\ Apply(c, m.s, TRUE)
      <3>1. m.s \in OpNumbers /\ m.s \in Nat /\ m.s <= seq /\ Ops(m) = {m.s}
        <4>1. m.s \in OpNumbers /\ Ops(m) = {m.s}
          BY <1>3, <1>10 DEF UpMessage, Ops
        <4> QED BY <1>6, <4>1, OpsCount
      <3>2. ASSUME NEW r \in A, r < m.s
            PROVE  FALSE
        <4>1. Heeded(q, s, 1)
          BY <2>3 DEF Heeded
        <4>2. Brings(q, s, 1, r)
          <5>1. m.s \in Ops(q[1])
            BY <1>3, <3>1
          <5> QED BY <1>3, <1>4, <3>2, <4>1, <5>1 DEF Line, InOrder
        <4>3. r \in Ops(q[1])
          <5>1. \A j \in 1 .. 1 : j = 1
            OBVIOUS
          <5> QED BY <4>2, <5>1 DEF Brings
        <4>4. r = m.s
          BY <1>3, <3>1, <4>3
        <4> QED BY <3>1, <3>2, <4>4
      <3>3. \/ m.s <= last /\ last' = last /\ Done' = Done
            \/ m.s > last /\ last' = m.s /\ Done' = Done \cup {m.s}
        <4> HIDE DEF m
        <4> QED BY <2>3, <3>1, ApplyDecides
      <3>4. /\ Past' /\ B \subseteq A /\ m.s \notin B
            /\ last' <= seq' /\ \A r \in Done' : r <= last'
        <4> HIDE DEF m
        <4> QED BY <1>1, <3>1, <3>2, <3>3, DecidedPast
      <3> DEFINE z == sess'[c]
      <3>5. z = "open" /\ \A r \in B : r \notin Ops(q[1])
        BY <1>3, <1>8, <2>3, <3>1, <3>4
      <3>6. R \subseteq P /\ R \subseteq B /\ {} \cap B \subseteq {} /\ {} \cap R \subseteq {}
        BY <1>5, <3>4
      <3>7. Line(q, s, B, {}) /\ Trust(q, s, R, {})
        <4> HIDE DEF q, s, A, B, P, R
        <4> QED BY <1>4, <3>4, <3>6, FewerWait, FewerSent
      <3>8. Line(Tail(q), z, B, {}) /\ Trust(Tail(q), z, R, {})
        <4>1. s # "held" /\ q # <<>> /\ z # "held"
          BY <1>1, <2>3, <3>5
        <4> HIDE DEF q, s, A, B, P, R, z, m
        <4> QED BY <1>3, <3>5, <3>6, <3>7, <4>1, BehindDecided
      <3>9. Begun' = {} /\ Started'
        BY <1>1, <1>10 DEF Begun, Started
      <3>10. \A i \in 1 .. Len(down') : Says(down'[i])
        <4> HIDE DEF m
        <4> QED BY <1>7, <2>3, <3>1, ApplySays
      <3> DEFINE K == {}
      <3>11. /\ Begun' = K /\ z # "held" /\ \A a \in K : a <= seq
             /\ Line(Tail(q), z, Waiting', K)
             /\ c = cur => Trust(Tail(q), z, Relied', K)
        BY <3>5, <3>8, <3>9
      <3> HIDE DEF K
      <3> QED BY <1>1, <1>2, <1>8, <3>4, <3>9, <3>10, <3>11, ReadOrder
    <2> QED BY <1>10, <2>1, <2>2, <2>3 DEF LiveOp
  <1>11. CASE m.t = "hello" /\ Hello(c, m)
    <2>1. /\ sess' = [sess EXCEPT ![c] = "open"]
          /\ job' = <<[c |-> c, ops |-> m.ops, since |-> m.since]>>
          /\ UNCHANGED <<log, last, void, down>>
      BY <1>11 DEF Hello, Willing, store
    <2> DEFINE z == sess'[c]
    <2> DEFINE K == m.ops
    <2>2. Begun' = K /\ z = "open" /\ Ops(m) = K
      <3>1. job' # <<>> /\ job'[1].ops = m.ops
        BY <2>1
      <3> QED BY <1>8, <1>11, <2>1, <3>1 DEF Begun, Ops
    <2>3. Waiting' = Waiting /\ Done' = Done
      BY <1>1, <2>1 DEF Waiting, Done, Landed, version
    <2>4. Relied' = Relied
      BY <1>1, <2>3 DEF Relied
    <2>5. /\ Line(Tail(q), z, A, K) /\ Trust(Tail(q), z, P, K)
          /\ \A a \in K : \A r \in A : r < a => r \in K
      <3>1. q # <<>> /\ q[1].t = "hello" /\ z # "held" /\ q[1].ops = K
        BY <1>1, <1>3, <1>11, <2>2
      <3> HIDE DEF q, s, A, P, z, m, K
      <3> QED BY <1>3, <1>4, <3>1, BehindHello
    <2>6. Started'
      BY <2>2, <2>3, <2>5 DEF Started
    <2>7. Past' /\ last' <= seq' /\ \A r \in Done' : r <= last'
      BY <1>1, <2>1, <2>3 DEF OrderInv, Past, Made, Done
    <2>8. \A a \in K : a <= seq
      BY <1>6, <2>2
    <2>9. (c = cur => Trust(Tail(q), z, Relied', K)) /\ z # "held" /\ Line(Tail(q), z, Waiting', K)
      BY <2>2, <2>3, <2>4, <2>5
    <2>10. \A i \in 1 .. Len(down') : Says(down'[i])
      BY <1>7, <2>1
    <2> HIDE DEF K
    <2> QED BY <1>1, <1>2, <1>8, <2>2, <2>3, <2>6, <2>7, <2>8, <2>9, <2>10, ReadOrder
  <1> QED BY <1>10, <1>11 DEF Receive

-----------------------------------------------------------------------------
(* The invariant, and the promise kept.                                    *)

\* Nothing waits before anything is made.
LEMMA InitOrder == Init => OrderInv
  <1> SUFFICES ASSUME Init PROVE OrderInv
    OBVIOUS
  <1>1. /\ seq = 0 /\ outbox = {} /\ answered = 0 /\ last = 0 /\ void = {} /\ log = <<>>
        /\ cur = 0 /\ throttled = FALSE /\ down = <<>> /\ job = <<>>
        /\ up = [c \in Sockets |-> <<>>] /\ sess = [c \in Sockets |-> "new"]
    BY DEF Init
  <1>2. Waiting = {} /\ Begun = {}
    BY <1>1 DEF Waiting, Begun
  <1>3. Len(<<>>) = 0 /\ \A i : i \notin 1 .. 0
    OBVIOUS
  <1>4. Landed \cup void = {}
    <2>1. version = 0
      BY <1>1, <1>3 DEF version
    <2> QED BY <1>1, <1>3, <2>1 DEF Landed
  <1>5. Lines
    BY <1>1, NothingInLine DEF Lines
  <1>6. Trusted /\ Started /\ Past
    BY <1>1, <1>2 DEF Trusted, Started, Past
  <1>7. Made
    BY <1>1, <1>2, <1>3, <1>4 DEF Made
  <1>8. Turned
    BY <1>1, <1>3 DEF Turned
  <1> QED BY <1>5, <1>6, <1>7, <1>8 DEF OrderInv

\* Every step of a willing store and its client keeps the order.
LEMMA StepOrder == TypeOK /\ BaseInv /\ Willing /\ OrderInv /\ [Next]_vars => OrderInv'
  <1> SUFFICES ASSUME TypeOK, BaseInv, Willing, OrderInv, [Next]_vars PROVE OrderInv'
    OBVIOUS
  <1>1. ~Unload /\ ~CommitFails
    BY DEF Unload, CommitFails, Willing
  <1>2. CASE Open \/ Drop \/ Restart \/ Save \/ Retry \/ HelloAgain \/ UNCHANGED vars
    BY <1>2, ClientOrder
  <1>3. CASE Edit \/ Hear
    BY <1>3, EditOrder, HearOrder
  <1>4. CASE Serving
    BY <1>4, HelloOpOrder, HelloAnsweredOrder, ReceiveOrder DEF Serving
  <1>5. CASE OthersWrite \/ \E c \in Sockets : ServerDrop(c)
    BY <1>5, OthersOrder, ServerDropOrder
  <1> QED BY <1>1, <1>2, <1>3, <1>4, <1>5 DEF Next

\* A message heard drops only what was decided.
LEMMA HearSettles == TypeOK /\ BaseInv /\ Owned /\ OrderInv /\ Hear => Delivery!Settle
  <1> SUFFICES ASSUME TypeOK, BaseInv, Owned, OrderInv, Hear PROVE Delivery!Settle
    OBVIOUS
  <1> DEFINE m == Head(down)
  <1>1. down # <<>> /\ down \in Seq(DownMessage) /\ synced \in BOOLEAN /\ known \in Nat
        /\ version \in Nat /\ last \in Nat /\ \A r \in outbox : r \in Nat
    BY Numbers, Amounts DEF Hear
  <1>2. m = down[1] /\ 1 \in 1 .. Len(down) /\ m \in DownMessage
    BY <1>1, HeadTailProperties, EmptySeq
  <1>3. m.t # "closed" /\ m.t # "refused"
    BY <1>1, <1>2, FirstIs DEF BaseInv, Flow, OrderInv, Turned, Says
  <1>4. m.t \in {"ack", "answer"} => m.s \in Nat /\ m.s <= last
    BY <1>2, Settles DEF Owned, Owns
  <1> HIDE DEF m
  <1>5. seq' = seq /\ Done' = Done
    BY DEF Hear, store, Done, Landed, version
  <1>6. outbox' = outbox \/ (m.t \in {"ack", "answer"} /\ Acknowledge(m.s))
    BY <1>3 DEF Hear, HearPatch, HearAck, HearAnswer, HearLimited, HearRefused, HearUnavailable, m
  <1> DEFINE gone == outbox \ outbox'
  <1>7. gone \subseteq Done
    <2> SUFFICES ASSUME NEW s \in outbox, s \notin outbox' PROVE s \in Done
      OBVIOUS
    <2>1. m.s \in Nat /\ m.s <= last /\ ~(s > m.s)
      BY <1>4, <1>6 DEF Acknowledge
    <2>2. s <= last
      BY <1>1, <2>1
    <2> QED BY <2>2 DEF OrderInv, Past, Done
  <1>8. outbox' = outbox \ gone
    BY <1>6 DEF Acknowledge
  <1> HIDE DEF gone
  <1> QED BY <1>5, <1>7, <1>8 DEF Delivery!Settle, Done

\* An op decided is decided once, after those decided before it.
LEMMA OpDecided ==
  ASSUME TypeOK, Willing, OrderInv, NEW c, NEW s \in OpNumbers, NEW isLive, Apply(c, s, isLive),
         s <= seq, UNCHANGED <<seq, outbox>>
  PROVE  Delivery!Decide \/ Done' = Done
  <1>1. \/ s <= last /\ last' = last /\ Done' = Done
        \/ s > last /\ last' = s /\ Done' = Done \cup {s}
    BY ApplyDecides
  <1>2. ASSUME s > last, Done' = Done \cup {s}
        PROVE  Delivery!Decide
    <2>1. s \in Nat /\ s # 0 /\ last \in Nat /\ seq \in Nat
      BY OpsCount, Amounts
    <2>2. \A d \in Done : d \in Nat /\ d <= last
      BY LandedOps, OpsCount DEF OrderInv, Made, Done
    <2>3. \A d \in Done : d < s
      BY <1>2, <2>1, <2>2
    <2>4. s \in 1 .. seq
      BY <2>1
    <2> QED BY <1>2, <2>3, <2>4 DEF Delivery!Decide, Done
  <1> QED BY <1>1, <1>2

\* Each step makes an op, decides one, settles some, or is none of the promise's.
LEMMA DeliveryStep ==
  ASSUME TypeOK, BaseInv, Willing, Owned, OrderInv, [Next]_vars
  PROVE  [Delivery!Make \/ Delivery!Decide \/ Delivery!Settle]_<<seq, outbox, Landed \cup void>>
  <1>1. ~Unload /\ ~CommitFails
    BY DEF Unload, CommitFails, Willing
  <1>2. CASE UNCHANGED <<seq, outbox, log, last, void>>
    BY <1>2 DEF Landed, version
  <1>3. CASE \/ Open \/ Drop \/ Restart \/ Save \/ Retry \/ HelloAgain \/ HelloAnswered
             \/ UNCHANGED vars \/ \E c \in Sockets : ServerDrop(c)
    BY <1>2, <1>3 DEF Open, Drop, Restart, Save, Retry, HelloAgain, HelloAnswered, ServerDrop, vars,
                      client, store
  <1>4. CASE Edit
    <2>1. /\ seq' = seq + 1 /\ UNCHANGED <<log, void>>
          /\ \E old \in SUBSET outbox : outbox' = (outbox \ old) \cup {seq'}
      BY <1>4 DEF Edit, store
    <2>2. Landed' = Landed
      BY <2>1 DEF Landed, version
    <2> QED BY <2>1, <2>2 DEF Delivery!Make
  <1>5. CASE Hear
    BY <1>5, HearSettles
  <1>6. CASE HelloOp
    <2>1. UNCHANGED <<seq, outbox>> /\ job # <<>>
      BY <1>6 DEF HelloOp, client
    <2>2. PICK s \in job[1].ops : Apply(job[1].c, s, FALSE)
      BY <1>6 DEF HelloOp
    <2>3. s \in OpNumbers /\ s <= seq
      BY <2>1, JobTypes DEF OrderInv, Made, Begun
    <2>4. Delivery!Decide \/ Done' = Done
      BY <2>1, <2>2, <2>3, OpDecided
    <2> QED BY <2>1, <2>4 DEF Done
  <1>7. ASSUME NEW c \in Sockets, Receive(c)
        PROVE  [Delivery!Make \/ Delivery!Decide \/ Delivery!Settle]_<<seq, outbox, Landed \cup void>>
    <2> DEFINE m == Head(up[c])
    <2>1. UNCHANGED <<seq, outbox>> /\ up[c] # <<>> /\ m \in UpMessage
      BY <1>7, ReadTypes DEF Receive, client
    <2>2. CASE UNCHANGED store
      BY <1>2, <2>1, <2>2 DEF store
    <2>3. CASE m.t = "op" /\ Apply(c, m.s, TRUE)
      <3>1. m.s \in OpNumbers /\ m.s \in Ops(m)
        BY <2>1, <2>3 DEF UpMessage, Ops
      <3>2. m = up[c][1] /\ 1 \in 1 .. Len(up[c])
        <4>1. up[c] \in Seq(UpMessage)
          BY Numbers DEF UpQueues
        <4> QED BY <2>1, <4>1, Behind
      <3>3. m.s <= seq
        BY <3>1, <3>2 DEF OrderInv, Made
      <3> HIDE DEF m
      <3>4. Delivery!Decide \/ Done' = Done
        BY <2>1, <2>3, <3>1, <3>3, OpDecided
      <3> QED BY <2>1, <3>4 DEF Done
    <2> QED BY <1>7, <2>2, <2>3 DEF Receive, LiveOp, Hello, Limited
  <1>8. CASE OthersWrite
    <2>1. UNCHANGED <<seq, outbox, void>> /\ log' = Append(log, 0)
      BY <1>8 DEF OthersWrite, client
    <2>2. 0 \in 0 .. MaxOps
      BY SyncAssumption
    <2>3. Landed' = Landed \cup ({0} \ {0})
      BY <2>1, <2>2, LandedWith
    <2> QED BY <2>1, <2>3
  <1> QED BY <1>1, <1>3, <1>4, <1>5, <1>6, <1>7, <1>8 DEF Next, Serving

\* The client and the store keep the promise of OpDelivery (docs/protocol.md:12-18,
\* docs/offline.md): each op is decided at most once, in the order the ops were made, and
\* leaves the outbox only once it was decided or a newer one took its place; however sockets
\* drop and whatever page reloads, and with ops losing whole or giving way.  Where live ops
\* may be turned away for the rate, the outbox has to fit one hello.
THEOREM OpsDelivered ==
  ASSUME Uses \cap {"refuse", "unload", "fail", "limithello"} = {},
         "limit" \in Uses => MaxOps <= HelloLimit
  PROVE  Spec => Delivers
  <1>1. Willing /\ "unload" \notin Uses /\ "fail" \notin Uses
    BY DEF Willing
  <1>2. Init => BaseInv /\ Owned /\ OrderInv
    <2>1. Len(<<>>) = 0 /\ \A i : i \notin 1 .. 0
      OBVIOUS
    <2> QED BY <2>1, InitBase, InitOrder DEF Init, Owned
  <1>3. TypeOK /\ BaseInv /\ Owned /\ OrderInv /\ [Next]_vars => (BaseInv /\ Owned /\ OrderInv)'
    BY <1>1, StepBase, OwnedStep, StepOrder
  <1>4. Init => Delivery!Init
    <2>1. Init => log = <<>> /\ void = {} /\ seq = 0 /\ outbox = {}
      BY DEF Init
    <2>2. log = <<>> => Landed = {}
      <3>1. Len(<<>>) = 0 /\ \A i : i \notin 1 .. 0
        OBVIOUS
      <3> QED BY <3>1 DEF Landed, version
    <2> QED BY <2>1, <2>2 DEF Delivery!Init
  <1>5. TypeOK /\ BaseInv /\ Owned /\ OrderInv /\ [Next]_vars
          => [Delivery!Make \/ Delivery!Decide \/ Delivery!Settle]_<<seq, outbox, Landed \cup void>>
    BY <1>1, DeliveryStep
  <1> QED BY <1>2, <1>3, <1>4, <1>5, TypeCorrect, PTL DEF Spec, Delivers, Delivery!Spec
=============================================================================
