---------------------------- MODULE Replica_flow ----------------------------
(***************************************************************************)
(* What keeps the parts of the invariant of Replica_inv.tla: rows that     *)
(* changes are laid on, what a history has of the replica's ops, messages  *)
(* that are taken and sent while the store goes on or is put back from a   *)
(* backup, and what storage comes to with the writes on their way to it.   *)
(***************************************************************************)
EXTENDS Replica_inv, FiniteSetTheorems, SequenceTheorems, TLAPS

-------------------------------------------------------------------------------
(* Numbers and sequences.                                                  *)

\* A set of naturals that is not empty has a smallest one.
LEMMA SmallestOf ==
  ASSUME NEW S \in SUBSET Nat, S # {}
  PROVE  \E x \in S : \A y \in S : x <= y
  <1> DEFINE R == {p \in Nat \X Nat : p[1] < p[2]}
  <1>1. IsWellFoundedOn(R, Nat)
    BY NatLessThanWellFounded, Zenon DEF OpToRel
  <1> HIDE DEF R
  <1>2. PICK x \in S : \A y \in S : ~(<<y, x>> \in R)
    BY <1>1, WFMin
  <1>3. ASSUME NEW y \in S PROVE x <= y
    <2>1. <<y, x>> \notin R
      BY <1>2
    <2>2. x \in Nat /\ y \in Nat
      OBVIOUS
    <2> QED BY <2>1, <2>2 DEF R
  <1> QED BY <1>3

\* The latest of the places of a sequence is one of them, and none is later.
LEMMA LatestIs ==
  ASSUME NEW n \in Nat, NEW S \in SUBSET (1 .. n), S # {}
  PROVE  Latest(S) \in S /\ \A j \in S : j <= Latest(S)
  <1> DEFINE B == {m \in Nat : \A j \in S : j <= m}
  <1>1. n \in B
    OBVIOUS
  <1>2. PICK m \in B : \A y \in B : m <= y
    <2>1. B \in SUBSET Nat
      OBVIOUS
    <2> HIDE DEF B
    <2> QED BY <1>1, <2>1, SmallestOf
  <1>3. m \in S
    <2> SUFFICES ASSUME m \notin S PROVE FALSE
      OBVIOUS
    <2>1. \A j \in S : j \in Nat /\ j >= 1 /\ j <= m /\ j # m
      BY <1>2
    <2>2. \A j \in S : j <= m - 1
      BY <1>2, <2>1
    <2>3. m - 1 \in Nat
      <3>1. PICK j \in S : TRUE
        OBVIOUS
      <3> QED BY <1>2, <2>1, <3>1
    <2>4. m - 1 \in B
      BY <2>2, <2>3
    <2>5. m \in Nat /\ m <= m - 1
      BY <1>2, <2>4
    <2> QED BY <2>5
  <1>4. \A j \in S : j <= m
    BY <1>2
  <1> HIDE DEF B
  <1> QED BY <1>3, <1>4 DEF Latest

\* The steps of Kept().
OneKept(s, S, i, before) == IF s[i] \in S THEN Append(before, s[i]) ELSE before
Keeping(f, s, S, n) ==
  f = [i \in 0 .. n |-> IF i = 0 THEN <<>> ELSE OneKept(s, S, i, f[i - 1])]

\* Something is kept.
LEMMA KeepingExists ==
  ASSUME NEW s, NEW S, NEW n \in Nat
  PROVE  \E f : Keeping(f, s, S, n)
  <1> DEFINE T == {m \in Nat : ~\E f : Keeping(f, s, S, m)}
  <1> SUFFICES ASSUME T # {} PROVE FALSE
    OBVIOUS
  <1>1. T \subseteq Nat
    OBVIOUS
  <1>2. 0 \notin T
    <2>1. Keeping([i \in 0 .. 0 |-> <<>>], s, S, 0)
      BY DEF Keeping
    <2> QED BY <2>1
  <1> HIDE DEF T
  <1>3. PICK m \in T : \A y \in T : m <= y
    BY <1>1, SmallestOf
  <1>4. m \in Nat /\ m - 1 \in Nat /\ m - 1 \notin T
    BY <1>1, <1>2, <1>3
  <1>5. PICK g : Keeping(g, s, S, m - 1)
    BY <1>4 DEF T
  <1> DEFINE G == [i \in 0 .. m |-> IF i = 0 THEN <<>> ELSE OneKept(s, S, i, g[i - 1])]
  <1>6. \A i \in 0 .. m - 1 : G[i] = g[i]
    <2> SUFFICES ASSUME NEW i \in 0 .. m - 1 PROVE G[i] = g[i]
      OBVIOUS
    <2>1. g[i] = IF i = 0 THEN <<>> ELSE OneKept(s, S, i, g[i - 1])
      BY <1>4, <1>5 DEF Keeping
    <2>2. i \in 0 .. m
      BY <1>4
    <2> QED BY <2>1, <2>2
  <1>7. \A i \in 0 .. m : i # 0 => G[i - 1] = g[i - 1]
    <2> SUFFICES ASSUME NEW i \in 0 .. m, i # 0 PROVE G[i - 1] = g[i - 1]
      OBVIOUS
    <2>1. i - 1 \in 0 .. m - 1
      BY <1>4
    <2> HIDE DEF G
    <2> QED BY <1>6, <2>1
  <1>8. Keeping(G, s, S, m)
    BY <1>7 DEF Keeping
  <1>9. m \notin T
    <2> HIDE DEF G
    <2> QED BY <1>8 DEF T
  <1> QED BY <1>3, <1>9

\* Another entry at the end of a sequence is one more element of it.
LEMMA ElementsAppend ==
  ASSUME NEW A, NEW s \in Seq(A), NEW a \in A
  PROVE  /\ Append(s, a) \in Seq(A)
         /\ Elements(Append(s, a)) = Elements(s) \cup {a}
  <1> DEFINE q == Append(s, a)
  <1>1. /\ q \in Seq(A) /\ Len(q) = Len(s) + 1 /\ q[Len(s) + 1] = a
        /\ \A i \in 1 .. Len(s) : q[i] = s[i]
    OBVIOUS
  <1>2. DOMAIN q = 1 .. Len(s) + 1 /\ DOMAIN s = 1 .. Len(s) /\ Len(s) \in Nat
    BY <1>1
  <1>3. DOMAIN q = DOMAIN s \cup {Len(s) + 1}
    BY <1>2
  <1> HIDE DEF q
  <1>4. Elements(q) = Elements(s) \cup {a}
    BY <1>1, <1>2, <1>3 DEF Elements
  <1> QED BY <1>1, <1>4 DEF q

\* What is kept of a sequence in the order of its seqs is in that order, and no more or less.
LEMMA KeptIs ==
  ASSUME NEW s \in Seq(Op), Ascends(s), NEW S
  PROVE  /\ Kept(s, S) \in Seq(Op) /\ Ascends(Kept(s, S))
         /\ Elements(Kept(s, S)) = Elements(s) \cap S
  <1> DEFINE n == Len(s)
             f == CHOOSE g : Keeping(g, s, S, n)
             Firsts(i) == {s[j] : j \in 1 .. i}
             OK(i) == /\ f[i] \in Seq(Op) /\ Ascends(f[i])
                      /\ Elements(f[i]) = Firsts(i) \cap S
             T == {i \in 0 .. n : ~OK(i)}
  <1>1. n \in Nat /\ DOMAIN s = 1 .. n
    OBVIOUS
  <1>2. Keeping(f, s, S, n)
    BY <1>1, KeepingExists
  <1>3. Kept(s, S) = f[n]
    BY DEF Kept, Keeping, OneKept
  <1> HIDE DEF f
  <1>4. \A i \in 0 .. n : f[i] = IF i = 0 THEN <<>> ELSE OneKept(s, S, i, f[i - 1])
    BY <1>2 DEF Keeping
  <1>5. T = {}
    <2> SUFFICES ASSUME T # {} PROVE FALSE
      OBVIOUS
    <2>1. T \in SUBSET Nat
      BY <1>1
    <2>2. PICK m \in T : \A y \in T : m <= y
      <3> HIDE DEF T
      <3> QED BY <2>1, SmallestOf
    <2>3. m \in 0 .. n /\ ~OK(m)
      OBVIOUS
    <2>4. m # 0
      <3> SUFFICES ASSUME m = 0 PROVE OK(0)
        BY <2>3
      <3>1. f[0] = <<>>
        BY <1>1, <1>4
      <3>2. Firsts(0) = {}
        OBVIOUS
      <3> HIDE DEF Firsts
      <3> QED BY <3>1, <3>2 DEF Ascends, Elements
    <2>5. m - 1 \in 0 .. n /\ m \in 1 .. n
      BY <1>1, <2>3, <2>4
    <2>6. OK(m - 1)
      <3> SUFFICES ASSUME m - 1 \in T PROVE FALSE
        BY <2>5
      <3> HIDE DEF T
      <3> QED BY <2>2, <2>5
    <2>7. f[m] = OneKept(s, S, m, f[m - 1])
      BY <1>4, <2>3, <2>4
    <2>8. Firsts(m) = Firsts(m - 1) \cup {s[m]}
      BY <2>5
    <2>9. s[m] \in Op
      BY <2>5
    <2>10. \A p \in Elements(f[m - 1]) : p.seq < s[m].seq
      <3> SUFFICES ASSUME NEW p \in Elements(f[m - 1]) PROVE p.seq < s[m].seq
        OBVIOUS
      <3>1. p \in Firsts(m - 1)
        BY <2>6
      <3>2. PICK j \in 1 .. m - 1 : p = s[j]
        BY <3>1
      <3>3. j \in DOMAIN s /\ m \in DOMAIN s /\ j < m
        BY <1>1, <2>5
      <3> QED BY <3>2, <3>3 DEF Ascends
    <2> DEFINE g == f[m - 1]
               q == f[m]
    <2>11. CASE s[m] \in S
      <3>1. q = Append(g, s[m])
        BY <2>7, <2>11 DEF OneKept
      <3>2. q \in Seq(Op) /\ Elements(q) = Elements(g) \cup {s[m]}
        BY <2>6, <2>9, <3>1, ElementsAppend
      <3>3. Ascends(q)
        <4> SUFFICES ASSUME NEW i \in DOMAIN q, NEW j \in DOMAIN q, i < j
                     PROVE  q[i].seq < q[j].seq
          BY DEF Ascends
        <4>1. /\ g \in Seq(Op) /\ Ascends(g)
          BY <2>6
        <4>2. /\ DOMAIN q = 1 .. Len(g) + 1 /\ Len(g) \in Nat /\ DOMAIN g = 1 .. Len(g)
              /\ q[Len(g) + 1] = s[m] /\ \A l \in 1 .. Len(g) : q[l] = g[l]
          BY <3>1, <4>1, <2>9
        <4> HIDE DEF g, q
        <4>3. CASE j = Len(g) + 1
          <5>1. i \in DOMAIN g
            BY <4>2, <4>3
          <5>2. g[i] \in Elements(g)
            BY <5>1 DEF Elements
          <5> QED BY <2>10, <4>2, <4>3, <5>1, <5>2 DEF g
        <4>4. CASE j # Len(g) + 1
          BY <4>1, <4>2, <4>4 DEF Ascends
        <4> QED BY <4>3, <4>4
      <3>4. Elements(q) = Firsts(m) \cap S
        <4> HIDE DEF Firsts
        <4> QED BY <2>6, <2>8, <2>11, <3>2
      <3> QED BY <2>3, <3>2, <3>3, <3>4
    <2>12. CASE s[m] \notin S
      <3>1. q = g
        BY <2>7, <2>12 DEF OneKept
      <3>2. Firsts(m) \cap S = Firsts(m - 1) \cap S
        <4> HIDE DEF Firsts
        <4> QED BY <2>8, <2>12
      <3> QED BY <2>3, <2>6, <3>1, <3>2
    <2> QED BY <2>11, <2>12
  <1>6. OK(n)
    <2>1. n \in 0 .. n
      BY <1>1
    <2> HIDE DEF OK
    <2> QED BY <1>5, <2>1
  <1>7. Firsts(n) = Elements(s)
    BY <1>1 DEF Elements
  <1> QED BY <1>3, <1>6, <1>7

-------------------------------------------------------------------------------
(* Rows, and the changes laid on them.                                     *)

\* A record that changes write has one that is the last to do so.
LEMMA LastTouch ==
  ASSUME NEW ops \in Seq(Op), NEW r, NEW k \in 0 .. Len(ops)
  PROVE  \/ NoneAfter(ops, k, r)
         \/ \E i \in k + 1 .. Len(ops) : r \in ops[i].recs /\ NoneAfter(ops, i, r)
  <1> DEFINE n == Len(ops)
             S == {i \in k + 1 .. n : r \in ops[i].recs}
  <1>1. n \in Nat
    OBVIOUS
  <1>2. CASE S = {}
    BY <1>2 DEF NoneAfter
  <1>3. CASE S # {}
    <2>1. S \in SUBSET (1 .. n)
      BY <1>1
    <2> HIDE DEF S
    <2>2. PICK i : i \in S /\ \A j \in S : j <= i
      BY <1>1, <1>3, <2>1, LatestIs
    <2> USE DEF S
    <2>3. i \in k + 1 .. n /\ r \in ops[i].recs
      BY <2>2
    <2>4. ASSUME NEW j \in i + 1 .. n PROVE r \notin ops[j].recs
      BY <1>1, <2>2, <2>3, <2>4
    <2> QED BY <2>3, <2>4 DEF NoneAfter
  <1> QED BY <1>2, <1>3

\* A record is that of the last change that writes it, or as it was.
LEMMA LaidIs ==
  ASSUME NEW base, NEW ops \in Seq(Op), NEW r \in Records
  PROVE  /\ NoneAfter(ops, 0, r) => Laid(base, ops)[r] = base[r]
         /\ \A k \in 1 .. Len(ops) : r \in ops[k].recs /\ NoneAfter(ops, k, r) =>
              Laid(base, ops)[r] = ops[k].n
  <1> DEFINE n == Len(ops)
             S == {i \in DOMAIN ops : r \in ops[i].recs}
  <1>1. n \in Nat /\ DOMAIN ops = 1 .. n
    OBVIOUS
  <1>2. Laid(base, ops)[r] = IF S = {} THEN base[r] ELSE ops[Latest(S)].n
    BY DEF Laid
  <1>3. ASSUME NoneAfter(ops, 0, r) PROVE S = {}
    BY <1>1, <1>3 DEF NoneAfter
  <1>4. ASSUME NEW k \in 1 .. n, r \in ops[k].recs, NoneAfter(ops, k, r)
        PROVE  S # {} /\ Latest(S) = k
    <2>1. k \in S /\ S \in SUBSET (1 .. n)
      BY <1>1, <1>4
    <2>2. \A j \in S : j <= k
      BY <1>1, <1>4 DEF NoneAfter
    <2> HIDE DEF S
    <2>3. Latest(S) \in S /\ \A j \in S : j <= Latest(S)
      BY <1>1, <2>1, LatestIs
    <2>4. Latest(S) <= k /\ k <= Latest(S)
      BY <2>1, <2>2, <2>3
    <2>5. Latest(S) \in 1 .. n
      BY <2>1, <2>3
    <2> QED BY <1>1, <2>1, <2>4, <2>5
  <1> HIDE DEF S
  <1>5. NoneAfter(ops, 0, r) => Laid(base, ops)[r] = base[r]
    BY <1>2, <1>3
  <1>6. ASSUME NEW k \in 1 .. n, r \in ops[k].recs, NoneAfter(ops, k, r)
        PROVE  Laid(base, ops)[r] = ops[k].n
    <2>1. S # {} /\ Latest(S) = k
      BY <1>4, <1>6
    <2> QED BY <1>2, <2>1
  <1> QED BY <1>5, <1>6

\* Rows stay rows.
LEMMA LaidRows ==
  ASSUME NEW base \in Rows, NEW ops \in Seq(Op)
  PROVE  Laid(base, ops) \in Rows
  <1>1. ASSUME NEW r \in Records PROVE Laid(base, ops)[r] \in Nat
    <2>1. Len(ops) \in Nat /\ \A k \in 1 .. Len(ops) : ops[k].n \in Nat
      <3>1. \A k \in 1 .. Len(ops) : ops[k] \in Op
        OBVIOUS
      <3>2. \A o \in Op : o.n \in Nat
        BY DEF Op
      <3> QED BY <3>1, <3>2
    <2>2. CASE NoneAfter(ops, 0, r)
      <3>1. Laid(base, ops)[r] = base[r]
        BY <2>2, LaidIs
      <3> QED BY <3>1 DEF Rows
    <2>3. CASE ~NoneAfter(ops, 0, r)
      <3>1. PICK i \in 0 + 1 .. Len(ops) : r \in ops[i].recs /\ NoneAfter(ops, i, r)
        BY <2>1, <2>3, LastTouch
      <3> QED BY <2>1, <3>1, LaidIs
    <2> QED BY <2>2, <2>3
  <1>2. Laid(base, ops) = [r \in Records |-> Laid(base, ops)[r]]
    BY DEF Laid
  <1> QED BY <1>1, <1>2 DEF Rows

\* The records of a history are rows.
LEMMA StateRows ==
  ASSUME NEW h \in Seq(Op)
  PROVE  Blank \in Rows /\ StateOf(h) \in Rows
  <1>1. Blank \in Rows
    BY DEF Blank, Rows
  <1> QED BY <1>1, LaidRows DEF StateOf

\* One history goes on from another.
Extends(g, h) == Len(h) <= Len(g) /\ \A k \in 1 .. Len(h) : g[k] = h[k]

\* What a record is depends on the changes up to the last that writes it.
LEMMA StateUpTo ==
  ASSUME NEW h \in Seq(Op), NEW g \in Seq(Op), Extends(g, h), NEW r \in Records,
         NoneAfter(g, Len(h), r)
  PROVE  StateOf(g)[r] = StateOf(h)[r]
  <1>1. Len(h) \in Nat /\ Len(g) \in Nat /\ Len(h) <= Len(g)
        /\ \A k \in 1 .. Len(h) : g[k] = h[k]
    BY DEF Extends
  <1>2. CASE NoneAfter(h, 0, r)
    <2>1. NoneAfter(g, 0, r)
      BY <1>1, <1>2 DEF NoneAfter
    <2>2. StateOf(g)[r] = Blank[r] /\ StateOf(h)[r] = Blank[r]
      BY <1>2, <2>1, LaidIs DEF StateOf
    <2> QED BY <2>2
  <1>3. CASE ~NoneAfter(h, 0, r)
    <2>1. PICK i \in 1 .. Len(h) : r \in h[i].recs /\ NoneAfter(h, i, r)
      <3>1. 0 \in 0 .. Len(h)
        BY <1>1
      <3>2. \E i \in 0 + 1 .. Len(h) : r \in h[i].recs /\ NoneAfter(h, i, r)
        BY <1>3, <3>1, LastTouch
      <3> QED BY <3>2
    <2>2. i \in 1 .. Len(g) /\ r \in g[i].recs /\ g[i] = h[i]
      BY <1>1, <2>1
    <2>3. NoneAfter(g, i, r)
      <3> SUFFICES ASSUME NEW j \in i + 1 .. Len(g) PROVE r \notin g[j].recs
        BY DEF NoneAfter
      <3>1. CASE j <= Len(h)
        BY <1>1, <2>1, <3>1 DEF NoneAfter
      <3>2. CASE j > Len(h)
        BY <1>1, <3>2 DEF NoneAfter
      <3> QED BY <1>1, <2>1, <3>1, <3>2
    <2>4. StateOf(g)[r] = g[i].n /\ StateOf(h)[r] = h[i].n
      BY <2>1, <2>2, <2>3, LaidIs DEF StateOf
    <2> QED BY <2>2, <2>4
  <1> QED BY <1>2, <1>3

\* Rows are as of a version when the history goes on.
LEMMA AsOfGrows ==
  ASSUME NEW h \in Seq(Op), NEW g \in Seq(Op), Extends(g, h),
         NEW rows, NEW v \in Nat, AsOf(rows, v, h)
  PROVE  AsOf(rows, v, g)
  <1>1. Len(h) \in Nat /\ Len(g) \in Nat /\ Len(h) <= Len(g) /\ v <= Len(h)
        /\ \A k \in 1 .. Len(h) : g[k] = h[k]
    BY DEF Extends, AsOf
  <1>2. ASSUME NEW r \in Records, NoneAfter(g, v, r) PROVE rows[r] = StateOf(g)[r]
    <2>1. NoneAfter(g, Len(h), r)
      BY <1>1, <1>2 DEF NoneAfter
    <2>2. NoneAfter(h, v, r)
      BY <1>1, <1>2 DEF NoneAfter
    <2> QED BY <2>1, <2>2, StateUpTo DEF AsOf
  <1> QED BY <1>1, <1>2 DEF AsOf

\* The changes of a history from one version to another.
LEMMA Between ==
  ASSUME NEW h \in Seq(Op), NEW a \in 0 .. Len(h), NEW b \in a .. Len(h)
  PROVE  LET s == SubSeq(h, a + 1, b)
         IN  /\ s \in Seq(Op) /\ Len(s) = b - a
             /\ \A i \in 1 .. b - a : s[i] = h[a + i]
  OBVIOUS

\* Laid on rows no older than they are, changes up to version v make the rows those of v.
LEMMA LaidIsAsOf ==
  ASSUME NEW h \in Seq(Op), NEW rows, NEW was \in Nat, AsOf(rows, was, h),
         NEW v \in 0 .. Len(h), NEW since \in 0 .. v, since <= was
  PROVE  AsOf(Laid(rows, SubSeq(h, since + 1, v)), v, h)
  <1> DEFINE s == SubSeq(h, since + 1, v)
  <1>1. Len(h) \in Nat /\ since \in 0 .. Len(h) /\ v \in since .. Len(h)
        /\ v \in Nat /\ since \in Nat
    OBVIOUS
  <1>2. s \in Seq(Op) /\ Len(s) = v - since /\ \A i \in 1 .. v - since : s[i] = h[since + i]
    BY <1>1, Between
  <1> HIDE DEF s
  <1>3. ASSUME NEW r \in Records, NoneAfter(h, v, r)
        PROVE  Laid(rows, s)[r] = StateOf(h)[r]
    <2>1. CASE NoneAfter(s, 0, r)
      <3>1. NoneAfter(h, since, r)
        <4> SUFFICES ASSUME NEW j \in since + 1 .. Len(h) PROVE r \notin h[j].recs
          BY DEF NoneAfter
        <4>1. CASE j > v
          BY <1>1, <1>3, <4>1 DEF NoneAfter
        <4>2. CASE j <= v
          <5>1. j - since \in 1 .. v - since /\ j - since \in 0 + 1 .. Len(s)
            BY <1>1, <1>2, <4>2
          <5>2. s[j - since] = h[since + (j - since)] /\ since + (j - since) = j
            BY <1>1, <1>2, <5>1
          <5> QED BY <2>1, <5>1, <5>2 DEF NoneAfter
        <4> QED BY <1>1, <4>1, <4>2
      <3>2. NoneAfter(h, was, r)
        BY <1>1, <3>1 DEF NoneAfter
      <3> QED BY <1>2, <2>1, <3>2, LaidIs DEF AsOf
    <2>2. CASE ~NoneAfter(s, 0, r)
      <3>1. PICK i \in 1 .. Len(s) : r \in s[i].recs /\ NoneAfter(s, i, r)
        <4>1. 0 \in 0 .. Len(s)
          BY <1>1, <1>2
        <4>2. \E i \in 0 + 1 .. Len(s) : r \in s[i].recs /\ NoneAfter(s, i, r)
          BY <1>2, <2>2, <4>1, LastTouch
        <4> QED BY <4>2
      <3>2. since + i \in 1 .. Len(h) /\ h[since + i] = s[i] /\ r \in h[since + i].recs
        BY <1>1, <1>2, <3>1
      <3>3. NoneAfter(h, since + i, r)
        <4> SUFFICES ASSUME NEW j \in (since + i) + 1 .. Len(h) PROVE r \notin h[j].recs
          BY DEF NoneAfter
        <4>1. CASE j > v
          BY <1>1, <1>3, <4>1 DEF NoneAfter
        <4>2. CASE j <= v
          <5>1. j - since \in 1 .. v - since /\ j - since \in i + 1 .. Len(s)
            BY <1>1, <1>2, <3>1, <4>2
          <5>2. s[j - since] = h[since + (j - since)] /\ since + (j - since) = j
            BY <1>1, <1>2, <5>1
          <5> QED BY <3>1, <5>1, <5>2 DEF NoneAfter
        <4> QED BY <1>1, <3>1, <4>1, <4>2
      <3>4. Laid(rows, s)[r] = s[i].n /\ StateOf(h)[r] = h[since + i].n
        BY <1>2, <3>1, <3>2, <3>3, LaidIs DEF StateOf
      <3> QED BY <3>2, <3>4
    <2> QED BY <2>1, <2>2
  <1> QED BY <1>1, <1>3 DEF AsOf, s

\* The records of a history as it was at version v are rows of version v.
LEMMA SnapshotIsAsOf ==
  ASSUME NEW h \in Seq(Op), NEW v \in 0 .. Len(h)
  PROVE  /\ AsOf(StateOf(UpTo(h, v)), v, h)
         /\ UpTo(h, v) \in Seq(Op) /\ Len(UpTo(h, v)) = v /\ Extends(h, UpTo(h, v))
  <1> DEFINE g == UpTo(h, v)
  <1>1. Len(h) \in Nat /\ v \in Nat
    OBVIOUS
  <1>2. g \in Seq(Op) /\ Len(g) = v /\ \A i \in 1 .. v : g[i] = h[i]
    BY <1>1 DEF UpTo
  <1> HIDE DEF g
  <1>3. Extends(h, g)
    BY <1>1, <1>2 DEF Extends
  <1>4. \A r \in Records : NoneAfter(h, v, r) => StateOf(g)[r] = StateOf(h)[r]
    BY <1>2, <1>3, StateUpTo
  <1> QED BY <1>1, <1>2, <1>3, <1>4 DEF AsOf, g

\* Rows that are current are the whole of it once what came after them is laid on them.
LEMMA AsOfCompletes ==
  ASSUME NEW h \in Seq(Op), NEW rows, NEW v \in Nat, AsOf(rows, v, h)
  PROVE  Completes(rows, v, h)
  <1>1. Len(h) \in Nat /\ v \in 0 .. Len(h) /\ Len(h) \in 0 .. Len(h) /\ v <= Len(h)
    BY DEF AsOf
  <1>2. AsOf(Laid(rows, SubSeq(h, v + 1, Len(h))), Len(h), h)
    BY <1>1, LaidIsAsOf
  <1> DEFINE l == Laid(rows, SubSeq(h, v + 1, Len(h)))
  <1>3. l = [r \in Records |-> l[r]] /\ StateOf(h) = [r \in Records |-> StateOf(h)[r]]
    BY DEF Laid, StateOf
  <1> HIDE DEF l
  <1>4. \A r \in Records : l[r] = StateOf(h)[r]
    <2>1. \A r \in Records : NoneAfter(h, Len(h), r)
      BY <1>1 DEF NoneAfter
    <2> QED BY <1>2, <2>1 DEF AsOf, l
  <1>5. l = StateOf(h)
    BY <1>3, <1>4
  <1> QED BY <1>1, <1>5 DEF Completes, l

-------------------------------------------------------------------------------
(* What a history has of the replica's ops.                                *)

\* What a history has, one that goes on from it has.
LEMMA HasGrows ==
  ASSUME NEW h \in Seq(Op), NEW g \in Seq(Op), Extends(g, h), NEW o,
         NEW v \in 0 .. Len(h), NEW w \in Nat, v <= w, Has(h, v, o)
  PROVE  Has(g, w, o)
  BY DEF Has, Extends

\* The number of the last op of a replica in a history.
LEMMA MarkIs ==
  ASSUME NEW h \in Seq(Op), NEW id
  PROVE  \/ (\A j \in 1 .. Len(h) : h[j].by # id) /\ Mark(h, id) = 0
         \/ \E k \in 1 .. Len(h) : /\ h[k].by = id /\ Mark(h, id) = h[k].seq
                                   /\ \A j \in k + 1 .. Len(h) : h[j].by # id
  <1> DEFINE n == Len(h)
             S == {i \in DOMAIN h : h[i].by = id}
  <1>1. n \in Nat /\ DOMAIN h = 1 .. n
    OBVIOUS
  <1>2. Mark(h, id) = IF S = {} THEN 0 ELSE h[Latest(S)].seq
    BY DEF Mark
  <1>3. CASE S = {}
    BY <1>1, <1>2, <1>3
  <1>4. CASE S # {}
    <2>1. S \in SUBSET (1 .. n)
      BY <1>1
    <2> HIDE DEF S
    <2>2. Latest(S) \in S /\ \A j \in S : j <= Latest(S)
      BY <1>1, <1>4, <2>1, LatestIs
    <2>3. PICK k : k = Latest(S)
      OBVIOUS
    <2>4. k \in 1 .. n /\ k \in S /\ \A j \in S : j <= k
      BY <2>1, <2>2, <2>3
    <2> USE DEF S
    <2>5. h[k].by = id /\ \A j \in k + 1 .. n : h[j].by # id
      BY <1>1, <2>4
    <2>6. Mark(h, id) = h[k].seq
      BY <1>2, <1>4, <2>3
    <2> QED BY <2>4, <2>5, <2>6
  <1> QED BY <1>3, <1>4

\* It is a number.
LEMMA MarkNat ==
  ASSUME NEW h \in Seq(Op), NEW id
  PROVE  Mark(h, id) \in Nat
  <1>1. \A k \in 1 .. Len(h) : h[k] \in Op
    OBVIOUS
  <1>2. \A p \in Op : p.seq \in Nat
    BY DEF Op
  <1>3. \A k \in 1 .. Len(h) : h[k].seq \in Nat
    BY <1>1, <1>2
  <1> QED BY <1>3, MarkIs

\* A history that is gapless has the ops up to its mark.
LEMMA MarkCovers ==
  ASSUME NEW h \in Seq(Op), NEW o \in Op, o.seq >= 1, Gapless(h, o), o.seq <= Mark(h, o.by)
  PROVE  Has(h, Len(h), o)
  <1>1. PICK k \in 1 .. Len(h) : h[k].by = o.by /\ Mark(h, o.by) = h[k].seq
    <2>1. o.seq \in Nat
      BY DEF Op
    <2> QED BY <2>1, MarkIs
  <1>2. Has(h, k, o)
    BY <1>1 DEF Gapless
  <1> QED BY <1>1, <1>2 DEF Has

\* What the store takes of ops sent: those after the last it has.
TakenOf(h, id, sent) == Kept(sent, {o \in Elements(sent) : o.seq > Mark(h, id)})

\* Of what is sent the history has got, in order, what it did not have.
LEMMA TakenIs ==
  ASSUME NEW h \in Seq(Op), NEW id, NEW sent \in Seq(Op), Ascends(sent)
  PROVE  LET new == TakenOf(h, id, sent)
             g == h \o new
         IN  /\ new \in Seq(Op) /\ Ascends(new)
             /\ Elements(new) = {o \in Elements(sent) : o.seq > Mark(h, id)}
             /\ g \in Seq(Op) /\ Len(g) = Len(h) + Len(new) /\ Extends(g, h)
             /\ \A i \in 1 .. Len(new) : g[Len(h) + i] = new[i]
             /\ \A j \in Len(h) + 1 .. Len(g) : g[j] = new[j - Len(h)]
  <1> DEFINE new == TakenOf(h, id, sent)
             g == h \o new
             S == {o \in Elements(sent) : o.seq > Mark(h, id)}
  <1>1. new \in Seq(Op) /\ Ascends(new) /\ Elements(new) = Elements(sent) \cap S
    BY KeptIs DEF TakenOf
  <1>2. Elements(new) = S
    BY <1>1
  <1> HIDE DEF new
  <1>3. /\ g \in Seq(Op) /\ Len(g) = Len(h) + Len(new)
        /\ \A i \in 1 .. Len(new) : g[Len(h) + i] = new[i]
        /\ \A j \in Len(h) + 1 .. Len(g) : g[j] = new[j - Len(h)]
        /\ \A k \in 1 .. Len(h) : g[k] = h[k]
    BY <1>1
  <1>4. Extends(g, h)
    BY <1>1, <1>3 DEF Extends
  <1> HIDE DEF g
  <1> QED BY <1>1, <1>2, <1>3, <1>4 DEF new, g

\* An op that was heard of no later than any after it is in no gap once they are taken.
LEMMA TakenGapless ==
  ASSUME NEW h \in Seq(Op), NEW sent \in Seq(Op), Ascends(sent),
         NEW o \in Op, o.seq >= 1, Gapless(h, o), \A p \in Elements(sent) : p.by = o.by,
         \A p \in Elements(sent) : o.seq <= p.seq =>
           Has(h, Len(h), o) \/ \E q \in Elements(sent) : Same(q, o)
  PROVE  LET g == h \o TakenOf(h, o.by, sent)
         IN  /\ Gapless(g, o)
             /\ \A p \in Elements(sent) : o.seq <= p.seq => Has(g, Len(g), o)
  <1> DEFINE new == TakenOf(h, o.by, sent)
             g == h \o new
  <1>1. /\ new \in Seq(Op) /\ Ascends(new)
        /\ Elements(new) = {p \in Elements(sent) : p.seq > Mark(h, o.by)}
        /\ g \in Seq(Op) /\ Len(g) = Len(h) + Len(new) /\ Extends(g, h)
        /\ \A i \in 1 .. Len(new) : g[Len(h) + i] = new[i]
        /\ \A j \in Len(h) + 1 .. Len(g) : g[j] = new[j - Len(h)]
    BY TakenIs
  <1>2. /\ DOMAIN g = 1 .. Len(g) /\ DOMAIN new = 1 .. Len(new) /\ DOMAIN h = 1 .. Len(h)
        /\ Len(g) \in Nat /\ Len(new) \in Nat /\ Len(h) \in Nat /\ o.seq \in Nat
    BY <1>1 DEF Op
  <1>3. Mark(h, o.by) \in Nat
    BY MarkNat
  <1> HIDE DEF new, g
  <1>4. ASSUME Has(h, Len(h), o), NEW w \in Nat, w >= Len(h) PROVE Has(g, w, o)
    BY <1>1, <1>2, <1>4, HasGrows
  <1>5. ASSUME NEW q \in Elements(sent), Same(q, o)
        PROVE  Has(h, Len(h), o) \/ \E i \in 1 .. Len(new) : new[i] = q
    <2>1. CASE q.seq > Mark(h, o.by)
      <3>1. q \in Elements(new)
        BY <1>1, <2>1
      <3> QED BY <1>2, <3>1 DEF Elements
    <2>2. CASE ~(q.seq > Mark(h, o.by))
      <3>1. o.seq <= Mark(h, o.by)
        BY <1>2, <1>3, <1>5, <2>2 DEF Same
      <3> QED BY <3>1, MarkCovers
    <2> QED BY <2>1, <2>2
  <1>6. ASSUME NEW p \in Elements(sent), o.seq <= p.seq PROVE Has(g, Len(g), o)
    <2>1. CASE Has(h, Len(h), o)
      BY <1>1, <1>2, <1>4, <2>1
    <2>2. CASE ~Has(h, Len(h), o)
      <3>1. PICK q \in Elements(sent) : Same(q, o)
        BY <1>6, <2>2
      <3>2. PICK i \in 1 .. Len(new) : new[i] = q
        BY <1>5, <2>2, <3>1
      <3>3. g[Len(h) + i] = q /\ Len(h) + i \in 1 .. Len(g)
        BY <1>1, <1>2, <3>2
      <3> QED BY <3>1, <3>3 DEF Has, Same
    <2> QED BY <2>1, <2>2
  <1>7. ASSUME NEW j \in 1 .. Len(g), g[j].by = o.by, g[j].seq >= o.seq PROVE Has(g, j, o)
    <2>1. CASE j <= Len(h)
      <3>1. g[j] = h[j] /\ j \in 1 .. Len(h)
        BY <1>1, <1>2, <2>1 DEF Extends
      <3>2. Has(h, j, o)
        BY <1>2, <1>7, <3>1 DEF Gapless
      <3> QED BY <1>1, <1>2, <3>1, <3>2, HasGrows
    <2>2. CASE j > Len(h)
      <3>1. PICK l \in 1 .. Len(new) : l = j - Len(h) /\ g[j] = new[l]
        <4>1. j \in Len(h) + 1 .. Len(g) /\ j - Len(h) \in 1 .. Len(new)
          BY <1>1, <1>2, <2>2
        <4> QED BY <1>1, <4>1
      <3>2. new[l] \in Elements(sent) /\ o.seq <= new[l].seq
        <4>1. new[l] \in Elements(new)
          BY <1>2 DEF Elements
        <4>2. new[l].seq \in Nat
          <5>1. new[l] \in Op
            BY <1>1
          <5> QED BY <5>1 DEF Op
        <4> QED BY <1>1, <1>2, <1>7, <3>1, <4>1, <4>2
      <3>3. CASE Has(h, Len(h), o)
        BY <1>2, <1>4, <2>2, <3>3
      <3>4. CASE ~Has(h, Len(h), o)
        <4>1. PICK q \in Elements(sent) : Same(q, o)
          BY <3>2, <3>4
        <4>2. PICK i \in 1 .. Len(new) : new[i] = q
          BY <1>5, <3>4, <4>1
        <4>3. ~(l < i)
          <5>1. new[i].seq = o.seq /\ new[l].seq >= o.seq
            BY <1>2, <1>7, <3>1, <4>1, <4>2 DEF Same
          <5>2. l < i => new[l].seq < new[i].seq
            BY <1>1, <1>2 DEF Ascends
          <5>3. new[l].seq \in Nat
            <6>1. new[l] \in Op
              BY <1>1
            <6> QED BY <6>1 DEF Op
          <5> QED BY <1>2, <5>1, <5>2, <5>3
        <4>4. Len(h) + i \in 1 .. j /\ g[Len(h) + i] = q
          BY <1>1, <1>2, <3>1, <4>2, <4>3
        <4>5. q.by = o.by
          OBVIOUS
        <4> QED BY <4>1, <4>4, <4>5 DEF Has, Same
      <3> QED BY <3>3, <3>4
    <2> QED BY <1>2, <2>1, <2>2
  <1>8. Gapless(g, o)
    BY <1>2, <1>7 DEF Gapless
  <1> QED BY <1>6, <1>8 DEF g, new

\* Once they are taken the last of the history is no earlier than the last of them.
LEMMA TakenMark ==
  ASSUME NEW h \in Seq(Op), NEW id, NEW sent \in Seq(Op), Ascends(sent), sent # <<>>,
         \A p \in Elements(sent) : p.by = id
  PROVE  sent[Len(sent)].seq <= Mark(h \o TakenOf(h, id, sent), id)
  <1> DEFINE new == TakenOf(h, id, sent)
             g == h \o new
             last == sent[Len(sent)]
  <1>1. /\ new \in Seq(Op) /\ Ascends(new)
        /\ Elements(new) = {p \in Elements(sent) : p.seq > Mark(h, id)}
        /\ g \in Seq(Op) /\ Len(g) = Len(h) + Len(new) /\ Extends(g, h)
        /\ \A i \in 1 .. Len(new) : g[Len(h) + i] = new[i]
        /\ \A j \in Len(h) + 1 .. Len(g) : g[j] = new[j - Len(h)]
    BY TakenIs
  <1>2. /\ DOMAIN new = 1 .. Len(new) /\ DOMAIN sent = 1 .. Len(sent)
        /\ Len(g) \in Nat /\ Len(new) \in Nat /\ Len(h) \in Nat /\ Len(sent) \in Nat
        /\ Len(sent) \in 1 .. Len(sent)
    BY <1>1
  <1>3. last \in Op /\ last \in Elements(sent)
    BY <1>2 DEF Elements
  <1>4. last.seq \in Nat
    BY <1>3 DEF Op
  <1> HIDE DEF last
  <1>5. CASE new = <<>>
    <2>1. g = h
      BY <1>5
    <2>2. ~(last.seq > Mark(h, id))
      <3>1. Elements(new) = {}
        BY <1>5 DEF Elements
      <3> QED BY <1>1, <1>3, <3>1
    <2>3. Mark(h, id) \in Nat
      BY MarkNat
    <2> HIDE DEF g
    <2> QED BY <1>4, <2>1, <2>2, <2>3 DEF last, g
  <1>6. CASE new # <<>>
    <2> DEFINE m == Len(new)
    <2>1. m \in 1 .. Len(new) /\ Len(h) + m = Len(g)
      BY <1>1, <1>2, <1>6
    <2>2. new[m] \in Elements(new) /\ new[m] \in Op
      BY <1>1, <1>2, <2>1 DEF Elements
    <2>3. new[m].seq \in Nat /\ new[m].by = id /\ new[m].seq > Mark(h, id)
      BY <1>1, <2>2 DEF Op
    <2>4. g[Len(g)] = new[m]
      BY <1>1, <2>1
    <2> HIDE DEF g, m
    <2>5. Mark(g, id) = new[m].seq
      <3>1. PICK k \in 1 .. Len(g) : /\ g[k].by = id /\ Mark(g, id) = g[k].seq
                                     /\ \A j \in k + 1 .. Len(g) : g[j].by # id
        <4>1. Len(g) \in 1 .. Len(g) /\ g[Len(g)].by = id
          BY <1>2, <2>1, <2>3, <2>4
        <4>2. g \in Seq(Op) /\ ~\A j \in 1 .. Len(g) : g[j].by # id
          BY <1>1, <4>1
        <4>3. \E k \in 1 .. Len(g) : /\ g[k].by = id /\ Mark(g, id) = g[k].seq
                                     /\ \A j \in k + 1 .. Len(g) : g[j].by # id
          BY <4>2, MarkIs, Zenon
        <4> QED BY <4>3
      <3>2. k = Len(g)
        BY <1>2, <2>3, <2>4, <3>1
      <3> QED BY <2>4, <3>1, <3>2
    <2>6. CASE last.seq > Mark(h, id)
      <3>1. last \in Elements(new)
        BY <1>1, <1>3, <2>6
      <3>2. PICK i \in 1 .. Len(new) : new[i] = last
        BY <1>2, <3>1 DEF Elements
      <3>3. i < m => new[i].seq < new[m].seq
        BY <1>1, <1>2, <2>1 DEF Ascends
      <3>4. last.seq <= new[m].seq
        BY <1>2, <1>4, <2>1, <2>3, <3>2, <3>3 DEF m
      <3> QED BY <2>5, <3>4 DEF last, g, new
    <2>7. CASE ~(last.seq > Mark(h, id))
      <3>1. Mark(h, id) \in Nat
        BY MarkNat
      <3>2. last.seq <= new[m].seq
        BY <1>4, <2>3, <2>7, <3>1
      <3> QED BY <2>5, <3>2 DEF last, g, new
    <2> QED BY <2>6, <2>7
  <1> QED BY <1>5, <1>6

-------------------------------------------------------------------------------
(* The next message is taken.                                              *)

\* A message is of one kind.
LEMMA DownKinds ==
  ASSUME NEW m \in DownMessage
  PROVE  /\ m.t \in {"patch", "ack", "pointer", "delta", "snapshot", "closed"}
         /\ m.t = "patch" => m \in Patch
         /\ m.t = "ack" => m \in Ack
         /\ m.t = "pointer" => m \in Pointer
         /\ m.t = "delta" => m \in Delta
         /\ m.t = "snapshot" => m \in Snapshot
         /\ m.t # "closed" => m.v \in Nat
  BY DEF DownMessage, Patch, Ack, Pointer, Delta, Snapshot, Closing

\* One that the client sends is too, and says ops.
LEMMA UpKinds ==
  ASSUME NEW m \in UpMessage
  PROVE  /\ m.t \in {"hello", "op"}
         /\ m.t = "hello" => m \in HelloMessage
         /\ m.t = "op" => m \in OpMessage
         /\ Said(m) \subseteq Op
  <1>1. /\ m.t \in {"hello", "op"}
        /\ m.t = "hello" => m \in HelloMessage
        /\ m.t = "op" => m \in OpMessage
    BY DEF UpMessage, HelloMessage, OpMessage
  <1>2. CASE m.t = "hello"
    <2>1. m.ops \in Seq(Op)
      BY <1>1, <1>2 DEF HelloMessage
    <2>2. Elements(m.ops) \subseteq Op
      BY <2>1 DEF Elements
    <2> QED BY <1>1, <1>2, <2>2 DEF Said
  <1>3. CASE m.t # "hello"
    BY <1>1, <1>3 DEF Said, OpMessage
  <1> QED BY <1>1, <1>2, <1>3

\* The place of the end once the first message is gone.
NextEnd(k) == IF k = 0 THEN 0 ELSE k - 1

\* The rest of a sequence.
LEMMA TailIs ==
  ASSUME NEW A, NEW s \in Seq(A), s # <<>>
  PROVE  /\ Tail(s) \in Seq(A) /\ Len(s) \in Nat /\ Len(s) >= 1 /\ Len(Tail(s)) = Len(s) - 1
         /\ \A i \in 1 .. Len(s) - 1 : Tail(s)[i] = s[i + 1]
         /\ s[1] \in A /\ Head(s) = s[1]
         /\ Tail(s) = <<>> <=> Len(s) = 1
  <1>1. Len(s) \in Nat /\ Len(s) >= 1 /\ s[1] \in A /\ Head(s) = s[1]
    OBVIOUS
  <1>2. /\ Tail(s) \in Seq(A) /\ Len(Tail(s)) = Len(s) - 1
        /\ \A i \in 1 .. Len(s) - 1 : Tail(s)[i] = s[i + 1]
    OBVIOUS
  <1>3. \A q \in Seq(A) : (q = <<>>) <=> (Len(q) = 0)
    OBVIOUS
  <1>4. (Tail(s) = <<>>) <=> (Len(Tail(s)) = 0)
    BY <1>2, <1>3
  <1> QED BY <1>1, <1>2, <1>4

\* What comes after a message that is not the end follows from it.
LEMMA TailChained ==
  ASSUME NEW s, NEW k, NEW ls, NEW ss, Chained(s, k, ls, ss), s # <<>>
  PROVE  /\ k # 1 => /\ Chained(Tail(s), NextEnd(k), ls, ss)
                     /\ NextEnd(k) # 1 => Start(Tail(s), ls) = s[1].v
         /\ k = 1 => Chained(Tail(s), 0, ls, ss)
  <1> DEFINE r == Tail(s)
             l == IF k = 1 THEN 0 ELSE NextEnd(k)
  <1>1. /\ s \in Seq(DownMessage) /\ k \in 0 .. Len(s)
        /\ \A i \in 1 .. Len(s) : s[i].t = "closed" <=> i = k
        /\ \A i \in 1 .. Len(s) - 1 : i # k /\ i + 1 # k => From(s[i + 1]) = s[i].v
        /\ Len(s) # k => ss /\ s[Len(s)].v = Len(Now(ls))
        /\ \A i \in k + 1 .. Len(s) : s[i].v <= Len(Now(ls))
    BY DEF Chained
  <1>2. /\ r \in Seq(DownMessage) /\ Len(s) \in Nat /\ Len(s) >= 1 /\ Len(r) = Len(s) - 1
        /\ \A i \in 1 .. Len(s) - 1 : r[i] = s[i + 1]
        /\ r = <<>> <=> Len(s) = 1
    BY <1>1, TailIs
  <1>3. /\ l \in 0 .. Len(r) /\ l \in Nat /\ k \in Nat
        /\ k = 0 => l = 0
        /\ k # 0 => l = k - 1
    <2>1. k \in Nat /\ k <= Len(s)
      <3>1. k \in 0 .. Len(s) /\ Len(s) \in Nat
        BY <1>1, <1>2
      <3> QED BY <3>1
    <2>2. CASE k = 0
      <3>1. l = 0
        BY <2>2 DEF NextEnd
      <3> HIDE DEF l
      <3> QED BY <1>2, <2>2, <3>1
    <2>3. CASE k # 0
      <3>1. l = k - 1
        BY <2>1, <2>3 DEF NextEnd
      <3> HIDE DEF l
      <3> QED BY <1>2, <2>1, <2>3, <3>1
    <2> QED BY <2>2, <2>3
  <1> HIDE DEF r, l
  <1>4. \A i \in 1 .. Len(r) : r[i].t = "closed" <=> i = l
    BY <1>1, <1>2, <1>3
  <1>5. \A i \in 1 .. Len(r) - 1 : i # l /\ i + 1 # l => From(r[i + 1]) = r[i].v
    <2> SUFFICES ASSUME NEW i \in 1 .. Len(r) - 1, i # l, i + 1 # l
                 PROVE  From(r[i + 1]) = r[i].v
      OBVIOUS
    <2>1. r[i] = s[i + 1] /\ r[i + 1] = s[i + 2] /\ i + 1 \in 1 .. Len(s) - 1
      BY <1>2
    <2>2. i + 1 # k /\ i + 2 # k
      BY <1>3
    <2>3. From(s[(i + 1) + 1]) = s[i + 1].v
      BY <1>1, <1>3, <2>1, <2>2
    <2>4. (i + 1) + 1 = i + 2
      BY <1>3
    <2> QED BY <2>1, <2>3, <2>4
  <1>6. Len(r) # l => ss /\ r[Len(r)].v = Len(Now(ls))
    <2> SUFFICES ASSUME Len(r) # l PROVE ss /\ r[Len(r)].v = Len(Now(ls))
      OBVIOUS
    <2>1. Len(s) # k /\ Len(r) \in 1 .. Len(s) - 1 /\ Len(r) + 1 = Len(s)
      BY <1>1, <1>2, <1>3
    <2> QED BY <1>1, <1>2, <2>1
  <1>7. \A i \in l + 1 .. Len(r) : r[i].v <= Len(Now(ls))
    <2> SUFFICES ASSUME NEW i \in l + 1 .. Len(r) PROVE r[i].v <= Len(Now(ls))
      OBVIOUS
    <2>1. r[i] = s[i + 1] /\ i + 1 \in k + 1 .. Len(s)
      BY <1>2, <1>3
    <2> QED BY <1>1, <2>1
  <1>8. Chained(r, l, ls, ss)
    BY <1>2, <1>3, <1>4, <1>5, <1>6, <1>7 DEF Chained
  <1>9. ASSUME k # 1, l # 1 PROVE Start(r, ls) = s[1].v
    <2>1. CASE Len(s) = 1
      <3>1. Len(s) # k /\ r = <<>>
        BY <1>1, <1>2, <1>9, <2>1
      <3> QED BY <1>1, <2>1, <3>1 DEF Start
    <2>2. CASE Len(s) # 1
      <3>1. 1 \in 1 .. Len(s) - 1 /\ 2 # k /\ r # <<>> /\ r[1] = s[2]
        BY <1>2, <1>3, <1>9, <2>2
      <3>2. From(s[1 + 1]) = s[1].v
        BY <1>1, <1>9, <3>1
      <3> QED BY <3>1, <3>2 DEF Start
    <2> QED BY <2>1, <2>2
  <1> QED BY <1>3, <1>8, <1>9 DEF r, l, NextEnd

\* What is true of the messages is true of the rest of them.
LEMMA TailDownward ==
  ASSUME NEW s \in Seq(DownMessage), NEW k \in 0 .. Len(s), k # 1, s # <<>>,
         NEW x, NEW ls, Downward(x, s, k, ls)
  PROVE  Downward(x, Tail(s), NextEnd(k), ls)
  <1> DEFINE r == Tail(s)
             l == NextEnd(k)
  <1>1. /\ Len(s) \in Nat /\ Len(s) >= 1 /\ Len(r) = Len(s) - 1
        /\ \A i \in 1 .. Len(s) - 1 : r[i] = s[i + 1]
    BY TailIs
  <1>2. l \in Nat /\ k \in Nat /\ (k = 0 => l = 0) /\ (k # 0 => l = k - 1 /\ l # 0)
    BY <1>1 DEF NextEnd
  <1> HIDE DEF r, l
  <1> SUFFICES ASSUME NEW i \in 1 .. Len(r)
      PROVE  /\ r[i].t = "patch" => PatchOK(x, r[i], i < l, ls)
             /\ r[i].t = "ack" => (l = 0 \/ i < l) /\ AckOK(x, r[i], ls)
             /\ Answers(r[i]) => /\ i > l /\ AnswerOK(x, r[i], ls)
                                 /\ i > l + 1 => r[i].v > 0
                                 /\ \A j \in 1 .. Len(r) : Answers(r[j]) => i = j
    BY DEF Downward, r, l
  <1>3. r[i] = s[i + 1] /\ i + 1 \in 1 .. Len(s)
    BY <1>1
  <1>4. /\ s[i + 1].t = "patch" => PatchOK(x, s[i + 1], i + 1 < k, ls)
        /\ s[i + 1].t = "ack" => (k = 0 \/ i + 1 < k) /\ AckOK(x, s[i + 1], ls)
        /\ Answers(s[i + 1]) => /\ i + 1 > k /\ AnswerOK(x, s[i + 1], ls)
                                /\ i + 1 > k + 1 => s[i + 1].v > 0
                                /\ \A j \in 1 .. Len(s) : Answers(s[j]) => i + 1 = j
    BY <1>3 DEF Downward
  <1>5. (i + 1 < k) <=> (i < l)
    BY <1>1, <1>2
  <1>6. i + 1 > k => i > l
    BY <1>1, <1>2
  <1>7. i > l + 1 => i + 1 > k + 1
    BY <1>1, <1>2
  <1>8. ASSUME Answers(r[i]), NEW j \in 1 .. Len(r), Answers(r[j]) PROVE i = j
    <2>1. j + 1 \in 1 .. Len(s) /\ Answers(s[j + 1])
      BY <1>1, <1>8
    <2>2. i + 1 = j + 1
      BY <1>3, <1>4, <1>8, <2>1
    <2> QED BY <2>2
  <1>9. PatchOK(x, r[i], i + 1 < k, ls) => PatchOK(x, r[i], i < l, ls)
    BY <1>5 DEF PatchOK
  <1> QED BY <1>2, <1>3, <1>4, <1>5, <1>6, <1>7, <1>8, <1>9

\* What comes from the client does not depend on it.
LEMMA TailUpward ==
  ASSUME NEW s \in Seq(DownMessage), NEW k \in 0 .. Len(s), s # <<>>, NEW l \in Nat,
         k = 0 <=> l = 0,
         NEW x, NEW u, NEW ls, NEW ss, Upward(x, s, k, u, ls, ss)
  PROVE  Upward(x, Tail(s), l, u, ls, ss)
  <1>1. /\ Len(s) \in Nat /\ Len(Tail(s)) = Len(s) - 1
        /\ \A i \in 1 .. Len(s) - 1 : Tail(s)[i] = s[i + 1]
    BY TailIs
  <1>2. (\A j \in 1 .. Len(s) : ~Answers(s[j])) => \A j \in 1 .. Len(Tail(s)) : ~Answers(Tail(s)[j])
    BY <1>1
  <1>3. \A i : OpOK(x, u, i, k, ls, ss) => OpOK(x, u, i, l, ls, ss)
    BY DEF OpOK
  <1> QED BY <1>2, <1>3 DEF Upward

\* Nothing is asked for, and nothing waits.
Idle(x) == ~x.holds /\ x.held = <<>> /\ \A q \in x.asks : ~q.mine

\* So nothing is to be said of it.
LEMMA IdleAsking ==
  ASSUME NEW x
  PROVE  /\ Idle(x) => \A s, k, u, ls, ss : Asking(x, s, k, u, ls, ss)
         /\ \A s, k, u, ls, ss : Asking(x, s, k, u, ls, ss) /\ ~x.holds => Idle(x)
  <1>1. ASSUME Idle(x), NEW s, NEW k, NEW u, NEW ls, NEW ss
        PROVE  Asking(x, s, k, u, ls, ss)
    <2>1. \A i \in 1 .. Len(x.held) : x.held[i].t # "closed"
      BY <1>1 DEF Idle
    <2> QED BY <1>1, <2>1 DEF Idle, Asking
  <1>2. ASSUME NEW s, NEW k, NEW u, NEW ls, NEW ss, Asking(x, s, k, u, ls, ss), ~x.holds
        PROVE  Idle(x)
    BY <1>2 DEF Idle, Asking
  <1> QED BY <1>1, <1>2

-------------------------------------------------------------------------------
(* What the client does with a message, and what is to come then.          *)

\* What is to come, but for what the client asks for.
Talk(x, s, k, u, ls, ss) ==
  /\ Chained(s, k, ls, ss)
  /\ Downward(x, s, k, ls)
  /\ InTouch(x, s, k, ls, ss)
  /\ Upward(x, s, k, u, ls, ss)

\* A client with some of the ops it had in its outbox: the others are in the store.
Fewer(x, y) ==
  /\ y.id = x.id /\ y.seq = x.seq /\ y.v = x.v /\ y.epoch = x.epoch
  /\ y.synced = x.synced /\ y.answered = x.answered
  /\ Elements(y.outbox) \subseteq Elements(x.outbox)

\* What is to come is as right for it.
LEMMA FewerTalk ==
  ASSUME NEW x, NEW y, Fewer(x, y), NEW s, NEW k, NEW u, NEW ls, NEW ss, Talk(x, s, k, u, ls, ss)
  PROVE  Talk(y, s, k, u, ls, ss)
  <1>1. \A seq, h, v : Covered(x, seq, h, v) => Covered(y, seq, h, v)
    BY DEF Fewer, Covered
  <1>2. Downward(y, s, k, ls)
    <2>1. \A m, old : PatchOK(x, m, old, ls) => PatchOK(y, m, old, ls)
      BY DEF Fewer, PatchOK
    <2>2. \A m : AckOK(x, m, ls) => AckOK(y, m, ls)
      BY <1>1 DEF Fewer, AckOK
    <2>3. \A m : AnswerOK(x, m, ls) => AnswerOK(y, m, ls)
      BY <1>1 DEF Fewer, AnswerOK
    <2> QED BY <2>1, <2>2, <2>3 DEF Talk, Downward
  <1>3. InTouch(y, s, k, ls, ss)
    BY DEF Talk, InTouch, Fewer
  <1>4. Upward(y, s, k, u, ls, ss)
    <2>1. \A m : HelloOK(x, m, ls) => HelloOK(y, m, ls)
      BY DEF Fewer, HelloOK
    <2>2. \A i : OpOK(x, u, i, k, ls, ss) => OpOK(y, u, i, k, ls, ss)
      BY DEF Fewer, OpOK
    <2> QED BY <2>1, <2>2 DEF Talk, Upward, Fewer
  <1> QED BY <1>2, <1>3, <1>4 DEF Talk

\* Clients that are told apart by no more than what they ask for and write.
Alike(x, y) ==
  /\ y.id = x.id /\ y.seq = x.seq /\ y.outbox = x.outbox /\ y.v = x.v /\ y.epoch = x.epoch
  /\ y.synced = x.synced /\ y.answered = x.answered

\* What is to come is as right for the one as for the other.
LEMMA AlikeTalk ==
  ASSUME NEW x, NEW y, Alike(x, y), NEW s, NEW k, NEW u, NEW ls, NEW ss, Talk(x, s, k, u, ls, ss)
  PROVE  Talk(y, s, k, u, ls, ss)
  BY FewerTalk DEF Alike, Fewer

\* A message that is passed over, with a client that is not synced or has it already.
LEMMA PassTalk ==
  ASSUME NEW x, NEW s, NEW k, NEW u, NEW ls, NEW ss, Talk(x, s, k, u, ls, ss),
         s # <<>>, k # 1, x.synced => s[1].v <= x.v
  PROVE  Talk(x, Tail(s), NextEnd(k), u, ls, ss)
  <1>1. /\ s \in Seq(DownMessage) /\ k \in 0 .. Len(s) /\ Len(s) \in Nat
        /\ Downward(x, s, k, ls) /\ InTouch(x, s, k, ls, ss) /\ Upward(x, s, k, u, ls, ss)
    BY DEF Talk, Chained
  <1> DEFINE r == Tail(s)
             l == NextEnd(k)
  <1>2. Chained(r, l, ls, ss) /\ (l # 1 => Start(r, ls) = s[1].v)
    BY TailChained DEF Talk
  <1>3. Downward(x, r, l, ls)
    BY <1>1, TailDownward
  <1>4. l \in Nat /\ (k = 0 <=> l = 0)
    <2>1. CASE k = 0
      BY <2>1 DEF NextEnd
    <2>2. CASE k # 0
      BY <1>1, <2>2 DEF NextEnd
    <2> QED BY <2>1, <2>2
  <1>5. Upward(x, r, l, u, ls, ss)
    BY <1>1, <1>4, TailUpward
  <1>6. Answers(s[1]) => k = 0
    BY <1>1 DEF Downward
  <1>7. /\ Len(r) = Len(s) - 1
        /\ \A i \in 1 .. Len(s) - 1 : r[i] = s[i + 1]
    BY <1>1, TailIs
  <1> HIDE DEF r, l
  <1>8. InTouch(x, r, l, ls, ss)
    <2>1. ASSUME k # 0, ss PROVE \E i \in 1 .. Len(r) : Answers(r[i])
      <3>1. PICK i \in 1 .. Len(s) : Answers(s[i])
        BY <1>1, <2>1 DEF InTouch
      <3>2. i # 1
        BY <1>6, <2>1, <3>1
      <3>3. i - 1 \in 1 .. Len(r) /\ r[i - 1] = s[(i - 1) + 1] /\ (i - 1) + 1 = i
        BY <1>1, <1>7, <3>1, <3>2
      <3> QED BY <3>1, <3>3
    <2> QED BY <1>1, <1>2, <1>4, <2>1 DEF InTouch
  <1> QED BY <1>2, <1>3, <1>5, <1>8 DEF Talk, r, l

\* A client that is synced takes a patch: its version is that of the patch.
LEMMA PatchTalk ==
  ASSUME NEW x, NEW y, NEW s, NEW k, NEW u, NEW ls, NEW ss, Talk(x, s, k, u, ls, ss),
         s # <<>>, s[1].t = "patch", x.synced,
         Alike([x EXCEPT !.v = s[1].v], y), x \in Page
  PROVE  Talk(y, Tail(s), NextEnd(k), u, ls, ss)
  <1>1. /\ s \in Seq(DownMessage) /\ k \in 0 .. Len(s) /\ Len(s) \in Nat /\ Len(s) >= 1
        /\ Downward(x, s, k, ls) /\ InTouch(x, s, k, ls, ss) /\ Upward(x, s, k, u, ls, ss)
    <2>1. s \in Seq(DownMessage) /\ k \in 0 .. Len(s)
      BY DEF Talk, Chained
    <2> QED BY <2>1, TailIs DEF Talk
  <1>2. k # 1
    <2>1. 1 \in 1 .. Len(s)
      BY <1>1
    <2>2. s[1].t # "closed"
      OBVIOUS
    <2> QED BY <2>1, <2>2 DEF Talk, Chained
  <1> DEFINE r == Tail(s)
             l == NextEnd(k)
  <1>3. Chained(r, l, ls, ss) /\ (l # 1 => Start(r, ls) = s[1].v)
    BY <1>2, TailChained DEF Talk
  <1>4. Downward(x, r, l, ls)
    BY <1>1, <1>2, TailDownward
  <1>5. l \in Nat /\ (k = 0 <=> l = 0)
    <2>1. CASE k = 0
      BY <2>1 DEF NextEnd
    <2>2. CASE k # 0
      BY <1>1, <1>2, <2>2 DEF NextEnd
    <2> QED BY <2>1, <2>2
  <1>6. Upward(x, r, l, u, ls, ss)
    BY <1>1, <1>5, TailUpward
  <1>7. /\ Len(r) = Len(s) - 1
        /\ \A i \in 1 .. Len(s) - 1 : r[i] = s[i + 1]
    BY <1>1, TailIs
  <1>8. /\ y.id = x.id /\ y.seq = x.seq /\ y.outbox = x.outbox /\ y.v = s[1].v
        /\ y.epoch = x.epoch /\ y.synced /\ y.answered = x.answered
    BY DEF Alike, Page
  <1>9. s[1].v \in Nat
    <2>1. s[1] \in DownMessage /\ s[1].t # "closed"
      BY <1>1, TailIs
    <2> QED BY <2>1, DownKinds
  <1> HIDE DEF r, l
  <1>10. InTouch(y, r, l, ls, ss)
    <2>1. ASSUME k # 0, ss PROVE \E i \in 1 .. Len(r) : Answers(r[i])
      <3>1. PICK i \in 1 .. Len(s) : Answers(s[i])
        BY <1>1, <2>1 DEF InTouch
      <3>2. i # 1
        BY <3>1 DEF Answers
      <3>3. i - 1 \in 1 .. Len(r) /\ r[i - 1] = s[(i - 1) + 1] /\ (i - 1) + 1 = i
        BY <1>1, <1>7, <3>1, <3>2
      <3> QED BY <3>1, <3>3
    <2>2. l # 1 => Start(r, ls) <= y.v
      BY <1>3, <1>8, <1>9
    <2> QED BY <1>1, <1>5, <1>8, <2>1, <2>2 DEF InTouch
  <1>11. \A seq, h, v : Covered(x, seq, h, v) => Covered(y, seq, h, v)
    BY <1>8 DEF Covered
  <1>12. Downward(y, r, l, ls)
    <2> SUFFICES ASSUME NEW i \in 1 .. Len(r)
        PROVE  /\ r[i].t = "patch" => PatchOK(y, r[i], i < l, ls)
               /\ r[i].t = "ack" => (l = 0 \/ i < l) /\ AckOK(y, r[i], ls)
               /\ Answers(r[i]) => /\ i > l /\ AnswerOK(y, r[i], ls)
                                   /\ i > l + 1 => r[i].v > 0
                                   /\ \A j \in 1 .. Len(r) : Answers(r[j]) => i = j
      BY DEF Downward
    <2>1. /\ r[i].t = "patch" => PatchOK(x, r[i], i < l, ls)
          /\ r[i].t = "ack" => (l = 0 \/ i < l) /\ AckOK(x, r[i], ls)
          /\ Answers(r[i]) => /\ i > l /\ AnswerOK(x, r[i], ls)
                              /\ i > l + 1 => r[i].v > 0
                              /\ \A j \in 1 .. Len(r) : Answers(r[j]) => i = j
      BY <1>4 DEF Downward
    <2>2. PatchOK(x, r[i], i < l, ls) => PatchOK(y, r[i], i < l, ls)
      BY <1>8 DEF PatchOK
    <2>3. AckOK(x, r[i], ls) => AckOK(y, r[i], ls)
      BY <1>8, <1>11 DEF AckOK
    <2>4. ASSUME Answers(r[i]), x.epoch = Len(ls) PROVE r[i].v > 0
      <3>1. k = 0
        BY <1>1, <2>4 DEF InTouch
      <3>2. r[i] = s[i + 1] /\ i + 1 \in 1 .. Len(s) /\ i + 1 > 0 + 1
        BY <1>1, <1>7
      <3> QED BY <1>1, <2>4, <3>1, <3>2 DEF Downward
    <2>5. ASSUME Answers(r[i]), AnswerOK(x, r[i], ls) PROVE AnswerOK(y, r[i], ls)
      <3>1. x.epoch = Len(ls) => r[i].v > 0
        BY <2>4, <2>5
      <3> QED BY <1>8, <1>11, <2>5, <3>1 DEF AnswerOK
    <2> QED BY <2>1, <2>2, <2>3, <2>5
  <1>13. Upward(y, r, l, u, ls, ss)
    <2>1. \A m : HelloOK(x, m, ls) => HelloOK(y, m, ls)
      BY <1>8 DEF HelloOK
    <2>2. \A i : OpOK(x, u, i, l, ls, ss) => OpOK(y, u, i, l, ls, ss)
      BY <1>8 DEF OpOK
    <2> QED BY <1>6, <1>8, <2>1, <2>2 DEF Upward
  <1> QED BY <1>3, <1>10, <1>12, <1>13 DEF Talk, r, l

\* One sequence after another.
LEMMA ConcatIs ==
  ASSUME NEW A, NEW p \in Seq(A), NEW q \in Seq(A)
  PROVE  /\ p \o q \in Seq(A) /\ Len(p \o q) = Len(p) + Len(q)
         /\ Len(p) \in Nat /\ Len(q) \in Nat
         /\ \A i \in 1 .. Len(p) : (p \o q)[i] = p[i]
         /\ \A i \in 1 .. Len(q) : (p \o q)[Len(p) + i] = q[i]
         /\ \A i \in Len(p) + 1 .. Len(p \o q) : (p \o q)[i] = q[i - Len(p)]
  OBVIOUS

\* What is said of what came first stays said.
LEMMA SaysMore ==
  ASSUME NEW u \in Seq(UpMessage), NEW w \in Seq(UpMessage), NEW o
  PROVE  /\ \A i \in 0 .. Len(u) : Says(u \o w, i, o) <=> Says(u, i, o)
         /\ Says(u, Len(u), o) => \A i \in Len(u) .. Len(u) + Len(w) : Says(u \o w, i, o)
  <1>1. /\ Len(u) \in Nat /\ Len(w) \in Nat
        /\ \A i \in 1 .. Len(u) : (u \o w)[i] = u[i]
    BY ConcatIs
  <1>2. \A i \in 0 .. Len(u) : \A j \in 1 .. i : (u \o w)[j] = u[j]
    BY <1>1
  <1>3. \A i \in 0 .. Len(u) : Says(u \o w, i, o) <=> Says(u, i, o)
    BY <1>2 DEF Says
  <1>4. ASSUME Says(u, Len(u), o), NEW i \in Len(u) .. Len(u) + Len(w)
        PROVE  Says(u \o w, i, o)
    <2>1. PICK j \in 1 .. Len(u) : \E p \in Said(u[j]) : Same(p, o)
      BY <1>4 DEF Says
    <2>2. j \in 1 .. i /\ (u \o w)[j] = u[j]
      BY <1>1, <2>1
    <2> QED BY <2>1, <2>2 DEF Says
  <1> QED BY <1>3, <1>4

\* A client that is caught up sends the ops that came after its hello.
LEMMA CaughtUpTalk ==
  ASSUME NEW x, NEW y, NEW s, NEW u, NEW ls, NEW ss,
         Chained(s, 0, ls, ss), ss, Downward(x, s, 0, ls), Upward(x, s, 0, u, ls, ss),
         x.synced => x.epoch = Len(ls), Len(ls) # 0,
         \A i \in 1 .. Len(s) : ~Answers(s[i]), \A i \in 1 .. Len(u) : u[i].t # "hello",
         y.id = x.id, y.seq = x.seq, y.answered = x.answered,
         y.synced, y.epoch = Len(ls), Start(s, ls) <= y.v,
         Elements(y.outbox) \subseteq Elements(x.outbox),
         \A o \in Elements(y.outbox) : o.by = x.id /\ o.seq \in 1 .. x.seq,
         NEW live \in Seq(Op), Ascends(live), Elements(live) = Elements(y.outbox)
  PROVE  Talk(y, s, 0, u \o [i \in DOMAIN live |-> [t |-> "op", op |-> live[i]]], ls, ss)
  <1> DEFINE w == [i \in DOMAIN live |-> [t |-> "op", op |-> live[i]]]
             v == u \o w
  <1>1. /\ u \in Seq(UpMessage)
        /\ \A i \in 1 .. Len(u) : \A p \in Said(u[i]) : p.by = x.id /\ p.seq \in 1 .. x.seq
        /\ \A i \in 1 .. Len(u) : u[i].t = "op" => OpOK(x, u, i, 0, ls, ss)
    BY DEF Upward
  <1>2. /\ w \in Seq(UpMessage) /\ Len(w) = Len(live) /\ Len(live) \in Nat
        /\ DOMAIN live = 1 .. Len(live)
        /\ \A i \in 1 .. Len(w) : w[i].t = "op" /\ w[i].op = live[i]
    <2>1. DOMAIN live = 1 .. Len(live) /\ Len(live) \in Nat /\ \A i \in 1 .. Len(live) : live[i] \in Op
      OBVIOUS
    <2>2. \A i \in 1 .. Len(live) : [t |-> "op", op |-> live[i]] \in UpMessage
      BY <2>1 DEF UpMessage, OpMessage
    <2> QED BY <2>1, <2>2
  <1> HIDE DEF w
  <1>3. /\ v \in Seq(UpMessage) /\ Len(v) = Len(u) + Len(w) /\ Len(u) \in Nat /\ Len(w) \in Nat
        /\ \A i \in 1 .. Len(u) : v[i] = u[i]
        /\ \A i \in 1 .. Len(w) : v[Len(u) + i] = w[i]
        /\ \A i \in Len(u) + 1 .. Len(v) : v[i] = w[i - Len(u)]
    <2>1. u \in Seq(UpMessage) /\ w \in Seq(UpMessage)
      BY <1>1, <1>2
    <2>2. u \o w \in Seq(UpMessage) /\ Len(u \o w) = Len(u) + Len(w)
      BY <2>1, ConcatIs
    <2>3. Len(u) \in Nat /\ Len(w) \in Nat
      BY <2>1
    <2>4. \A i \in 1 .. Len(u) : (u \o w)[i] = u[i]
      BY <2>1, ConcatIs
    <2>5. \A i \in 1 .. Len(w) : (u \o w)[Len(u) + i] = w[i]
      BY <2>1, ConcatIs
    <2>6. \A i \in Len(u) + 1 .. Len(u \o w) : (u \o w)[i] = w[i - Len(u)]
      BY <2>1, ConcatIs
    <2> QED BY <2>2, <2>3, <2>4, <2>5, <2>6
  <1>4. \A o : \A i \in 0 .. Len(u) : Says(v, i, o) <=> Says(u, i, o)
    BY <1>1, <1>2, SaysMore
  <1> HIDE DEF v
  <1>5. \A seq, h, n : Covered(x, seq, h, n) => Covered(y, seq, h, n)
    BY DEF Covered
  <1>6. Downward(y, s, 0, ls)
    <2> SUFFICES ASSUME NEW i \in 1 .. Len(s)
        PROVE  /\ s[i].t = "patch" => PatchOK(y, s[i], i < 0, ls)
               /\ s[i].t = "ack" => AckOK(y, s[i], ls)
      BY DEF Downward
    <2>1. /\ s[i].t = "patch" => PatchOK(x, s[i], i < 0, ls)
          /\ s[i].t = "ack" => AckOK(x, s[i], ls)
      BY DEF Downward
    <2>2. ~(i < 0)
      BY DEF Chained
    <2>3. PatchOK(x, s[i], i < 0, ls) => PatchOK(y, s[i], i < 0, ls)
      BY <2>2 DEF PatchOK
    <2>4. AckOK(x, s[i], ls) => AckOK(y, s[i], ls)
      BY <1>5 DEF AckOK
    <2> QED BY <2>1, <2>3, <2>4
  <1>7. InTouch(y, s, 0, ls, ss)
    BY DEF InTouch
  <1>8. \A i \in 1 .. Len(v) : \A p \in Said(v[i]) : p.by = y.id /\ p.seq \in 1 .. y.seq
    <2> SUFFICES ASSUME NEW i \in 1 .. Len(v), NEW p \in Said(v[i])
                 PROVE  p.by = y.id /\ p.seq \in 1 .. y.seq
      OBVIOUS
    <2>1. CASE i <= Len(u)
      BY <1>1, <1>3, <2>1
    <2>2. CASE i > Len(u)
      <3>1. i - Len(u) \in 1 .. Len(live) /\ v[i] = w[i - Len(u)]
        BY <1>2, <1>3, <2>2
      <3>2. p = live[i - Len(u)]
        BY <1>2, <3>1 DEF Said
      <3>3. p \in Elements(live)
        BY <1>2, <3>1, <3>2 DEF Elements
      <3> QED BY <3>3
    <2> QED BY <1>3, <2>1, <2>2
  <1>9. \A i \in 1 .. Len(v) : v[i].t # "hello"
    <2> SUFFICES ASSUME NEW i \in 1 .. Len(v) PROVE v[i].t # "hello"
      OBVIOUS
    <2>1. CASE i <= Len(u)
      BY <1>3, <2>1
    <2>2. CASE i > Len(u)
      <3>1. i - Len(u) \in 1 .. Len(w) /\ v[i] = w[i - Len(u)]
        BY <1>2, <1>3, <2>2
      <3> QED BY <1>2, <3>1
    <2> QED BY <1>3, <2>1, <2>2
  <1>10. ASSUME NEW j \in 1 .. Len(live), NEW i \in Len(u) + j .. Len(v)
         PROVE  Says(v, i, live[j])
    <2>1. Len(u) + j \in 1 .. i /\ v[Len(u) + j] = w[j]
      BY <1>2, <1>3
    <2>2. live[j] \in Said(v[Len(u) + j])
      BY <1>2, <2>1 DEF Said
    <2> QED BY <2>1, <2>2 DEF Says, Same
  <1>11. \A i \in 1 .. Len(v) : v[i].t = "op" => OpOK(y, v, i, 0, ls, ss)
    <2> SUFFICES ASSUME NEW i \in 1 .. Len(v), NEW o \in Elements(y.outbox), o.seq <= v[i].op.seq
                 PROVE  Has(Now(ls), Len(Now(ls)), o) \/ Says(v, i, o)
      BY DEF OpOK
    <2>1. CASE i <= Len(u)
      <3>1. i \in 1 .. Len(u) /\ v[i] = u[i]
        BY <1>3, <2>1
      <3>2. u[i].t = "op"
        <4>1. u[i] \in UpMessage /\ u[i].t # "hello"
          BY <1>1, <3>1
        <4> QED BY <4>1, UpKinds
      <3>3. OpOK(x, u, i, 0, ls, ss) /\ o \in Elements(x.outbox)
        BY <1>1, <3>1, <3>2
      <3>4. Has(Now(ls), Len(Now(ls)), o) \/ Says(u, i, o)
        BY <3>1, <3>3 DEF OpOK
      <3>5. i \in 0 .. Len(u)
        BY <3>1
      <3> QED BY <1>4, <3>4, <3>5
    <2>2. CASE i > Len(u)
      <3>1. i - Len(u) \in 1 .. Len(live) /\ v[i] = w[i - Len(u)]
        BY <1>2, <1>3, <2>2
      <3>2. PICK l \in 1 .. Len(live) : l = i - Len(u)
        BY <3>1
      <3>3. v[i].op = live[l]
        BY <1>2, <3>1, <3>2
      <3>4. PICK j \in 1 .. Len(live) : o = live[j]
        <4>1. o \in Elements(live)
          OBVIOUS
        <4> QED BY <1>2, <4>1 DEF Elements
      <3>5. ~(l < j)
        <4>1. l < j => live[l].seq < live[j].seq
          BY <1>2 DEF Ascends
        <4>2. live[l].seq \in Nat /\ live[j].seq \in Nat
          <5>1. live[l] \in Op /\ live[j] \in Op
            OBVIOUS
          <5> QED BY <5>1 DEF Op
        <4> QED BY <3>3, <3>4, <4>1, <4>2
      <3>6. i \in Len(u) + j .. Len(v)
        BY <1>2, <1>3, <2>2, <3>2, <3>5
      <3> QED BY <1>10, <3>4, <3>6
    <2> QED BY <1>3, <2>1, <2>2
  <1>12. ASSUME NEW o \in Elements(y.outbox) PROVE Says(v, Len(v), o)
    <2>1. PICK j \in 1 .. Len(live) : o = live[j]
      <3>1. o \in Elements(live)
        OBVIOUS
      <3> QED BY <1>2, <3>1 DEF Elements
    <2>2. Len(v) \in Len(u) + j .. Len(v)
      BY <1>2, <1>3
    <2> QED BY <1>10, <2>1, <2>2
  <1>13. Upward(y, s, 0, v, ls, ss)
    BY <1>3, <1>8, <1>9, <1>11, <1>12 DEF Upward
  <1> QED BY <1>6, <1>7, <1>13 DEF Talk, v, w

\* A hello, said when none is on its way and no answer is.
LEMMA HelloTalk ==
  ASSUME NEW x \in Page, NEW y, NEW s, NEW k, NEW u, NEW ls, NEW ss, Talk(x, s, k, u, ls, ss),
         \A i \in 1 .. Len(s) : ~Answers(s[i]), \A i \in 1 .. Len(u) : u[i].t # "hello",
         Ascends(x.outbox), \A o \in Elements(x.outbox) : o.by = x.id /\ o.seq \in 1 .. x.seq,
         x.epoch <= Len(ls), x.epoch = Len(ls) => x.v <= Len(Now(ls)),
         y.id = x.id, y.seq = x.seq, y.outbox = x.outbox, y.v = x.v, y.epoch = x.epoch,
         y.synced = x.synced,
         y.answered = IF x.outbox = <<>> THEN 0 ELSE x.outbox[Len(x.outbox)].seq,
         NEW m \in HelloMessage, m.id = x.id, m.ops = x.outbox, m.since = x.v, m.epoch = x.epoch
  PROVE  Talk(y, s, k, u \o <<m>>, ls, ss)
  <1> DEFINE v == u \o <<m>>
  <1>1. /\ u \in Seq(UpMessage)
        /\ \A i \in 1 .. Len(u) : \A p \in Said(u[i]) : p.by = x.id /\ p.seq \in 1 .. x.seq
        /\ \A i \in 1 .. Len(u) : u[i].t = "op" => OpOK(x, u, i, k, ls, ss)
        /\ x.synced /\ k = 0 =>
             \A o \in Elements(x.outbox) : Has(Now(ls), Len(Now(ls)), o) \/ Says(u, Len(u), o)
    BY DEF Talk, Upward
  <1>2. m \in UpMessage /\ m.t = "hello" /\ <<m>> \in Seq(UpMessage)
    <2>1. m \in UpMessage /\ m.t = "hello"
      BY DEF UpMessage, HelloMessage
    <2> QED BY <2>1
  <1>3. /\ v \in Seq(UpMessage) /\ Len(v) = Len(u) + 1 /\ Len(u) \in Nat
        /\ v[Len(u) + 1] = m
        /\ \A i \in 1 .. Len(u) : v[i] = u[i]
    BY <1>1, <1>2
  <1>4. \A o : /\ \A i \in 0 .. Len(u) : Says(v, i, o) <=> Says(u, i, o)
               /\ Says(u, Len(u), o) => Says(v, Len(v), o)
    <2> SUFFICES ASSUME NEW o
        PROVE  /\ \A i \in 0 .. Len(u) : Says(v, i, o) <=> Says(u, i, o)
               /\ Says(u, Len(u), o) => Says(v, Len(v), o)
      OBVIOUS
    <2>1. Len(<<m>>) = 1
      OBVIOUS
    <2>2. Len(v) \in Len(u) .. Len(u) + Len(<<m>>)
      BY <1>3, <2>1
    <2> QED BY <1>1, <1>2, <2>2, SaysMore
  <1> HIDE DEF v
  <1>5. Downward(y, s, k, ls)
    <2>1. \A seq, h, n : Covered(x, seq, h, n) => Covered(y, seq, h, n)
      BY DEF Covered
    <2>2. \A n, old : PatchOK(x, n, old, ls) => PatchOK(y, n, old, ls)
      BY DEF PatchOK
    <2>3. \A n : AckOK(x, n, ls) => AckOK(y, n, ls)
      BY <2>1 DEF AckOK
    <2> QED BY <2>2, <2>3 DEF Talk, Downward
  <1>6. InTouch(y, s, k, ls, ss)
    BY DEF Talk, InTouch
  <1>7. x.outbox \in Seq(Op) /\ DOMAIN x.outbox = 1 .. Len(x.outbox) /\ Len(x.outbox) \in Nat
    <2>1. x.outbox \in Seq(Op)
      BY DEF Page
    <2> QED BY <2>1
  <1>8. \A o \in Elements(x.outbox) : \E p \in Elements(m.ops) : Same(p, o)
    BY DEF Same
  <1>9. HelloOK(y, m, ls)
    BY <1>8 DEF HelloOK
  <1>10. \A i \in 1 .. Len(v) : \A p \in Said(v[i]) : p.by = y.id /\ p.seq \in 1 .. y.seq
    <2> SUFFICES ASSUME NEW i \in 1 .. Len(v), NEW p \in Said(v[i])
                 PROVE  p.by = y.id /\ p.seq \in 1 .. y.seq
      OBVIOUS
    <2>1. CASE i <= Len(u)
      BY <1>1, <1>3, <2>1
    <2>2. CASE i = Len(u) + 1
      <3>1. p \in Elements(x.outbox)
        BY <1>2, <1>3, <2>2 DEF Said
      <3> QED BY <3>1
    <2> QED BY <1>3, <2>1, <2>2
  <1>11. \A i \in 1 .. Len(v) : v[i].t = "hello" => i = Len(u) + 1
    BY <1>3
  <1>12. \A i \in 1 .. Len(v) : v[i].t = "op" => OpOK(y, v, i, k, ls, ss)
    <2> SUFFICES ASSUME NEW i \in 1 .. Len(v), v[i].t = "op" PROVE OpOK(y, v, i, k, ls, ss)
      OBVIOUS
    <2>1. i \in 1 .. Len(u) /\ i \in 0 .. Len(u) /\ v[i] = u[i]
      BY <1>2, <1>3
    <2>2. OpOK(x, u, i, k, ls, ss)
      BY <1>1, <2>1
    <2> QED BY <1>4, <2>1, <2>2 DEF OpOK
  <1>13. Upward(y, s, k, v, ls, ss)
    <2>1. \A i \in 1 .. Len(v) : v[i].t = "hello" =>
            /\ HelloOK(y, v[i], ls)
            /\ \A j \in 1 .. Len(v) : v[j].t = "hello" => i = j
            /\ \A j \in 1 .. Len(s) : ~Answers(s[j])
      BY <1>3, <1>9, <1>11
    <2>2. y.synced /\ k = 0 =>
            \A o \in Elements(y.outbox) : Has(Now(ls), Len(Now(ls)), o) \/ Says(v, Len(v), o)
      BY <1>1, <1>4
    <2> QED BY <1>3, <1>10, <1>12, <2>1, <2>2 DEF Upward
  <1> QED BY <1>5, <1>6, <1>13 DEF Talk, v

-------------------------------------------------------------------------------
(* The history of the store goes on.                                       *)

\* The life the store is in goes on, and the earlier ones are as they were.
Grows(ls, l2) ==
  /\ ls \in Seq(Seq(Op)) /\ l2 \in Seq(Seq(Op)) /\ Len(l2) = Len(ls) /\ Len(ls) >= 1
  /\ \A e \in 1 .. Len(ls) : Extends(l2[e], ls[e])
  /\ \A e \in 1 .. Len(ls) : e < Len(ls) => l2[e] = ls[e]

\* A function over the first numbers is a sequence.
LEMMA FunctionSeq ==
  ASSUME NEW A, NEW n \in Nat, NEW f \in [1 .. n -> A]
  PROVE  f \in Seq(A) /\ Len(f) = n
  BY SMTT(30)

\* The life the store is in is g from here on.
LEMMA GrowsIs ==
  ASSUME NEW ls \in Seq(Seq(Op)), Len(ls) >= 1, NEW g \in Seq(Op), Extends(g, Now(ls))
  PROVE  /\ Grows(ls, [ls EXCEPT ![Len(ls)] = g])
         /\ Now([ls EXCEPT ![Len(ls)] = g]) = g
  <1> DEFINE l2 == [ls EXCEPT ![Len(ls)] = g]
  <1>1. Len(ls) \in Nat /\ Len(ls) \in 1 .. Len(ls) /\ DOMAIN ls = 1 .. Len(ls)
        /\ \A e \in 1 .. Len(ls) : ls[e] \in Seq(Op)
    BY SMTT(30)
  <1>2. /\ l2 \in Seq(Seq(Op)) /\ Len(l2) = Len(ls)
        /\ l2[Len(ls)] = g /\ \A e \in 1 .. Len(ls) : e # Len(ls) => l2[e] = ls[e]
    <2>1. /\ DOMAIN l2 = 1 .. Len(ls) /\ l2[Len(ls)] = g
          /\ \A e \in 1 .. Len(ls) : e # Len(ls) => l2[e] = ls[e]
      BY <1>1
    <2>2. l2 = [e \in 1 .. Len(ls) |-> l2[e]]
      BY <1>1
    <2> HIDE DEF l2
    <2>3. \A e \in 1 .. Len(ls) : l2[e] \in Seq(Op)
      BY <1>1, <2>1
    <2>4. l2 \in [1 .. Len(ls) -> Seq(Op)]
      BY <2>2, <2>3
    <2>5. l2 \in Seq(Seq(Op)) /\ Len(l2) = Len(ls)
      BY <1>1, <2>4, FunctionSeq
    <2> QED BY <2>1, <2>5, ZenonT(30)
  <1> HIDE DEF l2
  <1>3. ASSUME NEW e \in 1 .. Len(ls) PROVE Extends(l2[e], ls[e])
    <2>1. CASE e = Len(ls)
      BY <1>2, <2>1 DEF Now
    <2>2. CASE e # Len(ls)
      <3>1. l2[e] = ls[e] /\ ls[e] \in Seq(Op)
        BY <1>1, <1>2, <2>2
      <3>2. \A h \in Seq(Op) : Len(h) <= Len(h)
        OBVIOUS
      <3> QED BY <3>1, <3>2 DEF Extends
    <2> QED BY <2>1, <2>2
  <1>4. \A e \in 1 .. Len(ls) : e < Len(ls) => l2[e] = ls[e]
    <2> SUFFICES ASSUME NEW e \in 1 .. Len(ls), e < Len(ls) PROVE l2[e] = ls[e]
      OBVIOUS
    <2>1. CASE e = Len(ls)
      <3>1. ~(Len(ls) < Len(ls))
        BY <1>1
      <3> QED BY <2>1, <3>1
    <2>2. CASE e # Len(ls)
      BY <1>2, <2>2
    <2> QED BY <2>1, <2>2
  <1>5. Grows(ls, l2)
    BY <1>1, <1>2, <1>3, <1>4 DEF Grows
  <1> QED BY <1>2, <1>5 DEF Now, l2

\* Rows are as whole as they were.
LEMMA WholeGrows ==
  ASSUME NEW ls, NEW l2, Grows(ls, l2), NEW rows, NEW v, NEW e, Whole(rows, v, e, ls)
  PROVE  Whole(rows, v, e, l2)
  <1>1. CASE e = 0
    BY <1>1 DEF Whole, Grows
  <1>2. CASE e # 0
    <2>1. e \in 1 .. Len(ls) /\ v \in Nat /\ AsOf(rows, v, ls[e]) /\ rows \in Rows /\ e \in 0 .. Len(ls)
      BY <1>2 DEF Whole, Grows
    <2>2. ls[e] \in Seq(Op) /\ l2[e] \in Seq(Op) /\ Extends(l2[e], ls[e])
      BY <2>1 DEF Grows
    <2>3. AsOf(rows, v, l2[e])
      BY <2>1, <2>2, AsOfGrows
    <2> QED BY <1>2, <2>1, <2>3 DEF Whole, Grows
  <1> QED BY <1>1, <1>2

\* What was in the store is.
LEMMA ExplainsGrows ==
  ASSUME NEW ls, NEW l2, Grows(ls, l2), NEW ops, NEW v, NEW e, NEW un,
         v # 0 => e \in 1 .. Len(ls), Explains(ops, v, e, un, ls)
  PROVE  Explains(ops, v, e, un, l2)
  <1>1. ASSUME e \in 1 .. Len(ls) PROVE Numbers(ls[e]) \subseteq Numbers(l2[e])
    <2>1. ls[e] \in Seq(Op) /\ l2[e] \in Seq(Op) /\ Extends(l2[e], ls[e])
      BY <1>1 DEF Grows
    <2>2. DOMAIN ls[e] = 1 .. Len(ls[e]) /\ DOMAIN l2[e] = 1 .. Len(l2[e])
          /\ Len(ls[e]) \in Nat /\ Len(l2[e]) \in Nat
      BY <2>1
    <2> QED BY <2>1, <2>2 DEF Numbers, Extends
  <1> QED BY <1>1 DEF Explains

\* What a life has of the replica's ops it has.
LEMMA CoveredGrows ==
  ASSUME NEW ls, NEW l2, Grows(ls, l2), NEW e \in 1 .. Len(ls), NEW x, NEW seq,
         NEW v \in 0 .. Len(ls[e]), NEW w \in Nat, v <= w, Covered(x, seq, ls[e], v)
  PROVE  Covered(x, seq, l2[e], w)
  <1>1. ls[e] \in Seq(Op) /\ l2[e] \in Seq(Op) /\ Extends(l2[e], ls[e])
    BY DEF Grows
  <1> QED BY <1>1, HasGrows DEF Covered

\* What is told of what the store decided: w, after s.
Told(x, s, w, k, ls, l2, ss, s2) ==
  /\ w \in Seq(DownMessage) /\ s2 \in BOOLEAN
  /\ \A i \in 1 .. Len(w) : w[i].t # "closed" /\ w[i].v <= Len(Now(l2))
  /\ \A i \in 1 .. Len(w) - 1 : From(w[i + 1]) = w[i].v
  /\ w # <<>> => s2 /\ From(w[1]) = Len(Now(ls)) /\ w[Len(w)].v = Len(Now(l2))
  /\ w = <<>> => ~ss /\ ~s2
  /\ ss => s2
  /\ \A i \in 1 .. Len(w) :
       /\ w[i].t = "patch" => w[i].v >= 1 /\ w[i].op = Now(l2)[w[i].v]
       /\ w[i].t = "ack" => k = 0 /\ AckOK(x, w[i], l2)
       /\ Answers(w[i]) => /\ AnswerOK(x, w[i], l2)
                           /\ i > 1 \/ Len(s) # k => w[i].v > 0
                           /\ \A j \in 1 .. Len(w) : Answers(w[j]) => i = j
                           /\ \A j \in 1 .. Len(s) : ~Answers(s[j])
  /\ k # 0 /\ s2 /\ ~ss => \E i \in 1 .. Len(w) : Answers(w[i])

\* It follows from what was on its way.
LEMMA ToldChained ==
  ASSUME NEW x, NEW s, NEW w, NEW k, NEW ls, NEW l2, NEW ss, NEW s2,
         Grows(ls, l2), Chained(s, k, ls, ss), Told(x, s, w, k, ls, l2, ss, s2)
  PROVE  /\ Chained(s \o w, k, l2, s2)
         /\ s # <<>> \/ w # <<>> => Start(s \o w, l2) = Start(s, ls)
  <1> DEFINE r == s \o w
             n == Len(Now(ls))
             m == Len(Now(l2))
  <1>1. /\ s \in Seq(DownMessage) /\ k \in 0 .. Len(s)
        /\ \A i \in 1 .. Len(s) : s[i].t = "closed" <=> i = k
        /\ \A i \in 1 .. Len(s) - 1 : i # k /\ i + 1 # k => From(s[i + 1]) = s[i].v
        /\ Len(s) # k => ss /\ s[Len(s)].v = n
        /\ \A i \in k + 1 .. Len(s) : s[i].v <= n
    BY DEF Chained
  <1>2. /\ w \in Seq(DownMessage)
        /\ \A i \in 1 .. Len(w) : w[i].t # "closed" /\ w[i].v <= m
        /\ \A i \in 1 .. Len(w) - 1 : From(w[i + 1]) = w[i].v
        /\ w # <<>> => s2 /\ From(w[1]) = n /\ w[Len(w)].v = m
        /\ w = <<>> => ~ss /\ ~s2
        /\ ss => s2
    BY DEF Told
  <1>3. n \in Nat /\ m \in Nat /\ n <= m
    <2>1. Now(ls) \in Seq(Op) /\ Now(l2) \in Seq(Op) /\ Extends(Now(l2), Now(ls))
      BY DEF Grows, Now
    <2> QED BY <2>1 DEF Extends
  <1>4. /\ r \in Seq(DownMessage) /\ Len(r) = Len(s) + Len(w) /\ Len(s) \in Nat /\ Len(w) \in Nat
    BY <1>1, <1>2, ConcatIs
  <1>5. \A i \in 1 .. Len(s) : r[i] = s[i]
    BY <1>1, <1>2, ConcatIs
  <1>6. \A i \in Len(s) + 1 .. Len(r) : r[i] = w[i - Len(s)]
    BY <1>1, <1>2, ConcatIs
  <1>7. (w = <<>>) <=> (Len(w) = 0)
    BY <1>2
  <1>8. (s = <<>>) <=> (Len(s) = 0)
    BY <1>1
  <1> HIDE DEF r, n, m
  <1>9. k \in Nat /\ k <= Len(s) /\ k \in 0 .. Len(r)
    BY <1>1, <1>4
  <1>10. \A i \in Len(s) + 1 .. Len(r) : i - Len(s) \in 1 .. Len(w)
    BY <1>4
  <1>11. \A i \in 1 .. Len(r) : r[i].t = "closed" <=> i = k
    <2> SUFFICES ASSUME NEW i \in 1 .. Len(r) PROVE r[i].t = "closed" <=> i = k
      OBVIOUS
    <2>1. CASE i <= Len(s)
      BY <1>1, <1>4, <1>5, <2>1
    <2>2. CASE i > Len(s)
      <3>1. i \in Len(s) + 1 .. Len(r) /\ i # k
        BY <1>4, <1>9, <2>2
      <3> QED BY <1>2, <1>6, <1>10, <3>1
    <2> QED BY <1>4, <2>1, <2>2
  <1>12. \A i \in 1 .. Len(r) - 1 : i # k /\ i + 1 # k => From(r[i + 1]) = r[i].v
    <2> SUFFICES ASSUME NEW i \in 1 .. Len(r) - 1, i # k, i + 1 # k
                 PROVE  From(r[i + 1]) = r[i].v
      OBVIOUS
    <2>1. CASE i < Len(s)
      <3>1. r[i] = s[i] /\ r[i + 1] = s[i + 1] /\ i \in 1 .. Len(s) - 1
        BY <1>4, <1>5, <2>1
      <3> QED BY <1>1, <3>1
    <2>2. CASE i = Len(s)
      <3>1. r[i] = s[i] /\ i + 1 \in Len(s) + 1 .. Len(r) /\ (i + 1) - Len(s) = 1 /\ Len(w) # 0
        BY <1>4, <1>5, <2>2
      <3>2. r[i + 1] = w[1] /\ From(w[1]) = n
        BY <1>2, <1>6, <1>7, <3>1
      <3> QED BY <1>1, <2>2, <3>1, <3>2
    <2>3. CASE i > Len(s)
      <3>1. i \in Len(s) + 1 .. Len(r) /\ i + 1 \in Len(s) + 1 .. Len(r)
            /\ i - Len(s) \in 1 .. Len(w) - 1 /\ (i + 1) - Len(s) = (i - Len(s)) + 1
        BY <1>4, <2>3
      <3>2. r[i] = w[i - Len(s)] /\ r[i + 1] = w[(i - Len(s)) + 1]
        BY <1>6, <3>1
      <3> QED BY <1>2, <3>1, <3>2
    <2> QED BY <1>4, <2>1, <2>2, <2>3
  <1>13. Len(r) # k => s2 /\ r[Len(r)].v = m
    <2> SUFFICES ASSUME Len(r) # k PROVE s2 /\ r[Len(r)].v = m
      OBVIOUS
    <2>1. CASE w = <<>>
      BY <1>1, <1>2, <1>4, <1>7, <2>1
    <2>2. CASE w # <<>>
      <3>1. Len(r) \in Len(s) + 1 .. Len(r) /\ Len(r) - Len(s) = Len(w)
        BY <1>4, <1>7, <2>2
      <3>2. r[Len(r)] = w[Len(w)]
        BY <1>6, <3>1
      <3> QED BY <1>2, <2>2, <3>2
    <2> QED BY <2>1, <2>2
  <1>14. \A i \in k + 1 .. Len(r) : r[i].v <= m
    <2> SUFFICES ASSUME NEW i \in k + 1 .. Len(r) PROVE r[i].v <= m
      OBVIOUS
    <2>1. CASE i <= Len(s)
      <3>1. i \in 1 .. Len(s) /\ i \in k + 1 .. Len(s) /\ i # k
        BY <1>4, <1>9, <2>1
      <3>2. s[i].v <= n /\ s[i].v \in Nat
        <4>1. s[i] \in DownMessage /\ s[i].t # "closed"
          BY <1>1, <3>1
        <4> QED BY <1>1, <3>1, <4>1, DownKinds
      <3> QED BY <1>3, <1>5, <3>1, <3>2
    <2>2. CASE i > Len(s)
      <3>1. i \in Len(s) + 1 .. Len(r)
        BY <1>4, <1>9, <2>2
      <3> QED BY <1>2, <1>6, <1>10, <3>1
    <2> QED BY <1>4, <1>9, <2>1, <2>2
  <1>15. Chained(r, k, l2, s2)
    BY <1>4, <1>9, <1>11, <1>12, <1>13, <1>14 DEF Chained, m
  <1>16. ASSUME s # <<>> \/ w # <<>> PROVE Start(r, l2) = Start(s, ls)
    <2>1. r # <<>>
      <3>1. Len(r) # 0
        BY <1>4, <1>7, <1>8, <1>16
      <3> QED BY <1>4, <3>1
    <2>2. CASE s # <<>>
      <3>1. 1 \in 1 .. Len(s)
        BY <1>4, <1>8, <2>2
      <3> QED BY <1>5, <2>1, <2>2, <3>1 DEF Start
    <2>3. CASE s = <<>>
      <3>1. 1 \in Len(s) + 1 .. Len(r) /\ 1 - Len(s) = 1 /\ w # <<>>
        BY <1>4, <1>7, <1>8, <1>16, <2>3
      <3>2. r[1] = w[1]
        BY <1>6, <3>1
      <3> QED BY <1>2, <2>1, <2>3, <3>1, <3>2 DEF Start, n
    <2> QED BY <2>2, <2>3
  <1> QED BY <1>15, <1>16 DEF r

\* A part of a history is the same part of one that goes on from it.
LEMMA SubSeqSame ==
  ASSUME NEW h \in Seq(Op), NEW g \in Seq(Op), Extends(g, h), NEW a \in Nat, a >= 1, NEW b \in Nat,
         b <= Len(h)
  PROVE  SubSeq(g, a, b) = SubSeq(h, a, b)
  <1>1. Len(h) \in Nat /\ Len(g) \in Nat /\ Len(h) <= Len(g)
        /\ \A i \in 1 .. Len(h) : g[i] = h[i]
    BY DEF Extends
  <1>2. SubSeq(g, a, b) = [i \in 1 .. (1 + b - a) |-> g[i + a - 1]]
    OBVIOUS
  <1>3. SubSeq(h, a, b) = [i \in 1 .. (1 + b - a) |-> h[i + a - 1]]
    OBVIOUS
  <1>4. \A i \in 1 .. (1 + b - a) : i + a - 1 \in 1 .. Len(h)
    BY <1>1
  <1>5. \A i \in 1 .. (1 + b - a) : g[i + a - 1] = h[i + a - 1]
    BY <1>1, <1>4
  <1> QED BY <1>2, <1>3, <1>5

\* What a message says holds when the history goes on.
LEMMA MessageGrows ==
  ASSUME NEW ls, NEW l2, Grows(ls, l2),
         NEW x, x.epoch \in 0 .. Len(ls), x.synced => x.epoch # 0, NEW m \in DownMessage
  PROVE  /\ m.t = "patch" /\ PatchOK(x, m, FALSE, ls) /\ m.v <= Len(Now(ls)) => PatchOK(x, m, FALSE, l2)
         /\ m.t = "patch" /\ PatchOK(x, m, TRUE, ls) /\ x.epoch < Len(ls) => PatchOK(x, m, TRUE, l2)
         /\ m.t = "ack" /\ AckOK(x, m, ls) => AckOK(x, m, l2)
         /\ Answers(m) /\ AnswerOK(x, m, ls) /\ m.v <= Len(Now(ls)) => AnswerOK(x, m, l2)
  <1>1. /\ ls \in Seq(Seq(Op)) /\ l2 \in Seq(Seq(Op)) /\ Len(l2) = Len(ls) /\ Len(ls) >= 1
        /\ \A e \in 1 .. Len(ls) : Extends(l2[e], ls[e])
        /\ \A e \in 1 .. Len(ls) : e < Len(ls) => l2[e] = ls[e]
        /\ Len(ls) \in Nat
    BY DEF Grows
  <1>2. Now(ls) \in Seq(Op) /\ Now(l2) \in Seq(Op) /\ Extends(Now(l2), Now(ls))
    BY <1>1 DEF Now
  <1>3. Len(Now(ls)) \in Nat /\ \A i \in 1 .. Len(Now(ls)) : Now(l2)[i] = Now(ls)[i]
    BY <1>2 DEF Extends
  <1>4. m.t # "closed" => m.v \in Nat
    BY DownKinds
  <1>5. ASSUME m.t = "patch", PatchOK(x, m, FALSE, ls), m.v <= Len(Now(ls))
        PROVE  PatchOK(x, m, FALSE, l2)
    BY <1>3, <1>4, <1>5 DEF PatchOK
  <1>6. ASSUME m.t = "patch", PatchOK(x, m, TRUE, ls), x.epoch < Len(ls)
        PROVE  PatchOK(x, m, TRUE, l2)
    <2>1. x.synced => l2[x.epoch] = ls[x.epoch]
      BY <1>1, <1>6
    <2> QED BY <1>6, <2>1 DEF PatchOK
  <1>7. ASSUME m.t = "ack", AckOK(x, m, ls) PROVE AckOK(x, m, l2)
    <2>1. /\ x.synced /\ m.v \in 1 .. Len(ls[x.epoch])
          /\ m.seq <= x.seq /\ Covered(x, m.seq, ls[x.epoch], m.v)
      BY <1>7 DEF AckOK
    <2>2. x.epoch \in 1 .. Len(ls)
      BY <1>1, <2>1
    <2>3. ls[x.epoch] \in Seq(Op) /\ l2[x.epoch] \in Seq(Op) /\ Extends(l2[x.epoch], ls[x.epoch])
      BY <1>1, <2>2
    <2>4. m.v \in 1 .. Len(l2[x.epoch]) /\ m.v \in 0 .. Len(ls[x.epoch]) /\ m.v \in Nat /\ m.v <= m.v
      BY <2>1, <2>3 DEF Extends
    <2>5. Covered(x, m.seq, l2[x.epoch], m.v)
      BY <2>1, <2>2, <2>4, CoveredGrows
    <2> QED BY <2>1, <2>4, <2>5 DEF AckOK
  <1>8. ASSUME Answers(m), AnswerOK(x, m, ls), m.v <= Len(Now(ls)) PROVE AnswerOK(x, m, l2)
    <2>1. m.v \in 0 .. Len(Now(ls)) /\ m.v \in Nat /\ m.v <= m.v /\ m.v <= Len(Now(ls))
      BY <1>3, <1>4, <1>8 DEF Answers
    <2>2. Covered(x, m.seq, Now(l2), m.v)
      <3>1. Len(ls) \in 1 .. Len(ls) /\ Covered(x, m.seq, ls[Len(ls)], m.v)
            /\ m.v \in 0 .. Len(ls[Len(ls)])
        BY <1>1, <1>8, <2>1 DEF AnswerOK, Now
      <3>2. Covered(x, m.seq, l2[Len(ls)], m.v)
        BY <2>1, <3>1, CoveredGrows
      <3> QED BY <1>1, <3>2 DEF Now
    <2>3. UpTo(Now(l2), m.v) = UpTo(Now(ls), m.v)
      BY <1>2, <2>1, SubSeqSame DEF UpTo
    <2>4. \A since \in 0 .. m.v : SubSeq(Now(l2), since + 1, m.v) = SubSeq(Now(ls), since + 1, m.v)
      <3> SUFFICES ASSUME NEW since \in 0 .. m.v
                   PROVE  SubSeq(Now(l2), since + 1, m.v) = SubSeq(Now(ls), since + 1, m.v)
        OBVIOUS
      <3>1. since + 1 \in Nat /\ since + 1 >= 1
        BY <2>1
      <3> QED BY <1>2, <2>1, <3>1, SubSeqSame
    <2> QED BY <1>1, <1>8, <2>2, <2>3, <2>4 DEF AnswerOK
  <1> QED BY <1>5, <1>6, <1>7, <1>8

\* What is on its way down stays right, and what is told is.
LEMMA ToldDownward ==
  ASSUME NEW x, NEW s, NEW w, NEW k, NEW ls, NEW l2, NEW ss, NEW s2,
         x.epoch \in 0 .. Len(ls), x.synced => x.epoch # 0,
         Grows(ls, l2), Chained(s, k, ls, ss), Told(x, s, w, k, ls, l2, ss, s2),
         k # 0 => x.epoch < Len(ls), Downward(x, s, k, ls)
  PROVE  Downward(x, s \o w, k, l2)
  <1> DEFINE r == s \o w
  <1>1. s \in Seq(DownMessage) /\ w \in Seq(DownMessage) /\ k \in Nat /\ k <= Len(s)
    <2>1. s \in Seq(DownMessage) /\ w \in Seq(DownMessage) /\ k \in 0 .. Len(s)
      BY DEF Chained, Told
    <2> QED BY <2>1
  <1>2. /\ Len(r) = Len(s) + Len(w) /\ Len(s) \in Nat /\ Len(w) \in Nat
    BY <1>1, ConcatIs
  <1>3. \A i \in 1 .. Len(s) : r[i] = s[i]
    BY <1>1, ConcatIs
  <1>4. \A i \in Len(s) + 1 .. Len(r) : r[i] = w[i - Len(s)]
    BY <1>1, ConcatIs
  <1> HIDE DEF r
  <1>5. /\ \A i \in k + 1 .. Len(s) : s[i].v <= Len(Now(ls))
        /\ \A i \in 1 .. Len(s) : s[i].t = "closed" <=> i = k
    BY DEF Chained
  <1>6. \A i \in 1 .. Len(w) :
       /\ w[i].t = "patch" => w[i].v >= 1 /\ w[i].op = Now(l2)[w[i].v]
       /\ w[i].t = "ack" => k = 0 /\ AckOK(x, w[i], l2)
       /\ Answers(w[i]) => /\ AnswerOK(x, w[i], l2)
                           /\ i > 1 \/ Len(s) # k => w[i].v > 0
                           /\ \A j \in 1 .. Len(w) : Answers(w[j]) => i = j
                           /\ \A j \in 1 .. Len(s) : ~Answers(s[j])
    BY DEF Told
  <1> SUFFICES ASSUME NEW i \in 1 .. Len(r)
      PROVE  /\ r[i].t = "patch" => PatchOK(x, r[i], i < k, l2)
             /\ r[i].t = "ack" => (k = 0 \/ i < k) /\ AckOK(x, r[i], l2)
             /\ Answers(r[i]) => /\ i > k /\ AnswerOK(x, r[i], l2)
                                 /\ i > k + 1 => r[i].v > 0
                                 /\ \A j \in 1 .. Len(r) : Answers(r[j]) => i = j
    BY DEF Downward, r
  <1>7. CASE i <= Len(s)
    <2>1. i \in 1 .. Len(s) /\ r[i] = s[i]
      BY <1>2, <1>3, <1>7
    <2>2. /\ s[i].t = "patch" => PatchOK(x, s[i], i < k, ls)
          /\ s[i].t = "ack" => (k = 0 \/ i < k) /\ AckOK(x, s[i], ls)
          /\ Answers(s[i]) => /\ i > k /\ AnswerOK(x, s[i], ls)
                              /\ i > k + 1 => s[i].v > 0
                              /\ \A j \in 1 .. Len(s) : Answers(s[j]) => i = j
      BY <2>1 DEF Downward
    <2>3. s[i] \in DownMessage
      BY <1>1, <2>1
    <2>4. i > k => s[i].v <= Len(Now(ls))
      BY <1>1, <1>2, <1>5, <2>1
    <2>5. s[i].t = "patch" => PatchOK(x, s[i], i < k, l2)
      <3>1. CASE i < k
        <4>1. PatchOK(x, s[i], i < k, ls) => PatchOK(x, s[i], TRUE, ls)
          BY <3>1 DEF PatchOK
        <4>2. x.epoch < Len(ls)
          BY <1>1, <2>1, <3>1
        <4>3. PatchOK(x, s[i], TRUE, l2) => PatchOK(x, s[i], i < k, l2)
          BY <3>1 DEF PatchOK
        <4> QED BY <2>2, <2>3, <4>1, <4>2, <4>3, MessageGrows
      <3>2. CASE ~(i < k)
        <4>1. PatchOK(x, s[i], i < k, ls) => PatchOK(x, s[i], FALSE, ls)
          BY <3>2 DEF PatchOK
        <4>2. s[i].t = "patch" => s[i].v <= Len(Now(ls))
          BY <1>1, <1>2, <1>5, <2>1, <2>4, <3>2
        <4>3. PatchOK(x, s[i], FALSE, l2) => PatchOK(x, s[i], i < k, l2)
          BY <3>2 DEF PatchOK
        <4> QED BY <2>2, <2>3, <4>1, <4>2, <4>3, MessageGrows
      <3> QED BY <3>1, <3>2
    <2>6. s[i].t = "ack" => (k = 0 \/ i < k) /\ AckOK(x, s[i], l2)
      BY <2>2, <2>3, MessageGrows
    <2>7. Answers(s[i]) => i > k /\ AnswerOK(x, s[i], l2) /\ (i > k + 1 => s[i].v > 0)
      BY <2>2, <2>3, <2>4, MessageGrows
    <2>8. ASSUME Answers(s[i]), NEW j \in 1 .. Len(r), Answers(r[j]) PROVE i = j
      <3>1. CASE j <= Len(s)
        <4>1. j \in 1 .. Len(s) /\ r[j] = s[j]
          BY <1>2, <1>3, <3>1
        <4> QED BY <2>2, <2>8, <4>1
      <3>2. CASE j > Len(s)
        <4>1. j \in Len(s) + 1 .. Len(r) /\ j - Len(s) \in 1 .. Len(w)
          BY <1>2, <3>2
        <4>2. Answers(w[j - Len(s)])
          BY <1>4, <2>8, <4>1
        <4> QED BY <1>6, <2>1, <2>8, <4>1, <4>2
      <3> QED BY <1>2, <3>1, <3>2
    <2> QED BY <2>1, <2>5, <2>6, <2>7, <2>8
  <1>8. CASE i > Len(s)
    <2>1. i \in Len(s) + 1 .. Len(r) /\ i > k /\ ~(i < k)
      BY <1>1, <1>2, <1>8
    <2>2. PICK l \in 1 .. Len(w) : l = i - Len(s)
      <3>1. i - Len(s) \in 1 .. Len(w)
        BY <1>2, <2>1
      <3> QED BY <3>1, Zenon
    <2>3. r[i] = w[l]
      BY <1>4, <2>1, <2>2
    <2>4. /\ w[l].t = "patch" => w[l].v >= 1 /\ w[l].op = Now(l2)[w[l].v]
          /\ w[l].t = "ack" => k = 0 /\ AckOK(x, w[l], l2)
          /\ Answers(w[l]) => /\ AnswerOK(x, w[l], l2)
                              /\ l > 1 \/ Len(s) # k => w[l].v > 0
                              /\ \A j \in 1 .. Len(w) : Answers(w[j]) => l = j
                              /\ \A j \in 1 .. Len(s) : ~Answers(s[j])
      BY <1>6, <2>2
    <2>5. w[l].t = "patch" => PatchOK(x, w[l], i < k, l2)
      BY <2>1, <2>4 DEF PatchOK
    <2>6. i > k + 1 => l > 1 \/ Len(s) # k
      BY <1>1, <1>2, <2>1, <2>2
    <2>7. ASSUME Answers(w[l]), NEW j \in 1 .. Len(r), Answers(r[j]) PROVE i = j
      <3>1. CASE j <= Len(s)
        <4>1. j \in 1 .. Len(s) /\ r[j] = s[j]
          BY <1>2, <1>3, <3>1
        <4> QED BY <2>4, <2>7, <4>1
      <3>2. CASE j > Len(s)
        <4>1. j \in Len(s) + 1 .. Len(r) /\ j - Len(s) \in 1 .. Len(w)
          BY <1>2, <3>2
        <4>2. Answers(w[j - Len(s)])
          BY <1>4, <2>7, <4>1
        <4>3. l = j - Len(s)
          BY <2>4, <2>7, <4>1, <4>2
        <4> QED BY <1>2, <2>1, <2>2, <4>1, <4>3
      <3> QED BY <1>2, <3>1, <3>2
    <2> QED BY <2>1, <2>3, <2>4, <2>5, <2>6, <2>7
  <1> QED BY <1>2, <1>7, <1>8

\* The client is in touch as it was.
LEMMA ToldInTouch ==
  ASSUME NEW x, NEW s, NEW w, NEW k, NEW ls, NEW l2, NEW ss, NEW s2,
         Grows(ls, l2), Chained(s, k, ls, ss), Told(x, s, w, k, ls, l2, ss, s2),
         InTouch(x, s, k, ls, ss)
  PROVE  InTouch(x, s \o w, k, l2, s2)
  <1> DEFINE r == s \o w
  <1>1. s \in Seq(DownMessage) /\ w \in Seq(DownMessage) /\ k \in 0 .. Len(s)
    BY DEF Chained, Told
  <1>2. Len(l2) = Len(ls)
    BY DEF Grows
  <1>3. /\ Len(r) = Len(s) + Len(w) /\ Len(s) \in Nat /\ Len(w) \in Nat
    BY <1>1, ConcatIs
  <1>4. \A i \in 1 .. Len(s) : r[i] = s[i]
    BY <1>1, ConcatIs
  <1>5. \A i \in 1 .. Len(w) : r[Len(s) + i] = w[i]
    BY <1>1, ConcatIs
  <1>6. s # <<>> \/ w # <<>> => Start(r, l2) = Start(s, ls)
    BY ToldChained
  <1> HIDE DEF r
  <1>7. (ss => s2) /\ (w = <<>> => ~ss)
    BY DEF Told
  <1>8. ASSUME x.synced, k # 1 PROVE Start(r, l2) <= x.v
    <2>1. s # <<>> \/ w # <<>>
      <3>1. CASE k = 0
        BY <1>7, <1>8, <3>1 DEF InTouch
      <3>2. CASE k # 0
        <4>1. Len(s) # 0
          BY <1>1, <1>3, <3>2
        <4> QED BY <4>1
      <3> QED BY <3>1, <3>2
    <2> QED BY <1>6, <1>8, <2>1 DEF InTouch
  <1>9. ASSUME k # 0, s2 PROVE \E i \in 1 .. Len(r) : Answers(r[i])
    <2>1. CASE ss
      <3>1. PICK i \in 1 .. Len(s) : Answers(s[i])
        BY <1>9, <2>1 DEF InTouch
      <3>2. i \in 1 .. Len(r)
        BY <1>3
      <3> QED BY <1>4, <3>1, <3>2
    <2>2. CASE ~ss
      <3>1. PICK i \in 1 .. Len(w) : Answers(w[i])
        BY <1>9, <2>2 DEF Told
      <3>2. Len(s) + i \in 1 .. Len(r)
        BY <1>3
      <3> QED BY <1>5, <3>1, <3>2
    <2> QED BY <2>1, <2>2
  <1> QED BY <1>2, <1>7, <1>8, <1>9 DEF InTouch, r

\* What was asked for is as right as it was.
LEMMA ToldAsking ==
  ASSUME NEW x, NEW s, NEW w, NEW k, NEW u, NEW u2, NEW ls, NEW l2, NEW ss, NEW s2,
         Grows(ls, l2), Chained(s, k, ls, ss), Told(x, s, w, k, ls, l2, ss, s2),
         Asking(x, s, k, u, ls, ss), x \in Page,
         x.holds => /\ \A i \in 1 .. Len(w) : ~Answers(w[i])
                    /\ \A i \in 1 .. Len(u2) : u2[i].t # "hello"
  PROVE  Asking(x, s \o w, k, u2, l2, s2)
  <1> DEFINE r == s \o w
  <1>1. s \in Seq(DownMessage) /\ w \in Seq(DownMessage) /\ k \in 0 .. Len(s)
    BY DEF Chained, Told
  <1>2. /\ ls \in Seq(Seq(Op)) /\ l2 \in Seq(Seq(Op)) /\ Len(l2) = Len(ls) /\ Len(ls) >= 1
        /\ \A e \in 1 .. Len(ls) : Extends(l2[e], ls[e])
        /\ Len(ls) \in Nat
    BY DEF Grows
  <1>3. Now(ls) \in Seq(Op) /\ Now(l2) \in Seq(Op) /\ Extends(Now(l2), Now(ls))
    BY <1>2 DEF Now
  <1>4. Len(Now(ls)) \in Nat /\ Len(Now(l2)) \in Nat /\ Len(Now(ls)) <= Len(Now(l2))
    BY <1>3 DEF Extends
  <1>5. /\ Len(r) = Len(s) + Len(w) /\ Len(s) \in Nat /\ Len(w) \in Nat
    BY <1>1, ConcatIs
  <1>6. \A i \in 1 .. Len(s) : r[i] = s[i]
    BY <1>1, ConcatIs
  <1>7. \A i \in Len(s) + 1 .. Len(r) : r[i] = w[i - Len(s)]
    BY <1>1, ConcatIs
  <1>8. s # <<>> \/ w # <<>> => Start(r, l2) = Start(s, ls)
    BY ToldChained
  <1> HIDE DEF r
  <1>9. (ss => s2) /\ (w = <<>> => ~ss)
    BY DEF Told
  <1>10. \A seq : \A v \in 0 .. Len(Now(ls)) : \A n \in Nat : v <= n /\ Covered(x, seq, Now(ls), v)
            => Covered(x, seq, Now(l2), n)
    <2>1. Len(ls) \in 1 .. Len(ls) /\ Now(ls) = ls[Len(ls)] /\ Now(l2) = l2[Len(ls)]
      BY <1>2 DEF Now
    <2>2. \A seq : \A v \in 0 .. Len(ls[Len(ls)]) : \A n \in Nat :
            v <= n /\ Covered(x, seq, ls[Len(ls)], v) => Covered(x, seq, l2[Len(ls)], n)
      BY <2>1, CoveredGrows
    <2> QED BY <2>1, <2>2
  <1>11. ASSUME NEW q \in x.asks, q.mine, k = 0, x.holds, RequestOK(x, q, s, ls)
         PROVE  RequestOK(x, q, r, l2)
    <2>1. Covered(x, q.seq, Now(l2), Len(Now(l2)))
      BY <1>4, <1>10, <1>11 DEF RequestOK
    <2>2. q.v \in Nat
      BY DEF Page, Request
    <2>3. ASSUME q.at = "body"
          PROVE  /\ q.life = Len(l2) /\ q.v <= Len(Now(l2)) /\ q.base = StateOf(UpTo(Now(l2), q.v))
                 /\ Start(r, l2) <= q.v /\ Covered(x, q.seq, Now(l2), q.v)
                 /\ x.epoch = Len(l2) /\ x.v > 0 => q.v > 0
      <3>1. /\ q.life = Len(ls) /\ q.v <= Len(Now(ls)) /\ q.base = StateOf(UpTo(Now(ls), q.v))
            /\ Start(s, ls) <= q.v /\ Covered(x, q.seq, Now(ls), q.v)
            /\ x.epoch = Len(ls) /\ x.v > 0 => q.v > 0
        BY <1>11, <2>3 DEF RequestOK
      <3>2. ss
        BY <1>11 DEF Asking
      <3>3. Start(r, l2) = Start(s, ls)
        BY <1>8, <1>9, <3>2
      <3>4. UpTo(Now(l2), q.v) = UpTo(Now(ls), q.v)
        <4>1. 1 \in Nat /\ 1 >= 1 /\ q.v <= Len(Now(ls))
          BY <3>1
        <4>2. SubSeq(Now(l2), 1, q.v) = SubSeq(Now(ls), 1, q.v)
          BY <1>3, <2>2, <4>1, SubSeqSame
        <4> QED BY <4>2 DEF UpTo
      <3>5. q.v \in 0 .. Len(Now(ls)) /\ q.v <= q.v /\ q.v <= Len(Now(l2))
        BY <1>4, <2>2, <3>1
      <3>6. Covered(x, q.seq, Now(l2), q.v)
        BY <1>10, <2>2, <3>1, <3>5
      <3> QED BY <1>2, <3>1, <3>3, <3>4, <3>5, <3>6
    <2> QED BY <1>11, <2>1, <2>3 DEF RequestOK
  <1>12. ASSUME x.holds, NEW i \in 1 .. Len(r) PROVE ~Answers(r[i])
    <2>1. CASE i <= Len(s)
      <3>1. i \in 1 .. Len(s)
        BY <1>5, <2>1
      <3> QED BY <1>6, <1>12, <3>1 DEF Asking
    <2>2. CASE i > Len(s)
      <3>1. i \in Len(s) + 1 .. Len(r) /\ i - Len(s) \in 1 .. Len(w)
        BY <1>5, <2>2
      <3> QED BY <1>7, <1>12, <3>1
    <2> QED BY <1>5, <2>1, <2>2
  <1>13. \A q, p \in x.asks : q.mine /\ p.mine => q = p
    BY DEF Asking
  <1>14. \A q \in x.asks : q.mine => x.holds /\ (k = 0 => RequestOK(x, q, r, l2))
    BY <1>11 DEF Asking
  <1>15. x.holds => (k = 0 => s2) /\ \A i \in 1 .. Len(u2) : u2[i].t # "hello"
    BY <1>9 DEF Asking
  <1>16. (~x.holds => x.held = <<>>) /\ \A i \in 1 .. Len(x.held) : x.held[i].t # "closed"
    BY DEF Asking
  <1> QED BY <1>12, <1>13, <1>14, <1>15, <1>16 DEF Asking, r

\* What comes from the client is right when its first message was taken (n is 1) or none was.
LEMMA ToldUpward ==
  ASSUME NEW x, NEW s, NEW w, NEW k, NEW u, NEW n \in {0, 1}, NEW u2 \in Seq(UpMessage),
         NEW ls, NEW l2, NEW ss, NEW s2,
         Grows(ls, l2), Chained(s, k, ls, ss), Told(x, s, w, k, ls, l2, ss, s2),
         Upward(x, s, k, u, ls, ss),
         Len(u) = Len(u2) + n, \A i \in 1 .. Len(u2) : u2[i] = u[i + n],
         n = 1 => \A o \in Elements(x.outbox) : \A p \in Said(u[1]) :
                    Same(p, o) => Has(Now(l2), Len(Now(l2)), o),
         (\E i \in 1 .. Len(u2) : u2[i].t = "hello") => \A j \in 1 .. Len(w) : ~Answers(w[j])
  PROVE  Upward(x, s \o w, k, u2, l2, s2)
  <1> DEFINE r == s \o w
             H(o) == Has(Now(ls), Len(Now(ls)), o)
             G(o) == Has(Now(l2), Len(Now(l2)), o)
  <1>1. s \in Seq(DownMessage) /\ w \in Seq(DownMessage)
    BY DEF Chained, Told
  <1>2. /\ Len(r) = Len(s) + Len(w) /\ Len(s) \in Nat /\ Len(w) \in Nat
    BY <1>1, ConcatIs
  <1>3. \A i \in 1 .. Len(s) : r[i] = s[i]
    BY <1>1, ConcatIs
  <1>4. \A i \in Len(s) + 1 .. Len(r) : r[i] = w[i - Len(s)]
    BY <1>1, ConcatIs
  <1> HIDE DEF r
  <1>5. /\ Len(l2) = Len(ls) /\ Now(ls) \in Seq(Op) /\ Now(l2) \in Seq(Op)
        /\ Extends(Now(l2), Now(ls)) /\ (ss => s2)
    BY DEF Grows, Now, Told
  <1>6. Len(Now(ls)) \in Nat /\ Len(Now(l2)) \in Nat /\ Len(Now(ls)) <= Len(Now(l2))
        /\ Len(Now(ls)) \in 0 .. Len(Now(ls))
    BY <1>5 DEF Extends
  <1>7. \A o : H(o) => G(o)
    BY <1>5, <1>6, HasGrows
  <1>8. /\ u \in Seq(UpMessage) /\ Len(u) \in Nat /\ Len(u2) \in Nat
        /\ \A i \in 1 .. Len(u2) : i + n \in 1 .. Len(u)
    <2>1. u \in Seq(UpMessage)
      BY DEF Upward
    <2> QED BY <2>1
  <1>9. ASSUME NEW i \in 0 .. Len(u2), NEW o \in Elements(x.outbox), Says(u, i + n, o)
        PROVE  G(o) \/ Says(u2, i, o)
    <2>1. PICK j \in 1 .. i + n : \E p \in Said(u[j]) : Same(p, o)
      BY <1>9 DEF Says
    <2>2. CASE j = n
      <3>1. n = 1 /\ j = 1
        BY <2>2
      <3> QED BY <2>1, <3>1
    <2>3. CASE j # n
      <3>1. j - n \in 1 .. i /\ j - n \in 1 .. Len(u2) /\ (j - n) + n = j
        BY <1>8, <2>3
      <3>2. u2[j - n] = u[j]
        BY <3>1
      <3> QED BY <2>1, <3>1, <3>2 DEF Says
    <2> QED BY <2>2, <2>3
  <1>10. \A i \in 1 .. Len(u2) : \A p \in Said(u2[i]) : p.by = x.id /\ p.seq \in 1 .. x.seq
    BY <1>8 DEF Upward
  <1>11. ASSUME NEW i \in 1 .. Len(u2), u2[i].t = "hello"
         PROVE  /\ HelloOK(x, u2[i], l2)
                /\ \A j \in 1 .. Len(u2) : u2[j].t = "hello" => i = j
                /\ \A j \in 1 .. Len(r) : ~Answers(r[j])
    <2>1. i + n \in 1 .. Len(u) /\ u[i + n] = u2[i] /\ u[i + n].t = "hello"
      BY <1>8, <1>11
    <2>2. /\ HelloOK(x, u2[i], ls)
          /\ \A j \in 1 .. Len(u) : u[j].t = "hello" => i + n = j
          /\ \A j \in 1 .. Len(s) : ~Answers(s[j])
      BY <2>1 DEF Upward
    <2>3. HelloOK(x, u2[i], l2)
      <3>1. u2[i].since \in Nat
        BY <1>11, UpKinds DEF HelloMessage
      <3>2. u2[i].since <= Len(Now(ls)) => u2[i].since <= Len(Now(l2))
        BY <1>6, <3>1
      <3> QED BY <1>5, <2>2, <3>2 DEF HelloOK
    <2>4. ASSUME NEW j \in 1 .. Len(u2), u2[j].t = "hello" PROVE i = j
      <3>1. j + n \in 1 .. Len(u) /\ u[j + n] = u2[j]
        BY <1>8
      <3>2. i + n = j + n
        BY <2>2, <2>4, <3>1
      <3> QED BY <3>2
    <2>5. ASSUME NEW j \in 1 .. Len(r) PROVE ~Answers(r[j])
      <3>1. CASE j <= Len(s)
        <4>1. j \in 1 .. Len(s)
          BY <1>2, <3>1
        <4> QED BY <1>3, <2>2, <4>1
      <3>2. CASE j > Len(s)
        <4>1. j \in Len(s) + 1 .. Len(r) /\ j - Len(s) \in 1 .. Len(w)
          BY <1>2, <3>2
        <4> QED BY <1>4, <1>11, <4>1
      <3> QED BY <1>2, <3>1, <3>2
    <2> QED BY <2>3, <2>4, <2>5
  <1>12. ASSUME NEW i \in 1 .. Len(u2), u2[i].t = "op" PROVE OpOK(x, u2, i, k, l2, s2)
    <2>1. i + n \in 1 .. Len(u) /\ u[i + n] = u2[i] /\ i \in 0 .. Len(u2)
      BY <1>8
    <2>2. OpOK(x, u, i + n, k, ls, ss)
      BY <1>12, <2>1 DEF Upward
    <2>3. /\ ss /\ x.synced /\ k = 0
          /\ \A o \in Elements(x.outbox) : o.seq <= u2[i].op.seq => H(o) \/ Says(u, i + n, o)
      BY <2>1, <2>2 DEF OpOK
    <2>4. \A o \in Elements(x.outbox) : o.seq <= u2[i].op.seq => G(o) \/ Says(u2, i, o)
      BY <1>7, <1>9, <2>1, <2>3
    <2> QED BY <1>5, <2>3, <2>4 DEF OpOK
  <1>13. ASSUME x.synced, k = 0, NEW o \in Elements(x.outbox)
         PROVE  G(o) \/ Says(u2, Len(u2), o)
    <2>1. H(o) \/ Says(u, Len(u2) + n, o)
      BY <1>13 DEF Upward
    <2>2. Len(u2) \in 0 .. Len(u2)
      BY <1>8
    <2> QED BY <1>7, <1>9, <2>1, <2>2
  <1> QED BY <1>10, <1>11, <1>12, <1>13 DEF Upward, r

\* What the store goes on with is nobody's but the replicas'.
LEMMA LivesGrows ==
  ASSUME NEW ls, NEW l2, NEW pg, Lives(ls, pg), Grows(ls, l2),
         \A j \in Len(Now(ls)) + 1 .. Len(Now(l2)) : Now(l2)[j].by <= pg
  PROVE  Lives(l2, pg)
  <1>1. /\ l2 \in Seq(Seq(Op)) /\ Len(l2) = Len(ls) /\ Len(ls) >= 1 /\ Len(ls) \in Nat
        /\ \A e \in 1 .. Len(ls) : e < Len(ls) => l2[e] = ls[e]
    BY DEF Grows
  <1>2. Now(ls) \in Seq(Op) /\ Now(l2) \in Seq(Op) /\ Extends(Now(l2), Now(ls))
    BY <1>1 DEF Grows, Now
  <1>3. Len(Now(ls)) \in Nat /\ Len(Now(l2)) \in Nat
        /\ \A j \in 1 .. Len(Now(ls)) : Now(l2)[j] = Now(ls)[j]
    BY <1>2 DEF Extends
  <1>4. \A j \in 1 .. Len(Now(ls)) : Now(ls)[j].by <= pg
    BY <1>1 DEF Lives, Now
  <1>5. \A j \in 1 .. Len(Now(l2)) : Now(l2)[j].by <= pg
    <2> SUFFICES ASSUME NEW j \in 1 .. Len(Now(l2)) PROVE Now(l2)[j].by <= pg
      OBVIOUS
    <2>1. CASE j <= Len(Now(ls))
      BY <1>3, <1>4, <2>1
    <2>2. CASE j > Len(Now(ls))
      BY <1>3, <2>2
    <2> QED BY <1>3, <2>1, <2>2
  <1>6. ASSUME NEW e \in 1 .. Len(l2), NEW j \in 1 .. Len(l2[e]) PROVE l2[e][j].by <= pg
    <2>1. CASE e = Len(ls)
      BY <1>1, <1>5, <1>6, <2>1 DEF Now
    <2>2. CASE e # Len(ls)
      <3>1. e < Len(ls) /\ e \in 1 .. Len(ls)
        BY <1>1, <2>2
      <3> QED BY <1>1, <3>1 DEF Lives
    <2> QED BY <2>1, <2>2
  <1> QED BY <1>1, <1>6 DEF Lives

\* And the replica's ops stay its own.
LEMMA OwnsGrows ==
  ASSUME NEW ls, NEW l2, Grows(ls, l2), NEW id, NEW seq, NEW ops, Owns(id, seq, ops, ls),
         \A o \in ops : Gapless(Now(l2), o),
         \A j \in Len(Now(ls)) + 1 .. Len(Now(l2)) : Now(l2)[j].by = id => Now(l2)[j].seq <= seq
  PROVE  Owns(id, seq, ops, l2)
  <1>1. /\ Len(l2) = Len(ls) /\ Len(ls) >= 1 /\ Len(ls) \in Nat
        /\ \A e \in 1 .. Len(ls) : e < Len(ls) => l2[e] = ls[e]
    BY DEF Grows
  <1>2. Now(ls) \in Seq(Op) /\ Now(l2) \in Seq(Op) /\ Extends(Now(l2), Now(ls))
    BY <1>1 DEF Grows, Now
  <1>3. Len(Now(ls)) \in Nat /\ Len(Now(l2)) \in Nat
        /\ \A j \in 1 .. Len(Now(ls)) : Now(l2)[j] = Now(ls)[j]
    BY <1>2 DEF Extends
  <1>4. ASSUME NEW o \in ops, NEW e \in 1 .. Len(l2) PROVE Gapless(l2[e], o)
    <2>1. CASE e = Len(ls)
      BY <1>1, <2>1 DEF Now
    <2>2. CASE e # Len(ls)
      <3>1. e < Len(ls) /\ e \in 1 .. Len(ls)
        BY <1>1, <2>2
      <3> QED BY <1>1, <3>1 DEF Owns
    <2> QED BY <2>1, <2>2
  <1>5. ASSUME NEW e \in 1 .. Len(l2), NEW j \in 1 .. Len(l2[e]), l2[e][j].by = id
        PROVE  l2[e][j].seq <= seq
    <2>1. CASE e = Len(ls)
      <3>1. l2[e] = Now(l2) /\ j \in 1 .. Len(Now(l2))
        BY <1>1, <2>1 DEF Now
      <3>2. CASE j <= Len(Now(ls))
        <4>1. j \in 1 .. Len(Now(ls)) /\ Now(l2)[j] = ls[Len(ls)][j] /\ Len(ls) \in 1 .. Len(ls)
              /\ j \in 1 .. Len(ls[Len(ls)])
          BY <1>1, <1>3, <3>1, <3>2 DEF Now
        <4> QED BY <1>5, <3>1, <4>1 DEF Owns
      <3>3. CASE j > Len(Now(ls))
        BY <1>3, <1>5, <3>1, <3>3
      <3> QED BY <1>3, <3>1, <3>2, <3>3
    <2>2. CASE e # Len(ls)
      <3>1. e < Len(ls) /\ e \in 1 .. Len(ls)
        BY <1>1, <2>2
      <3> QED BY <1>1, <1>5, <3>1 DEF Owns
    <2> QED BY <2>1, <2>2
  <1> QED BY <1>4, <1>5 DEF Owns

-------------------------------------------------------------------------------
(* The store is put back from a backup.                                    *)

\* Another life begins, with the history of the last up to some version.
AnotherLife(ls, l2) ==
  /\ ls \in Seq(Seq(Op)) /\ l2 \in Seq(Seq(Op)) /\ Len(l2) = Len(ls) + 1 /\ Len(ls) >= 1
  /\ \A e \in 1 .. Len(ls) : l2[e] = ls[e]
  /\ Extends(Now(ls), Now(l2))

\* A life put back from a backup is such.
LEMMA AgainIs ==
  ASSUME NEW ls \in Seq(Seq(Op)), Len(ls) >= 1, NEW v \in 0 .. Len(Now(ls))
  PROVE  AnotherLife(ls, Append(ls, UpTo(Now(ls), v)))
  <1> DEFINE g == UpTo(Now(ls), v)
  <1>1. Now(ls) \in Seq(Op)
    BY DEF Now
  <1>2. g \in Seq(Op) /\ Extends(Now(ls), g)
    BY <1>1, SnapshotIsAsOf
  <1> HIDE DEF g
  <1>3. /\ Append(ls, g) \in Seq(Seq(Op)) /\ Len(Append(ls, g)) = Len(ls) + 1
        /\ \A e \in 1 .. Len(ls) : Append(ls, g)[e] = ls[e]
        /\ Append(ls, g)[Len(ls) + 1] = g
    BY <1>2
  <1>4. Now(Append(ls, g)) = g
    BY <1>3 DEF Now
  <1> QED BY <1>2, <1>3, <1>4 DEF AnotherLife, g

\* What is said of a replica stays true.
LEMMA AgainHolds ==
  ASSUME NEW ls, NEW l2, AnotherLife(ls, l2)
  PROVE  /\ \A pg : Lives(ls, pg) => Lives(l2, pg)
         /\ \A id, seq, ops : Owns(id, seq, ops, ls) => Owns(id, seq, ops, l2)
         /\ \A rows, v, e : Whole(rows, v, e, ls) => Whole(rows, v, e, l2)
         /\ \A ops, v, e, un : (v # 0 => e \in 1 .. Len(ls)) /\ Explains(ops, v, e, un, ls)
                                 => Explains(ops, v, e, un, l2)
  <1>1. /\ l2 \in Seq(Seq(Op)) /\ Len(l2) = Len(ls) + 1 /\ Len(ls) >= 1 /\ Len(ls) \in Nat
        /\ \A e \in 1 .. Len(ls) : l2[e] = ls[e]
    BY DEF AnotherLife
  <1>2. Now(ls) \in Seq(Op) /\ Now(l2) \in Seq(Op) /\ Extends(Now(ls), Now(l2))
    BY <1>1 DEF AnotherLife, Now
  <1>3. Len(Now(ls)) \in Nat /\ Len(Now(l2)) \in Nat /\ Len(Now(l2)) <= Len(Now(ls))
        /\ \A j \in 1 .. Len(Now(l2)) : Now(l2)[j] = Now(ls)[j]
    BY <1>2 DEF Extends
  <1>4. \A e \in 1 .. Len(l2) : e \in 1 .. Len(ls) \/ e = Len(l2)
    BY <1>1
  <1>5. Len(ls) \in 1 .. Len(ls) /\ Now(ls) = ls[Len(ls)] /\ Now(l2) = l2[Len(l2)]
    BY <1>1 DEF Now
  <1>6. ASSUME NEW pg, Lives(ls, pg) PROVE Lives(l2, pg)
    <2>1. ASSUME NEW e \in 1 .. Len(l2), NEW j \in 1 .. Len(l2[e]) PROVE l2[e][j].by <= pg
      <3>1. CASE e \in 1 .. Len(ls)
        BY <1>1, <1>6, <2>1, <3>1 DEF Lives
      <3>2. CASE e = Len(l2)
        <4>1. j \in 1 .. Len(Now(l2)) /\ l2[e] = Now(l2)
          BY <1>5, <2>1, <3>2
        <4>2. j \in 1 .. Len(ls[Len(ls)]) /\ l2[e][j] = ls[Len(ls)][j]
          BY <1>3, <1>5, <4>1
        <4> QED BY <1>5, <1>6, <4>2 DEF Lives
      <3>3. e \in 1 .. Len(ls) \/ e = Len(l2)
        BY <1>4
      <3> QED BY <3>1, <3>2, <3>3
    <2>2. Len(l2) >= 1
      BY <1>1
    <2> QED BY <1>1, <2>1, <2>2 DEF Lives
  <1>7. ASSUME NEW o, Gapless(Now(ls), o) PROVE Gapless(Now(l2), o)
    <2>1. DOMAIN Now(ls) = 1 .. Len(Now(ls)) /\ DOMAIN Now(l2) = 1 .. Len(Now(l2))
      BY <1>2
    <2>2. ASSUME NEW j \in 1 .. Len(Now(l2)), Has(Now(ls), j, o) PROVE Has(Now(l2), j, o)
      BY <1>3, <2>2 DEF Has
    <2> QED BY <1>3, <1>7, <2>1, <2>2 DEF Gapless
  <1>8. ASSUME NEW id, NEW seq, NEW ops, Owns(id, seq, ops, ls) PROVE Owns(id, seq, ops, l2)
    <2>1. ASSUME NEW o \in ops, NEW e \in 1 .. Len(l2) PROVE Gapless(l2[e], o)
      <3>1. CASE e \in 1 .. Len(ls)
        BY <1>1, <1>8, <3>1 DEF Owns
      <3>2. CASE e = Len(l2)
        <4>1. Gapless(ls[Len(ls)], o)
          BY <1>5, <1>8 DEF Owns
        <4> QED BY <1>5, <1>7, <3>2, <4>1
      <3> QED BY <1>4, <3>1, <3>2
    <2>2. ASSUME NEW e \in 1 .. Len(l2), NEW j \in 1 .. Len(l2[e]), l2[e][j].by = id
          PROVE  l2[e][j].seq <= seq
      <3>1. CASE e \in 1 .. Len(ls)
        BY <1>1, <1>8, <2>2, <3>1 DEF Owns
      <3>2. CASE e = Len(l2)
        <4>1. j \in 1 .. Len(Now(l2)) /\ l2[e] = Now(l2)
          BY <1>5, <2>2, <3>2
        <4>2. j \in 1 .. Len(Now(ls)) /\ l2[e][j] = Now(ls)[j]
          BY <1>3, <4>1
        <4>3. j \in 1 .. Len(ls[Len(ls)]) /\ l2[e][j] = ls[Len(ls)][j]
          BY <1>5, <4>2
        <4> QED BY <1>5, <1>8, <2>2, <4>3 DEF Owns
      <3> QED BY <1>4, <2>2, <3>1, <3>2
    <2> QED BY <1>8, <2>1, <2>2 DEF Owns
  <1>9. ASSUME NEW rows, NEW v, NEW e, Whole(rows, v, e, ls) PROVE Whole(rows, v, e, l2)
    <2>1. e \in 0 .. Len(ls) /\ (e # 0 => e \in 1 .. Len(ls)) /\ e \in 0 .. Len(l2)
      <3>1. e \in 0 .. Len(ls)
        BY <1>9 DEF Whole
      <3> QED BY <1>1, <3>1
    <2> QED BY <1>1, <1>9, <2>1 DEF Whole
  <1>10. ASSUME NEW ops, NEW v, NEW e, NEW un, v # 0 => e \in 1 .. Len(ls), Explains(ops, v, e, un, ls)
         PROVE  Explains(ops, v, e, un, l2)
    BY <1>1, <1>10 DEF Explains
  <1> QED BY <1>6, <1>8, <1>9, <1>10

\* The client was connected, with nothing said to the store: the end is told after all else.
LEMMA ClosedFlow ==
  ASSUME NEW x, NEW s, NEW k, NEW ls, NEW l2, AnotherLife(ls, l2), x.epoch \in 0 .. Len(ls),
         Flow(x, s, k, <<>>, ls, TRUE), \A i \in 1 .. Len(s) : ~Answers(s[i])
  PROVE  Flow(x, Append(s, [t |-> "closed"]), Len(s) + 1, <<>>, l2, FALSE)
  <1> DEFINE e == [t |-> "closed"]
             r == Append(s, e)
             l == Len(s) + 1
  <1>1. /\ s \in Seq(DownMessage) /\ k = 0
        /\ \A i \in 1 .. Len(s) : s[i].t = "closed" <=> i = k
        /\ \A i \in 1 .. Len(s) - 1 : i # k /\ i + 1 # k => From(s[i + 1]) = s[i].v
        /\ \A i \in k + 1 .. Len(s) : s[i].v <= Len(Now(ls))
    BY DEF Flow, Chained, InTouch
  <1>2. e \in DownMessage /\ e.t = "closed" /\ ~Answers(e)
    BY DEF DownMessage, Closing, Answers
  <1>3. /\ r \in Seq(DownMessage) /\ Len(r) = Len(s) + 1 /\ Len(s) \in Nat /\ r[l] = e
        /\ \A i \in 1 .. Len(s) : r[i] = s[i]
    BY <1>1, <1>2
  <1> HIDE DEF e, r
  <1>4. /\ Len(l2) = Len(ls) + 1 /\ Len(ls) \in Nat /\ Len(ls) >= 1
        /\ \A f \in 1 .. Len(ls) : l2[f] = ls[f]
    BY DEF AnotherLife
  <1>5. l \in Nat /\ l # 0 /\ l = Len(r)
    BY <1>3
  <1>6. Chained(r, l, l2, FALSE)
    <2>1. \A i \in 1 .. Len(r) : r[i].t = "closed" <=> i = l
      <3> SUFFICES ASSUME NEW i \in 1 .. Len(r) PROVE r[i].t = "closed" <=> i = l
        OBVIOUS
      <3>1. CASE i = l
        BY <1>2, <1>3, <3>1
      <3>2. CASE i # l
        <4>1. i \in 1 .. Len(s) /\ i # 0
          BY <1>3, <3>2
        <4> QED BY <1>1, <1>3, <3>2, <4>1
      <3> QED BY <3>1, <3>2
    <2>2. \A i \in 1 .. Len(r) - 1 : i # l /\ i + 1 # l => From(r[i + 1]) = r[i].v
      <3> SUFFICES ASSUME NEW i \in 1 .. Len(r) - 1, i # l, i + 1 # l PROVE From(r[i + 1]) = r[i].v
        OBVIOUS
      <3>1. i \in 1 .. Len(s) - 1 /\ i \in 1 .. Len(s) /\ i + 1 \in 1 .. Len(s) /\ i # 0 /\ i + 1 # 0
        BY <1>3
      <3> QED BY <1>1, <1>3, <3>1
    <2>3. ~\E i \in l + 1 .. Len(r) : TRUE
      BY <1>3
    <2>4. l \in 0 .. Len(r)
      BY <1>3
    <2> QED BY <1>3, <1>5, <2>1, <2>2, <2>3, <2>4 DEF Chained
  <1>7. Downward(x, r, l, l2)
    <2> SUFFICES ASSUME NEW i \in 1 .. Len(r)
        PROVE  /\ r[i].t = "patch" => PatchOK(x, r[i], i < l, l2)
               /\ r[i].t = "ack" => (l = 0 \/ i < l) /\ AckOK(x, r[i], l2)
               /\ ~Answers(r[i])
      BY DEF Downward
    <2>1. CASE i = l
      BY <1>2, <1>3, <2>1
    <2>2. CASE i # l
      <3>1. i \in 1 .. Len(s) /\ i < l /\ r[i] = s[i] /\ i \in k + 1 .. Len(s)
        BY <1>1, <1>3, <2>2
      <3>2. /\ s[i].t = "patch" => PatchOK(x, s[i], i < k, ls)
            /\ s[i].t = "ack" => AckOK(x, s[i], ls)
        BY <3>1 DEF Flow, Downward
      <3>3. ~(i < k)
        BY <1>1
      <3>4. x.synced => x.epoch = Len(ls) /\ x.epoch \in 1 .. Len(ls) /\ l2[x.epoch] = ls[x.epoch]
        <4>1. x.synced => x.epoch = Len(ls)
          BY <1>1 DEF Flow, InTouch
        <4> QED BY <1>4, <4>1
      <3>5. s[i].t = "patch" => PatchOK(x, s[i], TRUE, l2)
        BY <1>1, <3>1, <3>2, <3>3, <3>4 DEF PatchOK, Now
      <3>6. s[i].t = "ack" => AckOK(x, s[i], l2)
        BY <3>2, <3>4 DEF AckOK
      <3>7. PatchOK(x, s[i], TRUE, l2) => PatchOK(x, s[i], i < l, l2)
        BY <3>1 DEF PatchOK
      <3> QED BY <3>1, <3>5, <3>6, <3>7
    <2> QED BY <2>1, <2>2
  <1>8. InTouch(x, r, l, l2, FALSE)
    <2>1. ASSUME x.synced, l # 1 PROVE Start(r, l2) <= x.v
      <3>1. 1 \in 1 .. Len(s) /\ s # <<>> /\ r # <<>>
        BY <1>3, <2>1
      <3>2. Start(r, l2) = Start(s, ls)
        BY <1>3, <3>1 DEF Start
      <3> QED BY <1>1, <2>1, <3>2 DEF Flow, InTouch
    <2>2. x.epoch < Len(l2)
      BY <1>4
    <2> QED BY <1>5, <2>1, <2>2 DEF Flow, InTouch
  <1>9. Upward(x, r, l, <<>>, l2, FALSE)
    BY <1>5 DEF Upward
  <1>10. Asking(x, r, l, <<>>, l2, FALSE)
    <2>1. ASSUME NEW i \in 1 .. Len(r) PROVE ~Answers(r[i])
      <3>1. CASE i = l
        BY <1>2, <1>3, <3>1
      <3>2. CASE i # l
        <4>1. i \in 1 .. Len(s)
          BY <1>3, <3>2
        <4> QED BY <1>3, <4>1
      <3> QED BY <3>1, <3>2
    <2> QED BY <1>5, <2>1 DEF Flow, Asking
  <1> QED BY <1>6, <1>7, <1>8, <1>9, <1>10 DEF Flow, e, r

\* The client was not connected: nothing is told.
LEMMA UntoldFlow ==
  ASSUME NEW x, NEW s, NEW k, NEW u, NEW ls, NEW l2, AnotherLife(ls, l2), x.epoch \in 0 .. Len(ls),
         Flow(x, s, k, u, ls, FALSE)
  PROVE  Flow(x, s, k, u, l2, FALSE)
  <1>1. /\ s \in Seq(DownMessage) /\ k = Len(s) /\ Len(s) \in Nat
        /\ \A i \in 1 .. Len(s) : s[i].t = "closed" <=> i = k
        /\ \A i \in 1 .. Len(s) - 1 : i # k /\ i + 1 # k => From(s[i + 1]) = s[i].v
    BY DEF Flow, Chained
  <1>2. /\ Len(l2) = Len(ls) + 1 /\ Len(ls) \in Nat /\ Len(ls) >= 1
        /\ \A f \in 1 .. Len(ls) : l2[f] = ls[f]
    BY DEF AnotherLife
  <1>3. Chained(s, k, l2, FALSE)
    <2>1. ~\E i \in k + 1 .. Len(s) : TRUE
      BY <1>1
    <2>2. k \in 0 .. Len(s)
      BY <1>1
    <2> QED BY <1>1, <2>1, <2>2 DEF Chained
  <1>4. x.synced => /\ x.epoch \in 1 .. Len(ls) /\ l2[x.epoch] = ls[x.epoch]
                    /\ k # 0
    <2>1. x.synced => x.epoch # 0 /\ k # 0
      BY DEF Flow, InTouch
    <2> QED BY <1>2, <2>1
  <1>5. Downward(x, s, k, l2)
    <2> SUFFICES ASSUME NEW i \in 1 .. Len(s)
        PROVE  /\ s[i].t = "patch" => PatchOK(x, s[i], i < k, l2)
               /\ s[i].t = "ack" => (k = 0 \/ i < k) /\ AckOK(x, s[i], l2)
               /\ ~Answers(s[i])
      BY DEF Downward
    <2>1. /\ s[i].t = "patch" => PatchOK(x, s[i], i < k, ls)
          /\ s[i].t = "ack" => (k = 0 \/ i < k) /\ AckOK(x, s[i], ls)
          /\ Answers(s[i]) => i > k
      BY DEF Flow, Downward
    <2>2. ~(i > k)
      BY <1>1
    <2>3. ASSUME s[i].t = "patch" PROVE i < k
      <3>1. i # k
        BY <1>1, <2>3
      <3> QED BY <1>1, <3>1
    <2>4. s[i].t = "patch" => PatchOK(x, s[i], i < k, l2)
      BY <1>4, <2>1, <2>3 DEF PatchOK
    <2>5. AckOK(x, s[i], ls) => AckOK(x, s[i], l2)
      BY <1>4 DEF AckOK
    <2> QED BY <2>1, <2>2, <2>4, <2>5
  <1>6. InTouch(x, s, k, l2, FALSE)
    <2>1. ASSUME x.synced, k # 1 PROVE Start(s, l2) <= x.v
      <3>1. s # <<>>
        BY <1>1, <1>4, <2>1
      <3>2. Start(s, l2) = Start(s, ls)
        BY <3>1 DEF Start
      <3> QED BY <2>1, <3>2 DEF Flow, InTouch
    <2>2. x.epoch < Len(l2)
      BY <1>2
    <2> QED BY <1>4, <2>1, <2>2 DEF Flow, InTouch
  <1>7. Upward(x, s, k, u, l2, FALSE)
    <2>1. /\ u \in Seq(UpMessage)
          /\ \A i \in 1 .. Len(u) : \A p \in Said(u[i]) : p.by = x.id /\ p.seq \in 1 .. x.seq
          /\ \A i \in 1 .. Len(u) : u[i].t = "hello" =>
               /\ HelloOK(x, u[i], ls)
               /\ \A j \in 1 .. Len(u) : u[j].t = "hello" => i = j
               /\ \A j \in 1 .. Len(s) : ~Answers(s[j])
          /\ \A i \in 1 .. Len(u) : u[i].t # "op"
      BY DEF Flow, Upward, OpOK
    <2>2. ASSUME NEW i \in 1 .. Len(u), u[i].t = "hello" PROVE HelloOK(x, u[i], l2)
      <3>1. HelloOK(x, u[i], ls) /\ u[i] \in UpMessage
        BY <2>1, <2>2
      <3>2. u[i].epoch \in Nat
        BY <2>2, <3>1, UpKinds DEF HelloMessage
      <3>3. u[i].epoch <= Len(ls)
        BY <3>1 DEF HelloOK
      <3>4. u[i].epoch <= Len(l2) /\ u[i].epoch # Len(l2)
        BY <1>2, <3>2, <3>3
      <3> QED BY <3>1, <3>4 DEF HelloOK
    <2> QED BY <1>4, <2>1, <2>2 DEF Upward
  <1>8. Asking(x, s, k, u, l2, FALSE)
    <2>1. k = 0 => ~x.holds
      BY DEF Flow, Asking
    <2> QED BY <2>1 DEF Flow, Asking
  <1> QED BY <1>3, <1>5, <1>6, <1>7, <1>8 DEF Flow

\* The patches of what was decided.
LEMMA PatchesIs ==
  ASSUME NEW g \in Seq(Op), NEW v \in 0 .. Len(g)
  PROVE  /\ Patches(g, v) \in Seq(DownMessage) /\ Len(Patches(g, v)) = Len(g) - v
         /\ \A i \in 1 .. Len(g) - v : /\ Patches(g, v)[i].t = "patch"
                                       /\ Patches(g, v)[i].v = v + i
                                       /\ Patches(g, v)[i].op = g[v + i]
  <1> DEFINE n == Len(g) - v
             P == Patches(g, v)
  <1>1. n \in Nat /\ v \in Nat /\ Len(g) \in Nat
    OBVIOUS
  <1>2. P = [i \in 1 .. n |-> [t |-> "patch", v |-> v + i, op |-> g[v + i]]]
    BY DEF Patches
  <1>3. \A i \in 1 .. n : g[v + i] \in Op /\ v + i \in Nat
    <2>1. \A i \in 1 .. n : v + i \in 1 .. Len(g) /\ v + i \in Nat
      BY <1>1
    <2> QED BY <2>1
  <1> HIDE DEF n
  <1>4. \A i \in 1 .. n : P[i] = [t |-> "patch", v |-> v + i, op |-> g[v + i]]
    BY <1>2
  <1>5. \A i \in 1 .. n : [t |-> "patch", v |-> v + i, op |-> g[v + i]] \in DownMessage
    BY <1>3 DEF DownMessage, Patch
  <1>6. P \in [1 .. n -> DownMessage]
    BY <1>2, <1>5
  <1>7. P \in Seq(DownMessage) /\ Len(P) = n
    BY <1>1, <1>6, FunctionSeq
  <1>8. \A i \in 1 .. n : P[i].t = "patch" /\ P[i].v = v + i /\ P[i].op = g[v + i]
    <2> SUFFICES ASSUME NEW i \in 1 .. n PROVE P[i].t = "patch" /\ P[i].v = v + i /\ P[i].op = g[v + i]
      OBVIOUS
    <2>1. P[i] = [t |-> "patch", v |-> v + i, op |-> g[v + i]]
      BY <1>4
    <2> HIDE DEF P
    <2> QED BY <2>1
  <1> QED BY <1>7, <1>8 DEF n

\* What a replica sent is taken: the store has it up to what it says it has.
LEMMA TakenNow ==
  ASSUME NEW ls, NEW pg, NEW x, Lives(ls, pg), PageOK(x, ls, pg), pg \in Nat,
         NEW sent \in Seq(Op), Ascends(sent),
         \A p \in Elements(sent) : p.by = x.id /\ p.seq \in 1 .. x.seq,
         \A o \in Elements(x.outbox) : \A p \in Elements(sent) : o.seq <= p.seq =>
           Has(Now(ls), Len(Now(ls)), o) \/ \E q \in Elements(sent) : Same(q, o)
  PROVE  LET g == Now(ls) \o TakenOf(Now(ls), x.id, sent)
             l2 == [ls EXCEPT ![Len(ls)] = g]
         IN  /\ Grows(ls, l2) /\ Now(l2) = g /\ g \in Seq(Op) /\ Len(Now(ls)) <= Len(g)
             /\ Lives(l2, pg) /\ Owns(x.id, x.seq, Elements(x.outbox), l2)
             /\ \A o \in Elements(x.outbox) : \A p \in Elements(sent) :
                  o.seq <= p.seq => Has(g, Len(g), o)
             /\ Mark(g, x.id) \in Nat /\ Mark(g, x.id) <= x.seq
             /\ Covered(x, Mark(g, x.id), g, Len(g))
  <1> DEFINE h == Now(ls)
             new == TakenOf(h, x.id, sent)
             g == h \o new
             l2 == [ls EXCEPT ![Len(ls)] = g]
  <1>1. /\ ls \in Seq(Seq(Op)) /\ Len(ls) >= 1 /\ Len(ls) \in Nat /\ Len(ls) \in 1 .. Len(ls)
        /\ h \in Seq(Op) /\ h = ls[Len(ls)] /\ Len(h) \in Nat
    <2>1. ls \in Seq(Seq(Op)) /\ Len(ls) >= 1
      BY DEF Lives
    <2>2. Len(ls) \in Nat /\ Len(ls) \in 1 .. Len(ls) /\ h = ls[Len(ls)]
      BY <2>1 DEF Now
    <2>3. h \in Seq(Op)
      BY <2>1, <2>2
    <2> QED BY <2>1, <2>2, <2>3
  <1> HIDE DEF h
  <1>2. /\ new \in Seq(Op)
        /\ Elements(new) = {o \in Elements(sent) : o.seq > Mark(h, x.id)}
        /\ g \in Seq(Op) /\ Len(g) = Len(h) + Len(new) /\ Extends(g, h)
        /\ \A j \in Len(h) + 1 .. Len(g) : g[j] = new[j - Len(h)]
    <2>1. h \in Seq(Op) /\ sent \in Seq(Op) /\ Ascends(sent)
      BY <1>1
    <2>2. LET n == TakenOf(h, x.id, sent)
              f == h \o n
          IN  /\ n \in Seq(Op) /\ Ascends(n)
              /\ Elements(n) = {o \in Elements(sent) : o.seq > Mark(h, x.id)}
              /\ f \in Seq(Op) /\ Len(f) = Len(h) + Len(n) /\ Extends(f, h)
              /\ \A i \in 1 .. Len(n) : f[Len(h) + i] = n[i]
              /\ \A j \in Len(h) + 1 .. Len(f) : f[j] = n[j - Len(h)]
      BY <2>1, TakenIs
    <2> QED BY <2>2
  <1>3. \A j \in Len(h) + 1 .. Len(g) : g[j] \in Elements(sent)
    <2>1. DOMAIN new = 1 .. Len(new) /\ Len(new) \in Nat
      BY <1>2
    <2>2. \A j \in Len(h) + 1 .. Len(g) : j - Len(h) \in 1 .. Len(new)
      <3>1. Len(g) = Len(h) + Len(new) /\ Len(new) \in Nat /\ Len(h) \in Nat
        BY <1>1, <1>2, <2>1
      <3> HIDE DEF g, new
      <3> QED BY <3>1
    <2>3. \A j \in 1 .. Len(new) : new[j] \in Elements(new)
      BY <2>1 DEF Elements
    <2> QED BY <1>2, <2>2, <2>3
  <1>4. x.id \in 1 .. pg /\ x.seq \in Nat /\ Owns(x.id, x.seq, Elements(x.outbox), ls)
    BY DEF PageOK, Page
  <1>5. ASSUME NEW o \in Elements(x.outbox)
        PROVE  /\ o \in Op /\ o.by = x.id /\ o.seq >= 1
               /\ Gapless(g, o)
               /\ \A p \in Elements(sent) : o.seq <= p.seq => Has(g, Len(g), o)
    <2>1. o \in Op /\ o.by = x.id /\ o.seq \in 1 .. x.seq /\ Gapless(h, o)
      BY <1>1, <1>4 DEF Owns
    <2>2. o.seq >= 1
      BY <1>4, <2>1
    <2>3. \A p \in Elements(sent) : p.by = o.by
      BY <2>1
    <2>4. \A p \in Elements(sent) : o.seq <= p.seq =>
            Has(h, Len(h), o) \/ \E q \in Elements(sent) : Same(q, o)
      BY DEF h
    <2>5. LET f == h \o TakenOf(h, o.by, sent)
          IN  /\ Gapless(f, o)
              /\ \A p \in Elements(sent) : o.seq <= p.seq => Has(f, Len(f), o)
      BY <1>1, <2>1, <2>2, <2>3, <2>4, TakenGapless
    <2>6. g = h \o TakenOf(h, o.by, sent)
      BY <2>1
    <2> QED BY <2>1, <2>2, <2>5, <2>6
  <1>6. Mark(g, x.id) \in Nat
    BY <1>2, MarkNat
  <1>7. Covered(x, Mark(g, x.id), g, Len(g))
    <2> SUFFICES ASSUME NEW o \in Elements(x.outbox), o.seq <= Mark(g, x.id)
                 PROVE  Has(g, Len(g), o)
      BY DEF Covered
    <2>1. o \in Op /\ o.by = x.id /\ o.seq >= 1 /\ Gapless(g, o) /\ o.seq <= Mark(g, o.by)
      BY <1>5
    <2> HIDE DEF g, new
    <2> QED BY <1>2, <2>1, MarkCovers
  <1> HIDE DEF g, new
  <1>8. Grows(ls, l2) /\ Now(l2) = g
    BY <1>1, <1>2, GrowsIs DEF h
  <1>9. Len(h) <= Len(g) /\ Len(g) \in Nat
    BY <1>2 DEF Extends
  <1> HIDE DEF l2
  <1>10. Lives(l2, pg)
    <2>1. \A j \in Len(h) + 1 .. Len(g) : g[j].by <= pg
      BY <1>3, <1>4
    <2> QED BY <1>8, <2>1, LivesGrows DEF h
  <1>11. Owns(x.id, x.seq, Elements(x.outbox), l2)
    <2>1. \A j \in Len(h) + 1 .. Len(g) : g[j].by = x.id => g[j].seq <= x.seq
      BY <1>3, <1>4
    <2> QED BY <1>4, <1>5, <1>8, <2>1, OwnsGrows DEF h
  <1>12. Mark(g, x.id) <= x.seq
    <2>1. CASE Mark(g, x.id) = 0
      BY <1>4, <2>1
    <2>2. CASE Mark(g, x.id) # 0
      <3>1. PICK j \in 1 .. Len(g) : g[j].by = x.id /\ Mark(g, x.id) = g[j].seq
        <4>1. \/ (\A j \in 1 .. Len(g) : g[j].by # x.id) /\ Mark(g, x.id) = 0
              \/ \E k \in 1 .. Len(g) : /\ g[k].by = x.id /\ Mark(g, x.id) = g[k].seq
                                        /\ \A j \in k + 1 .. Len(g) : g[j].by # x.id
          BY <1>2, MarkIs
        <4> QED BY <2>2, <4>1
      <3>2. g = l2[Len(l2)] /\ Len(l2) \in 1 .. Len(l2)
        <4>1. Len(l2) = Len(ls)
          BY <1>8 DEF Grows
        <4> QED BY <1>1, <1>8, <4>1 DEF Now
      <3>3. g[j].seq <= x.seq
        BY <1>11, <3>1, <3>2 DEF Owns
      <3> QED BY <3>1, <3>3
    <2> QED BY <2>1, <2>2
  <1>13. \A o \in Elements(x.outbox) : \A p \in Elements(sent) :
                  o.seq <= p.seq => Has(g, Len(g), o)
    BY <1>5
  <1> QED BY <1>2, <1>6, <1>7, <1>8, <1>9, <1>10, <1>11, <1>12, <1>13 DEF l2, g, new, h

\* What is said of what is to come is true when more was told of what the store decided.
LEMMA ToldFlow ==
  ASSUME NEW x \in Page, NEW s, NEW w, NEW k, NEW u, NEW n \in {0, 1}, NEW u2 \in Seq(UpMessage),
         NEW ls, NEW l2, NEW ss, NEW s2,
         Grows(ls, l2), Told(x, s, w, k, ls, l2, ss, s2), Flow(x, s, k, u, ls, ss),
         x.epoch \in 0 .. Len(ls),
         Len(u) = Len(u2) + n, \A i \in 1 .. Len(u2) : u2[i] = u[i + n],
         n = 1 => \A o \in Elements(x.outbox) : \A p \in Said(u[1]) :
                    Same(p, o) => Has(Now(l2), Len(Now(l2)), o),
         (\E i \in 1 .. Len(u2) : u2[i].t = "hello") => \A j \in 1 .. Len(w) : ~Answers(w[j]),
         x.holds => /\ \A i \in 1 .. Len(w) : ~Answers(w[i])
                    /\ \A i \in 1 .. Len(u2) : u2[i].t # "hello"
  PROVE  Flow(x, s \o w, k, u2, l2, s2)
  <1>1. /\ Chained(s, k, ls, ss) /\ Downward(x, s, k, ls) /\ InTouch(x, s, k, ls, ss)
        /\ Upward(x, s, k, u, ls, ss) /\ Asking(x, s, k, u, ls, ss)
    BY DEF Flow
  <1>2. (x.synced => x.epoch # 0) /\ (k # 0 => x.epoch < Len(ls))
    BY <1>1 DEF InTouch
  <1>3. Chained(s \o w, k, l2, s2)
    BY <1>1, ToldChained
  <1>4. Downward(x, s \o w, k, l2)
    BY <1>1, <1>2, ToldDownward
  <1>5. InTouch(x, s \o w, k, l2, s2)
    BY <1>1, ToldInTouch
  <1>6. Upward(x, s \o w, k, u2, l2, s2)
    BY <1>1, ToldUpward
  <1>7. Asking(x, s \o w, k, u2, l2, s2)
    BY <1>1, ToldAsking
  <1> QED BY <1>3, <1>4, <1>5, <1>6, <1>7 DEF Flow

\* What is told, w, is the patches of history g after version v and message a.
Tells(w, g, v, a) ==
  /\ w \in Seq(DownMessage) /\ w # <<>> /\ Len(w) = Len(g) - v + 1 /\ w[Len(w)] = a
  /\ \A i \in 1 .. Len(w) - 1 : w[i].t = "patch" /\ w[i].v = v + i /\ w[i].op = g[v + i]
  /\ \A i \in 1 .. Len(w) : w[i].t # "closed" /\ w[i].v <= Len(g)
  /\ \A i \in 1 .. Len(w) - 1 : From(w[i + 1]) = w[i].v
  /\ From(w[1]) = v

\* It is just that.
Reply(w, g, v, a) == w = Patches(g, v) \o <<a>>

\* Patches, and one message after them.
LEMMA PatchesAnd ==
  ASSUME NEW g \in Seq(Op), NEW v \in 0 .. Len(g), NEW a \in DownMessage, a.t # "closed",
         a.t # "patch", a.v = Len(g)
  PROVE  Tells(Patches(g, v) \o <<a>>, g, v, a)
  <1> DEFINE P == Patches(g, v)
             n == Len(g) - v
             w == P \o <<a>>
  <1>1. /\ P \in Seq(DownMessage) /\ Len(P) = n
        /\ \A i \in 1 .. n : P[i].t = "patch" /\ P[i].v = v + i /\ P[i].op = g[v + i]
    BY PatchesIs
  <1>2. n \in Nat /\ v \in Nat /\ Len(g) \in Nat /\ n + v = Len(g)
    OBVIOUS
  <1> HIDE DEF P, n
  <1>3. /\ w \in Seq(DownMessage) /\ Len(w) = n + 1 /\ w[n + 1] = a
        /\ \A i \in 1 .. n : w[i] = P[i]
    <2>1. <<a>> \in Seq(DownMessage) /\ Len(<<a>>) = 1 /\ <<a>>[1] = a
      OBVIOUS
    <2>2. w \in Seq(DownMessage) /\ Len(w) = Len(P) + Len(<<a>>)
      BY <1>1, <2>1, ConcatIs
    <2>3. \A i \in 1 .. Len(P) : w[i] = P[i]
      BY <1>1, <2>1, ConcatIs
    <2>4. \A i \in 1 .. Len(<<a>>) : w[Len(P) + i] = <<a>>[i]
      BY <1>1, <2>1, ConcatIs
    <2>5. w[n + 1] = a
      BY <1>1, <2>1, <2>4
    <2> QED BY <1>1, <2>1, <2>2, <2>3, <2>5
  <1> HIDE DEF w
  <1>4. w # <<>>
    <2> SUFFICES ASSUME w = <<>> PROVE FALSE
      OBVIOUS
    <2>1. Len(w) = 0
      OBVIOUS
    <2> QED BY <1>2, <1>3, <2>1
  <1>5. \A i \in 1 .. n : w[i].t = "patch" /\ w[i].v = v + i /\ w[i].op = g[v + i]
    BY <1>1, <1>3
  <1>6. \A i \in 1 .. Len(w) : w[i].t # "closed" /\ w[i].v <= Len(g)
    <2> SUFFICES ASSUME NEW i \in 1 .. Len(w) PROVE w[i].t # "closed" /\ w[i].v <= Len(g)
      OBVIOUS
    <2>1. CASE i = n + 1
      BY <1>2, <1>3, <2>1
    <2>2. CASE i # n + 1
      <3>1. i \in 1 .. n /\ v + i <= Len(g)
        BY <1>2, <1>3, <2>2
      <3> QED BY <1>5, <3>1
    <2> QED BY <2>1, <2>2
  <1>7. \A i \in 1 .. n : From(w[i + 1]) = w[i].v
    <2> SUFFICES ASSUME NEW i \in 1 .. n PROVE From(w[i + 1]) = v + i
      BY <1>5
    <2>1. CASE i = n
      BY <1>2, <1>3, <2>1 DEF From
    <2>2. CASE i # n
      <3>1. i + 1 \in 1 .. n /\ (v + (i + 1)) - 1 = v + i
        BY <1>2, <2>2
      <3> QED BY <1>5, <3>1 DEF From
    <2> QED BY <2>1, <2>2
  <1>8. From(w[1]) = v
    <2>1. CASE n = 0
      BY <1>2, <1>3, <2>1 DEF From
    <2>2. CASE n # 0
      <3>1. 1 \in 1 .. n /\ (v + 1) - 1 = v
        BY <1>2, <2>2
      <3> QED BY <1>5, <3>1 DEF From
    <2> QED BY <2>1, <2>2
  <1>9. Len(w) - 1 = n
    BY <1>2, <1>3
  <1>10. Tells(w, g, v, a)
    BY <1>3, <1>4, <1>5, <1>6, <1>7, <1>8, <1>9 DEF Tells, n
  <1> QED BY <1>10 DEF w, P

\* Something was told before, so the store has something.
LEMMA ToldBefore ==
  ASSUME NEW x, NEW s, NEW k, NEW u, NEW ls, NEW ss, Flow(x, s, k, u, ls, ss), Len(s) # k,
         \A i \in 1 .. Len(s) : ~Answers(s[i]), x.epoch \in 0 .. Len(ls),
         ls \in Seq(Seq(Op))
  PROVE  Len(Now(ls)) # 0
  <1>1. /\ s \in Seq(DownMessage) /\ k \in 0 .. Len(s)
        /\ \A i \in 1 .. Len(s) : s[i].t = "closed" <=> i = k
        /\ s[Len(s)].v = Len(Now(ls))
    BY DEF Flow, Chained
  <1>2. Len(s) \in 1 .. Len(s) /\ Len(s) \in Nat
    BY <1>1
  <1>3. s[Len(s)] \in DownMessage /\ s[Len(s)].t # "closed" /\ ~Answers(s[Len(s)])
    BY <1>1, <1>2
  <1>4. s[Len(s)].t \in {"patch", "ack"} /\ s[Len(s)].v \in Nat
    BY <1>3, DownKinds DEF Answers
  <1>5. /\ s[Len(s)].t = "patch" => PatchOK(x, s[Len(s)], Len(s) < k, ls)
        /\ s[Len(s)].t = "ack" => AckOK(x, s[Len(s)], ls)
    BY <1>2 DEF Flow, Downward
  <1>6. s[Len(s)].v >= 1
    <2>1. CASE s[Len(s)].t = "patch"
      BY <1>5, <2>1 DEF PatchOK
    <2>2. CASE s[Len(s)].t = "ack"
      BY <1>4, <1>5, <2>2 DEF AckOK
    <2> QED BY <1>4, <2>1, <2>2
  <1> QED BY <1>1, <1>4, <1>6

\* The life ls is in is g from here on in l2.
Becomes(ls, g, l2) == l2 = [ls EXCEPT ![Len(ls)] = g]

\* A hello of x, the first of u, gives history g, lives l2 and answer a.
HelloGives(ls, x, u, g, l2, a) ==
  /\ g = Now(ls) \o TakenOf(Now(ls), x.id, u[1].ops)
  /\ Becomes(ls, g, l2)
  /\ a \in DownMessage /\ Answers(a) /\ a.seq = Mark(g, x.id) /\ a.v = Len(g) /\ a.epoch = Len(ls)
  /\ a.t = "snapshot" => a.base = StateOf(g)
  /\ a.t = "delta" => /\ u[1].epoch = Len(ls) /\ u[1].since <= Len(g)
                      /\ a.ops = SubSeq(g, u[1].since + 1, Len(g))

\* A hello is taken: the store has what the client had pending, and the answer is right.
LEMMA HelloTaken ==
  ASSUME NEW ls, NEW pg \in Nat, NEW x, Lives(ls, pg), PageOK(x, ls, pg),
         NEW s, NEW k, NEW u, NEW ss, Flow(x, s, k, u, ls, ss),
         u # <<>>, u[1].t = "hello",
         NEW g, NEW l2, NEW a, HelloGives(ls, x, u, g, l2, a),
         NEW w, Reply(w, g, Len(Now(ls)), a)
  PROVE  /\ Grows(ls, l2) /\ Now(l2) = g /\ Lives(l2, pg)
         /\ Owns(x.id, x.seq, Elements(x.outbox), l2)
         /\ Flow(x, s \o w, k, Tail(u), l2, TRUE)
  <1> DEFINE h == Now(ls)
             m == u[1]
  <1>0. /\ g = Now(ls) \o TakenOf(Now(ls), x.id, u[1].ops)
        /\ l2 = [ls EXCEPT ![Len(ls)] = g]
        /\ a \in DownMessage /\ Answers(a) /\ a.seq = Mark(g, x.id) /\ a.v = Len(g) /\ a.epoch = Len(ls)
        /\ a.t = "snapshot" => a.base = StateOf(g)
        /\ a.t = "delta" => /\ u[1].epoch = Len(ls) /\ u[1].since <= Len(g)
                            /\ a.ops = SubSeq(g, u[1].since + 1, Len(g))
    BY DEF HelloGives, Becomes
  <1> USE <1>0
  <1>1. u \in Seq(UpMessage) /\ s \in Seq(DownMessage) /\ k \in 0 .. Len(s)
    BY DEF Flow, Upward, Chained
  <1>2. /\ Tail(u) \in Seq(UpMessage) /\ Len(u) \in Nat /\ Len(u) >= 1 /\ Len(Tail(u)) = Len(u) - 1
        /\ \A i \in 1 .. Len(u) - 1 : Tail(u)[i] = u[i + 1]
        /\ m \in UpMessage
    BY <1>1, TailIs
  <1>3. m \in HelloMessage /\ m.ops \in Seq(Op) /\ m.since \in Nat /\ Said(m) = Elements(m.ops)
    <2>1. m \in HelloMessage
      BY <1>2, UpKinds
    <2> QED BY <2>1 DEF HelloMessage, Said
  <1>4. 1 \in 1 .. Len(u)
    BY <1>2
  <1>5. /\ HelloOK(x, m, ls)
        /\ \A j \in 1 .. Len(u) : u[j].t = "hello" => 1 = j
        /\ \A j \in 1 .. Len(s) : ~Answers(s[j])
        /\ \A p \in Said(m) : p.by = x.id /\ p.seq \in 1 .. x.seq
    BY <1>4 DEF Flow, Upward
  <1>6. /\ Ascends(m.ops)
        /\ x.answered = IF m.ops = <<>> THEN 0 ELSE m.ops[Len(m.ops)].seq
        /\ \A o \in Elements(x.outbox) : o.seq <= x.answered => \E p \in Elements(m.ops) : Same(p, o)
        /\ m.epoch = Len(ls) => x.epoch = Len(ls) /\ m.since <= Len(h) /\ (x.synced \/ m.since = x.v)
    BY <1>5 DEF HelloOK
  <1>7. /\ x \in Page /\ x.id \in 1 .. pg /\ Whole(x.base, x.v, x.epoch, ls)
        /\ x.epoch \in 0 .. Len(ls) /\ x.v \in Nat
    BY DEF PageOK, Whole
  <1>8. \A p \in Elements(m.ops) : p.seq <= x.answered
    <2> SUFFICES ASSUME NEW i \in DOMAIN m.ops PROVE m.ops[i].seq <= x.answered
      BY DEF Elements
    <2>1. /\ Len(m.ops) \in Nat /\ DOMAIN m.ops = 1 .. Len(m.ops) /\ m.ops # <<>>
          /\ Len(m.ops) \in DOMAIN m.ops /\ i \in DOMAIN m.ops
      <3>1. m.ops \in Seq(Op)
        BY <1>3
      <3> HIDE DEF m
      <3>2. Len(m.ops) \in Nat /\ DOMAIN m.ops = 1 .. Len(m.ops)
        BY <3>1
      <3>3. Len(m.ops) \in 1 .. Len(m.ops) /\ i \in 1 .. Len(m.ops)
        BY <3>2
      <3>4. m.ops # <<>>
        <4> SUFFICES ASSUME m.ops = <<>> PROVE FALSE
          OBVIOUS
        <4>1. Len(m.ops) = 0
          OBVIOUS
        <4> QED BY <3>3, <4>1
      <3> QED BY <3>2, <3>3, <3>4
    <2>2. x.answered = m.ops[Len(m.ops)].seq
      BY <1>6, <2>1
    <2>3. m.ops[i] \in Op /\ m.ops[Len(m.ops)] \in Op
      BY <1>3, <2>1
    <2>4. m.ops[i].seq \in Nat /\ m.ops[Len(m.ops)].seq \in Nat
      BY <2>3 DEF Op
    <2>5. CASE i = Len(m.ops)
      BY <2>2, <2>4, <2>5
    <2>6. CASE i # Len(m.ops)
      <3>1. i < Len(m.ops)
        BY <2>1, <2>6
      <3>2. m.ops[i].seq < m.ops[Len(m.ops)].seq
        BY <1>6, <2>1, <3>1 DEF Ascends
      <3> QED BY <2>2, <2>4, <3>2
    <2> QED BY <2>5, <2>6
  <1>9. \A o \in Elements(x.outbox) : \A p \in Elements(m.ops) : o.seq <= p.seq =>
          Has(h, Len(h), o) \/ \E q \in Elements(m.ops) : Same(q, o)
    <2> SUFFICES ASSUME NEW o \in Elements(x.outbox), NEW p \in Elements(m.ops), o.seq <= p.seq
                 PROVE  \E q \in Elements(m.ops) : Same(q, o)
      OBVIOUS
    <2>1. o \in Op /\ o.seq \in Nat
      <3>1. o \in Op
        BY DEF PageOK, Owns
      <3> QED BY <3>1 DEF Op
    <2>2. p.seq \in Nat /\ x.answered \in Nat /\ p.seq <= x.answered
      <3>1. p \in Op
        BY <1>3 DEF Elements
      <3> QED BY <1>7, <1>8, <3>1 DEF Op, Page
    <2>3. o.seq <= x.answered
      BY <2>1, <2>2
    <2> QED BY <1>6, <2>3
  <1>10. /\ Grows(ls, l2) /\ Now(l2) = g /\ g \in Seq(Op) /\ Len(h) <= Len(g)
         /\ Lives(l2, pg) /\ Owns(x.id, x.seq, Elements(x.outbox), l2)
         /\ \A o \in Elements(x.outbox) : \A p \in Elements(m.ops) : o.seq <= p.seq => Has(g, Len(g), o)
         /\ Mark(g, x.id) \in Nat /\ Mark(g, x.id) <= x.seq
         /\ Covered(x, Mark(g, x.id), g, Len(g))
    <2>1. LET f == Now(ls) \o TakenOf(Now(ls), x.id, m.ops)
              l3 == [ls EXCEPT ![Len(ls)] = f]
          IN  /\ Grows(ls, l3) /\ Now(l3) = f /\ f \in Seq(Op) /\ Len(Now(ls)) <= Len(f)
              /\ Lives(l3, pg) /\ Owns(x.id, x.seq, Elements(x.outbox), l3)
              /\ \A o \in Elements(x.outbox) : \A p \in Elements(m.ops) :
                   o.seq <= p.seq => Has(f, Len(f), o)
              /\ Mark(f, x.id) \in Nat /\ Mark(f, x.id) <= x.seq
              /\ Covered(x, Mark(f, x.id), f, Len(f))
      <3>1. /\ m.ops \in Seq(Op) /\ Ascends(m.ops)
            /\ \A p \in Elements(m.ops) : p.by = x.id /\ p.seq \in 1 .. x.seq
        BY <1>3, <1>5, <1>6
      <3> QED BY <1>9, <3>1, TakenNow
    <2> QED BY <2>1
  <1>11. Len(h) \in Nat /\ Len(g) \in Nat /\ Len(h) \in 0 .. Len(g)
    <2>1. h \in Seq(Op)
      BY DEF Lives, Now
    <2> QED BY <1>10, <2>1
  <1>12. a.t # "closed" /\ a.t # "patch" /\ a.t # "ack"
    BY DEF Answers
  <1>13. /\ w \in Seq(DownMessage) /\ w # <<>> /\ Len(w) = Len(g) - Len(h) + 1 /\ w[Len(w)] = a
         /\ \A i \in 1 .. Len(w) - 1 : /\ w[i].t = "patch" /\ w[i].v = Len(h) + i
                                       /\ w[i].op = g[Len(h) + i]
         /\ \A i \in 1 .. Len(w) : w[i].t # "closed" /\ w[i].v <= Len(g)
         /\ \A i \in 1 .. Len(w) - 1 : From(w[i + 1]) = w[i].v
         /\ From(w[1]) = Len(h)
    <2>1. g \in Seq(Op) /\ Len(h) \in 0 .. Len(g)
      BY <1>10, <1>11
    <2>2. Tells(w, g, Len(h), a)
      <3>1. w = Patches(g, Len(h)) \o <<a>>
        BY DEF h, Reply
      <3> HIDE DEF h
      <3> QED BY <1>12, <2>1, <3>1, PatchesAnd
    <2> HIDE DEF h
    <2> QED BY <2>2 DEF Tells
  <1> HIDE DEF h
  <1>14. Len(w) \in Nat /\ Len(w) >= 1
    BY <1>11, <1>13
  <1>15. x.answered <= a.seq
    <2>1. CASE m.ops = <<>>
      BY <1>6, <1>10, <2>1
    <2>2. CASE m.ops # <<>>
      <3>1. \A p \in Elements(m.ops) : p.by = x.id
        BY <1>3, <1>5
      <3>2. m.ops[Len(m.ops)].seq <= Mark(h \o TakenOf(h, x.id, m.ops), x.id)
        <4>1. h \in Seq(Op)
          BY DEF Lives, Now, h
        <4> QED BY <1>3, <1>6, <2>2, <3>1, <4>1, TakenMark, SMTT(30)
      <3> QED BY <1>6, <2>2, <3>2 DEF h
    <2> QED BY <2>1, <2>2
  <1>16. Len(l2) = Len(ls)
    BY <1>10 DEF Grows
  <1>17. AnswerOK(x, a, l2)
    <2>1. x.epoch = Len(l2) /\ x.v > 0 => a.v > 0
      <3> SUFFICES ASSUME x.epoch = Len(l2), x.v > 0 PROVE Len(g) > 0
        OBVIOUS
      <3>1. x.epoch # 0 /\ AsOf(x.base, x.v, ls[x.epoch]) /\ ls[x.epoch] = h
        <4>1. x.epoch = Len(ls) /\ Len(ls) # 0
          BY <1>16 DEF Lives
        <4> QED BY <1>7, <4>1 DEF Whole, h, Now
      <3>2. x.v <= Len(h)
        BY <3>1 DEF AsOf
      <3> QED BY <1>7, <1>10, <1>11, <3>2
    <2>2. UpTo(g, Len(g)) = g
      <3>1. \A f \in Seq(Op) : SubSeq(f, 1, Len(f)) = f
        OBVIOUS
      <3> QED BY <1>10, <3>1 DEF UpTo
    <2>3. a.t = "snapshot" => a.base = StateOf(UpTo(Now(l2), a.v))
      BY <1>10, <2>2
    <2>4. ASSUME a.t = "delta"
          PROVE  /\ x.epoch = Len(l2)
                 /\ \E since \in 0 .. a.v : /\ a.ops = SubSeq(Now(l2), since + 1, a.v)
                                            /\ x.synced \/ since = x.v
      <3>1. m.since \in 0 .. a.v
        BY <1>3, <1>11, <2>4
      <3>2. a.ops = SubSeq(Now(l2), m.since + 1, a.v)
        BY <1>6, <1>10, <1>16, <2>4
      <3>3. x.epoch = Len(l2) /\ (x.synced \/ m.since = x.v)
        BY <1>6, <1>16, <2>4
      <3> QED BY <3>1, <3>2, <3>3
    <2>5. a.epoch = Len(l2) /\ x.answered <= a.seq /\ a.seq <= x.seq /\ Covered(x, a.seq, Now(l2), a.v)
      BY <1>10, <1>15, <1>16
    <2> QED BY <2>1, <2>3, <2>4, <2>5 DEF AnswerOK
  <1>18. Told(x, s, w, k, ls, l2, ss, TRUE)
    <2>1. ASSUME NEW i \in 1 .. Len(w)
          PROVE  /\ w[i].t = "patch" => w[i].v >= 1 /\ w[i].op = Now(l2)[w[i].v]
                 /\ w[i].t = "ack" => k = 0 /\ AckOK(x, w[i], l2)
                 /\ Answers(w[i]) => /\ AnswerOK(x, w[i], l2)
                                     /\ i > 1 \/ Len(s) # k => w[i].v > 0
                                     /\ \A j \in 1 .. Len(w) : Answers(w[j]) => i = j
                                     /\ \A j \in 1 .. Len(s) : ~Answers(s[j])
      <3>1. CASE i = Len(w)
        <4>1. w[i] = a
          BY <1>13, <3>1
        <4>2. i > 1 \/ Len(s) # k => a.v > 0
          <5>1. i > 1 => Len(g) > 0
            BY <1>11, <1>13, <3>1
          <5>2. Len(s) # k => Len(h) # 0
            <6>1. ls \in Seq(Seq(Op))
              BY DEF Lives
            <6> QED BY <1>5, <1>7, <6>1, ToldBefore DEF h
          <5>3. Len(h) # 0 => Len(g) > 0
            BY <1>11
          <5> QED BY <5>1, <5>2, <5>3
        <4>3. \A j \in 1 .. Len(w) : Answers(w[j]) => i = j
          <5> SUFFICES ASSUME NEW j \in 1 .. Len(w), j # Len(w) PROVE ~Answers(w[j])
            BY <3>1
          <5>1. j \in 1 .. Len(w) - 1
            BY <1>14
          <5> QED BY <1>13, <5>1 DEF Answers
        <4> QED BY <1>5, <1>12, <1>17, <4>1, <4>2, <4>3
      <3>2. CASE i # Len(w)
        <4>1. i \in 1 .. Len(w) - 1
          BY <1>14, <3>2
        <4>2. w[i].t = "patch" /\ w[i].v = Len(h) + i /\ w[i].op = g[Len(h) + i]
          BY <1>13, <4>1
        <4>3. w[i].v >= 1
          BY <1>11, <4>2
        <4> QED BY <1>10, <4>2, <4>3 DEF Answers
      <3> QED BY <3>1, <3>2
    <2>2. \E i \in 1 .. Len(w) : Answers(w[i])
      <3>1. Len(w) \in 1 .. Len(w)
        BY <1>14
      <3> QED BY <1>13, <3>1
    <2>3. w[Len(w)].v = Len(Now(l2)) /\ \A i \in 1 .. Len(w) : w[i].t # "closed" /\ w[i].v <= Len(Now(l2))
      BY <1>10, <1>13
    <2>4. w \in Seq(DownMessage) /\ w # <<>> /\ From(w[1]) = Len(Now(ls))
          /\ \A i \in 1 .. Len(w) - 1 : From(w[i + 1]) = w[i].v
      BY <1>13 DEF h
    <2> QED BY <2>1, <2>2, <2>3, <2>4 DEF Told
  <1>19. ~x.holds
    BY <1>4 DEF Flow, Asking
  <1>20. \A i \in 1 .. Len(Tail(u)) : Tail(u)[i].t # "hello"
    <2> SUFFICES ASSUME NEW i \in 1 .. Len(Tail(u)) PROVE Tail(u)[i].t # "hello"
      OBVIOUS
    <2>1. i + 1 \in 1 .. Len(u) /\ 1 # i + 1 /\ Tail(u)[i] = u[i + 1]
      BY <1>2
    <2> QED BY <1>5, <2>1
  <1>21. \A o \in Elements(x.outbox) : \A p \in Said(u[1]) : Same(p, o) => Has(Now(l2), Len(Now(l2)), o)
    <2> SUFFICES ASSUME NEW o \in Elements(x.outbox), NEW p \in Elements(m.ops), Same(p, o)
                 PROVE  Has(g, Len(g), o)
      BY <1>3, <1>10
    <2>1. p.seq = o.seq /\ p.seq \in Nat
      <3>1. p \in Op
        BY <1>3 DEF Elements
      <3> QED BY <3>1 DEF Same, Op
    <2>2. o.seq <= p.seq
      BY <2>1
    <2> QED BY <1>10, <2>2
  <1>22. Len(u) = Len(Tail(u)) + 1 /\ \A i \in 1 .. Len(Tail(u)) : Tail(u)[i] = u[i + 1]
    BY <1>2
  <1>23. Flow(x, s \o w, k, Tail(u), l2, TRUE)
    <2>1. \A n \in {0, 1} : n = 1 =>
            Len(u) = Len(Tail(u)) + n /\ \A i \in 1 .. Len(Tail(u)) : Tail(u)[i] = u[i + n]
      BY <1>22
    <2>2. 1 \in {0, 1}
      OBVIOUS
    <2> QED BY <1>2, <1>7, <1>10, <1>18, <1>19, <1>20, <1>21, <1>22, <2>2, ToldFlow
  <1> QED BY <1>10, <1>23 DEF h

\* An op on its own, the first of u, gives history g, lives l2 and answer a.
OpGives(ls, x, u, g, l2, a) ==
  /\ g = Now(ls) \o TakenOf(Now(ls), x.id, <<u[1].op>>)
  /\ Becomes(ls, g, l2)
  /\ a = [t |-> "ack", seq |-> u[1].op.seq, v |-> Len(g)]

\* An op on its own is taken: the store has the client's ops up to it.
LEMMA OpTaken ==
  ASSUME NEW ls, NEW pg \in Nat, NEW x, Lives(ls, pg), PageOK(x, ls, pg),
         NEW s, NEW k, NEW u, NEW ss, Flow(x, s, k, u, ls, ss),
         u # <<>>, u[1].t # "hello",
         NEW g, NEW l2, NEW a, OpGives(ls, x, u, g, l2, a),
         NEW w, Reply(w, g, Len(Now(ls)), a)
  PROVE  /\ Grows(ls, l2) /\ Now(l2) = g /\ Lives(l2, pg)
         /\ Owns(x.id, x.seq, Elements(x.outbox), l2)
         /\ u[1].op.by = x.id
         /\ Flow(x, s \o w, k, Tail(u), l2, TRUE)
  <1> DEFINE h == Now(ls)
             m == u[1]
             sent == <<m.op>>
  <1>0. /\ g = Now(ls) \o TakenOf(Now(ls), x.id, <<u[1].op>>)
        /\ l2 = [ls EXCEPT ![Len(ls)] = g]
        /\ a = [t |-> "ack", seq |-> u[1].op.seq, v |-> Len(g)]
    BY DEF OpGives, Becomes
  <1> USE <1>0
  <1>1. u \in Seq(UpMessage) /\ s \in Seq(DownMessage) /\ k \in 0 .. Len(s)
    BY DEF Flow, Upward, Chained
  <1>2. /\ Tail(u) \in Seq(UpMessage) /\ Len(u) \in Nat /\ Len(u) >= 1 /\ Len(Tail(u)) = Len(u) - 1
        /\ \A i \in 1 .. Len(u) - 1 : Tail(u)[i] = u[i + 1]
        /\ m \in UpMessage
    BY <1>1, TailIs
  <1>3. m \in OpMessage /\ m.t = "op" /\ m.op \in Op /\ Said(m) = {m.op}
    <2>1. m \in OpMessage /\ m.t = "op"
      BY <1>2, UpKinds
    <2> QED BY <2>1 DEF OpMessage, Said
  <1>4. 1 \in 1 .. Len(u)
    BY <1>2
  <1>5. m.op.by = x.id /\ m.op.seq \in 1 .. x.seq
    BY <1>3, <1>4 DEF Flow, Upward
  <1>6. /\ ss /\ x.synced /\ k = 0
        /\ \A o \in Elements(x.outbox) : o.seq <= m.op.seq => Has(h, Len(h), o) \/ Says(u, 1, o)
    BY <1>3, <1>4 DEF Flow, Upward, OpOK
  <1>7. /\ x \in Page /\ x.id \in 1 .. pg /\ Whole(x.base, x.v, x.epoch, ls)
        /\ x.epoch \in 0 .. Len(ls) /\ x.v \in Nat /\ x.epoch = Len(ls) /\ x.seq \in Nat
    BY <1>6 DEF PageOK, Whole, Flow, InTouch, Page
  <1>8. sent \in Seq(Op) /\ Ascends(sent) /\ Elements(sent) = {m.op} /\ sent # <<>>
    <2>1. sent \in Seq(Op) /\ DOMAIN sent = {1} /\ sent[1] = m.op /\ sent # <<>>
      BY <1>3
    <2> HIDE DEF sent
    <2>2. ~(1 < 1)
      OBVIOUS
    <2> QED BY <2>1, <2>2 DEF Elements, Ascends
  <1> HIDE DEF sent
  <1>9. \A o \in Elements(x.outbox) : \A p \in Elements(sent) : o.seq <= p.seq =>
          Has(h, Len(h), o) \/ \E q \in Elements(sent) : Same(q, o)
    <2> SUFFICES ASSUME NEW o \in Elements(x.outbox), o.seq <= m.op.seq, Says(u, 1, o)
                 PROVE  Same(m.op, o)
      BY <1>6, <1>8
    <2> QED BY <1>3 DEF Says
  <1>10. /\ Grows(ls, l2) /\ Now(l2) = g /\ g \in Seq(Op) /\ Len(h) <= Len(g)
         /\ Lives(l2, pg) /\ Owns(x.id, x.seq, Elements(x.outbox), l2)
         /\ \A o \in Elements(x.outbox) : \A p \in Elements(sent) : o.seq <= p.seq => Has(g, Len(g), o)
    <2>1. LET f == Now(ls) \o TakenOf(Now(ls), x.id, sent)
              l3 == [ls EXCEPT ![Len(ls)] = f]
          IN  /\ Grows(ls, l3) /\ Now(l3) = f /\ f \in Seq(Op) /\ Len(Now(ls)) <= Len(f)
              /\ Lives(l3, pg) /\ Owns(x.id, x.seq, Elements(x.outbox), l3)
              /\ \A o \in Elements(x.outbox) : \A p \in Elements(sent) :
                   o.seq <= p.seq => Has(f, Len(f), o)
              /\ Mark(f, x.id) \in Nat /\ Mark(f, x.id) <= x.seq
              /\ Covered(x, Mark(f, x.id), f, Len(f))
      <3>1. \A p \in Elements(sent) : p.by = x.id /\ p.seq \in 1 .. x.seq
        BY <1>5, <1>8
      <3> QED BY <1>8, <1>9, <3>1, TakenNow
    <2> QED BY <2>1 DEF sent
  <1>11. h \in Seq(Op) /\ Len(h) \in Nat /\ Len(g) \in Nat /\ Len(h) \in 0 .. Len(g)
    <2>1. h \in Seq(Op)
      BY DEF Lives, Now
    <2> QED BY <1>10, <2>1
  <1>12. m.op.seq \in Nat /\ m.op.seq >= 1
    BY <1>5, <1>7
  <1>13. a \in DownMessage /\ a.t = "ack" /\ a.v = Len(g) /\ a.seq = m.op.seq /\ ~Answers(a)
    BY <1>11, <1>12 DEF DownMessage, Ack, Answers
  <1>14. Tells(w, g, Len(h), a)
    <2>1. w = Patches(g, Len(h)) \o <<a>>
      BY DEF h, Reply
    <2> HIDE DEF h
    <2> QED BY <1>10, <1>11, <1>13, <2>1, PatchesAnd
  <1> HIDE DEF h
  <1>15. /\ w \in Seq(DownMessage) /\ w # <<>> /\ Len(w) = Len(g) - Len(h) + 1 /\ w[Len(w)] = a
         /\ \A i \in 1 .. Len(w) - 1 : /\ w[i].t = "patch" /\ w[i].v = Len(h) + i
                                       /\ w[i].op = g[Len(h) + i]
         /\ \A i \in 1 .. Len(w) : w[i].t # "closed" /\ w[i].v <= Len(g)
         /\ \A i \in 1 .. Len(w) - 1 : From(w[i + 1]) = w[i].v
         /\ From(w[1]) = Len(h)
    BY <1>14 DEF Tells
  <1>16. Len(w) \in Nat /\ Len(w) >= 1
    <2>1. Len(w) = Len(g) - Len(h) + 1
      BY <1>15
    <2>2. Len(h) \in Nat /\ Len(g) \in Nat /\ Len(h) <= Len(g)
      BY <1>11
    <2> QED BY <2>1, <2>2
  <1>17. Len(l2) = Len(ls) /\ l2[x.epoch] = g
    BY <1>7, <1>10 DEF Grows, Now
  <1>18. Len(g) >= 1
    <2>1. CASE m.op.seq > Mark(h, x.id)
      <3>1. LET n == TakenOf(h, x.id, sent)
                f == h \o n
            IN  /\ n \in Seq(Op) /\ Ascends(n)
                /\ Elements(n) = {o \in Elements(sent) : o.seq > Mark(h, x.id)}
                /\ f \in Seq(Op) /\ Len(f) = Len(h) + Len(n) /\ Extends(f, h)
                /\ \A i \in 1 .. Len(n) : f[Len(h) + i] = n[i]
                /\ \A j \in Len(h) + 1 .. Len(f) : f[j] = n[j - Len(h)]
        <4>1. h \in Seq(Op) /\ sent \in Seq(Op) /\ Ascends(sent)
          BY <1>8, <1>11
        <4> QED BY <4>1, TakenIs
      <3> DEFINE n == TakenOf(h, x.id, sent)
      <3>2. /\ n \in Seq(Op) /\ Len(g) = Len(h) + Len(n)
            /\ Elements(n) = {o \in Elements(sent) : o.seq > Mark(h, x.id)}
        BY <3>1 DEF h, sent
      <3> HIDE DEF n
      <3>3. m.op \in Elements(n)
        BY <1>8, <2>1, <3>2
      <3>4. PICK i \in 1 .. Len(n) : n[i] = m.op
        <4>1. DOMAIN n = 1 .. Len(n)
          BY <3>2
        <4> QED BY <3>3, <4>1 DEF Elements
      <3>5. Len(n) \in Nat
        BY <3>2
      <3> QED BY <1>11, <3>2, <3>4, <3>5
    <2>2. CASE ~(m.op.seq > Mark(h, x.id))
      <3>1. Mark(h, x.id) \in Nat
        BY <1>11, MarkNat
      <3>2. Mark(h, x.id) # 0
        BY <1>12, <2>2, <3>1
      <3>3. \/ (\A j \in 1 .. Len(h) : h[j].by # x.id) /\ Mark(h, x.id) = 0
            \/ \E i \in 1 .. Len(h) : /\ h[i].by = x.id /\ Mark(h, x.id) = h[i].seq
                                      /\ \A j \in i + 1 .. Len(h) : h[j].by # x.id
        BY <1>11, MarkIs
      <3>4. \E i \in 1 .. Len(h) : TRUE
        BY <3>2, <3>3
      <3>5. Len(h) >= 1
        BY <1>11, <3>4
      <3>6. \A p, q \in Nat : p >= 1 /\ p \in 0 .. q => q >= 1
        OBVIOUS
      <3> QED BY <1>11, <3>5, <3>6
    <2> QED BY <2>1, <2>2
  <1>19. AckOK(x, a, l2)
    <2>1. Covered(x, m.op.seq, g, Len(g))
      <3>1. m.op \in Elements(sent)
        BY <1>8
      <3> QED BY <1>10, <3>1 DEF Covered
    <2>2. a.v \in 1 .. Len(g)
      <3>1. a.v = Len(g)
        BY <1>13
      <3>2. Len(g) \in Nat
        BY <1>11
      <3>3. \A n \in Nat : n >= 1 => n \in 1 .. n
        OBVIOUS
      <3> QED BY <1>18, <3>1, <3>2, <3>3
    <2>3. a.seq <= x.seq /\ a.seq = m.op.seq /\ a.v = Len(g)
      BY <1>5, <1>7, <1>13
    <2>4. Covered(x, a.seq, l2[x.epoch], a.v) /\ a.v \in 1 .. Len(l2[x.epoch])
      BY <1>17, <2>1, <2>2, <2>3
    <2> QED BY <1>6, <2>3, <2>4 DEF AckOK
  <1>20. \A i \in 1 .. Len(w) : ~Answers(w[i])
    <2> SUFFICES ASSUME NEW i \in 1 .. Len(w) PROVE ~Answers(w[i])
      OBVIOUS
    <2>1. CASE i = Len(w)
      BY <1>13, <1>15, <2>1
    <2>2. CASE i # Len(w)
      <3>1. i \in 1 .. Len(w) - 1
        BY <1>16, <2>2
      <3> QED BY <1>15, <3>1 DEF Answers
    <2> QED BY <2>1, <2>2
  <1>21. Told(x, s, w, k, ls, l2, ss, TRUE)
    <2>1. ASSUME NEW i \in 1 .. Len(w)
          PROVE  /\ w[i].t = "patch" => w[i].v >= 1 /\ w[i].op = Now(l2)[w[i].v]
                 /\ w[i].t = "ack" => k = 0 /\ AckOK(x, w[i], l2)
      <3>1. CASE i = Len(w)
        BY <1>6, <1>13, <1>15, <1>19, <3>1
      <3>2. CASE i # Len(w)
        <4>1. i \in 1 .. Len(w) - 1
          BY <1>16, <3>2
        <4>2. w[i].t = "patch" /\ w[i].v = Len(h) + i /\ w[i].op = g[Len(h) + i]
          BY <1>15, <4>1
        <4>3. w[i].v >= 1
          BY <1>11, <4>2
        <4> QED BY <1>10, <4>2, <4>3
      <3> QED BY <3>1, <3>2
    <2>2. w[Len(w)].v = Len(Now(l2)) /\ \A i \in 1 .. Len(w) : w[i].t # "closed" /\ w[i].v <= Len(Now(l2))
      BY <1>10, <1>13, <1>15
    <2>3. w \in Seq(DownMessage) /\ w # <<>> /\ From(w[1]) = Len(Now(ls))
          /\ \A i \in 1 .. Len(w) - 1 : From(w[i + 1]) = w[i].v
      BY <1>15 DEF h
    <2> QED BY <1>6, <1>20, <2>1, <2>2, <2>3 DEF Told
  <1>22. ASSUME x.holds, NEW i \in 1 .. Len(Tail(u)) PROVE Tail(u)[i].t # "hello"
    <2>1. i + 1 \in 1 .. Len(u) /\ Tail(u)[i] = u[i + 1]
      BY <1>2
    <2> QED BY <1>22, <2>1 DEF Flow, Asking
  <1>23. \A o \in Elements(x.outbox) : \A p \in Said(u[1]) : Same(p, o) => Has(Now(l2), Len(Now(l2)), o)
    <2> SUFFICES ASSUME NEW o \in Elements(x.outbox), Same(m.op, o)
                 PROVE  Has(g, Len(g), o)
      BY <1>3, <1>10
    <2>1. o.seq <= m.op.seq
      BY <1>12 DEF Same
    <2> QED BY <1>8, <1>10, <2>1
  <1>24. Len(u) = Len(Tail(u)) + 1 /\ \A i \in 1 .. Len(Tail(u)) : Tail(u)[i] = u[i + 1]
    BY <1>2
  <1>25. Flow(x, s \o w, k, Tail(u), l2, TRUE)
    <2>2. 1 \in {0, 1}
      OBVIOUS
    <2> QED BY <1>2, <1>7, <1>10, <1>20, <1>21, <1>22, <1>23, <1>24, <2>2, ToldFlow
  <1> QED BY <1>5, <1>10, <1>25 DEF h

\* Another's write is nobody's of the replicas.
LEMMA OthersOwn ==
  ASSUME NEW ls, NEW pg \in Nat, Lives(ls, pg), NEW o \in Op, o.by = 0,
         NEW g, g = Append(Now(ls), o),
         NEW l2, l2 = [ls EXCEPT ![Len(ls)] = g]
  PROVE  /\ Grows(ls, l2) /\ Now(l2) = g /\ Lives(l2, pg)
         /\ \A id, seq, ops : id # 0 /\ Owns(id, seq, ops, ls) => Owns(id, seq, ops, l2)
  <1> DEFINE h == Now(ls)
  <1>1. /\ ls \in Seq(Seq(Op)) /\ Len(ls) >= 1 /\ Len(ls) \in Nat /\ h \in Seq(Op) /\ Len(h) \in Nat
    <2>1. ls \in Seq(Seq(Op)) /\ Len(ls) >= 1 /\ h \in Seq(Op)
      BY DEF Lives, Now
    <2> QED BY <2>1
  <1>2. /\ g \in Seq(Op) /\ Len(g) = Len(h) + 1 /\ g[Len(h) + 1] = o
        /\ \A i \in 1 .. Len(h) : g[i] = h[i]
    BY <1>1
  <1>3. Extends(g, h)
    BY <1>1, <1>2 DEF Extends
  <1>4. Grows(ls, l2) /\ Now(l2) = g
    BY <1>1, <1>2, <1>3, GrowsIs
  <1>5. \A j \in Len(h) + 1 .. Len(g) : g[j].by = 0
    <2>1. \A j \in Len(h) + 1 .. Len(g) : j = Len(h) + 1
      BY <1>1, <1>2
    <2> QED BY <1>2, <2>1
  <1> HIDE DEF h
  <1>7. Lives(l2, pg)
    <2>1. \A j \in Len(h) + 1 .. Len(g) : g[j].by <= pg
      BY <1>5
    <2> QED BY <1>4, <2>1, LivesGrows DEF h
  <1>8. ASSUME NEW id, NEW seq, NEW ops, id # 0, Owns(id, seq, ops, ls)
        PROVE  Owns(id, seq, ops, l2)
    <2>1. ASSUME NEW p \in ops PROVE Gapless(g, p)
      <3>1. p.by = id /\ Gapless(ls[Len(ls)], p)
        <4>1. Len(ls) \in 1 .. Len(ls)
          BY <1>1
        <4> QED BY <1>8, <4>1 DEF Owns
      <3>2. Gapless(h, p)
        BY <3>1 DEF h, Now
      <3>3. DOMAIN h = 1 .. Len(h) /\ DOMAIN g = 1 .. Len(g)
        BY <1>1, <1>2
      <3> SUFFICES ASSUME NEW j \in 1 .. Len(g), g[j].by = p.by, g[j].seq >= p.seq
                   PROVE  Has(g, j, p)
        BY <3>3 DEF Gapless
      <3>4. j \in 1 .. Len(h)
        <4>1. CASE j <= Len(h)
          BY <1>1, <1>2, <4>1
        <4>2. CASE j > Len(h)
          <5>1. j \in Len(h) + 1 .. Len(g)
            BY <1>1, <1>2, <4>2
          <5> QED BY <1>5, <1>8, <3>1, <5>1
        <4> QED BY <1>1, <1>2, <4>1, <4>2
      <3>5. Has(h, j, p)
        BY <1>2, <3>2, <3>3, <3>4 DEF Gapless
      <3>6. \A i \in 1 .. j : i \in 1 .. Len(h)
        BY <1>1, <3>4
      <3> QED BY <1>2, <3>5, <3>6 DEF Has
    <2>2. \A j \in Len(h) + 1 .. Len(g) : g[j].by = id => g[j].seq <= seq
      BY <1>5, <1>8
    <2> QED BY <1>4, <1>8, <2>1, <2>2, OwnsGrows DEF h
  <1> QED BY <1>4, <1>7, <1>8

\* What a client is told of the changes after version v of g: their patches, with a session.
PassedOn(w, g, v, ss) == (ss = TRUE /\ w = Patches(g, v)) \/ (ss = FALSE /\ w = <<>>)

\* Another's write: a patch for a client that has a session.
LEMMA OthersTaken ==
  ASSUME NEW ls, NEW pg \in Nat, NEW x, Lives(ls, pg), PageOK(x, ls, pg),
         NEW s, NEW k, NEW u, NEW ss, Flow(x, s, k, u, ls, ss),
         NEW o \in Op, o.by = 0,
         NEW g, g = Append(Now(ls), o),
         NEW l2, l2 = [ls EXCEPT ![Len(ls)] = g],
         NEW w, PassedOn(w, g, Len(Now(ls)), ss)
  PROVE  /\ Grows(ls, l2) /\ Now(l2) = g /\ Lives(l2, pg)
         /\ Owns(x.id, x.seq, Elements(x.outbox), l2)
         /\ Flow(x, s \o w, k, u, l2, ss)
  <1> DEFINE h == Now(ls)
  <1>1. /\ ls \in Seq(Seq(Op)) /\ Len(ls) >= 1 /\ Len(ls) \in Nat /\ h \in Seq(Op) /\ Len(h) \in Nat
    <2>1. ls \in Seq(Seq(Op)) /\ Len(ls) >= 1 /\ h \in Seq(Op)
      BY DEF Lives, Now
    <2> QED BY <2>1
  <1>2. /\ g \in Seq(Op) /\ Len(g) = Len(h) + 1 /\ g[Len(h) + 1] = o
        /\ \A i \in 1 .. Len(h) : g[i] = h[i]
    BY <1>1
  <1>4. /\ Grows(ls, l2) /\ Now(l2) = g /\ Lives(l2, pg)
        /\ \A id, seq, ops : id # 0 /\ Owns(id, seq, ops, ls) => Owns(id, seq, ops, l2)
    BY OthersOwn
  <1>6. /\ x \in Page /\ x.id \in 1 .. pg /\ x.id # 0 /\ Whole(x.base, x.v, x.epoch, ls)
        /\ x.epoch \in 0 .. Len(ls) /\ Owns(x.id, x.seq, Elements(x.outbox), ls)
    BY DEF PageOK, Whole
  <1> HIDE DEF h
  <1>9. Owns(x.id, x.seq, Elements(x.outbox), l2)
    BY <1>4, <1>6
  <1>10. /\ w \in Seq(DownMessage)
         /\ ss => /\ Len(w) = 1 /\ w[1].t = "patch" /\ w[1].v = Len(g) /\ w[1].op = g[Len(g)]
         /\ ~ss => w = <<>>
    <2>1. CASE ss = TRUE /\ w = Patches(g, Len(h))
      <3>1. Len(h) \in 0 .. Len(g) /\ Len(g) - Len(h) = 1 /\ Len(h) + 1 = Len(g) /\ 1 \in 1 .. Len(g) - Len(h)
        BY <1>1, <1>2
      <3>2. /\ Patches(g, Len(h)) \in Seq(DownMessage) /\ Len(Patches(g, Len(h))) = Len(g) - Len(h)
            /\ \A i \in 1 .. Len(g) - Len(h) : /\ Patches(g, Len(h))[i].t = "patch"
                                               /\ Patches(g, Len(h))[i].v = Len(h) + i
                                               /\ Patches(g, Len(h))[i].op = g[Len(h) + i]
        BY <1>2, <3>1, PatchesIs
      <3>3. Patches(g, Len(h))[1].v = Len(h) + 1 /\ Patches(g, Len(h))[1].op = g[Len(h) + 1]
            /\ Patches(g, Len(h))[1].t = "patch"
        BY <3>1, <3>2
      <3> QED BY <2>1, <3>1, <3>2, <3>3
    <2>2. CASE ss = FALSE /\ w = <<>>
      BY <2>2
    <2>3. (ss = TRUE /\ w = Patches(g, Len(h))) \/ (ss = FALSE /\ w = <<>>)
      BY DEF h, PassedOn
    <2> QED BY <2>1, <2>2, <2>3
  <1>11. (ss => Len(w) = 1 /\ w # <<>>) /\ (~ss => Len(w) = 0 /\ w = <<>>)
    <2>1. w = <<>> => Len(w) = 0
      OBVIOUS
    <2>2. 0 # 1
      OBVIOUS
    <2> QED BY <1>10, <2>1, <2>2
  <1>12. Len(g) >= 1 /\ Len(g) \in Nat /\ Len(g) - 1 = Len(h)
    BY <1>1, <1>2
  <1>13. \A i \in 1 .. Len(w) : ss /\ i = 1 /\ Len(w) = 1
    <2>1. (ss => Len(w) = 1) /\ (~ss => Len(w) = 0)
      BY <1>11
    <2>2. \A n : n = 0 => ~\E i \in 1 .. n : TRUE
      OBVIOUS
    <2>3. ~ss => ~\E i \in 1 .. Len(w) : TRUE
      BY <2>1, <2>2
    <2>4. \A n : n = 1 => \A i \in 1 .. n : i = 1
      OBVIOUS
    <2> QED BY <2>1, <2>3, <2>4
  <1>14. \A i \in 1 .. Len(w) : ~Answers(w[i]) /\ w[i].t = "patch" /\ w[i].v = Len(g) /\ w[i].op = g[Len(g)]
    BY <1>10, <1>13 DEF Answers
  <1>15. Told(x, s, w, k, ls, l2, ss, ss)
    <2>1. w # <<>> => From(w[1]) = Len(Now(ls)) /\ w[Len(w)].v = Len(Now(l2))
      BY <1>4, <1>10, <1>11, <1>12 DEF From, h
    <2>2. ~\E i \in 1 .. Len(w) - 1 : TRUE
      <3>1. \A n : n = 0 \/ n = 1 => ~\E i \in 1 .. n - 1 : TRUE
        OBVIOUS
      <3>2. Len(w) = 0 \/ Len(w) = 1
        BY <1>11
      <3> QED BY <3>1, <3>2
    <2>3. \A i \in 1 .. Len(w) : /\ w[i].t # "closed" /\ w[i].v <= Len(Now(l2)) /\ w[i].v >= 1
                                 /\ w[i].op = Now(l2)[w[i].v]
      BY <1>4, <1>12, <1>14
    <2>4. ss \in BOOLEAN
      BY DEF PassedOn
    <2> QED BY <1>10, <1>11, <1>14, <2>1, <2>2, <2>3, <2>4 DEF Told
  <1>16. u \in Seq(UpMessage) /\ Len(u) = Len(u) + 0 /\ \A i \in 1 .. Len(u) : u[i] = u[i + 0]
    <2>1. u \in Seq(UpMessage)
      BY DEF Flow, Upward
    <2> QED BY <2>1
  <1>17. x.holds => \A i \in 1 .. Len(u) : u[i].t # "hello"
    BY DEF Flow, Asking
  <1>18. Flow(x, s \o w, k, u, l2, ss)
    <2>1. 0 \in {0, 1} /\ 0 # 1
      OBVIOUS
    <2> QED BY <1>4, <1>6, <1>14, <1>15, <1>16, <1>17, <2>1, ToldFlow
  <1> QED BY <1>4, <1>9, <1>18 DEF h

-------------------------------------------------------------------------------
(* Storage.                                                                *)

\* With no writes on their way there is what there is.
LEMMA TrailNone ==
  ASSUME NEW ad, NEW d
  PROVE  Trail(ad, d, <<>>, [i \in {0} |-> d])
  <1>1. Len(<<>>) = 0 /\ 0 .. 0 = {0} /\ 1 .. 0 = {}
    OBVIOUS
  <1> DEFINE D == [i \in {0} |-> d]
  <1>2. D = [i \in {0} |-> D[i]] /\ D[0] = d
    OBVIOUS
  <1> HIDE DEF D
  <1>3. \A i \in 1 .. 0 : D[i] = LandedBy(ad, D[i - 1], <<>>[i])
    BY <1>1
  <1> QED BY <1>1, <1>2, <1>3 DEF Trail, D

\* One write more.
OneMore(ad, d, ws, D, w, F) ==
  /\ Trail(ad, d, Append(ws, w), F)
  /\ \A i \in 0 .. Len(ws) : F[i] = D[i]
  /\ F[Len(ws) + 1] = LandedBy(ad, D[Len(ws)], w)

\* The storage after the others is what it was.
LEMMA TrailOne ==
  ASSUME NEW ad, NEW d, NEW ws \in Seq(Write), NEW D, Trail(ad, d, ws, D), NEW w \in Write
  PROVE  \E F : OneMore(ad, d, ws, D, w, F)
  <1> DEFINE n == Len(ws)
             vs == Append(ws, w)
             F == [i \in 0 .. n + 1 |-> IF i = n + 1 THEN LandedBy(ad, D[n], w) ELSE D[i]]
  <1>1. /\ n \in Nat /\ Len(vs) = n + 1 /\ vs[n + 1] = w
        /\ \A i \in 1 .. n : vs[i] = ws[i]
    OBVIOUS
  <1> HIDE DEF n, vs
  <1>a. n + 1 \in 0 .. n + 1 /\ \A i \in 0 .. n : i \in 0 .. n + 1 /\ i # n + 1
    BY <1>1
  <1>b. \A i \in 0 .. n + 1 : F[i] = IF i = n + 1 THEN LandedBy(ad, D[n], w) ELSE D[i]
    OBVIOUS
  <1>c. F = [i \in 0 .. n + 1 |-> F[i]]
    OBVIOUS
  <1> HIDE DEF F
  <1>2. /\ \A i \in 0 .. n : F[i] = D[i]
        /\ F[n + 1] = LandedBy(ad, D[n], w)
        /\ F = [i \in 0 .. n + 1 |-> F[i]]
    BY <1>a, <1>b, <1>c
  <1>3. D[0] = d /\ \A i \in 1 .. n : D[i] = LandedBy(ad, D[i - 1], ws[i])
    BY DEF Trail, n
  <1>4. F[0] = d
    <2>1. 0 \in 0 .. n
      BY <1>1
    <2> QED BY <1>2, <1>3, <2>1
  <1>5. ASSUME NEW i \in 1 .. n + 1 PROVE F[i] = LandedBy(ad, F[i - 1], vs[i])
    <2>1. CASE i = n + 1
      <3>1. i - 1 = n /\ n \in 0 .. n
        BY <1>1, <2>1
      <3> QED BY <1>1, <1>2, <2>1, <3>1
    <2>2. CASE i # n + 1
      <3>1. i \in 1 .. n /\ i \in 0 .. n /\ i - 1 \in 0 .. n
        BY <1>1, <2>2
      <3> QED BY <1>1, <1>2, <1>3, <3>1
    <2> QED BY <2>1, <2>2
  <1>6. Trail(ad, d, vs, F)
    BY <1>1, <1>2, <1>4, <1>5 DEF Trail
  <1> QED BY <1>2, <1>6 DEF OneMore, n, vs

\* The first has landed.
LEMMA TrailTail ==
  ASSUME NEW ad, NEW d, NEW ws \in Seq(Write), ws # <<>>, NEW D, Trail(ad, d, ws, D)
  PROVE  LET F == [i \in 0 .. Len(ws) - 1 |-> D[i + 1]]
         IN  /\ Trail(ad, LandedBy(ad, d, ws[1]), Tail(ws), F)
             /\ \A i \in 0 .. Len(ws) - 1 : F[i] = D[i + 1]
  <1> DEFINE n == Len(ws) - 1
             F == [i \in 0 .. n |-> D[i + 1]]
  <1>1. /\ n \in Nat /\ Len(ws) = n + 1 /\ Len(Tail(ws)) = n
        /\ \A i \in 1 .. n : Tail(ws)[i] = ws[i + 1]
    BY TailIs
  <1> HIDE DEF n
  <1>2. D[0] = d /\ \A i \in 1 .. n + 1 : D[i] = LandedBy(ad, D[i - 1], ws[i])
    BY <1>1 DEF Trail
  <1>3. (\A i \in 0 .. n : F[i] = D[i + 1]) /\ F = [i \in 0 .. n |-> F[i]]
    OBVIOUS
  <1> HIDE DEF F
  <1>4. F[0] = LandedBy(ad, d, ws[1])
    <2>1. 0 \in 0 .. n /\ 1 \in 1 .. n + 1
      BY <1>1
    <2>2. D[1] = LandedBy(ad, D[1 - 1], ws[1]) /\ F[0] = D[0 + 1]
      BY <1>2, <1>3, <2>1
    <2> QED BY <1>2, <2>2
  <1>5. ASSUME NEW i \in 1 .. n PROVE F[i] = LandedBy(ad, F[i - 1], Tail(ws)[i])
    <2>1. i \in 0 .. n /\ i - 1 \in 0 .. n /\ i + 1 \in 1 .. n + 1 /\ (i - 1) + 1 = i /\ (i + 1) - 1 = i
      BY <1>1
    <2>2. F[i] = D[i + 1] /\ F[i - 1] = D[i]
      BY <1>3, <2>1
    <2>3. D[i + 1] = LandedBy(ad, D[i], ws[i + 1])
      BY <1>2, <2>1
    <2> QED BY <1>1, <2>2, <2>3
  <1>6. Trail(ad, LandedBy(ad, d, ws[1]), Tail(ws), F)
    BY <1>1, <1>3, <1>4, <1>5 DEF Trail
  <1> QED BY <1>3, <1>6 DEF F, n

\* Writes that are done when made.
LEMMA LandedAllIs ==
  ASSUME NEW d, NEW ws \in Seq(Write), NEW D, Trail(adapter, d, ws, D)
  PROVE  LandedAll(d, ws) = D[Len(ws)]
  <1> DEFINE n == Len(ws)
             Eq(f) == f = [i \in 0 .. n |-> IF i = 0 THEN d ELSE Landed(f[i - 1], ws[i])]
             f == CHOOSE g : Eq(g)
             T == {i \in 0 .. n : f[i] # D[i]}
  <1>1. n \in Nat
    OBVIOUS
  <1>2. \A e, w : LandedBy(adapter, e, w) = Landed(e, w)
    BY DEF LandedBy, Landed
  <1>3. LandedAll(d, ws) = f[n]
    BY DEF LandedAll
  <1> HIDE DEF n
  <1>4. /\ D = [i \in 0 .. n |-> D[i]] /\ D[0] = d
        /\ \A i \in 1 .. n : D[i] = Landed(D[i - 1], ws[i])
    BY <1>2 DEF Trail, n
  <1>5. Eq(D)
    <2> DEFINE G == [i \in 0 .. n |-> IF i = 0 THEN d ELSE Landed(D[i - 1], ws[i])]
    <2>1. \A i \in 0 .. n : D[i] = G[i]
      <3> SUFFICES ASSUME NEW i \in 0 .. n PROVE D[i] = G[i]
        OBVIOUS
      <3>1. CASE i = 0
        BY <1>4, <3>1
      <3>2. CASE i # 0
        <4>1. i \in 1 .. n
          BY <1>1, <3>2
        <4> QED BY <1>4, <3>2, <4>1
      <3> QED BY <3>1, <3>2
    <2>2. G = [i \in 0 .. n |-> G[i]]
      OBVIOUS
    <2> HIDE DEF G
    <2>3. D = G
      BY <1>4, <2>1, <2>2
    <2> QED BY <2>3 DEF G
  <1>6. Eq(f)
    BY <1>5
  <1>7. f[0] = d /\ \A i \in 1 .. n : f[i] = Landed(f[i - 1], ws[i])
    <2> HIDE DEF f
    <2>1. f = [i \in 0 .. n |-> IF i = 0 THEN d ELSE Landed(f[i - 1], ws[i])]
      BY <1>6
    <2>2. \A i \in 0 .. n : f[i] = IF i = 0 THEN d ELSE Landed(f[i - 1], ws[i])
      BY <2>1
    <2>3. 0 \in 0 .. n /\ \A i \in 1 .. n : i \in 0 .. n /\ i # 0
      BY <1>1
    <2> QED BY <2>2, <2>3
  <1> HIDE DEF f
  <1>8. T = {}
    <2> SUFFICES ASSUME T # {} PROVE FALSE
      OBVIOUS
    <2>1. T \subseteq Nat
      BY <1>1
    <2> HIDE DEF T
    <2>2. PICK m \in T : \A y \in T : m <= y
      BY <2>1, SmallestOf
    <2>3. m \in 0 .. n /\ f[m] # D[m]
      BY <2>2 DEF T
    <2>4. m # 0
      BY <1>4, <1>7, <2>3
    <2>5. m \in 1 .. n /\ m - 1 \in 0 .. n
      BY <1>1, <2>3, <2>4
    <2>6. f[m - 1] # D[m - 1]
      BY <1>4, <1>7, <2>3, <2>5
    <2>7. m - 1 \in T
      BY <2>5, <2>6 DEF T
    <2>8. m <= m - 1
      BY <2>2, <2>7
    <2> QED BY <2>5, <2>8
  <1>9. n \in 0 .. n
    BY <1>1
  <1> QED BY <1>3, <1>8, <1>9 DEF n

\* Any writes land one way.
LEMMA TrailExists ==
  ASSUME NEW ad, NEW d, NEW ws \in Seq(Write)
  PROVE  \E D : Trail(ad, d, ws, D)
  <1> DEFINE n == Len(ws)
             To(m, D) == /\ D = [i \in 0 .. m |-> D[i]] /\ D[0] = d
                         /\ \A i \in 1 .. m : D[i] = LandedBy(ad, D[i - 1], ws[i])
             T == {m \in Nat : ~\E D : To(m, D)}
  <1>1. n \in Nat
    OBVIOUS
  <1>2. T = {}
    <2> SUFFICES ASSUME T # {} PROVE FALSE
      OBVIOUS
    <2>1. T \subseteq Nat
      OBVIOUS
    <2>2. To(0, [i \in 0 .. 0 |-> d])
      OBVIOUS
    <2>3. 0 \notin T
      BY <2>2
    <2> HIDE DEF T
    <2>4. PICK m \in T : \A y \in T : m <= y
      BY <2>1, SmallestOf
    <2>5. m \in Nat /\ m # 0 /\ m - 1 \in Nat
      BY <2>1, <2>3, <2>4
    <2>6. m - 1 \notin T
      <3> SUFFICES ASSUME m - 1 \in T PROVE FALSE
        OBVIOUS
      <3>1. m <= m - 1
        BY <2>4
      <3> QED BY <2>5, <3>1
    <2>7. PICK D : To(m - 1, D)
      BY <2>5, <2>6 DEF T
    <2> DEFINE F == [i \in 0 .. m |-> IF i = m THEN LandedBy(ad, D[m - 1], ws[m]) ELSE D[i]]
    <2>8. /\ \A i \in 0 .. m - 1 : F[i] = D[i]
          /\ F[m] = LandedBy(ad, D[m - 1], ws[m])
          /\ F = [i \in 0 .. m |-> F[i]]
      BY <2>5
    <2> HIDE DEF F
    <2>9. F[0] = d
      <3>1. 0 \in 0 .. m - 1
        BY <2>5
      <3> QED BY <2>7, <2>8, <3>1
    <2>10. ASSUME NEW i \in 1 .. m PROVE F[i] = LandedBy(ad, F[i - 1], ws[i])
      <3>1. CASE i = m
        <4>1. m - 1 \in 0 .. m - 1
          BY <2>5
        <4> QED BY <2>8, <3>1, <4>1
      <3>2. CASE i # m
        <4>1. i \in 1 .. m - 1 /\ i \in 0 .. m - 1 /\ i - 1 \in 0 .. m - 1
          BY <2>5, <3>2
        <4> QED BY <2>7, <2>8, <4>1
      <3> QED BY <3>1, <3>2
    <2>11. To(m, F)
      BY <2>8, <2>9, <2>10
    <2> QED BY <2>4, <2>11 DEF T
  <1>3. \E D : To(n, D)
    BY <1>1, <1>2
  <1> QED BY <1>3 DEF Trail

\* Writes after others.
More(ad, d, ws, D, bs, G, F) ==
  /\ Trail(ad, d, ws \o bs, F)
  /\ \A i \in 0 .. Len(ws) : F[i] = D[i]
  /\ \A i \in 0 .. Len(bs) : F[Len(ws) + i] = G[i]

\* The storage after each of them is as it is without the others.
LEMMA TrailThen ==
  ASSUME NEW ad, NEW d, NEW ws \in Seq(Write), NEW D, Trail(ad, d, ws, D),
         NEW bs \in Seq(Write), NEW G, Trail(ad, D[Len(ws)], bs, G)
  PROVE  \E F : More(ad, d, ws, D, bs, G, F)
  <1> DEFINE n == Len(ws)
             m == Len(bs)
             vs == ws \o bs
             F == [i \in 0 .. n + m |-> IF i <= n THEN D[i] ELSE G[i - n]]
  <1>1. /\ n \in Nat /\ m \in Nat /\ Len(vs) = n + m
        /\ \A i \in 1 .. n : vs[i] = ws[i]
        /\ \A i \in n + 1 .. n + m : vs[i] = bs[i - n]
    BY ConcatIs
  <1> HIDE DEF n, m, vs
  <1>2. /\ D[0] = d /\ G[0] = D[n]
        /\ \A i \in 1 .. n : D[i] = LandedBy(ad, D[i - 1], ws[i])
        /\ \A i \in 1 .. m : G[i] = LandedBy(ad, G[i - 1], bs[i])
    BY DEF Trail, n, m
  <1>3. F = [i \in 0 .. n + m |-> F[i]]
    OBVIOUS
  <1>4. \A i \in 0 .. n + m : F[i] = IF i <= n THEN D[i] ELSE G[i - n]
    OBVIOUS
  <1> HIDE DEF F
  <1>5. \A i \in 0 .. n : F[i] = D[i]
    <2>1. \A i \in 0 .. n : i \in 0 .. n + m /\ i <= n
      BY <1>1
    <2> QED BY <1>4, <2>1
  <1>6. ASSUME NEW i \in 0 .. m PROVE F[n + i] = G[i]
    <2>1. n + i \in 0 .. n + m /\ (n + i) - n = i /\ (n + i <= n <=> i = 0)
      BY <1>1
    <2>2. CASE i = 0
      <3>1. n + i = n
        BY <1>1, <2>2
      <3> QED BY <1>2, <1>4, <2>1, <2>2, <3>1
    <2>3. CASE i # 0
      BY <1>4, <2>1, <2>3
    <2> QED BY <2>2, <2>3
  <1>7. ASSUME NEW i \in 1 .. n + m PROVE F[i] = LandedBy(ad, F[i - 1], vs[i])
    <2>1. CASE i <= n
      <3>1. i \in 1 .. n /\ i \in 0 .. n /\ i - 1 \in 0 .. n
        BY <1>1, <2>1
      <3> QED BY <1>1, <1>2, <1>5, <3>1
    <2>2. CASE ~(i <= n)
      <3>1. /\ i \in n + 1 .. n + m /\ i - n \in 1 .. m /\ i - n \in 0 .. m /\ (i - n) - 1 \in 0 .. m
            /\ n + (i - n) = i /\ n + ((i - n) - 1) = i - 1
        BY <1>1, <2>2
      <3>2. F[i] = G[i - n] /\ F[i - 1] = G[(i - n) - 1]
        BY <1>6, <3>1
      <3>3. G[i - n] = LandedBy(ad, G[(i - n) - 1], bs[i - n])
        BY <1>2, <3>1
      <3> QED BY <1>1, <3>1, <3>2, <3>3
    <2> QED BY <2>1, <2>2
  <1>8. F[0] = d
    <2>1. 0 \in 0 .. n
      BY <1>1
    <2> QED BY <1>2, <1>5, <2>1
  <1>9. Trail(ad, d, vs, F)
    BY <1>1, <1>3, <1>7, <1>8 DEF Trail
  <1> QED BY <1>5, <1>6, <1>9 DEF More, n, m, vs

\* The storage after each of writes of ops.
OpsLand(ad, d, bs, G) == \A i \in 0 .. Len(bs) :
  /\ d.rows = [r \in Records |-> d.rows[r]] => G[i].rows = d.rows
  /\ G[i].ops = {o \in d.ops : \A j \in 1 .. i : o.seq \notin bs[j].drop}
                  \cup UNION {bs[j].put : j \in 1 .. i}
  /\ ad = "document" => G[i].v = d.v /\ G[i].epoch = d.epoch

\* No op is taken out by a later one of them.
LEMMA TrailOps ==
  ASSUME NEW ad, NEW d, NEW bs \in Seq(Write), NEW G, Trail(ad, d, bs, G),
         \A i \in 1 .. Len(bs) : bs[i].rows = Nowhere,
         \A i, j \in 1 .. Len(bs) : i < j => \A o \in bs[i].put : o.seq \notin bs[j].drop
  PROVE  OpsLand(ad, d, bs, G)
  <1> DEFINE m == Len(bs)
             Left(i) == {o \in d.ops : \A j \in 1 .. i : o.seq \notin bs[j].drop}
             Added(i) == UNION {bs[j].put : j \in 1 .. i}
             Fixed == d.rows = [r \in Records |-> d.rows[r]]
             Good(i) == /\ Fixed => G[i].rows = d.rows
                        /\ G[i].ops = Left(i) \cup Added(i)
                        /\ ad = "document" => G[i].v = d.v /\ G[i].epoch = d.epoch
             T == {i \in 0 .. m : ~Good(i)}
  <1>1. m \in Nat
    OBVIOUS
  <1> HIDE DEF m
  <1>2. G[0] = d /\ \A i \in 1 .. m : G[i] = LandedBy(ad, G[i - 1], bs[i])
    BY DEF Trail, m
  <1>3. Good(0)
    <2>1. \A j \in 1 .. 0 : FALSE
      OBVIOUS
    <2>2. Left(0) = d.ops /\ Added(0) = {}
      <3>1. Left(0) = d.ops
        BY <2>1, d.ops = {o \in d.ops : TRUE}
      <3>2. Added(0) = {}
        BY <2>1
      <3> QED BY <3>1, <3>2
    <2> HIDE DEF Left, Added
    <2> QED BY <1>2, <2>2
  <1>4. ASSUME NEW i \in 1 .. m, Good(i - 1) PROVE Good(i)
    <2>0. i - 1 \in 0 .. m /\ i \in 1 .. Len(bs)
      BY <1>1 DEF m
    <2>1. /\ G[i] = LandedBy(ad, G[i - 1], bs[i]) /\ bs[i].rows = Nowhere
      BY <1>2, <2>0
    <2>2. Fixed => G[i].rows = d.rows
      <3>1. DOMAIN bs[i].rows = {}
        BY <2>1 DEF Nowhere
      <3>2. G[i].rows = [r \in Records |-> G[i - 1].rows[r]]
        BY <2>1, <3>1 DEF LandedBy
      <3> QED BY <1>4, <3>2
    <2>3. ad = "document" => G[i].v = d.v /\ G[i].epoch = d.epoch
      BY <1>4, <2>1 DEF LandedBy
    <2>4. G[i].ops = {o \in G[i - 1].ops : o.seq \notin bs[i].drop} \cup bs[i].put
      BY <2>1 DEF LandedBy
    <2>5. \A j : j \in 1 .. i <=> j \in 1 .. i - 1 \/ j = i
      BY <1>1
    <2>6. Added(i) = Added(i - 1) \cup bs[i].put
      BY <2>5
    <2>7. Left(i) = {o \in Left(i - 1) : o.seq \notin bs[i].drop}
      BY <2>5
    <2>8. \A o \in Added(i - 1) : o.seq \notin bs[i].drop
      <3> SUFFICES ASSUME NEW j \in 1 .. i - 1, NEW o \in bs[j].put PROVE o.seq \notin bs[i].drop
        OBVIOUS
      <3>1. j \in 1 .. Len(bs) /\ j < i
        BY <1>1 DEF m
      <3> QED BY <2>0, <3>1
    <2>9. G[i - 1].ops = Left(i - 1) \cup Added(i - 1)
      BY <1>4
    <2> HIDE DEF Left, Added
    <2>10. G[i].ops = Left(i) \cup Added(i)
      BY <2>4, <2>6, <2>7, <2>8, <2>9
    <2> QED BY <2>2, <2>3, <2>10
  <1> HIDE DEF Good
  <1>5. T = {}
    <2> SUFFICES ASSUME T # {} PROVE FALSE
      OBVIOUS
    <2>1. T \subseteq Nat
      BY <1>1
    <2> HIDE DEF T
    <2>2. PICK k \in T : \A y \in T : k <= y
      BY <2>1, SmallestOf
    <2>3. k \in 0 .. m /\ ~Good(k)
      BY <2>2 DEF T
    <2>4. k # 0
      BY <1>3, <2>3
    <2>5. k \in 1 .. m /\ k - 1 \in 0 .. m
      BY <1>1, <2>3, <2>4
    <2>6. ~Good(k - 1)
      BY <1>4, <2>3, <2>5
    <2>7. k - 1 \in T
      BY <2>5, <2>6 DEF T
    <2>8. k <= k - 1
      BY <2>2, <2>7
    <2> QED BY <2>5, <2>8
  <1>6. \A i \in 0 .. m : Good(i)
    BY <1>5
  <1> QED BY <1>6 DEF OpsLand, Good, Fixed, m

\* What is said of the storage of a client is of no more than what it keeps there.
Keeps(x, y) ==
  /\ y.id = x.id /\ y.seq = x.seq /\ Elements(y.outbox) = Elements(x.outbox)
  /\ adapter # "document" => y.base = x.base /\ y.v = x.v /\ y.epoch = x.epoch

\* Storage that is right for the one client is so for the other.
LEMMA BackedKeeps ==
  ASSUME NEW rm, NEW ls, NEW d, NEW ws, NEW x, NEW y, Keeps(x, y), Backed(adapter, rm, ls, d, ws, x)
  PROVE  Backed(adapter, rm, ls, d, ws, y)
  <1>1. \A e : Mirrors(adapter, e, x) => Mirrors(adapter, e, y)
    BY DEF Keeps, Mirrors
  <1>2. \A e : Reflects(adapter, rm, e, x) => Reflects(adapter, rm, e, y)
    BY <1>1 DEF Keeps, Reflects
  <1> QED BY <1>2 DEF Backed

\* The lives of the store go on, or another begins.
LEMMA BackedGrows ==
  ASSUME NEW rm, NEW ls, NEW l2, Grows(ls, l2) \/ AnotherLife(ls, l2),
         NEW d, NEW ws, NEW x, Backed(adapter, rm, ls, d, ws, x)
  PROVE  Backed(adapter, rm, l2, d, ws, x)
  <1>1. \A rows, v, e : Whole(rows, v, e, ls) => Whole(rows, v, e, l2)
    BY WholeGrows, AgainHolds
  <1> QED BY <1>1 DEF Backed

\* A write more.
LEMMA BackedBy ==
  ASSUME NEW rm, NEW ls, NEW d, NEW ws \in Seq(Write), NEW x, NEW y, NEW w \in Write,
         Backed(adapter, rm, ls, d, ws, x),
         \A e : /\ Reflects(adapter, rm, e, x)
                /\ rm = "no" => Whole(e.rows, e.v, e.epoch, ls)
                => LET f == LandedBy(adapter, e, w)
                   IN  /\ Reflects(adapter, rm, f, y)
                       /\ rm = "no" => Whole(f.rows, f.v, f.epoch, ls)
  PROVE  Backed(adapter, rm, ls, d, Append(ws, w), y)
  <1> DEFINE n == Len(ws)
  <1>1. n \in Nat /\ n \in 0 .. n /\ Len(Append(ws, w)) = n + 1
    OBVIOUS
  <1>2. PICK D : /\ Trail(adapter, d, ws, D)
                 /\ rm = "no" => \A i \in 0 .. n : Whole(D[i].rows, D[i].v, D[i].epoch, ls)
                 /\ Reflects(adapter, rm, D[n], x)
    BY DEF Backed
  <1>a. Trail(adapter, d, ws, D)
    BY <1>2
  <1>b. PICK F : OneMore(adapter, d, ws, D, w, F)
    BY <1>a, TrailOne, Zenon
  <1>3. /\ Trail(adapter, d, Append(ws, w), F)
        /\ \A i \in 0 .. n : F[i] = D[i]
        /\ F[n + 1] = LandedBy(adapter, D[n], w)
    BY <1>b DEF OneMore
  <1> HIDE DEF n
  <1>4. /\ Reflects(adapter, rm, F[n + 1], y)
        /\ rm = "no" => Whole(F[n + 1].rows, F[n + 1].v, F[n + 1].epoch, ls)
    BY <1>1, <1>2, <1>3
  <1>5. \A i : i \in 0 .. n + 1 <=> i \in 0 .. n \/ i = n + 1
    BY <1>1
  <1>6. rm = "no" => \A i \in 0 .. n + 1 : Whole(F[i].rows, F[i].v, F[i].epoch, ls)
    BY <1>2, <1>3, <1>4, <1>5
  <1> QED BY <1>1, <1>3, <1>4, <1>6 DEF Backed

\* A write of ops.
LEMMA BackedOps ==
  ASSUME NEW rm, NEW ls, NEW d, NEW ws \in Seq(Write), NEW x, NEW y,
         y.id = x.id, y.base = x.base, y.v = x.v, y.epoch = x.epoch,
         NEW drop, NEW put, OpsWrite(y, drop, put) \in Write,
         {o \in Elements(x.outbox) : o.seq \notin drop} \cup put = Elements(y.outbox),
         x.base \in Rows,
         Backed(adapter, rm, ls, d, ws, x)
  PROVE  Backed(adapter, rm, ls, d, Append(ws, OpsWrite(y, drop, put)), y)
  <1> DEFINE w == OpsWrite(y, drop, put)
  <1>1. /\ w.drop = drop /\ w.put = put /\ w.rows = Nowhere /\ w.id = y.id /\ w.seq = y.seq
        /\ w.v = y.v /\ w.epoch = y.epoch
    BY DEF OpsWrite
  <1>2. DOMAIN w.rows = {}
    BY <1>1 DEF Nowhere
  <1> HIDE DEF w
  <1>3. ASSUME NEW e, Reflects(adapter, rm, e, x), rm = "no" => Whole(e.rows, e.v, e.epoch, ls)
        PROVE  LET f == LandedBy(adapter, e, w)
               IN  /\ Reflects(adapter, rm, f, y)
                   /\ rm = "no" => Whole(f.rows, f.v, f.epoch, ls)
    <2> DEFINE f == LandedBy(adapter, e, w)
    <2>1. /\ f.id = y.id /\ f.seq = y.seq /\ f.ops = {o \in e.ops : o.seq \notin drop} \cup put
          /\ f.rows = [r \in Records |-> e.rows[r]]
          /\ f.v = (IF adapter = "document" THEN e.v ELSE y.v)
          /\ f.epoch = (IF adapter = "document" THEN e.epoch ELSE y.epoch)
      BY <1>1, <1>2 DEF LandedBy
    <2> HIDE DEF f
    <2>2. e.ops \subseteq Elements(x.outbox) => f.ops \subseteq Elements(y.outbox)
      BY <2>1
    <2>3. e.ops = Elements(x.outbox) => f.ops = Elements(y.outbox)
      BY <2>1
    <2>4. e.rows \in Rows => f.rows = e.rows
      BY <2>1 DEF Rows
    <2>5. Mirrors(adapter, e, x) => Mirrors(adapter, f, y)
      BY <2>1, <2>3, <2>4 DEF Mirrors
    <2>6. Reflects(adapter, rm, f, y)
      BY <1>3, <2>2, <2>5 DEF Reflects
    <2>7. ASSUME rm = "no" PROVE Whole(f.rows, f.v, f.epoch, ls)
      <3>1. Whole(e.rows, e.v, e.epoch, ls) /\ e.rows \in Rows
        BY <1>3, <2>7 DEF Whole
      <3>2. Mirrors(adapter, e, x)
        BY <1>3, <2>7 DEF Reflects
      <3>3. f.v = e.v /\ f.epoch = e.epoch
        BY <2>1, <3>2 DEF Mirrors
      <3> QED BY <2>4, <3>1, <3>3
    <2> QED BY <2>6, <2>7 DEF f
  <1> QED BY <1>3, BackedBy DEF w

\* A write of the rows that are others, with the version and the life they are of.
LEMMA BackedRows ==
  ASSUME NEW rm, NEW ls, NEW d, NEW ws \in Seq(Write), NEW x, NEW y,
         y.id = x.id, y.seq = x.seq, y.outbox = x.outbox, adapter # "document",
         NEW recs \in SUBSET Records, RowsWrite(y, recs) \in Write,
         x.base \in Rows, y.base \in Rows,
         \A r \in Records \ recs : y.base[r] = x.base[r],
         Whole(y.base, y.v, y.epoch, ls),
         Backed(adapter, rm, ls, d, ws, x)
  PROVE  Backed(adapter, rm, ls, d, Append(ws, RowsWrite(y, recs)), y)
  <1> DEFINE w == RowsWrite(y, recs)
  <1>1. /\ w.drop = {} /\ w.put = {} /\ w.rows = [r \in recs |-> y.base[r]]
        /\ w.id = y.id /\ w.seq = y.seq /\ w.v = y.v /\ w.epoch = y.epoch
    BY DEF RowsWrite, OpsWrite
  <1>2. DOMAIN w.rows = recs /\ \A r \in recs : w.rows[r] = y.base[r]
    BY <1>1
  <1> HIDE DEF w
  <1>3. ASSUME NEW e, Reflects(adapter, rm, e, x), rm = "no" => Whole(e.rows, e.v, e.epoch, ls)
        PROVE  LET f == LandedBy(adapter, e, w)
               IN  /\ Reflects(adapter, rm, f, y)
                   /\ rm = "no" => Whole(f.rows, f.v, f.epoch, ls)
    <2> DEFINE f == LandedBy(adapter, e, w)
    <2>1. /\ f.id = y.id /\ f.seq = y.seq /\ f.ops = {o \in e.ops : o.seq \notin {}} \cup {}
          /\ f.rows = [r \in Records |-> IF r \in recs THEN w.rows[r] ELSE e.rows[r]]
          /\ f.v = y.v /\ f.epoch = y.epoch
      BY <1>1, <1>2 DEF LandedBy
    <2> HIDE DEF f
    <2>2. f.ops = e.ops
      BY <2>1
    <2>3. e.rows = x.base => f.rows = y.base
      <3> SUFFICES ASSUME e.rows = x.base PROVE f.rows = y.base
        OBVIOUS
      <3>1. \A r \in Records : f.rows[r] = y.base[r]
        BY <1>2, <2>1
      <3>2. y.base = [r \in Records |-> y.base[r]]
        BY DEF Rows
      <3> QED BY <2>1, <3>1, <3>2
    <2>4. Mirrors(adapter, e, x) => Mirrors(adapter, f, y)
      BY <2>1, <2>2, <2>3 DEF Mirrors
    <2>5. Reflects(adapter, rm, f, y)
      BY <1>3, <2>2, <2>4 DEF Reflects
    <2>6. ASSUME rm = "no" PROVE Whole(f.rows, f.v, f.epoch, ls)
      BY <2>1, <2>5, <2>6 DEF Reflects, Mirrors
    <2> QED BY <2>5, <2>6 DEF f
  <1> QED BY <1>3, BackedBy DEF w

\* The oldest write on its way lands.
LEMMA BackedTail ==
  ASSUME NEW rm, NEW ls, NEW d, NEW ws \in Seq(Write), ws # <<>>, NEW x,
         Backed(adapter, rm, ls, d, ws, x)
  PROVE  Backed(adapter, rm, ls, LandedBy(adapter, d, ws[1]), Tail(ws), x)
  <1> DEFINE n == Len(ws) - 1
             d2 == LandedBy(adapter, d, ws[1])
  <1>1. n \in Nat /\ Len(ws) = n + 1 /\ Len(Tail(ws)) = n
    BY TailIs
  <1>2. PICK D : /\ Trail(adapter, d, ws, D)
                 /\ rm = "no" => \A i \in 0 .. Len(ws) : Whole(D[i].rows, D[i].v, D[i].epoch, ls)
                 /\ Reflects(adapter, rm, D[Len(ws)], x)
    BY DEF Backed
  <1>a. Trail(adapter, d, ws, D)
    BY <1>2
  <1>3. PICK F : Trail(adapter, d2, Tail(ws), F) /\ \A i \in 0 .. n : F[i] = D[i + 1]
    <2>1. LET F == [i \in 0 .. Len(ws) - 1 |-> D[i + 1]]
          IN  /\ Trail(adapter, LandedBy(adapter, d, ws[1]), Tail(ws), F)
              /\ \A i \in 0 .. Len(ws) - 1 : F[i] = D[i + 1]
      BY <1>a, TrailTail
    <2> QED BY <2>1
  <1> HIDE DEF n, d2
  <1>4. \A i \in 0 .. n : i + 1 \in 0 .. Len(ws)
    BY <1>1
  <1>5. rm = "no" => \A i \in 0 .. n : Whole(F[i].rows, F[i].v, F[i].epoch, ls)
    BY <1>2, <1>3, <1>4
  <1>6. n \in 0 .. n /\ n + 1 = Len(ws)
    BY <1>1
  <1>7. Reflects(adapter, rm, F[n], x)
    BY <1>2, <1>3, <1>6
  <1> QED BY <1>1, <1>3, <1>5, <1>7 DEF Backed, d2

\* Writes of ops together, none of which a later one takes out.
LEMMA BackedBatch ==
  ASSUME NEW rm, NEW ls, NEW d, NEW ws \in Seq(Write), NEW x, NEW y, NEW bs \in Seq(Write),
         adapter # "document", bs # <<>>,
         y.id = x.id, y.base = x.base, y.v = x.v, y.epoch = x.epoch,
         \A i \in 1 .. Len(bs) : /\ bs[i].rows = Nowhere /\ bs[i].id = y.id /\ bs[i].seq = y.seq
                                 /\ bs[i].v = y.v /\ bs[i].epoch = y.epoch,
         \A i, j \in 1 .. Len(bs) : i < j => \A o \in bs[i].put : o.seq \notin bs[j].drop,
         {o \in Elements(x.outbox) : \A j \in 1 .. Len(bs) : o.seq \notin bs[j].drop}
           \cup UNION {bs[j].put : j \in 1 .. Len(bs)} = Elements(y.outbox),
         x.base \in Rows, Whole(x.base, x.v, x.epoch, ls),
         Backed(adapter, rm, ls, d, ws, x)
  PROVE  Backed(adapter, rm, ls, d, ws \o bs, y)
  <1> DEFINE n == Len(ws)
             m == Len(bs)
             vs == ws \o bs
  <1>1. /\ n \in Nat /\ m \in Nat /\ Len(vs) = n + m /\ vs \in Seq(Write)
    BY ConcatIs
  <1>2. m \in 1 .. m /\ n \in 0 .. n
    <2>1. m # 0
      <3> SUFFICES ASSUME Len(bs) = 0 PROVE FALSE
        OBVIOUS
      <3> QED OBVIOUS
    <2> QED BY <2>1, <1>1
  <1>3. PICK D : /\ Trail(adapter, d, ws, D)
                 /\ rm = "no" => \A i \in 0 .. n : Whole(D[i].rows, D[i].v, D[i].epoch, ls)
                 /\ Reflects(adapter, rm, D[n], x)
    BY DEF Backed
  <1>4. PICK G : Trail(adapter, D[n], bs, G)
    BY TrailExists
  <1>5. PICK F : /\ Trail(adapter, d, vs, F)
                 /\ \A i \in 0 .. n : F[i] = D[i]
                 /\ \A i \in 0 .. m : F[n + i] = G[i]
    <2>1. Trail(adapter, D[Len(ws)], bs, G) /\ Trail(adapter, d, ws, D)
      BY <1>3, <1>4
    <2>2. PICK H : More(adapter, d, ws, D, bs, G, H)
      BY <2>1, TrailThen, Zenon
    <2> QED BY <2>2 DEF More
  <1>6. rm # "gone" => Mirrors(adapter, D[n], x)
    BY <1>3 DEF Reflects
  <1>7. rm # "gone" => D[n].rows = x.base /\ D[n].ops = Elements(x.outbox)
    BY <1>6 DEF Mirrors
  <1>8. rm # "gone" => D[n].rows = [r \in Records |-> D[n].rows[r]]
    BY <1>7 DEF Rows
  <1>9. \A i \in 0 .. Len(bs) :
           /\ rm # "gone" => G[i].rows = D[n].rows
           /\ G[i].ops = {o \in D[n].ops : \A j \in 1 .. i : o.seq \notin bs[j].drop}
                           \cup UNION {bs[j].put : j \in 1 .. i}
    <2> DEFINE e == D[n]
    <2>1. Trail(adapter, e, bs, G) /\ (rm # "gone" => e.rows = [r \in Records |-> e.rows[r]])
      BY <1>4, <1>8
    <2> HIDE DEF e
    <2>2. /\ \A i \in 1 .. Len(bs) : bs[i].rows = Nowhere
          /\ \A i, j \in 1 .. Len(bs) : i < j => \A o \in bs[i].put : o.seq \notin bs[j].drop
      OBVIOUS
    <2>3. OpsLand(adapter, e, bs, G)
      BY <2>1, <2>2, TrailOps, Zenon
    <2> QED BY <2>1, <2>3 DEF OpsLand, e
  <1> HIDE DEF n, m, vs
  <1>10. ASSUME NEW i \in 1 .. m
         PROVE  G[i].id = y.id /\ G[i].seq = y.seq /\ G[i].v = y.v /\ G[i].epoch = y.epoch
    <2>1. i \in 1 .. Len(bs)
      BY DEF m
    <2>2. G[i] = LandedBy(adapter, G[i - 1], bs[i])
      BY <1>4, <2>1 DEF Trail
    <2> QED BY <2>1, <2>2 DEF LandedBy
  <1>11. G[m].ops = {o \in D[n].ops : \A j \in 1 .. Len(bs) : o.seq \notin bs[j].drop}
                      \cup UNION {bs[j].put : j \in 1 .. Len(bs)}
    <2>1. m \in 0 .. Len(bs) /\ m = Len(bs)
      BY <1>1 DEF m
    <2> QED BY <1>9, <2>1
  <1>12. Reflects(adapter, rm, G[m], y)
    <2>1. CASE rm = "gone"
      <3>1. D[n].ops \subseteq Elements(x.outbox)
        BY <1>3, <2>1 DEF Reflects, n
      <3>2. G[m].ops \subseteq Elements(y.outbox)
        BY <1>11, <3>1
      <3> QED BY <2>1, <3>2 DEF Reflects
    <2>2. CASE rm # "gone"
      <3>1. G[m].ops = Elements(y.outbox)
        BY <1>7, <1>11, <2>2
      <3>2. m \in 0 .. Len(bs)
        BY <1>1 DEF m
      <3>3. G[m].rows = x.base
        BY <1>7, <1>9, <2>2, <3>2
      <3>4. Mirrors(adapter, G[m], y)
        BY <1>2, <1>10, <3>1, <3>3 DEF Mirrors
      <3> QED BY <2>2, <3>4 DEF Reflects
    <2> QED BY <2>1, <2>2
  <1>13. Reflects(adapter, rm, F[n + m], y)
    <2>1. m \in 0 .. m
      BY <1>1
    <2> QED BY <1>5, <1>12, <2>1
  <1>14. ASSUME rm = "no", NEW i \in 0 .. n + m PROVE Whole(F[i].rows, F[i].v, F[i].epoch, ls)
    <2>1. CASE i \in 0 .. n
      BY <1>3, <1>5, <1>14, <2>1 DEF n
    <2>2. CASE i \notin 0 .. n
      <3>1. i - n \in 1 .. m /\ i - n \in 0 .. m /\ n + (i - n) = i
        BY <1>1, <2>2
      <3>2. F[i] = G[i - n]
        BY <1>5, <3>1
      <3>3. G[i - n].rows = x.base
        BY <1>7, <1>9, <1>14, <3>1 DEF m
      <3>4. G[i - n].v = x.v /\ G[i - n].epoch = x.epoch
        BY <1>10, <3>1
      <3> QED BY <3>2, <3>3, <3>4
    <2> QED BY <2>1, <2>2
  <1>15. Len(vs) = n + m
    BY <1>1
  <1> QED BY <1>5, <1>13, <1>14, <1>15 DEF Backed, vs

\* Another tab deletes the database: of what the client writes no more is kept than it has.
LEMMA BackedGone ==
  ASSUME NEW ls, NEW d, NEW ws \in Seq(Write), NEW x, Backed(adapter, "no", ls, d, ws, x)
  PROVE  Backed(adapter, "gone", ls, Empty, ws, x)
  <1> DEFINE n == Len(ws)
  <1>1. n \in Nat /\ n \in 0 .. n /\ 0 \in 0 .. n
    OBVIOUS
  <1>2. PICK D : Trail(adapter, d, ws, D) /\ Reflects(adapter, "no", D[n], x)
    BY DEF Backed
  <1>3. PICK F : Trail(adapter, Empty, ws, F)
    BY TrailExists
  <1> HIDE DEF n
  <1>4. /\ F[0] = Empty /\ D[0] = d
        /\ \A i \in 1 .. n : F[i] = LandedBy(adapter, F[i - 1], ws[i])
        /\ \A i \in 1 .. n : D[i] = LandedBy(adapter, D[i - 1], ws[i])
    BY <1>2, <1>3 DEF Trail, n
  <1> DEFINE T == {i \in 0 .. n : ~(F[i].ops \subseteq D[i].ops)}
  <1>5. T = {}
    <2> SUFFICES ASSUME T # {} PROVE FALSE
      OBVIOUS
    <2>1. T \subseteq Nat
      BY <1>1
    <2> HIDE DEF T
    <2>2. PICK k \in T : \A y \in T : k <= y
      BY <2>1, SmallestOf
    <2>3. k \in 0 .. n /\ ~(F[k].ops \subseteq D[k].ops)
      BY <2>2 DEF T
    <2>4. k # 0
      <3>1. F[0].ops = {}
        BY <1>4 DEF Empty
      <3> QED BY <2>3, <3>1
    <2>5. k \in 1 .. n /\ k - 1 \in 0 .. n
      BY <1>1, <2>3, <2>4
    <2>6. /\ F[k].ops = {o \in F[k - 1].ops : o.seq \notin ws[k].drop} \cup ws[k].put
          /\ D[k].ops = {o \in D[k - 1].ops : o.seq \notin ws[k].drop} \cup ws[k].put
      <3>1. F[k] = LandedBy(adapter, F[k - 1], ws[k]) /\ D[k] = LandedBy(adapter, D[k - 1], ws[k])
        BY <1>4, <2>5
      <3>2. \A e, w : LandedBy(adapter, e, w).ops = {o \in e.ops : o.seq \notin w.drop} \cup w.put
        BY DEF LandedBy
      <3> QED BY <3>1, <3>2, ZenonT(30)
    <2>7. ~(F[k - 1].ops \subseteq D[k - 1].ops)
      BY <2>3, <2>6
    <2>8. k - 1 \in T
      BY <2>5, <2>7 DEF T
    <2>9. k <= k - 1
      BY <2>2, <2>8
    <2> QED BY <2>5, <2>9
  <1>6. D[n].ops = Elements(x.outbox)
    BY <1>2 DEF Reflects, Mirrors
  <1>7. F[n].ops \subseteq Elements(x.outbox)
    BY <1>1, <1>5, <1>6
  <1>8. Reflects(adapter, "gone", F[n], x)
    BY <1>7 DEF Reflects
  <1> QED BY <1>3, <1>8 DEF Backed, n

\* With all written there is what the client has, and it is whole.
LEMMA BackedLast ==
  ASSUME NEW rm, rm # "gone", NEW ls, NEW d, NEW x, Whole(x.base, x.v, x.epoch, ls),
         adapter # "document", Backed(adapter, rm, ls, d, <<>>, x)
  PROVE  Backed(adapter, "no", ls, d, <<>>, x)
  <1>1. PICK D : Trail(adapter, d, <<>>, D) /\ Reflects(adapter, rm, D[Len(<<>>)], x)
    BY DEF Backed
  <1>2. Len(<<>>) = 0 /\ \A i : i \in 0 .. 0 <=> i = 0
    OBVIOUS
  <1>3. Mirrors(adapter, D[0], x)
    BY <1>1, <1>2 DEF Reflects
  <1>4. Whole(D[0].rows, D[0].v, D[0].epoch, ls)
    BY <1>3 DEF Mirrors
  <1>5. Reflects(adapter, "no", D[Len(<<>>)], x)
    BY <1>2, <1>3 DEF Reflects
  <1> QED BY <1>1, <1>2, <1>4, <1>5 DEF Backed

\* Writes that are done when made are done.
LEMMA BackedDone ==
  ASSUME NEW rm, NEW ls, NEW d, NEW ws \in Seq(Write), NEW x, Backed(adapter, rm, ls, d, ws, x)
  PROVE  Backed(adapter, rm, ls, LandedAll(d, ws), <<>>, x)
  <1> DEFINE n == Len(ws)
  <1>1. n \in Nat /\ n \in 0 .. n
    OBVIOUS
  <1>2. PICK D : /\ Trail(adapter, d, ws, D)
                 /\ rm = "no" => \A i \in 0 .. n : Whole(D[i].rows, D[i].v, D[i].epoch, ls)
                 /\ Reflects(adapter, rm, D[n], x)
    BY DEF Backed
  <1>3. LandedAll(d, ws) = D[n]
    BY <1>2, LandedAllIs
  <1> HIDE DEF n
  <1> DEFINE e == LandedAll(d, ws)
             F == [i \in {0} |-> e]
  <1>4. Trail(adapter, e, <<>>, F) /\ F[0] = e
    BY TrailNone
  <1> HIDE DEF e, F
  <1>5. Len(<<>>) = 0 /\ \A i : i \in 0 .. 0 <=> i = 0
    OBVIOUS
  <1>6. /\ Reflects(adapter, rm, F[Len(<<>>)], x)
        /\ rm = "no" => \A i \in 0 .. Len(<<>>) : Whole(F[i].rows, F[i].v, F[i].epoch, ls)
    BY <1>1, <1>2, <1>3, <1>4, <1>5 DEF e
  <1> QED BY <1>4, <1>6 DEF Backed, e

\* What the client writes is a write.
LEMMA WriteIs ==
  ASSUME NEW x, x.id \in Nat, x.seq \in Nat, x.v \in Nat, x.epoch \in Nat
  PROVE  /\ \A drop, put : drop \subseteq Nat /\ put \subseteq Op => OpsWrite(x, drop, put) \in Write
         /\ \A recs : recs \subseteq Records /\ x.base \in Rows => RowsWrite(x, recs) \in Write
  <1>1. ASSUME NEW drop, NEW put, drop \subseteq Nat, put \subseteq Op
        PROVE  OpsWrite(x, drop, put) \in Write
    <2>1. Nowhere \in UNION {[R -> Nat] : R \in SUBSET Records}
      <3>1. Nowhere \in [{} -> Nat] /\ {} \in SUBSET Records
        BY DEF Nowhere
      <3> QED BY <3>1
    <2> QED BY <1>1, <2>1 DEF OpsWrite, Write
  <1>2. ASSUME NEW recs, recs \subseteq Records, x.base \in Rows
        PROVE  RowsWrite(x, recs) \in Write
    <2>1. [r \in recs |-> x.base[r]] \in [recs -> Nat]
      BY <1>2 DEF Rows
    <2>2. [r \in recs |-> x.base[r]] \in UNION {[R -> Nat] : R \in SUBSET Records}
      BY <1>2, <2>1
    <2>3. RowsWrite(x, recs) =
            [drop |-> {}, put |-> {}, rows |-> [r \in recs |-> x.base[r]],
             id |-> x.id, seq |-> x.seq, v |-> x.v, epoch |-> x.epoch]
      BY DEF RowsWrite, OpsWrite
    <2> QED BY <2>2, <2>3 DEF Write
  <1> QED BY <1>1, <1>2

\* The database is made anew: after all that is written the client's all is.
LEMMA BackedAnew ==
  ASSUME NEW ls, NEW d, NEW ws \in Seq(Write), NEW x \in Page, adapter # "document",
         Backed(adapter, "gone", ls, d, ws, x)
  PROVE  /\ Rewrite(x) \in Seq(Write) /\ Rewrite(x) # <<>>
         /\ Backed(adapter, "rewriting", ls, d, ws \o Rewrite(x), x)
  <1> DEFINE w == RowsWrite(x, Records)
             m == Len(x.outbox)
             bs == [i \in DOMAIN x.outbox |-> OpsWrite(x, {}, {x.outbox[i]})]
             n == Len(ws)
             w1 == Append(ws, w)
  <1>1. /\ x.id \in Nat /\ x.seq \in Nat /\ x.v \in Nat /\ x.epoch \in Nat /\ x.base \in Rows
        /\ x.outbox \in Seq(Op)
    BY DEF Page
  <1>2. m \in Nat /\ DOMAIN x.outbox = 1 .. m /\ \A i \in 1 .. m : x.outbox[i] \in Op
    BY <1>1
  <1>3. w \in Write
    BY <1>1, WriteIs
  <1>4. bs \in [1 .. m -> Write]
    <2>1. \A i \in 1 .. m : {} \subseteq Nat /\ {x.outbox[i]} \subseteq Op
      BY <1>2
    <2>2. \A i \in 1 .. m : OpsWrite(x, {}, {x.outbox[i]}) \in Write
      BY <1>1, <2>1, WriteIs
    <2> QED BY <1>2, <2>2
  <1>5. \A i \in 1 .. m : bs[i] = OpsWrite(x, {}, {x.outbox[i]})
    BY <1>2
  <1>6. /\ w.drop = {} /\ w.put = {} /\ w.rows = [r \in Records |-> x.base[r]] /\ w.id = x.id
        /\ w.seq = x.seq /\ w.v = x.v /\ w.epoch = x.epoch
    BY DEF RowsWrite, OpsWrite
  <1>7. Rewrite(x) = <<w>> \o bs
    BY DEF Rewrite
  <1>8. Elements(x.outbox) = {x.outbox[i] : i \in 1 .. m}
    BY <1>2 DEF Elements
  <1>9. n \in Nat
    OBVIOUS
  <1> HIDE DEF w, bs, m
  <1>10. bs \in Seq(Write) /\ Len(bs) = m
    BY <1>2, <1>4, FunctionSeq
  <1>11. w1 \in Seq(Write) /\ Len(w1) = n + 1 /\ w1 = ws \o <<w>> /\ <<w>> \in Seq(Write)
    BY <1>3, AppendIsConcat
  <1>12. ws \o Rewrite(x) = w1 \o bs
    BY <1>7, <1>10, <1>11, ConcatAssociative
  <1>13. Rewrite(x) \in Seq(Write) /\ Rewrite(x) # <<>>
    <2>1. /\ <<w>> \o bs \in Seq(Write) /\ Len(<<w>> \o bs) = 1 + m /\ Len(<<>>) = 0
      BY <1>10, <1>11
    <2> QED BY <1>2, <1>7, <2>1
  <1>14. PICK D : Trail(adapter, d, ws, D) /\ D[n].ops \subseteq Elements(x.outbox)
    BY DEF Backed, Reflects
  <1>15. PICK F : OneMore(adapter, d, ws, D, w, F)
    <2>1. Trail(adapter, d, ws, D)
      BY <1>14
    <2> QED BY <1>3, <2>1, TrailOne, Zenon
  <1> DEFINE e == F[n + 1]
  <1>16. Trail(adapter, d, w1, F) /\ e = LandedBy(adapter, D[n], w)
    BY <1>15 DEF OneMore
  <1> HIDE DEF w1, n
  <1>17. /\ e.id = x.id /\ e.seq = x.seq /\ e.v = x.v /\ e.epoch = x.epoch
         /\ e.ops = D[n].ops
    <2>1. /\ e.id = w.id /\ e.seq = w.seq /\ e.v = w.v /\ e.epoch = w.epoch
          /\ e.ops = {o \in D[n].ops : o.seq \notin w.drop} \cup w.put
      BY <1>16 DEF LandedBy
    <2> QED BY <1>6, <2>1
  <1>18. e.rows = x.base
    <2>1. e.rows = [r \in Records |-> IF r \in DOMAIN w.rows THEN w.rows[r] ELSE D[n].rows[r]]
      BY <1>16 DEF LandedBy
    <2>2. DOMAIN w.rows = Records /\ \A r \in Records : w.rows[r] = x.base[r]
      BY <1>6
    <2>3. e.rows = [r \in Records |-> x.base[r]]
      BY <2>1, <2>2
    <2> QED BY <1>1, <2>3 DEF Rows
  <1>19. PICK G : Trail(adapter, e, bs, G)
    BY <1>10, TrailExists
  <1>20. F[Len(w1)] = e
    BY <1>11
  <1> HIDE DEF e
  <1>21. PICK H : More(adapter, d, w1, F, bs, G, H)
    <2>1. Trail(adapter, F[Len(w1)], bs, G) /\ Trail(adapter, d, w1, F)
      BY <1>16, <1>19, <1>20
    <2> QED BY <1>10, <1>11, <2>1, TrailThen, Zenon
  <1>22. OpsLand(adapter, e, bs, G)
    <2>1. \A i \in 1 .. Len(bs) : bs[i].rows = Nowhere
      BY <1>5, <1>10 DEF OpsWrite
    <2>2. \A i, j \in 1 .. Len(bs) : i < j => \A o \in bs[i].put : o.seq \notin bs[j].drop
      BY <1>5, <1>10 DEF OpsWrite
    <2> QED BY <1>10, <1>19, <2>1, <2>2, TrailOps, Zenon
  <1>23. m \in 0 .. Len(bs) /\ (m # 0 => m \in 1 .. m)
    BY <1>2, <1>10
  <1>24. G[m].rows = x.base
    BY <1>1, <1>18, <1>22, <1>23 DEF OpsLand, Rows
  <1>25. G[m].ops = Elements(x.outbox)
    <2>1. G[m].ops = {o \in e.ops : \A j \in 1 .. m : o.seq \notin bs[j].drop}
                       \cup UNION {bs[j].put : j \in 1 .. m}
      BY <1>22, <1>23 DEF OpsLand
    <2>2. \A j \in 1 .. m : bs[j].put = {x.outbox[j]}
      <3>1. \A drop, put : OpsWrite(x, drop, put).put = put
        BY DEF OpsWrite
      <3> QED BY <1>5, <3>1, Zenon
    <2>3. UNION {bs[j].put : j \in 1 .. m} = Elements(x.outbox)
      BY <1>8, <2>2
    <2> QED BY <1>14, <1>17, <2>1, <2>3
  <1>26. /\ G[m].id = x.id /\ G[m].seq = x.seq /\ G[m].v = x.v /\ G[m].epoch = x.epoch
    <2>1. CASE m = 0
      <3>1. G[0] = e
        BY <1>19 DEF Trail
      <3> QED BY <1>17, <2>1, <3>1
    <2>2. CASE m # 0
      <3>1. G[m] = LandedBy(adapter, G[m - 1], bs[m])
        BY <1>10, <1>19, <1>23, <2>2 DEF Trail
      <3>2. bs[m] = OpsWrite(x, {}, {x.outbox[m]})
        BY <1>5, <1>23, <2>2
      <3>3. bs[m].id = x.id /\ bs[m].seq = x.seq /\ bs[m].v = x.v /\ bs[m].epoch = x.epoch
        BY <3>2 DEF OpsWrite
      <3> QED BY <3>1, <3>3 DEF LandedBy
    <2> QED BY <2>1, <2>2
  <1>27. Reflects(adapter, "rewriting", G[m], x)
    BY <1>24, <1>25, <1>26 DEF Reflects, Mirrors
  <1>28. Trail(adapter, d, w1 \o bs, H) /\ H[Len(w1 \o bs)] = G[m]
    <2>1. Len(w1 \o bs) = Len(w1) + Len(bs)
      <3>1. w1 \in Seq(Write) /\ bs \in Seq(Write)
        BY <1>10, <1>11
      <3> QED BY <3>1, ConcatProperties
    <2>2. Trail(adapter, d, w1 \o bs, H) /\ \A i \in 0 .. Len(bs) : H[Len(w1) + i] = G[i]
      BY <1>21 DEF More
    <2>3. H[Len(w1) + m] = G[m]
      BY <1>23, <2>2
    <2> QED BY <1>10, <2>1, <2>2, <2>3
  <1>29. Backed(adapter, "rewriting", ls, d, w1 \o bs, x)
    BY <1>27, <1>28 DEF Backed
  <1> QED BY <1>12, <1>13, <1>29

=============================================================================
