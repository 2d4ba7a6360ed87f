---------------------------- MODULE Replica_proofs ----------------------------
(***************************************************************************)
(* Proofs about Replica.tla, for any records, edits and adapters, any      *)
(* delta log and any bounds: the base of a synced client, and what its     *)
(* storage would give back, are never behind the version they say, storage *)
(* has the outbox once its writes have landed, and no edit is gone with    *)
(* nobody told.  They rest on the invariant of Replica_inv.tla.            *)
(***************************************************************************)
EXTENDS Replica_flow

-------------------------------------------------------------------------------
(* What a handler does to the client.                                      *)

\* Clients that are told apart by no more than what they write and send.
Kin(x, y) == Alike(x, y) /\ y.holds = x.holds /\ y.held = x.held /\ y.asks = x.asks

\* What is to come and is asked for is as right for the one as for the other.
LEMMA KinFlow ==
  ASSUME NEW x, NEW y, Kin(x, y), NEW s, NEW k, NEW u, NEW ls, NEW ss, Flow(x, s, k, u, ls, ss)
  PROVE  Flow(y, s, k, u, ls, ss)
  <1>1. Talk(x, s, k, u, ls, ss) /\ Alike(x, y)
    BY DEF Flow, Talk, Kin
  <1>2. Talk(y, s, k, u, ls, ss)
    BY <1>1, AlikeTalk
  <1>3. Asking(y, s, k, u, ls, ss)
    <2>1. \A q : RequestOK(x, q, s, ls) => RequestOK(y, q, s, ls)
      BY <1>1 DEF RequestOK, Alike, Covered
    <2> QED BY <2>1 DEF Flow, Asking, Kin
  <1> QED BY <1>2, <1>3 DEF Flow, Talk

\* The client x a handler is at, with s still to come and the edits un to be explained.
Fine(x, s, k, un) ==
  /\ PageOK(x, lives, pages)
  /\ x.dirty => adapter = "document"
  /\ Backed(adapter, remade, lives, disk, writes \o x.puts, x)
  /\ x.reset \/ Explains(Elements(x.outbox), x.v, x.epoch, un, lives)
  /\ Flow(x, s, k, up \o x.out, lives, sess)

\* The client once its handler is done.
Done(x) == [x EXCEPT !.out = <<>>, !.puts = <<>>, !.reset = FALSE]

\* It is a page, with nothing to send and nothing to write.
LEMMA DoneIs ==
  ASSUME NEW x \in Page
  PROVE  /\ Done(x) \in Page /\ Kin(x, Done(x)) /\ Keeps(x, Done(x))
         /\ Done(x).on = x.on /\ Done(x).base = x.base /\ Done(x).dirty = x.dirty
         /\ Done(x).reset = FALSE /\ Done(x).out = <<>> /\ Done(x).puts = <<>>
  <1>1. <<>> \in Seq(UpMessage) /\ <<>> \in Seq(Write)
    OBVIOUS
  <1>2. Done(x) \in Page
    BY <1>1 DEF Done, Page
  <1> QED BY <1>2 DEF Done, Page, Kin, Alike, Keeps

\* What the handler wrote is on its way, or done.
LEMMA WritesDone ==
  ASSUME TypesOK, NEW y \in Page, Does(y), Backed(adapter, remade, lives, disk, writes \o y.puts, y)
  PROVE  /\ Backed(adapter, remade, lives, disk', writes', y)
         /\ writes' \in Seq(Write)
         /\ adapter # "indexeddb" => writes' = <<>>
         /\ remade = "rewriting" => writes' # <<>>
  <1>1. writes \in Seq(Write) /\ y.puts \in Seq(Write)
    BY DEF TypesOK, Page
  <1>2. CASE adapter = "indexeddb"
    <2>1. writes' = writes \o y.puts /\ disk' = disk
      BY <1>2 DEF Does
    <2>2. writes' \in Seq(Write) /\ Len(writes') = Len(writes) + Len(y.puts)
      BY <1>1, <2>1, ConcatProperties
    <2>3. ASSUME remade = "rewriting" PROVE writes' # <<>>
      <3>1. writes # <<>>
        BY <2>3 DEF TypesOK
      <3>2. Len(writes) # 0 /\ Len(writes) \in Nat /\ Len(y.puts) \in Nat
        BY <1>1, <3>1
      <3>3. Len(writes') # 0 /\ Len(<<>>) = 0
        BY <2>2, <3>2
      <3> QED BY <3>3
    <2> QED BY <1>2, <2>1, <2>2, <2>3
  <1>3. CASE adapter # "indexeddb"
    <2>1. writes = <<>> /\ remade = "no"
      BY <1>3 DEF TypesOK
    <2>2. disk' = LandedAll(disk, y.puts) /\ writes' = <<>>
      BY <1>3, <2>1 DEF Does
    <2>3. writes \o y.puts = y.puts
      BY <1>1, <2>1, ConcatEmptySeq
    <2>4. Backed(adapter, remade, lives, disk', <<>>, y)
      BY <1>1, <2>2, <2>3, BackedDone
    <2>5. <<>> \in Seq(Write)
      OBVIOUS
    <2> QED BY <2>1, <2>2, <2>4, <2>5
  <1> QED BY <1>2, <1>3

\* The page is right once the handler that did this is done.
LEMMA DoesOpened ==
  ASSUME TypesOK, NEW y \in Page, NEW s, NEW k \in Nat, NEW un, Fine(y, s, k, un), Does(y),
         s = y.held \o down',
         lives' = lives, sess' = sess, pages' = pages, adapter' = adapter, remade' = remade,
         link' \in BOOLEAN,
         ~link' => /\ y.out = <<>> /\ up = <<>> /\ down' = <<>> /\ ~sess
                   /\ ~y.synced /\ ~y.holds,
         y.reset \/ Unexplained' \subseteq un, y.reset => Unexplained' = {}
  PROVE  /\ Opened' /\ c'.on
         /\ up' \in Seq(UpMessage) /\ writes' \in Seq(Write)
         /\ adapter # "indexeddb" => writes' = <<>>
         /\ remade = "rewriting" => writes' # <<>>
  <1>1. c' = Done(y)
    BY DEF Does, Done
  <1> DEFINE z == Done(y)
  <1>2. /\ z \in Page /\ Kin(y, z) /\ Keeps(y, z) /\ z.on = y.on /\ z.base = y.base /\ z.dirty = y.dirty
        /\ z.reset = FALSE /\ z.out = <<>> /\ z.puts = <<>>
    BY DoneIs
  <1> HIDE DEF z
  <1>3. PageOK(z, lives, pages)
    BY <1>2 DEF Fine, PageOK, Kin, Alike
  <1>4. z.dirty => adapter = "document"
    BY <1>2 DEF Fine
  <1>5. Explains(Elements(z.outbox), z.v, z.epoch, Unexplained', lives)
    <2>1. CASE y.reset
      BY <2>1 DEF Explains
    <2>2. CASE ~y.reset
      <3>1. Explains(Elements(y.outbox), y.v, y.epoch, un, lives)
        BY <2>2 DEF Fine
      <3>2. Elements(z.outbox) = Elements(y.outbox) /\ z.v = y.v /\ z.epoch = y.epoch
        BY <1>2 DEF Kin, Alike
      <3>3. Unexplained' \subseteq un
        BY <2>2
      <3> QED BY <3>1, <3>2, <3>3 DEF Explains
    <2> QED BY <2>1, <2>2
  <1>6. up \in Seq(UpMessage) /\ y.out \in Seq(UpMessage)
    BY DEF TypesOK, Page
  <1>7. up' = up \o y.out /\ up' \in Seq(UpMessage)
    <2>1. CASE link'
      BY <1>6, <2>1, ConcatProperties DEF Does
    <2>2. CASE ~link'
      <3>1. up' = up /\ up = <<>> /\ y.out = <<>>
        BY <2>2 DEF Does
      <3>2. <<>> \o <<>> = <<>> /\ <<>> \in Seq(UpMessage)
        OBVIOUS
      <3> QED BY <3>1, <3>2
    <2> QED BY <2>1, <2>2
  <1>8. Flow(z, s, k, up', lives, sess)
    <2>1. Flow(y, s, k, up', lives, sess)
      BY <1>7 DEF Fine
    <2> QED BY <1>2, <2>1, KinFlow
  <1>9. /\ Backed(adapter, remade, lives, disk', writes', y)
        /\ writes' \in Seq(Write)
        /\ adapter # "indexeddb" => writes' = <<>>
        /\ remade = "rewriting" => writes' # <<>>
    BY WritesDone DEF Fine
  <1>10. Backed(adapter, remade, lives, disk', writes', z)
    BY <1>2, <1>9, BackedKeeps
  <1>11. Pending' = s
    <2>1. z.held = y.held
      BY <1>2 DEF Kin
    <2> QED BY <1>1, <2>1 DEF Pending, z
  <1>12. ~link' => up' = <<>> /\ down' = <<>> /\ ~sess' /\ ~z.synced /\ ~z.holds
    <2>1. z.synced = y.synced /\ z.holds = y.holds
      BY <1>2 DEF Kin, Alike
    <2> QED BY <2>1 DEF Does
  <1>13. c' = z
    BY <1>1 DEF z
  <1>14. z.on
    BY <1>3 DEF PageOK
  <1>15. Opened'
    BY <1>2, <1>3, <1>4, <1>5, <1>8, <1>10, <1>11, <1>12, <1>13 DEF Opened
  <1> QED BY <1>7, <1>9, <1>13, <1>14, <1>15

\* What is in a sequence in its order.
LEMMA ElementsIs ==
  ASSUME NEW A, NEW s \in Seq(A)
  PROVE  /\ Elements(s) = {s[i] : i \in 1 .. Len(s)} /\ Elements(s) \subseteq A
         /\ DOMAIN s = 1 .. Len(s) /\ Len(s) \in Nat
  <1>1. DOMAIN s = 1 .. Len(s) /\ Len(s) \in Nat
    OBVIOUS
  <1> QED BY <1>1 DEF Elements

\* One more after two sequences.
LEMMA ConcatOne ==
  ASSUME NEW A, NEW p \in Seq(A), NEW q \in Seq(A), NEW a \in A
  PROVE  (p \o q) \o <<a>> = p \o (q \o <<a>>)
  <1>1. <<a>> \in Seq(A)
    OBVIOUS
  <1> DEFINE r == <<a>>
  <1>2. r \in Seq(A)
    BY <1>1
  <1> HIDE DEF r
  <1>3. (p \o q) \o r = p \o (q \o r)
    BY <1>2, ConcatAssociative
  <1> QED BY <1>3 DEF r

\* What a hello says is a message, and where it is said.
LEMMA HelloIs ==
  ASSUME NEW x \in Page
  PROVE  /\ Hello(x) \in Page
         /\ \E m \in HelloMessage :
              /\ m.id = x.id /\ m.ops = x.outbox /\ m.since = x.v /\ m.epoch = x.epoch
              /\ Hello(x).out = x.out \o <<m>>
         /\ Hello(x).answered = IF x.outbox = <<>> THEN 0 ELSE x.outbox[Len(x.outbox)].seq
         /\ Hello(x) = [x EXCEPT !.answered = Hello(x).answered, !.out = Hello(x).out]
  <1> DEFINE m == [t |-> "hello", id |-> x.id, ops |-> x.outbox, since |-> x.v, epoch |-> x.epoch,
                   fetch |-> "fetch" \in Uses /\ ~x.failed]
             a == IF x.outbox = <<>> THEN 0 ELSE x.outbox[Len(x.outbox)].seq
  <1>1. /\ x.id \in Nat /\ x.outbox \in Seq(Op) /\ x.v \in Nat /\ x.epoch \in Nat
        /\ x.out \in Seq(UpMessage)
    BY DEF Page
  <1>2. m \in HelloMessage
    BY <1>1 DEF HelloMessage
  <1>3. a \in Nat
    <2>1. ASSUME x.outbox # <<>> PROVE x.outbox[Len(x.outbox)].seq \in Nat
      <3>1. Len(x.outbox) # 0 /\ Len(x.outbox) \in Nat
        BY <1>1, <2>1
      <3>2. Len(x.outbox) \in 1 .. Len(x.outbox)
        BY <3>1
      <3>3. x.outbox[Len(x.outbox)] \in Op
        BY <1>1, <3>2
      <3> QED BY <3>3 DEF Op
    <2> QED BY <2>1
  <1>4. Hello(x) = [x EXCEPT !.answered = a, !.out = x.out \o <<m>>]
    BY DEF Hello, Sent, Page
  <1> HIDE DEF m, a
  <1>5. <<m>> \in Seq(UpMessage)
    BY <1>2 DEF UpMessage
  <1>6. x.out \o <<m>> \in Seq(UpMessage)
    BY <1>1, <1>5, ConcatProperties
  <1>7. Hello(x).answered = a /\ Hello(x).out = x.out \o <<m>>
    BY <1>4 DEF Page
  <1>8. Hello(x) \in Page
    BY <1>3, <1>4, <1>6 DEF Page
  <1>9. m.id = x.id /\ m.ops = x.outbox /\ m.since = x.v /\ m.epoch = x.epoch
    BY DEF m
  <1>10. \E q \in HelloMessage :
              /\ q.id = x.id /\ q.ops = x.outbox /\ q.since = x.v /\ q.epoch = x.epoch
              /\ Hello(x).out = x.out \o <<q>>
    BY <1>2, <1>7, <1>9
  <1> QED BY <1>4, <1>7, <1>8, <1>10 DEF a

\* A hello is said when nothing is asked for, no hello is on its way and no answer is.
LEMMA HelloFine ==
  ASSUME NEW x, NEW s, NEW k, NEW un, Fine(x, s, k, un), Idle(x), up \in Seq(UpMessage),
         Lives(lives, pages), \A i \in 1 .. Len(s) : ~Answers(s[i]),
         \A i \in 1 .. Len(up \o x.out) : (up \o x.out)[i].t # "hello"
  PROVE  /\ Fine(Hello(x), s, k, un) /\ Idle(Hello(x)) /\ Hello(x) \in Page
         /\ Hello(x).synced = x.synced /\ Hello(x).reset = x.reset
  <1> DEFINE y == Hello(x)
             u == up \o x.out
  <1>1. x \in Page /\ PageOK(x, lives, pages)
    BY DEF Fine, PageOK
  <1>2. PICK m \in HelloMessage :
          /\ m.id = x.id /\ m.ops = x.outbox /\ m.since = x.v /\ m.epoch = x.epoch
          /\ y.out = x.out \o <<m>>
    BY <1>1, HelloIs
  <1>3. /\ y \in Page
        /\ y.answered = IF x.outbox = <<>> THEN 0 ELSE x.outbox[Len(x.outbox)].seq
        /\ y = [x EXCEPT !.answered = y.answered, !.out = y.out]
    BY <1>1, HelloIs
  <1>4. /\ y.id = x.id /\ y.seq = x.seq /\ y.outbox = x.outbox /\ y.v = x.v /\ y.epoch = x.epoch
        /\ y.synced = x.synced /\ y.holds = x.holds /\ y.held = x.held /\ y.asks = x.asks
        /\ y.base = x.base /\ y.dirty = x.dirty /\ y.reset = x.reset /\ y.puts = x.puts /\ y.on = x.on
    <2> HIDE DEF y
    <2> QED BY <1>1, <1>3 DEF Page
  <1> HIDE DEF y
  <1>5. up \o y.out = u \o <<m>>
    <2>0. m \in UpMessage
      BY <1>2 DEF UpMessage
    <2>1. x.out \in Seq(UpMessage) /\ <<m>> \in Seq(UpMessage)
      BY <1>1, <2>0 DEF Page
    <2>2. (up \o x.out) \o <<m>> = up \o (x.out \o <<m>>)
      <3> DEFINE q == x.out
      <3>1. q \in Seq(UpMessage)
        BY <2>1
      <3> HIDE DEF q
      <3>2. (up \o q) \o <<m>> = up \o (q \o <<m>>)
        BY ONLY <2>0, <3>1, up \in Seq(UpMessage), ConcatOne
      <3> QED BY <3>2 DEF q
    <2> QED BY <1>2, <2>2
  <1> HIDE DEF u
  <1>6. Talk(x, s, k, u, lives, sess)
    BY DEF Fine, Flow, Talk, u
  <1>7. /\ Ascends(x.outbox) /\ \A o \in Elements(x.outbox) : o.by = x.id /\ o.seq \in 1 .. x.seq
        /\ x.epoch <= Len(lives) /\ (x.epoch = Len(lives) => x.v <= Len(Now(lives)))
    <2>1. Whole(x.base, x.v, x.epoch, lives)
      BY <1>1 DEF PageOK
    <2>2. /\ x.epoch \in 0 .. Len(lives)
          /\ x.epoch # 0 => x.v <= Len(lives[x.epoch])
          /\ x.epoch = 0 => x.v = 0
      BY <2>1 DEF Whole, AsOf
    <2>3. x.epoch = Len(lives) => x.v <= Len(Now(lives))
      BY <2>2 DEF Now, Lives
    <2> QED BY <1>1, <2>2, <2>3 DEF PageOK, Owns
  <1>8. Talk(y, s, k, u \o <<m>>, lives, sess)
    BY <1>1, <1>2, <1>3, <1>4, <1>6, <1>7, HelloTalk DEF u
  <1>9. Idle(y)
    BY <1>4 DEF Idle
  <1>10. Asking(y, s, k, u \o <<m>>, lives, sess)
    BY <1>9, IdleAsking
  <1>11. Flow(y, s, k, up \o y.out, lives, sess)
    BY <1>5, <1>8, <1>10 DEF Flow, Talk
  <1>12. Keeps(x, y)
    BY <1>4 DEF Keeps
  <1>13. Backed(adapter, remade, lives, disk, writes \o y.puts, y)
    <2>1. Backed(adapter, remade, lives, disk, writes \o y.puts, x)
      BY <1>4 DEF Fine
    <2> QED BY <1>12, <2>1, BackedKeeps
  <1>14. Fine(y, s, k, un)
    BY <1>3, <1>4, <1>11, <1>13 DEF Fine, PageOK
  <1> QED BY <1>3, <1>4, <1>9, <1>14 DEF y

\* An entry added to the second of two sequences is added to both.
LEMMA AppendThen ==
  ASSUME NEW A, NEW p, NEW q, NEW a, p \in Seq(A), q \in Seq(A), a \in A
  PROVE  /\ Append(p \o q, a) = p \o Append(q, a) /\ Append(q, a) = q \o <<a>>
         /\ Append(q, a) \in Seq(A) /\ p \o q \in Seq(A)
  <1>1. (p \o q) \o <<a>> = p \o (q \o <<a>>)
    BY ConcatOne
  <1>2. p \o q \in Seq(A)
    BY ConcatProperties
  <1> DEFINE r == p \o q
  <1>3. r \in Seq(A)
    BY <1>2
  <1> HIDE DEF r
  <1>4. Append(q, a) = q \o <<a>> /\ Append(r, a) = r \o <<a>>
    BY <1>3, AppendIsConcat
  <1>5. Append(q, a) \in Seq(A)
    OBVIOUS
  <1> QED BY <1>1, <1>2, <1>4, <1>5 DEF r

\* What an acknowledgement up to a number leaves of the client.
Acked(x, upTo, y) ==
  /\ y \in Page /\ Ascends(y.outbox)
  /\ Elements(y.outbox) = {o \in Elements(x.outbox) : o.seq > upTo}
  /\ y = [x EXCEPT !.outbox = y.outbox, !.puts = y.puts]
  /\ Backed(adapter, remade, lives, disk, writes \o x.puts, x)
       => Backed(adapter, remade, lives, disk, writes \o y.puts, y)

\* acknowledge() leaves that.
LEMMA AcknowledgeIs ==
  ASSUME NEW x \in Page, Ascends(x.outbox), \A o \in Elements(x.outbox) : o.seq >= 1,
         NEW upTo \in Nat, writes \in Seq(Write)
  PROVE  Acked(x, upTo, Acknowledge(x, upTo))
  <1> DEFINE S == {o \in Elements(x.outbox) : o.seq > upTo}
             left == Kept(x.outbox, S)
             z == [x EXCEPT !.outbox = left]
             drop == IF adapter = "document" THEN Nat ELSE 1 .. upTo
             put == IF adapter = "document" THEN Elements(left) ELSE {}
             w == OpsWrite(z, drop, put)
             y == [z EXCEPT !.puts = x.puts \o <<w>>]
  <1>1. /\ x.id \in Nat /\ x.seq \in Nat /\ x.v \in Nat /\ x.epoch \in Nat /\ x.base \in Rows
        /\ x.outbox \in Seq(Op) /\ x.puts \in Seq(Write)
    BY DEF Page
  <1>2. left \in Seq(Op) /\ Ascends(left) /\ Elements(left) = S
    <2>1. left \in Seq(Op) /\ Ascends(left) /\ Elements(left) = Elements(x.outbox) \cap S
      BY <1>1, KeptIs
    <2> QED BY <2>1
  <1>3. CASE left = x.outbox
    <2>1. Acknowledge(x, upTo) = x
      BY <1>3 DEF Acknowledge
    <2>2. x = [x EXCEPT !.outbox = x.outbox, !.puts = x.puts]
      BY DEF Page
    <2>3. Elements(x.outbox) = S
      BY <1>2, <1>3
    <2> QED BY <2>1, <2>2, <2>3 DEF Acked
  <1>4. CASE left # x.outbox
    <2>1. Acknowledge(x, upTo) = y
      BY <1>4 DEF Acknowledge, Wrote, OutboxWrite, Page
    <2> HIDE DEF left
    <2>2. z \in Page
      BY <1>2 DEF Page
    <2>3. /\ z.id = x.id /\ z.seq = x.seq /\ z.v = x.v /\ z.epoch = x.epoch /\ z.base = x.base
          /\ z.outbox = left
      BY DEF Page
    <2> HIDE DEF z
    <2>4. w \in Write
      <3>1. drop \subseteq Nat
        OBVIOUS
      <3>2. put \subseteq Op
        BY <1>1, <1>2, ElementsIs
      <3> QED BY <1>1, <2>3, <3>1, <3>2, WriteIs
    <2>5. {o \in Elements(x.outbox) : o.seq \notin drop} \cup put = Elements(z.outbox)
      <3>1. \A o \in Elements(x.outbox) : o.seq \in Nat
        <4>1. \A o \in Elements(x.outbox) : o \in Op
          BY <1>1, ElementsIs
        <4> QED BY <4>1 DEF Op
      <3>2. CASE adapter = "document"
        BY <2>3, <3>1, <3>2
      <3>3. CASE adapter # "document"
        <4>1. \A o \in Elements(x.outbox) : o.seq \notin 1 .. upTo <=> o.seq > upTo
          BY <3>1
        <4>2. {o \in Elements(x.outbox) : o.seq \notin 1 .. upTo} = S
          BY <4>1
        <4> QED BY <1>2, <2>3, <3>3, <4>2
      <3> QED BY <3>2, <3>3
    <2> HIDE DEF w
    <2>6. /\ x.puts \o <<w>> \in Seq(Write)
          /\ writes \o (x.puts \o <<w>>) = Append(writes \o x.puts, w)
          /\ writes \o x.puts \in Seq(Write)
      <3> DEFINE q == x.puts
      <3>1. q \in Seq(Write)
        BY <1>1
      <3> HIDE DEF q
      <3>2. /\ Append(writes \o q, w) = writes \o Append(q, w) /\ Append(q, w) = q \o <<w>>
            /\ Append(q, w) \in Seq(Write) /\ writes \o q \in Seq(Write)
        BY <2>4, <3>1, AppendThen
      <3> QED BY <3>2 DEF q
    <2>7. /\ y \in Page /\ y.outbox = left /\ y.puts = x.puts \o <<w>>
      BY <2>2, <2>3, <2>6 DEF Page
    <2>8. y = [x EXCEPT !.outbox = y.outbox, !.puts = y.puts]
      BY <2>7 DEF Page, z
    <2>9. Keeps(z, y)
      BY <2>2 DEF Keeps, Page
    <2> HIDE DEF y
    <2>10. ASSUME Backed(adapter, remade, lives, disk, writes \o x.puts, x)
           PROVE  Backed(adapter, remade, lives, disk, writes \o y.puts, y)
      <3> HIDE DEF drop, put
      <3> DEFINE ws == writes \o x.puts
      <3>1. ws \in Seq(Write) /\ Backed(adapter, remade, lives, disk, ws, x)
        BY <2>6, <2>10
      <3> HIDE DEF ws
      <3>2. Backed(adapter, remade, lives, disk, Append(ws, w), z)
        BY <1>1, <2>3, <2>4, <2>5, <3>1, BackedOps DEF w
      <3>3. Backed(adapter, remade, lives, disk, Append(ws, w), y)
        BY <2>9, <3>2, BackedKeeps
      <3> QED BY <2>6, <2>7, <3>3 DEF ws
    <2>11. Acked(x, upTo, y)
      BY <1>2, <2>7, <2>8, <2>10 DEF Acked
    <2> QED BY <2>1, <2>11
  <1> QED BY <1>3, <1>4

\* The first message of s is done with, and the client y left is as right as x was.
Moved(x, y, s, k, un) ==
  /\ Fine(y, Tail(s), NextEnd(k), un) /\ Idle(y)
  /\ y.out = x.out /\ y.synced = x.synced /\ y.reset = x.reset /\ y.failed = x.failed
  /\ y.v >= x.v \/ (s[1].t = "patch" /\ y.v = s[1].v)

\* A message that is passed over.
LEMMA PassFine ==
  ASSUME NEW x, NEW s, NEW k, NEW un, Fine(x, s, k, un), Idle(x), s # <<>>, k # 1,
         x.synced => s[1].v <= x.v
  PROVE  Moved(x, x, s, k, un)
  <1>1. Talk(x, s, k, up \o x.out, lives, sess)
    BY DEF Fine, Flow, Talk
  <1> DEFINE u == up \o x.out
  <1> HIDE DEF u
  <1>2. Talk(x, Tail(s), NextEnd(k), u, lives, sess)
    BY <1>1, PassTalk DEF u
  <1>3. Asking(x, Tail(s), NextEnd(k), u, lives, sess)
    BY IdleAsking
  <1>4. Flow(x, Tail(s), NextEnd(k), u, lives, sess)
    BY <1>2, <1>3 DEF Flow, Talk
  <1>5. x.v \in Nat
    BY DEF Fine, PageOK, Page
  <1> QED BY <1>4, <1>5 DEF Moved, Fine, u

\* An acknowledgement: what it says is in the store is pending no more.
LEMMA AckFine ==
  ASSUME NEW x, NEW s, NEW k, NEW un, Fine(x, s, k, un), Idle(x), s # <<>>, s[1].t = "ack",
         Lives(lives, pages), writes \in Seq(Write)
  PROVE  Moved(x, Acknowledge([x EXCEPT !.v = Larger(x.v, s[1].v)], s[1].seq), s, k, un)
  <1> DEFINE m == s[1]
             u == up \o x.out
  <1>1. x \in Page /\ PageOK(x, lives, pages) /\ x.v \in Nat
    BY DEF Fine, PageOK, Page
  <1>2. Chained(s, k, lives, sess) /\ Downward(x, s, k, lives) /\ InTouch(x, s, k, lives, sess)
    BY DEF Fine, Flow
  <1>3. /\ s \in Seq(DownMessage) /\ k \in 0 .. Len(s) /\ 1 \in 1 .. Len(s) /\ m \in DownMessage
        /\ s[1].t = "closed" <=> 1 = k
    <2>1. s \in Seq(DownMessage) /\ k \in 0 .. Len(s)
      BY <1>2 DEF Chained
    <2>2. 1 \in 1 .. Len(s)
      <3>1. Len(s) \in Nat /\ Len(s) >= 1
        BY <2>1, TailIs
      <3> QED BY <3>1
    <2>3. m \in DownMessage
      BY <2>1, <2>2
    <2> QED BY <1>2, <2>1, <2>2, <2>3 DEF Chained
  <1>4. m \in Ack /\ m.v \in Nat /\ m.seq \in Nat
    <2>1. m \in Ack
      BY <1>3, DownKinds
    <2> QED BY <2>1 DEF Ack
  <1>5. k # 1 /\ AckOK(x, m, lives)
    BY <1>2, <1>3 DEF Downward
  <1>6. /\ x.synced /\ m.v \in 1 .. Len(lives[x.epoch])
        /\ Covered(x, m.seq, lives[x.epoch], m.v)
    BY <1>5 DEF AckOK
  <1>7. m.v <= x.v
    <2>1. Start(s, lives) <= x.v
      BY <1>2, <1>5, <1>6 DEF InTouch
    <2>2. s # <<>> /\ s[1].t # "patch"
      OBVIOUS
    <2> QED BY <2>1, <2>2 DEF Start, From
  <1>8. [x EXCEPT !.v = Larger(x.v, m.v)] = x
    <2>1. Larger(x.v, m.v) = x.v
      BY <1>1, <1>4, <1>7 DEF Larger
    <2> QED BY <1>1, <2>1 DEF Page
  <1> DEFINE y == Acknowledge(x, m.seq)
  <1>9. Ascends(x.outbox) /\ \A o \in Elements(x.outbox) : o.seq \in Nat /\ o.seq >= 1
    <2>1. x.seq \in Nat
      BY <1>1 DEF Page
    <2>2. Ascends(x.outbox) /\ \A o \in Elements(x.outbox) : o.seq \in 1 .. x.seq
      BY <1>1 DEF PageOK, Owns
    <2> QED BY <2>1, <2>2
  <1>10. Acked(x, m.seq, y)
    BY <1>1, <1>4, <1>9, AcknowledgeIs
  <1> HIDE DEF y, m, u
  <1>11. /\ y \in Page /\ Ascends(y.outbox)
         /\ Elements(y.outbox) = {o \in Elements(x.outbox) : o.seq > m.seq}
         /\ y = [x EXCEPT !.outbox = y.outbox, !.puts = y.puts]
    BY <1>10 DEF Acked
  <1>12. /\ y.id = x.id /\ y.seq = x.seq /\ y.v = x.v /\ y.epoch = x.epoch /\ y.base = x.base
         /\ y.synced = x.synced /\ y.answered = x.answered /\ y.holds = x.holds /\ y.held = x.held
         /\ y.asks = x.asks /\ y.dirty = x.dirty /\ y.reset = x.reset /\ y.on = x.on /\ y.out = x.out
         /\ y.failed = x.failed
    BY <1>1, <1>11 DEF Page
  <1>13. PageOK(y, lives, pages)
    BY <1>1, <1>11, <1>12 DEF PageOK, Owns
  <1>14. Flow(y, Tail(s), NextEnd(k), u, lives, sess)
    <2>1. Fewer(x, y)
      BY <1>11, <1>12 DEF Fewer
    <2>2. Talk(x, s, k, u, lives, sess)
      BY DEF Fine, Flow, Talk, u
    <2>3. Talk(y, s, k, u, lives, sess)
      BY <2>1, <2>2, FewerTalk
    <2>4. y.synced => s[1].v <= y.v
      BY <1>7, <1>12 DEF m
    <2>5. Talk(y, Tail(s), NextEnd(k), u, lives, sess)
      BY <1>5, <2>3, <2>4, PassTalk
    <2>6. Idle(y)
      BY <1>12 DEF Idle
    <2> QED BY <2>5, <2>6, IdleAsking DEF Flow, Talk
  <1>15. y.reset \/ Explains(Elements(y.outbox), y.v, y.epoch, un, lives)
    <2> SUFFICES ASSUME ~x.reset PROVE Explains(Elements(y.outbox), y.v, y.epoch, un, lives)
      BY <1>12
    <2>1. Explains(Elements(x.outbox), x.v, x.epoch, un, lives)
      BY DEF Fine
    <2>2. x.v # 0
      BY <1>1, <1>4, <1>6, <1>7
    <2>3. un \ {o.n : o \in Elements(x.outbox)} \subseteq Numbers(lives[x.epoch])
      BY <2>1, <2>2 DEF Explains
    <2>4. ASSUME NEW o \in Elements(x.outbox), o \notin Elements(y.outbox)
          PROVE  o.n \in Numbers(lives[x.epoch])
      <3>1. o.seq <= m.seq
        BY <1>4, <1>9, <1>11, <2>4
      <3>2. Has(lives[x.epoch], m.v, o)
        BY <1>6, <3>1 DEF Covered
      <3>3. PICK j \in 1 .. m.v : lives[x.epoch][j].n = o.n
        BY <3>2 DEF Has
      <3>4. lives[x.epoch] \in Seq(Op)
        <4>1. x.epoch \in 1 .. Len(lives)
          <5>1. x.epoch \in 0 .. Len(lives) /\ x.epoch # 0
            BY <1>1, <1>2, <1>6 DEF PageOK, Whole, InTouch
          <5> QED BY <5>1 DEF Lives
        <4> QED BY <4>1 DEF Lives
      <3>5. j \in DOMAIN lives[x.epoch]
        BY <1>6, <3>4
      <3> QED BY <3>3, <3>5 DEF Numbers
    <2>5. un \ {o.n : o \in Elements(y.outbox)} \subseteq Numbers(lives[x.epoch])
      BY <2>3, <2>4
    <2> QED BY <1>12, <2>2, <2>5 DEF Explains
  <1>16. Fine(y, Tail(s), NextEnd(k), un)
    <2>1. Backed(adapter, remade, lives, disk, writes \o y.puts, y)
      BY <1>10 DEF Acked, Fine
    <2>2. y.dirty => adapter = "document"
      BY <1>12 DEF Fine
    <2> QED BY <1>12, <1>13, <1>14, <1>15, <2>1, <2>2 DEF Fine, u
  <1>17. Idle(y)
    BY <1>12 DEF Idle
  <1>18. Moved(x, y, s, k, un)
    BY <1>1, <1>12, <1>16, <1>17 DEF Moved
  <1> QED BY <1>8, <1>18 DEF y, m

\* A change laid on rows is on its records.
LEMMA LaidOne ==
  ASSUME NEW base \in Rows, NEW o \in Op
  PROVE  /\ Laid(base, <<o>>) \in Rows
         /\ \A r \in Records \ o.recs : Laid(base, <<o>>)[r] = base[r]
  <1> DEFINE q == <<o>>
  <1>1. q \in Seq(Op) /\ Len(q) = 1 /\ q[1] = o
    OBVIOUS
  <1>2. 1 .. 1 = {1} /\ 0 + 1 = 1
    OBVIOUS
  <1> HIDE DEF q
  <1>3. \A r \in Records \ o.recs : NoneAfter(q, 0, r)
    BY <1>1, <1>2 DEF NoneAfter
  <1>4. \A r \in Records \ o.recs : Laid(base, q)[r] = base[r]
    BY <1>1, <1>3, LaidIs
  <1>5. Laid(base, q) \in Rows
    BY <1>1, LaidRows
  <1> QED BY <1>4, <1>5 DEF q

\* Rows of one version with the next change on them, or with one they have, are whole.
LEMMA LaidNext ==
  ASSUME NEW h \in Seq(Op), NEW rows, NEW was \in Nat, AsOf(rows, was, h),
         NEW v \in 1 .. Len(h), v - 1 <= was
  PROVE  AsOf(Laid(rows, <<h[v]>>), v, h)
  <1>1. v \in 0 .. Len(h) /\ v - 1 \in 0 .. v /\ (v - 1) + 1 = v /\ v - 1 \in 0 .. Len(h)
    OBVIOUS
  <1>2. AsOf(Laid(rows, SubSeq(h, (v - 1) + 1, v)), v, h)
    BY <1>1, LaidIsAsOf
  <1>3. SubSeq(h, (v - 1) + 1, v) = <<h[v]>>
    <2>1. v \in (v - 1) .. Len(h)
      OBVIOUS
    <2> DEFINE q == SubSeq(h, (v - 1) + 1, v)
               p == <<h[v]>>
    <2>2. q \in Seq(Op) /\ Len(q) = v - (v - 1) /\ \A i \in 1 .. v - (v - 1) : q[i] = h[(v - 1) + i]
      BY <1>1, <2>1, Between
    <2>3. p \in Seq(Op) /\ Len(p) = 1 /\ p[1] = h[v]
      OBVIOUS
    <2>4. v - (v - 1) = 1 /\ \A i \in 1 .. 1 : i = 1
      OBVIOUS
    <2> HIDE DEF q, p
    <2>5. Len(q) = 1 /\ q[1] = h[v]
      BY <1>1, <2>2, <2>4
    <2>6. q = p
      <3>1. \A i \in 1 .. Len(q) : q[i] = p[i]
        BY <2>3, <2>4, <2>5
      <3>2. Len(q) = Len(p)
        BY <2>3, <2>5
      <3> QED BY <2>2, <2>3, <3>1, <3>2, SeqEqual
    <2> QED BY <2>6 DEF q, p
  <1> QED BY <1>2, <1>3

\* The base of x is that of y, with the records recs of it others.
Based(x, recs, y) ==
  /\ y \in Page /\ y = [x EXCEPT !.dirty = y.dirty, !.puts = y.puts]
  /\ y.dirty => adapter = "document" \/ x.dirty
  /\ \A was : /\ was.id = x.id /\ was.seq = x.seq /\ was.outbox = x.outbox /\ was.base \in Rows
              /\ \A r \in Records \ recs : x.base[r] = was.base[r]
              /\ Whole(x.base, x.v, x.epoch, lives)
              /\ Backed(adapter, remade, lives, disk, writes \o x.puts, was)
              => Backed(adapter, remade, lives, disk, writes \o y.puts, y)

\* The write of a base leaves that, for one that was right before it.
LEMMA BaseWriteIs ==
  ASSUME NEW x \in Page, NEW recs \in SUBSET Records, writes \in Seq(Write)
  PROVE  Based(x, recs, BaseWrite(x, recs))
  <1>1. /\ x.id \in Nat /\ x.seq \in Nat /\ x.v \in Nat /\ x.epoch \in Nat /\ x.base \in Rows
        /\ x.puts \in Seq(Write)
    BY DEF Page
  <1>2. CASE adapter = "document"
    <2> DEFINE y == [x EXCEPT !.dirty = TRUE]
    <2>1. BaseWrite(x, recs) = y
      BY <1>2 DEF BaseWrite
    <2>2. y \in Page /\ y = [x EXCEPT !.dirty = y.dirty, !.puts = y.puts] /\ y.puts = x.puts
          /\ y.id = x.id /\ y.seq = x.seq /\ y.outbox = x.outbox
      BY DEF Page
    <2> HIDE DEF y
    <2>3. \A was : /\ was.id = x.id /\ was.seq = x.seq /\ was.outbox = x.outbox
                   /\ Backed(adapter, remade, lives, disk, writes \o x.puts, was)
                   => Backed(adapter, remade, lives, disk, writes \o y.puts, y)
      <3> SUFFICES ASSUME NEW was, was.id = x.id, was.seq = x.seq, was.outbox = x.outbox,
                          Backed(adapter, remade, lives, disk, writes \o x.puts, was)
                   PROVE  Backed(adapter, remade, lives, disk, writes \o x.puts, y)
        BY <2>2
      <3>1. Keeps(was, y)
        BY <1>2, <2>2 DEF Keeps
      <3> QED BY <3>1, BackedKeeps
    <2> QED BY <1>2, <2>1, <2>2, <2>3 DEF Based
  <1>3. CASE adapter # "document"
    <2> DEFINE w == RowsWrite(x, recs)
               y == [x EXCEPT !.puts = Append(x.puts, w)]
    <2>1. BaseWrite(x, recs) = y
      BY <1>3 DEF BaseWrite, Page
    <2>2. w \in Write
      BY <1>1, WriteIs
    <2> HIDE DEF w
    <2>3. /\ Append(x.puts, w) \in Seq(Write)
          /\ writes \o Append(x.puts, w) = Append(writes \o x.puts, w)
          /\ writes \o x.puts \in Seq(Write)
      <3> DEFINE q == x.puts
      <3>1. q \in Seq(Write)
        BY <1>1
      <3> HIDE DEF q
      <3>2. /\ Append(writes \o q, w) = writes \o Append(q, w)
            /\ Append(q, w) \in Seq(Write) /\ writes \o q \in Seq(Write)
        BY <2>2, <3>1, AppendThen
      <3> QED BY <3>2 DEF q
    <2>4. /\ y \in Page /\ y = [x EXCEPT !.dirty = y.dirty, !.puts = y.puts]
          /\ y.puts = Append(x.puts, w) /\ y.dirty = x.dirty
      BY <2>3 DEF Page
    <2>5. Keeps(x, y)
      BY <2>4 DEF Keeps, Page
    <2> HIDE DEF y
    <2>6. ASSUME NEW was, was.id = x.id, was.seq = x.seq, was.outbox = x.outbox, was.base \in Rows,
                 \A r \in Records \ recs : x.base[r] = was.base[r],
                 Whole(x.base, x.v, x.epoch, lives),
                 Backed(adapter, remade, lives, disk, writes \o x.puts, was)
          PROVE  Backed(adapter, remade, lives, disk, writes \o y.puts, y)
      <3> DEFINE ws == writes \o x.puts
      <3>1. ws \in Seq(Write) /\ Backed(adapter, remade, lives, disk, ws, was)
        BY <2>3, <2>6
      <3> HIDE DEF ws
      <3>2. x.id = was.id /\ x.seq = was.seq /\ x.outbox = was.outbox
        BY <2>6
      <3>3. RowsWrite(x, recs) \in Write
        BY <2>2 DEF w
      <3>4. Backed(adapter, remade, lives, disk, Append(ws, RowsWrite(x, recs)), x)
        BY <1>1, <1>3, <2>6, <3>1, <3>2, <3>3, BackedRows
      <3>5. Backed(adapter, remade, lives, disk, Append(ws, w), y)
        BY <2>5, <3>4, BackedKeeps DEF w
      <3> QED BY <2>3, <2>4, <3>5 DEF ws
    <2> QED BY <2>1, <2>4, <2>6 DEF Based
  <1> QED BY <1>2, <1>3

\* The first of what is to come.
LEMMA FirstIs ==
  ASSUME NEW x, NEW s, NEW k, NEW un, Fine(x, s, k, un), s # <<>>
  PROVE  /\ s \in Seq(DownMessage) /\ k \in 0 .. Len(s) /\ 1 \in 1 .. Len(s)
         /\ s[1] \in DownMessage /\ (s[1].t = "closed" <=> 1 = k)
         /\ k # 1 => s[1].v \in Nat
         /\ k = 0 => s[1].v <= Len(Now(lives))
  <1>1. Chained(s, k, lives, sess)
    BY DEF Fine, Flow
  <1>2. s \in Seq(DownMessage) /\ k \in 0 .. Len(s)
    BY <1>1 DEF Chained
  <1>3. 1 \in 1 .. Len(s)
    <2>1. Len(s) \in Nat /\ Len(s) >= 1
      BY <1>2, TailIs
    <2> QED BY <2>1
  <1>4. s[1] \in DownMessage
    BY <1>2, <1>3
  <1>5. s[1].t = "closed" <=> 1 = k
    BY <1>1, <1>3 DEF Chained
  <1>6. k # 1 => s[1].v \in Nat
    BY <1>4, <1>5, DownKinds
  <1>7. k = 0 => s[1].v <= Len(Now(lives))
    <2>1. k = 0 => 1 \in k + 1 .. Len(s)
      BY <1>3
    <2> QED BY <1>1, <2>1 DEF Chained
  <1> QED BY <1>2, <1>3, <1>4, <1>5, <1>6, <1>7

\* A patch: a client that is not synced passes it over, one that is takes it, and skips none.
LEMMA PatchFine ==
  ASSUME NEW x, NEW s, NEW k, NEW un, Fine(x, s, k, un), Idle(x), s # <<>>, s[1].t = "patch",
         Lives(lives, pages), writes \in Seq(Write)
  PROVE  Moved(x, HearPatch(x, s[1]), s, k, un)
  <1> DEFINE m == s[1]
             u == up \o x.out
             h == lives[x.epoch]
             z == [x EXCEPT !.v = m.v, !.base = Laid(x.base, <<m.op>>)]
             y == BaseWrite(z, m.op.recs)
  <1>1. x \in Page /\ PageOK(x, lives, pages) /\ x.v \in Nat /\ x.base \in Rows
    BY DEF Fine, PageOK, Page
  <1>2. Chained(s, k, lives, sess) /\ Downward(x, s, k, lives) /\ InTouch(x, s, k, lives, sess)
    BY DEF Fine, Flow
  <1>3. /\ s \in Seq(DownMessage) /\ k \in 0 .. Len(s) /\ 1 \in 1 .. Len(s) /\ m \in DownMessage
        /\ k # 1 /\ m.v \in Nat /\ (k = 0 => m.v <= Len(Now(lives)))
    BY FirstIs
  <1>4. CASE ~x.synced
    <2>1. HearPatch(x, s[1]) = x
      BY <1>4 DEF HearPatch
    <2>2. x.synced => s[1].v <= x.v
      BY <1>4
    <2>3. Moved(x, x, s, k, un)
      BY <1>3, <2>2, PassFine
    <2> QED BY <2>1, <2>3
  <1>5. CASE x.synced
    <2>1. PatchOK(x, m, 1 < k, lives)
      BY <1>2, <1>3 DEF Downward
    <2>2. m \in Patch
      BY <1>3, DownKinds
    <2>3. m.op \in Op /\ m.op.recs \in SUBSET Records
      BY <2>2 DEF Patch, Op
    <2>4. m.v >= 1 /\ m.v - 1 <= x.v
      <3>1. Start(s, lives) <= x.v
        BY <1>2, <1>3, <1>5 DEF InTouch
      <3> QED BY <2>1, <3>1 DEF Start, From, PatchOK
    <2>5. HearPatch(x, s[1]) = y
      <3>1. ~(m.v > x.v + 1)
        BY <1>1, <1>3, <2>4
      <3> QED BY <1>5, <3>1 DEF HearPatch
    <2>6. x.epoch \in 1 .. Len(lives) /\ h \in Seq(Op) /\ AsOf(x.base, x.v, h)
      <3>1. x.epoch \in 0 .. Len(lives) /\ x.epoch # 0
        BY <1>1, <1>2, <1>5 DEF PageOK, Whole, InTouch
      <3>2. x.epoch \in 1 .. Len(lives)
        BY <3>1
      <3> QED BY <1>1, <3>1, <3>2 DEF Lives, PageOK, Whole
    <2>7. m.v \in 1 .. Len(h) /\ m.op = h[m.v]
      <3>1. CASE k = 0
        <4>1. x.epoch = Len(lives)
          BY <1>2, <1>5, <3>1 DEF InTouch
        <4>2. m.op = Now(lives)[m.v] /\ m.v <= Len(Now(lives))
          BY <1>3, <2>1, <3>1 DEF PatchOK
        <4> QED BY <1>3, <2>4, <2>6, <4>1, <4>2 DEF Now
      <3>2. CASE k # 0
        <4>1. 1 < k
          BY <1>3, <3>2
        <4>2. m.v <= Len(h) /\ m.op = h[m.v]
          BY <1>5, <2>1, <4>1 DEF PatchOK
        <4> QED BY <1>3, <2>4, <2>6, <4>2
      <3> QED BY <3>1, <3>2
    <2>8. AsOf(Laid(x.base, <<m.op>>), m.v, h)
      BY <1>1, <2>4, <2>6, <2>7, LaidNext
    <2>9. /\ Laid(x.base, <<m.op>>) \in Rows
          /\ \A r \in Records \ m.op.recs : Laid(x.base, <<m.op>>)[r] = x.base[r]
      BY <1>1, <2>3, LaidOne
    <2>10. /\ z \in Page /\ z.v = m.v /\ z.base = Laid(x.base, <<m.op>>)
           /\ z.id = x.id /\ z.seq = x.seq /\ z.outbox = x.outbox /\ z.epoch = x.epoch
           /\ z.synced = x.synced /\ z.answered = x.answered /\ z.holds = x.holds
           /\ z.held = x.held /\ z.asks = x.asks /\ z.dirty = x.dirty /\ z.reset = x.reset
           /\ z.on = x.on /\ z.out = x.out /\ z.puts = x.puts /\ z.failed = x.failed
      BY <1>1, <1>3, <2>9 DEF Page
    <2> HIDE DEF z, m, u, h
    <2>11. Based(z, m.op.recs, y)
      BY <2>3, <2>10, BaseWriteIs
    <2>12. y \in Page /\ y = [z EXCEPT !.dirty = y.dirty, !.puts = y.puts]
           /\ (y.dirty => adapter = "document" \/ z.dirty)
      BY <2>11 DEF Based
    <2> HIDE DEF y
    <2>13. /\ y.v = m.v /\ y.base = Laid(x.base, <<m.op>>)
           /\ y.id = x.id /\ y.seq = x.seq /\ y.outbox = x.outbox /\ y.epoch = x.epoch
           /\ y.synced = x.synced /\ y.answered = x.answered /\ y.holds = x.holds
           /\ y.held = x.held /\ y.asks = x.asks /\ y.reset = x.reset
           /\ y.on = x.on /\ y.out = x.out /\ y.failed = x.failed
      BY <2>10, <2>12 DEF Page
    <2>14. Whole(z.base, z.v, z.epoch, lives)
      BY <1>3, <2>6, <2>8, <2>9, <2>10 DEF Whole, h
    <2>15. PageOK(y, lives, pages)
      BY <1>1, <2>10, <2>12, <2>13, <2>14 DEF PageOK
    <2>16. Backed(adapter, remade, lives, disk, writes \o y.puts, y)
      <3>1. Backed(adapter, remade, lives, disk, writes \o z.puts, x)
        BY <2>10 DEF Fine
      <3>2. /\ x.id = z.id /\ x.seq = z.seq /\ x.outbox = z.outbox /\ x.base \in Rows
            /\ \A r \in Records \ m.op.recs : z.base[r] = x.base[r]
        BY <1>1, <2>9, <2>10
      <3> QED BY <2>11, <2>14, <3>1, <3>2 DEF Based
    <2>17. y.reset \/ Explains(Elements(y.outbox), y.v, y.epoch, un, lives)
      <3> SUFFICES ASSUME ~x.reset PROVE Explains(Elements(x.outbox), m.v, x.epoch, un, lives)
        BY <2>13
      <3>1. Explains(Elements(x.outbox), x.v, x.epoch, un, lives)
        BY DEF Fine
      <3> QED BY <1>3, <2>4, <3>1 DEF Explains
    <2>18. Flow(y, Tail(s), NextEnd(k), u, lives, sess)
      <3>1. Talk(x, s, k, u, lives, sess)
        BY DEF Fine, Flow, Talk, u
      <3>2. Alike([x EXCEPT !.v = s[1].v], y)
        BY <1>1, <2>13 DEF Alike, Page, m
      <3>3. Talk(y, Tail(s), NextEnd(k), u, lives, sess)
        BY <1>1, <1>5, <3>1, <3>2, PatchTalk
      <3>4. Idle(y)
        BY <2>13 DEF Idle
      <3> QED BY <3>3, <3>4, IdleAsking DEF Flow, Talk
    <2>19. Fine(y, Tail(s), NextEnd(k), un)
      <3>1. y.dirty => adapter = "document"
        BY <2>10, <2>12 DEF Fine
      <3> QED BY <2>13, <2>15, <2>16, <2>17, <2>18, <3>1 DEF Fine, u
    <2>20. Moved(x, y, s, k, un)
      <3>1. Idle(y)
        BY <2>13 DEF Idle
      <3> QED BY <1>5, <2>13, <2>19, <3>1 DEF Moved, m
    <2> QED BY <2>5, <2>20
  <1> QED BY <1>4, <1>5

\* An answer m, with the base it brings, that is right for the client x with s still to come.
Right(x, m, base, recs, s) ==
  /\ m.seq \in Nat /\ m.v \in Nat /\ m.epoch = Len(lives) /\ m.v <= Len(Now(lives))
  /\ x.answered <= m.seq /\ Covered(x, m.seq, Now(lives), m.v)
  /\ x.epoch = Len(lives) /\ x.v > 0 => m.v > 0
  /\ Start(s, lives) <= m.v
  /\ base \in Rows /\ AsOf(base, m.v, Now(lives))
  /\ recs \in SUBSET Records /\ \A r \in Records \ recs : base[r] = x.base[r]

\* The client is ready to be caught up.
Ready(x, s, un) ==
  /\ PageOK(x, lives, pages) /\ Idle(x)
  /\ x.dirty => adapter = "document"
  /\ Backed(adapter, remade, lives, disk, writes \o x.puts, x)
  /\ x.reset \/ Explains(Elements(x.outbox), x.v, x.epoch, un, lives)
  /\ Chained(s, 0, lives, sess) /\ sess /\ Downward(x, s, 0, lives)
  /\ Upward(x, s, 0, up \o x.out, lives, sess)
  /\ x.synced => x.epoch = Len(lives)
  /\ \A i \in 1 .. Len(s) : ~Answers(s[i])
  /\ \A i \in 1 .. Len(up \o x.out) : (up \o x.out)[i].t # "hello"

\* The client is caught up, and sends what came after its hello.
LEMMA CaughtUpFine ==
  ASSUME NEW x, NEW s, NEW un, Ready(x, s, un), NEW m, NEW base, NEW recs,
         Right(x, m, base, recs, s),
         Lives(lives, pages), writes \in Seq(Write), up \in Seq(UpMessage)
  PROVE  LET y == CaughtUp(x, m, base, recs)
         IN  Fine(y, s, 0, un) /\ Idle(y) /\ y.synced /\ y.v = m.v
  <1> DEFINE h == Now(lives)
             a == Acknowledge(x, m.seq)
             z == [a EXCEPT !.base = base, !.epoch = m.epoch, !.v = m.v]
             b == BaseWrite(z, recs)
             live == Kept(b.outbox, {o \in Elements(b.outbox) : o.seq > b.answered})
             w == [i \in DOMAIN live |-> [t |-> "op", op |-> live[i]]]
             reset == x.reset \/ (x.epoch # 0 /\ x.v > 0 /\ m.epoch # x.epoch)
             y == [b EXCEPT !.synced = TRUE, !.reset = reset, !.out = x.out \o w]
  <1>1. x \in Page /\ PageOK(x, lives, pages) /\ x.v \in Nat /\ x.epoch \in Nat /\ x.seq \in Nat
        /\ x.out \in Seq(UpMessage) /\ x.answered \in Nat
    BY DEF Ready, PageOK, Page
  <1>2. Len(lives) \in Nat /\ Len(lives) >= 1 /\ h \in Seq(Op)
    <2>1. Len(lives) \in 1 .. Len(lives)
      BY DEF Lives
    <2> QED BY <2>1 DEF Lives, Now
  <1>3. Ascends(x.outbox) /\ \A o \in Elements(x.outbox) : o.by = x.id /\ o.seq \in 1 .. x.seq
    BY <1>1 DEF PageOK, Owns
  <1>4. Acked(x, m.seq, a)
    <2>1. \A o \in Elements(x.outbox) : o.seq >= 1
      BY <1>1, <1>3
    <2> QED BY <1>1, <1>3, <2>1, AcknowledgeIs DEF Right
  <1> HIDE DEF a
  <1>5. /\ a \in Page /\ Ascends(a.outbox)
        /\ Elements(a.outbox) = {o \in Elements(x.outbox) : o.seq > m.seq}
        /\ a = [x EXCEPT !.outbox = a.outbox, !.puts = a.puts]
        /\ Backed(adapter, remade, lives, disk, writes \o a.puts, a)
    BY <1>4 DEF Acked, Ready
  <1>6. /\ a.id = x.id /\ a.seq = x.seq /\ a.v = x.v /\ a.epoch = x.epoch /\ a.base = x.base
        /\ a.synced = x.synced /\ a.answered = x.answered /\ a.holds = x.holds /\ a.held = x.held
        /\ a.asks = x.asks /\ a.dirty = x.dirty /\ a.reset = x.reset /\ a.on = x.on /\ a.out = x.out
    BY <1>1, <1>5 DEF Page
  <1>7. /\ z \in Page /\ z.v = m.v /\ z.base = base /\ z.epoch = m.epoch
        /\ z.id = x.id /\ z.seq = x.seq /\ z.outbox = a.outbox
        /\ z.answered = x.answered /\ z.holds = x.holds /\ z.held = x.held
        /\ z.asks = x.asks /\ z.dirty = x.dirty /\ z.reset = x.reset
        /\ z.on = x.on /\ z.out = x.out /\ z.puts = a.puts
    BY <1>2, <1>5, <1>6 DEF Page, Right
  <1> HIDE DEF z
  <1>8. Based(z, recs, b)
    BY <1>7, BaseWriteIs DEF Right
  <1> HIDE DEF b
  <1>9. b \in Page /\ b = [z EXCEPT !.dirty = b.dirty, !.puts = b.puts]
        /\ (b.dirty => adapter = "document" \/ z.dirty)
    BY <1>8 DEF Based
  <1>10. /\ b.v = m.v /\ b.base = base /\ b.epoch = m.epoch
         /\ b.id = x.id /\ b.seq = x.seq /\ b.outbox = a.outbox
         /\ b.answered = x.answered /\ b.holds = x.holds /\ b.held = x.held
         /\ b.asks = x.asks /\ b.reset = x.reset /\ b.on = x.on /\ b.out = x.out
    BY <1>7, <1>9 DEF Page
  <1>11. live \in Seq(Op) /\ Ascends(live) /\ Elements(live) = Elements(b.outbox)
    <2>1. b.outbox \in Seq(Op) /\ Ascends(b.outbox)
      BY <1>5, <1>9, <1>10 DEF Page
    <2>2. /\ live \in Seq(Op) /\ Ascends(live)
          /\ Elements(live) = Elements(b.outbox) \cap {o \in Elements(b.outbox) : o.seq > b.answered}
      BY <2>1, KeptIs
    <2>3. \A o \in Elements(b.outbox) : o.seq > b.answered
      <3> SUFFICES ASSUME NEW o \in Elements(x.outbox), o.seq > m.seq PROVE o.seq > x.answered
        BY <1>5, <1>10
      <3> QED BY <1>1, <1>3 DEF Right
    <2> QED BY <2>2, <2>3
  <1> HIDE DEF live
  <1>12. w \in Seq(UpMessage)
    <2>1. DOMAIN live = 1 .. Len(live) /\ Len(live) \in Nat
      BY <1>11
    <2>2. \A i \in 1 .. Len(live) : [t |-> "op", op |-> live[i]] \in UpMessage
      <3>1. \A i \in 1 .. Len(live) : live[i] \in Op
        BY <1>11
      <3> QED BY <3>1 DEF UpMessage, OpMessage
    <2>3. w \in [1 .. Len(live) -> UpMessage]
      BY <2>1, <2>2
    <2> QED BY <2>1, <2>3, FunctionSeq
  <1>13. CaughtUp(x, m, base, recs) = y
    <2>1. CaughtUp(x, m, base, recs)
            = Sent([b EXCEPT !.synced = TRUE,
                     !.reset = b.reset \/ (x.epoch # 0 /\ x.v > 0 /\ m.epoch # x.epoch)], w)
      BY DEF CaughtUp, a, z, b, live
    <2> HIDE DEF w
    <2>2. Sent([b EXCEPT !.synced = TRUE, !.reset = reset], w) = y
      BY <1>9, <1>10 DEF Sent, Page
    <2> QED BY <1>10, <2>1, <2>2
  <1>14. x.out \o w \in Seq(UpMessage)
    <2> HIDE DEF w
    <2> QED BY <1>1, <1>12, ConcatProperties
  <1>15. up \o (x.out \o w) = (up \o x.out) \o w
    <2> DEFINE q == x.out
    <2>1. q \in Seq(UpMessage) /\ w \in Seq(UpMessage)
      BY <1>1, <1>12
    <2> HIDE DEF q, w
    <2>2. up \o (q \o w) = (up \o q) \o w
      BY ONLY <2>1, up \in Seq(UpMessage), ConcatAssociative
    <2> QED BY <2>2 DEF q
  <1>16. reset \in BOOLEAN
    BY <1>1 DEF Page
  <1>17. /\ y \in Page /\ y.v = m.v /\ y.base = base /\ y.epoch = m.epoch
         /\ y.id = x.id /\ y.seq = x.seq /\ y.outbox = a.outbox
         /\ y.answered = x.answered /\ y.holds = x.holds /\ y.held = x.held
         /\ y.asks = x.asks /\ y.on = x.on /\ y.out = x.out \o w /\ y.synced /\ y.reset = reset
         /\ y.dirty = b.dirty /\ y.puts = b.puts
    <2> HIDE DEF w, reset
    <2> QED BY <1>9, <1>10, <1>14, <1>16 DEF Page
  <1>18. Keeps(b, y)
    BY <1>10, <1>17 DEF Keeps
  <1> HIDE DEF y
  <1>19. Whole(base, m.v, m.epoch, lives)
    <2>1. m.epoch \in 0 .. Len(lives) /\ m.epoch # 0
      BY <1>2 DEF Right
    <2> QED BY <2>1 DEF Right, Whole, Now
  <1>20. PageOK(y, lives, pages)
    BY <1>1, <1>5, <1>17, <1>19 DEF PageOK, Owns
  <1>21. Backed(adapter, remade, lives, disk, writes \o y.puts, y)
    <2>1. /\ a.id = z.id /\ a.seq = z.seq /\ a.outbox = z.outbox /\ a.base \in Rows
          /\ \A r \in Records \ recs : z.base[r] = a.base[r]
      BY <1>5, <1>6, <1>7 DEF Right, Page
    <2>2. Whole(z.base, z.v, z.epoch, lives) /\ Backed(adapter, remade, lives, disk, writes \o z.puts, a)
      BY <1>5, <1>7, <1>19
    <2>3. Backed(adapter, remade, lives, disk, writes \o b.puts, b)
      BY <1>8, <2>1, <2>2 DEF Based
    <2>4. Backed(adapter, remade, lives, disk, writes \o y.puts, b)
      BY <1>17, <2>3
    <2> QED BY <1>18, <2>4, BackedKeeps
  <1>22. y.dirty => adapter = "document"
    BY <1>7, <1>9, <1>17 DEF Ready
  <1>23. y.reset \/ Explains(Elements(y.outbox), y.v, y.epoch, un, lives)
    <2> SUFFICES ASSUME ~reset PROVE un \ {o.n : o \in Elements(a.outbox)}
                                       \subseteq IF m.v = 0 THEN {} ELSE Numbers(h)
      BY <1>17 DEF Explains, Right, Now
    <2>1. Explains(Elements(x.outbox), x.v, x.epoch, un, lives)
      BY DEF Ready
    <2>2. x.v = 0 \/ x.epoch = Len(lives)
      <3>1. x.epoch = 0 => x.v = 0
        BY <1>1 DEF PageOK, Whole
      <3> QED BY <1>1, <3>1 DEF Right
    <2>3. un \ {o.n : o \in Elements(x.outbox)} \subseteq IF m.v = 0 THEN {} ELSE Numbers(h)
      <3>1. CASE x.v = 0
        BY <2>1, <3>1 DEF Explains
      <3>2. CASE x.v # 0
        <4>1. m.v > 0 /\ x.epoch = Len(lives)
          BY <1>1, <2>2, <3>2 DEF Right
        <4>2. m.v # 0
          BY <4>1
        <4> QED BY <2>1, <3>2, <4>1, <4>2 DEF Explains, Now
      <3> QED BY <3>1, <3>2
    <2>4. ASSUME NEW o \in Elements(x.outbox), o \notin Elements(a.outbox)
          PROVE  m.v # 0 /\ o.n \in Numbers(h)
      <3>1. o.seq <= m.seq
        BY <1>1, <1>3, <1>5, <2>4 DEF Right
      <3>2. Has(h, m.v, o)
        BY <3>1 DEF Covered, Right
      <3>3. PICK j \in 1 .. m.v : h[j].n = o.n
        BY <3>2 DEF Has
      <3>4. j \in DOMAIN h /\ m.v # 0
        BY <1>2 DEF Right
      <3> HIDE DEF h
      <3> QED BY <3>3, <3>4 DEF Numbers
    <2> HIDE DEF h
    <2> QED BY <2>3, <2>4
  <1>24. Idle(y)
    BY <1>17 DEF Idle, Ready
  <1>25. Flow(y, s, 0, up \o y.out, lives, sess)
    <2> DEFINE u == up \o x.out
    <2>0. /\ Chained(s, 0, lives, sess) /\ sess /\ Downward(x, s, 0, lives)
          /\ Upward(x, s, 0, u, lives, sess)
          /\ x.synced => x.epoch = Len(lives)
          /\ \A i \in 1 .. Len(s) : ~Answers(s[i])
          /\ \A i \in 1 .. Len(u) : u[i].t # "hello"
      BY DEF Ready
    <2>1. Len(lives) # 0
      BY <1>2
    <2>2. y.epoch = Len(lives) /\ Start(s, lives) <= y.v
      BY <1>17 DEF Right
    <2>3. Elements(y.outbox) \subseteq Elements(x.outbox)
      BY <1>5, <1>17
    <2>4. \A o \in Elements(y.outbox) : o.by = x.id /\ o.seq \in 1 .. x.seq
      BY <1>3, <2>3
    <2>5. Elements(live) = Elements(y.outbox)
      BY <1>10, <1>11, <1>17
    <2>6. y.id = x.id /\ y.seq = x.seq /\ y.answered = x.answered /\ y.synced
      BY <1>17
    <2> HIDE DEF u
    <2>7. Talk(y, s, 0, u \o w, lives, sess)
      BY <1>11, <2>0, <2>1, <2>2, <2>3, <2>4, <2>5, <2>6, CaughtUpTalk
    <2>8. Talk(y, s, 0, up \o y.out, lives, sess)
      BY <1>15, <1>17, <2>7 DEF u
    <2> QED BY <1>24, <2>8, IdleAsking DEF Flow, Talk
  <1>26. Fine(y, s, 0, un)
    BY <1>20, <1>21, <1>22, <1>23, <1>25 DEF Fine
  <1> QED BY <1>13, <1>17, <1>24, <1>26

\* An answer is next: the client is ready for it.
LEMMA AnswerReady ==
  ASSUME NEW x, NEW s, NEW k, NEW un, Fine(x, s, k, un), Idle(x), s # <<>>, Answers(s[1])
  PROVE  /\ k = 0 /\ Ready(x, Tail(s), un) /\ AnswerOK(x, s[1], lives)
         /\ s[1].v \in Nat /\ s[1].v <= Len(Now(lives)) /\ s[1] \in DownMessage
         /\ Start(Tail(s), lives) = s[1].v
         /\ x.synced => s[1].v <= x.v
         /\ Tail(s) \in Seq(DownMessage)
  <1> DEFINE m == s[1]
             u == up \o x.out
  <1>1. /\ Chained(s, k, lives, sess) /\ Downward(x, s, k, lives) /\ InTouch(x, s, k, lives, sess)
        /\ Upward(x, s, k, u, lives, sess)
    BY DEF Fine, Flow
  <1>2. /\ s \in Seq(DownMessage) /\ k \in 0 .. Len(s) /\ 1 \in 1 .. Len(s) /\ m \in DownMessage
        /\ (k # 1 => m.v \in Nat) /\ (k = 0 => m.v <= Len(Now(lives)))
    BY FirstIs
  <1> HIDE DEF m, u
  <1>3. /\ 1 > k /\ AnswerOK(x, m, lives)
        /\ \A j \in 1 .. Len(s) : Answers(s[j]) => 1 = j
    BY <1>1, <1>2 DEF Downward, m
  <1>4. k = 0 /\ Len(s) \in Nat /\ NextEnd(k) = 0
    <2>1. Len(s) \in Nat
      BY <1>2, TailIs
    <2>2. k = 0
      BY <1>2, <1>3, <2>1
    <2> QED BY <2>1, <2>2 DEF NextEnd
  <1>5. /\ Tail(s) \in Seq(DownMessage) /\ Len(Tail(s)) = Len(s) - 1
        /\ \A i \in 1 .. Len(s) - 1 : Tail(s)[i] = s[i + 1]
    BY <1>2, TailIs
  <1>6. Chained(Tail(s), 0, lives, sess) /\ Start(Tail(s), lives) = m.v
    BY <1>1, <1>4, TailChained DEF m
  <1>7. sess
    <2>1. Len(s) # k
      BY <1>2, <1>4
    <2> QED BY <1>1, <2>1 DEF Chained
  <1>8. Downward(x, Tail(s), 0, lives)
    BY <1>1, <1>2, <1>4, TailDownward
  <1>9. Upward(x, Tail(s), 0, u, lives, sess)
    BY <1>1, <1>2, <1>4, TailUpward
  <1>10. x.synced => x.epoch = Len(lives) /\ m.v <= x.v
    <2> SUFFICES ASSUME x.synced PROVE x.epoch = Len(lives) /\ m.v <= x.v
      OBVIOUS
    <2>1. x.epoch = Len(lives) /\ Start(s, lives) <= x.v
      BY <1>1, <1>4 DEF InTouch
    <2>2. m.t # "patch"
      BY DEF Answers, m
    <2> QED BY <2>1, <2>2 DEF Start, From, m
  <1>11. ASSUME NEW i \in 1 .. Len(Tail(s)) PROVE ~Answers(Tail(s)[i])
    <2>1. i \in 1 .. Len(s) - 1 /\ i + 1 \in 1 .. Len(s) /\ i + 1 # 1
      BY <1>4, <1>5
    <2> QED BY <1>3, <1>5, <2>1
  <1>12. ASSUME NEW i \in 1 .. Len(u) PROVE u[i].t # "hello"
    <2>1. u[i].t = "hello" => ~Answers(s[1])
      BY <1>1, <1>2 DEF Upward
    <2> QED BY <2>1
  <1>13. Ready(x, Tail(s), un)
    BY <1>6, <1>7, <1>8, <1>9, <1>10, <1>11, <1>12 DEF Ready, Fine, u
  <1> QED BY <1>2, <1>3, <1>4, <1>5, <1>6, <1>10, <1>13 DEF m

\* A snapshot, or a delta.
LEMMA AnswerFine ==
  ASSUME NEW x, NEW s, NEW k, NEW un, Fine(x, s, k, un), Idle(x), s # <<>>,
         s[1].t \in {"snapshot", "delta"},
         Lives(lives, pages), writes \in Seq(Write), up \in Seq(UpMessage)
  PROVE  /\ k = 0
         /\ Fine(Handle(x, s[1]), Tail(s), 0, un) /\ Idle(Handle(x, s[1]))
         /\ Handle(x, s[1]).synced
  <1> DEFINE m == s[1]
             h == Now(lives)
  <1>1. Answers(m)
    BY DEF Answers
  <1>2. /\ k = 0 /\ Ready(x, Tail(s), un) /\ AnswerOK(x, m, lives)
        /\ m.v \in Nat /\ m.v <= Len(h) /\ m \in DownMessage
        /\ Start(Tail(s), lives) = m.v
        /\ x.synced => m.v <= x.v
    BY <1>1, AnswerReady
  <1>3. ~x.holds /\ PageOK(x, lives, pages) /\ x \in Page /\ x.v \in Nat /\ x.base \in Rows
    BY DEF Idle, Fine, PageOK, Page
  <1>4. h \in Seq(Op) /\ Len(lives) # 0 /\ m.v \in 0 .. Len(h) /\ Len(h) \in Nat
    <2>1. Len(lives) \in 1 .. Len(lives)
      BY DEF Lives
    <2>2. h \in Seq(Op) /\ Len(lives) # 0
      BY <2>1 DEF Lives, Now
    <2> QED BY <1>2, <2>2
  <1> HIDE DEF h, m
  <1>5. CASE m.t = "snapshot"
    <2>1. Handle(x, m) = CaughtUp(x, m, m.base, Records)
      BY <1>3, <1>5 DEF Handle
    <2>2. m \in Snapshot
      BY <1>2, <1>5, DownKinds
    <2>3. m.base = StateOf(UpTo(h, m.v))
      BY <1>2, <1>5 DEF AnswerOK, h
    <2>4. AsOf(m.base, m.v, h)
      BY <1>4, <2>3, SnapshotIsAsOf
    <2>5. Records \in SUBSET Records /\ \A r \in Records \ Records : m.base[r] = x.base[r]
      OBVIOUS
    <2>6. m.seq \in Nat /\ m.base \in Rows
      BY <2>2 DEF Snapshot
    <2>7. Right(x, m, m.base, Records, Tail(s))
      BY <1>2, <2>4, <2>5, <2>6 DEF AnswerOK, Right, h
    <2>8. LET y == CaughtUp(x, m, m.base, Records)
          IN  Fine(y, Tail(s), 0, un) /\ Idle(y) /\ y.synced /\ y.v = m.v
      BY <1>2, <2>7, CaughtUpFine
    <2> QED BY <1>2, <2>1, <2>8 DEF m
  <1>6. CASE m.t = "delta"
    <2>1. Handle(x, m) = CaughtUp(x, m, Laid(x.base, m.ops), Touched(m.ops))
      BY <1>3, <1>6 DEF Handle
    <2>2. m \in Delta
      BY <1>2, <1>6, DownKinds
    <2>3. m.ops \in Seq(Op) /\ m.seq \in Nat
      BY <2>2 DEF Delta
    <2>4. x.epoch = Len(lives)
      BY <1>2, <1>6 DEF AnswerOK
    <2>5. PICK since \in 0 .. m.v : m.ops = SubSeq(h, since + 1, m.v) /\ (x.synced \/ since = x.v)
      BY <1>2, <1>6 DEF AnswerOK, h
    <2>6. since <= x.v
      BY <1>2, <1>3, <2>5
    <2>7. AsOf(x.base, x.v, h)
      BY <1>3, <1>4, <2>4 DEF PageOK, Whole, Now, h
    <2>8. AsOf(Laid(x.base, m.ops), m.v, h)
      BY <1>3, <1>4, <2>5, <2>6, <2>7, LaidIsAsOf
    <2>9. Laid(x.base, m.ops) \in Rows
      BY <1>3, <2>3, LaidRows
    <2>10. Touched(m.ops) \in SUBSET Records
      <3>1. \A i \in DOMAIN m.ops : m.ops[i] \in Op
        BY <2>3
      <3> QED BY <3>1 DEF Touched, Op
    <2>11. ASSUME NEW r \in Records \ Touched(m.ops) PROVE Laid(x.base, m.ops)[r] = x.base[r]
      <3>1. \A i \in DOMAIN m.ops : r \notin m.ops[i].recs
        BY <2>11 DEF Touched
      <3>2. \A i \in 0 + 1 .. Len(m.ops) : i \in DOMAIN m.ops
        BY <2>3
      <3>3. NoneAfter(m.ops, 0, r)
        BY <3>1, <3>2 DEF NoneAfter
      <3> QED BY <2>3, <3>3, LaidIs
    <2>12. Right(x, m, Laid(x.base, m.ops), Touched(m.ops), Tail(s))
      BY <1>2, <2>3, <2>8, <2>9, <2>10, <2>11 DEF AnswerOK, Right, h
    <2>13. LET y == CaughtUp(x, m, Laid(x.base, m.ops), Touched(m.ops))
           IN  Fine(y, Tail(s), 0, un) /\ Idle(y) /\ y.synced /\ y.v = m.v
      BY <1>2, <2>12, CaughtUpFine
    <2> QED BY <1>2, <2>1, <2>13 DEF m
  <1> QED BY <1>5, <1>6 DEF m

\* What was asked for is asked for no more.
LEMMA CancelledIs ==
  ASSUME NEW x \in Page
  PROVE  /\ Cancelled(x) \in Page /\ Idle(Cancelled(x)) /\ Cancelled(x).held = <<>>
         /\ Cancelled(x) = [x EXCEPT !.holds = FALSE, !.held = <<>>, !.asks = Cancelled(x).asks]
         /\ \A q \in Cancelled(x).asks : ~q.mine
  <1> DEFINE A == {[q EXCEPT !.mine = FALSE] : q \in x.asks}
  <1>1. A \in SUBSET Request
    <2>1. \A q \in x.asks : q \in Request
      BY DEF Page
    <2>2. \A q \in Request : [q EXCEPT !.mine = FALSE] \in Request
      BY DEF Request
    <2> QED BY <2>1, <2>2
  <1>2. \A q \in A : ~q.mine
    <2>1. \A q \in x.asks : q \in Request
      BY DEF Page
    <2>2. \A q \in Request : ~[q EXCEPT !.mine = FALSE].mine
      BY DEF Request
    <2> QED BY <2>1, <2>2
  <1>3. Cancelled(x) = [x EXCEPT !.holds = FALSE, !.held = <<>>, !.asks = A]
    BY DEF Cancelled, Page
  <1> HIDE DEF A
  <1>4. <<>> \in Seq(DownMessage)
    OBVIOUS
  <1> DEFINE y == Cancelled(x)
  <1>5. y \in Page /\ y.holds = FALSE /\ y.held = <<>> /\ y.asks = A
    BY <1>1, <1>3, <1>4 DEF Page
  <1> HIDE DEF y
  <1>6. Idle(y)
    BY <1>2, <1>5 DEF Idle
  <1> QED BY <1>2, <1>3, <1>5, <1>6 DEF y

\* Where a snapshot is to be fetched: it is asked for, and what comes waits.
LEMMA PointerFine ==
  ASSUME NEW x, NEW s, NEW k, NEW un, Fine(x, s, k, un), Idle(x), s # <<>>, s[1].t = "pointer",
         Lives(lives, pages)
  PROVE  k = 0 /\ Fine(Asked(x, s[1]), Tail(s), 0, un) /\ Asked(x, s[1]).held = <<>>
         /\ Asked(x, s[1]) \in Page /\ Asked(x, s[1]).out = x.out
  <1> DEFINE m == s[1]
             u == up \o x.out
             z == Cancelled(x)
             q == [mine |-> TRUE, at |-> "sent", seq |-> m.seq, epoch |-> m.epoch,
                   life |-> 0, v |-> 0, base |-> Nowhere]
             y == [z EXCEPT !.holds = TRUE, !.asks = z.asks \cup {q}]
  <1>1. Answers(m)
    BY DEF Answers
  <1>2. /\ k = 0 /\ Ready(x, Tail(s), un) /\ AnswerOK(x, m, lives)
        /\ m.v \in Nat /\ m.v <= Len(Now(lives)) /\ m \in DownMessage
        /\ Start(Tail(s), lives) = m.v
        /\ (x.synced => m.v <= x.v) /\ Tail(s) \in Seq(DownMessage)
    BY <1>1, AnswerReady
  <1>3. x \in Page /\ PageOK(x, lives, pages)
    BY DEF Fine, PageOK
  <1>4. m \in Pointer
    BY <1>2, DownKinds
  <1>5. Asked(x, m) = y
    BY DEF Asked
  <1>6. q \in Request
    <2>1. m.seq \in Nat /\ m.epoch \in Nat
      BY <1>4 DEF Pointer
    <2> QED BY <2>1 DEF Request
  <1>7. q.mine /\ q.at = "sent" /\ q.seq = m.seq
    OBVIOUS
  <1>8. /\ z \in Page /\ z = [x EXCEPT !.holds = FALSE, !.held = <<>>, !.asks = z.asks]
        /\ z.held = <<>> /\ \A r \in z.asks : ~r.mine
    BY <1>3, CancelledIs
  <1> HIDE DEF q, z
  <1>9. /\ y \in Page /\ y.holds /\ y.asks = z.asks \cup {q} /\ y.held = <<>>
        /\ y.id = x.id /\ y.seq = x.seq /\ y.outbox = x.outbox /\ y.v = x.v /\ y.epoch = x.epoch
        /\ y.synced = x.synced /\ y.answered = x.answered /\ y.base = x.base
        /\ y.dirty = x.dirty /\ y.reset = x.reset /\ y.on = x.on /\ y.out = x.out /\ y.puts = x.puts
    <2> DEFINE A == z.asks \cup {q}
    <2>1. A \in SUBSET Request
      <3>1. z.asks \in SUBSET Request
        BY <1>8 DEF Page
      <3> QED BY <1>6, <3>1
    <2> HIDE DEF A
    <2>2. <<>> \in Seq(DownMessage)
      OBVIOUS
    <2>3. /\ z.id = x.id /\ z.seq = x.seq /\ z.outbox = x.outbox /\ z.v = x.v /\ z.epoch = x.epoch
          /\ z.synced = x.synced /\ z.answered = x.answered /\ z.base = x.base /\ z.held = <<>>
          /\ z.dirty = x.dirty /\ z.reset = x.reset /\ z.on = x.on /\ z.out = x.out /\ z.puts = x.puts
      BY <1>3, <1>8 DEF Page
    <2>4. y = [z EXCEPT !.holds = TRUE, !.asks = A]
      BY DEF A
    <2> HIDE DEF y
    <2>5. y \in Page
      BY <1>8, <2>1, <2>4 DEF Page
    <2>6. /\ y.holds /\ y.asks = A /\ y.held = z.held
          /\ y.id = z.id /\ y.seq = z.seq /\ y.outbox = z.outbox /\ y.v = z.v /\ y.epoch = z.epoch
          /\ y.synced = z.synced /\ y.answered = z.answered /\ y.base = z.base
          /\ y.dirty = z.dirty /\ y.reset = z.reset /\ y.on = z.on /\ y.out = z.out /\ y.puts = z.puts
      BY <1>8, <2>4 DEF Page
    <2> QED BY <2>3, <2>5, <2>6 DEF A
  <1> HIDE DEF y, u, m
  <1>10. Talk(y, Tail(s), 0, u, lives, sess)
    <2>1. Talk(x, s, k, u, lives, sess)
      BY DEF Fine, Flow, Talk, u
    <2>2. Talk(x, Tail(s), NextEnd(k), u, lives, sess)
      BY <1>2, <2>1, PassTalk DEF m
    <2>3. NextEnd(k) = 0
      BY <1>2 DEF NextEnd
    <2>4. Alike(x, y)
      BY <1>9 DEF Alike
    <2> QED BY <2>2, <2>3, <2>4, AlikeTalk
  <1>11. RequestOK(y, q, Tail(s), lives)
    <2>1. /\ x.answered <= m.seq /\ m.seq <= x.seq /\ Covered(x, m.seq, Now(lives), m.v)
      BY <1>2 DEF AnswerOK
    <2>2. Covered(x, m.seq, Now(lives), Len(Now(lives)))
      <3>1. \A o : Has(Now(lives), m.v, o) => Has(Now(lives), Len(Now(lives)), o)
        <4>1. Len(lives) \in 1 .. Len(lives)
          BY DEF Lives
        <4>2. Len(Now(lives)) \in Nat
          BY <4>1 DEF Lives, Now
        <4>3. \A j \in 1 .. m.v : j \in 1 .. Len(Now(lives))
          BY <1>2, <4>2
        <4> QED BY <4>3 DEF Has
      <3> QED BY <2>1, <3>1 DEF Covered
    <2>3. Covered(y, m.seq, Now(lives), Len(Now(lives)))
      BY <1>9, <2>2 DEF Covered
    <2> QED BY <1>7, <1>9, <2>1, <2>3 DEF RequestOK
  <1>12. Asking(y, Tail(s), 0, u, lives, sess)
    <2>1. \A r \in y.asks : r.mine => r = q
      BY <1>8, <1>9
    <2>2. /\ sess /\ \A i \in 1 .. Len(Tail(s)) : ~Answers(Tail(s)[i])
          /\ \A i \in 1 .. Len(u) : u[i].t # "hello"
      BY <1>2 DEF Ready, u
    <2>3. \A i \in 1 .. Len(y.held) : y.held[i].t # "closed"
      <3>1. Len(y.held) = 0
        BY <1>9
      <3>2. \A i \in 1 .. 0 : FALSE
        OBVIOUS
      <3> QED BY <3>1, <3>2
    <2> QED BY <1>9, <1>11, <2>1, <2>2, <2>3 DEF Asking
  <1>13. Flow(y, Tail(s), 0, u, lives, sess)
    BY <1>10, <1>12 DEF Flow, Talk
  <1>14. Backed(adapter, remade, lives, disk, writes \o y.puts, y)
    <2>1. Backed(adapter, remade, lives, disk, writes \o y.puts, x)
      BY <1>9 DEF Fine
    <2>2. Keeps(x, y)
      BY <1>9 DEF Keeps
    <2> QED BY <2>1, <2>2, BackedKeeps
  <1>15. Fine(y, Tail(s), 0, un)
    BY <1>3, <1>9, <1>13, <1>14 DEF Fine, PageOK, u
  <1> QED BY <1>2, <1>5, <1>9, <1>15 DEF m

\* The client hears that the store ended: what is left, r, is what was said after it.
LEMMA EndedTalk ==
  ASSUME NEW x, NEW y, NEW s, NEW k, NEW r \in Seq(DownMessage), NEW u, NEW ls, NEW ss,
         Talk(x, s, k, u, ls, ss), k \in 1 .. Len(s), Len(r) = Len(s) - k,
         \A i \in 1 .. Len(r) : r[i] = s[k + i],
         y.id = x.id, y.seq = x.seq, y.outbox = x.outbox, y.v = x.v, y.epoch = x.epoch,
         ~y.synced, y.answered = x.answered
  PROVE  Talk(y, r, 0, u, ls, ss)
  <1>1. /\ Chained(s, k, ls, ss) /\ Downward(x, s, k, ls) /\ InTouch(x, s, k, ls, ss)
        /\ Upward(x, s, k, u, ls, ss)
    BY DEF Talk
  <1>2. s \in Seq(DownMessage) /\ Len(s) \in Nat /\ Len(r) \in Nat /\ k \in Nat
    BY <1>1 DEF Chained
  <1>3. Chained(r, 0, ls, ss)
    <2>1. 0 \in 0 .. Len(r)
      BY <1>2
    <2>2. \A i \in 1 .. Len(r) : r[i].t = "closed" <=> i = 0
      <3> SUFFICES ASSUME NEW i \in 1 .. Len(r) PROVE r[i].t # "closed" /\ i # 0
        OBVIOUS
      <3>1. k + i \in 1 .. Len(s) /\ k + i # k /\ i # 0
        BY <1>2
      <3>2. s[k + i].t # "closed"
        BY <1>1, <3>1 DEF Chained
      <3> QED BY <3>1, <3>2
    <2>3. \A i \in 1 .. Len(r) - 1 : From(r[i + 1]) = r[i].v
      <3> SUFFICES ASSUME NEW i \in 1 .. Len(r) - 1 PROVE From(r[i + 1]) = r[i].v
        OBVIOUS
      <3>1. /\ k + i \in 1 .. Len(s) - 1 /\ k + i # k /\ (k + i) + 1 # k
            /\ (k + i) + 1 = k + (i + 1) /\ i + 1 \in 1 .. Len(r) /\ i \in 1 .. Len(r)
        BY <1>2
      <3>2. From(s[(k + i) + 1]) = s[k + i].v
        BY <1>1, <3>1 DEF Chained
      <3> QED BY <3>1, <3>2
    <2>4. Len(r) # 0 => ss /\ r[Len(r)].v = Len(Now(ls))
      <3> SUFFICES ASSUME Len(r) # 0 PROVE ss /\ r[Len(r)].v = Len(Now(ls))
        OBVIOUS
      <3>1. Len(r) \in 1 .. Len(r) /\ k + Len(r) = Len(s) /\ Len(s) # k
        BY <1>2
      <3> QED BY <1>1, <3>1 DEF Chained
    <2>5. \A i \in 0 + 1 .. Len(r) : r[i].v <= Len(Now(ls))
      <3> SUFFICES ASSUME NEW i \in 1 .. Len(r) PROVE r[i].v <= Len(Now(ls))
        OBVIOUS
      <3>1. k + i \in k + 1 .. Len(s)
        BY <1>2
      <3> QED BY <1>1, <3>1 DEF Chained
    <2> QED BY <2>1, <2>2, <2>3, <2>4, <2>5 DEF Chained
  <1>4. x.epoch < Len(ls)
    BY <1>1, <1>2 DEF InTouch
  <1>5. Len(ls) # x.epoch
    <2>1. x.epoch # Len(ls) \/ x.epoch = Len(ls)
      OBVIOUS
    <2> QED BY <1>4
  <1>6. \A seq, h, n : Covered(x, seq, h, n) => Covered(y, seq, h, n)
    BY DEF Covered
  <1>7. Downward(y, r, 0, ls)
    <2> SUFFICES ASSUME NEW i \in 1 .. Len(r)
        PROVE  /\ r[i].t = "patch" => PatchOK(y, r[i], i < 0, ls)
               /\ r[i].t = "ack" => AckOK(y, r[i], ls)
               /\ Answers(r[i]) => /\ i > 0 /\ AnswerOK(y, r[i], ls)
                                   /\ i > 0 + 1 => r[i].v > 0
                                   /\ \A j \in 1 .. Len(r) : Answers(r[j]) => i = j
      BY DEF Downward
    <2>1. r[i] = s[k + i] /\ k + i \in 1 .. Len(s) /\ ~(k + i < k) /\ k # 0
      BY <1>2
    <2>2. /\ s[k + i].t = "patch" => PatchOK(x, s[k + i], k + i < k, ls)
          /\ s[k + i].t # "ack"
          /\ Answers(s[k + i]) => /\ AnswerOK(x, s[k + i], ls)
                                  /\ k + i > k + 1 => s[k + i].v > 0
                                  /\ \A j \in 1 .. Len(s) : Answers(s[j]) => k + i = j
      BY <1>1, <2>1 DEF Downward
    <2>3. PatchOK(x, r[i], k + i < k, ls) => PatchOK(y, r[i], i < 0, ls)
      BY <2>1 DEF PatchOK
    <2>4. AnswerOK(x, r[i], ls) => AnswerOK(y, r[i], ls)
      BY <1>5, <1>6 DEF AnswerOK
    <2>5. ASSUME Answers(r[i]), NEW j \in 1 .. Len(r), Answers(r[j]) PROVE i = j
      <3>1. k + j \in 1 .. Len(s) /\ Answers(s[k + j])
        BY <1>2, <2>5
      <3>2. k + i = k + j
        BY <2>1, <2>2, <2>5, <3>1
      <3> QED BY <1>2, <3>2
    <2>6. i > 0 + 1 => k + i > k + 1
      BY <1>2
    <2> QED BY <2>1, <2>2, <2>3, <2>4, <2>5, <2>6
  <1>8. InTouch(y, r, 0, ls, ss)
    BY DEF InTouch
  <1>9. Upward(y, r, 0, u, ls, ss)
    <2>1. \A m : HelloOK(x, m, ls) => HelloOK(y, m, ls)
      BY <1>5 DEF HelloOK
    <2>2. \A i \in 1 .. Len(u) : u[i].t # "op"
      BY <1>1, <1>2 DEF Upward, OpOK
    <2>3. (\A j \in 1 .. Len(s) : ~Answers(s[j])) => \A j \in 1 .. Len(r) : ~Answers(r[j])
      <3>1. \A j \in 1 .. Len(r) : k + j \in 1 .. Len(s)
        BY <1>2
      <3> QED BY <3>1
    <2> QED BY <1>1, <2>1, <2>2, <2>3 DEF Upward
  <1> QED BY <1>3, <1>7, <1>8, <1>9 DEF Talk

\* So what waited for a snapshot is dropped, and the client is to say its hello again.
LEMMA EndFine ==
  ASSUME NEW x, NEW p \in Seq(DownMessage), NEW d \in Seq(DownMessage), NEW k, NEW un,
         Fine(x, p \o d, k, un), d # <<>>, d[1].t = "closed"
  PROVE  LET y == [Cancelled(x) EXCEPT !.synced = FALSE, !.retry = TRUE]
         IN  /\ Fine(y, Tail(d), 0, un) /\ y \in Page /\ y.held = <<>> /\ Idle(y)
             /\ y.out = x.out /\ y.reset = x.reset
  <1> DEFINE s == p \o d
             r == Tail(d)
             u == up \o x.out
             z == Cancelled(x)
             y == [z EXCEPT !.synced = FALSE, !.retry = TRUE]
  <1>1. x \in Page /\ PageOK(x, lives, pages)
    BY DEF Fine, PageOK
  <1>2. /\ s \in Seq(DownMessage) /\ Len(s) = Len(p) + Len(d) /\ Len(p) \in Nat /\ Len(d) \in Nat
        /\ \A i \in 1 .. Len(d) : s[Len(p) + i] = d[i]
    BY ConcatIs
  <1>3. /\ r \in Seq(DownMessage) /\ Len(d) >= 1 /\ Len(r) = Len(d) - 1
        /\ \A i \in 1 .. Len(d) - 1 : r[i] = d[i + 1]
    BY TailIs
  <1> HIDE DEF s, r
  <1>4. Talk(x, s, k, u, lives, sess)
    BY DEF Fine, Flow, Talk, u, s
  <1>5. k = Len(p) + 1
    <2>1. 1 \in 1 .. Len(d) /\ Len(p) + 1 \in 1 .. Len(s)
      BY <1>2, <1>3
    <2>2. s[Len(p) + 1].t = "closed"
      BY <1>2, <2>1
    <2> QED BY <1>4, <2>1, <2>2 DEF Talk, Chained
  <1>6. k \in 1 .. Len(s) /\ Len(r) = Len(s) - k /\ \A i \in 1 .. Len(r) : r[i] = s[k + i]
    <2>1. k \in 1 .. Len(s) /\ Len(r) = Len(s) - k
      BY <1>2, <1>3, <1>5
    <2> SUFFICES ASSUME NEW i \in 1 .. Len(r) PROVE r[i] = s[k + i]
      BY <2>1
    <2>2. i \in 1 .. Len(d) - 1 /\ i + 1 \in 1 .. Len(d) /\ k + i = Len(p) + (i + 1)
      BY <1>2, <1>3, <1>5
    <2> QED BY <1>2, <1>3, <2>2
  <1>7. /\ z \in Page /\ z = [x EXCEPT !.holds = FALSE, !.held = <<>>, !.asks = z.asks]
        /\ z.held = <<>> /\ \A q \in z.asks : ~q.mine
    BY <1>1, CancelledIs
  <1> HIDE DEF z
  <1>8. /\ y \in Page /\ ~y.holds /\ y.held = <<>> /\ y.asks = z.asks
        /\ y.id = x.id /\ y.seq = x.seq /\ y.outbox = x.outbox /\ y.v = x.v /\ y.epoch = x.epoch
        /\ ~y.synced /\ y.answered = x.answered /\ y.base = x.base
        /\ y.dirty = x.dirty /\ y.reset = x.reset /\ y.on = x.on /\ y.out = x.out /\ y.puts = x.puts
    <2>1. /\ z.id = x.id /\ z.seq = x.seq /\ z.outbox = x.outbox /\ z.v = x.v /\ z.epoch = x.epoch
          /\ z.answered = x.answered /\ z.base = x.base /\ z.held = <<>> /\ ~z.holds
          /\ z.dirty = x.dirty /\ z.reset = x.reset /\ z.on = x.on /\ z.out = x.out /\ z.puts = x.puts
      BY <1>1, <1>7 DEF Page
    <2>2. y \in Page
      BY <1>7 DEF Page
    <2>3. /\ y.holds = z.holds /\ y.asks = z.asks /\ y.held = z.held /\ ~y.synced
          /\ y.id = z.id /\ y.seq = z.seq /\ y.outbox = z.outbox /\ y.v = z.v /\ y.epoch = z.epoch
          /\ y.answered = z.answered /\ y.base = z.base
          /\ y.dirty = z.dirty /\ y.reset = z.reset /\ y.on = z.on /\ y.out = z.out /\ y.puts = z.puts
      BY <1>7 DEF Page
    <2> HIDE DEF y
    <2> QED BY <2>1, <2>2, <2>3
  <1>9. y = [Cancelled(x) EXCEPT !.synced = FALSE, !.retry = TRUE]
    BY DEF z
  <1> HIDE DEF y, u
  <1>10. Talk(y, r, 0, u, lives, sess)
    <2>1. /\ Talk(x, s, k, u, lives, sess) /\ r \in Seq(DownMessage)
          /\ k \in 1 .. Len(s) /\ Len(r) = Len(s) - k /\ \A i \in 1 .. Len(r) : r[i] = s[k + i]
          /\ y.id = x.id /\ y.seq = x.seq /\ y.outbox = x.outbox /\ y.v = x.v /\ y.epoch = x.epoch
          /\ ~y.synced /\ y.answered = x.answered
      BY <1>3, <1>4, <1>6, <1>8
    <2> QED BY <2>1, EndedTalk
  <1>11. Idle(y)
    BY <1>7, <1>8 DEF Idle
  <1>12. Flow(y, r, 0, u, lives, sess)
    BY <1>10, <1>11, IdleAsking DEF Flow, Talk
  <1>13. Backed(adapter, remade, lives, disk, writes \o y.puts, y)
    <2>1. Backed(adapter, remade, lives, disk, writes \o y.puts, x)
      BY <1>8 DEF Fine
    <2>2. Keeps(x, y)
      BY <1>8 DEF Keeps
    <2> QED BY <2>1, <2>2, BackedKeeps
  <1>14. Fine(y, r, 0, un)
    <2>1. up \o y.out = u
      BY <1>8 DEF u
    <2>2. PageOK(y, lives, pages)
      BY <1>1, <1>8 DEF PageOK
    <2>3. /\ y.dirty => adapter = "document"
          /\ y.reset \/ Explains(Elements(y.outbox), y.v, y.epoch, un, lives)
      BY <1>8 DEF Fine
    <2> QED BY <1>12, <1>13, <2>1, <2>2, <2>3 DEF Fine
  <1> QED BY <1>8, <1>9, <1>11, <1>14 DEF r

\* What comes while a snapshot is fetched waits for it.
LEMMA HoldFine ==
  ASSUME NEW x, NEW p \in Seq(DownMessage), NEW d \in Seq(DownMessage), NEW k, NEW un,
         Fine(x, p \o d, k, un), x.held = p, d # <<>>, d[1].t # "closed", x.holds
  PROVE  LET y == [x EXCEPT !.held = Append(x.held, d[1])]
         IN  /\ Fine(y, y.held \o Tail(d), k, un) /\ y \in Page
             /\ y.out = x.out /\ y.reset = x.reset
  <1> DEFINE h == Append(p, d[1])
             s == p \o d
             y == [x EXCEPT !.held = h]
             u == up \o x.out
  <1>1. x \in Page /\ PageOK(x, lives, pages)
    BY DEF Fine, PageOK
  <1>2. /\ Tail(d) \in Seq(DownMessage) /\ Len(d) >= 1 /\ Len(Tail(d)) = Len(d) - 1
        /\ \A i \in 1 .. Len(d) - 1 : Tail(d)[i] = d[i + 1]
        /\ d[1] \in DownMessage
    BY TailIs
  <1>3. /\ h \in Seq(DownMessage) /\ Len(h) = Len(p) + 1
        /\ \A i \in 1 .. Len(p) : h[i] = p[i]
        /\ h[Len(p) + 1] = d[1]
    BY <1>2
  <1>4. h \o Tail(d) = s
    <2>1. d = <<d[1]>> \o Tail(d)
      BY <1>2
    <2>2. h = p \o <<d[1]>>
      BY <1>2
    <2>3. <<d[1]>> \in Seq(DownMessage)
      BY <1>2
    <2>4. (p \o <<d[1]>>) \o Tail(d) = p \o (<<d[1]>> \o Tail(d))
      BY <1>2, <2>3, ConcatAssociative
    <2> QED BY <2>1, <2>2, <2>4
  <1> HIDE DEF h, s
  <1>5. /\ y \in Page /\ y.holds = x.holds /\ y.held = h /\ y.asks = x.asks
        /\ y.id = x.id /\ y.seq = x.seq /\ y.outbox = x.outbox /\ y.v = x.v /\ y.epoch = x.epoch
        /\ y.synced = x.synced /\ y.answered = x.answered /\ y.base = x.base
        /\ y.dirty = x.dirty /\ y.reset = x.reset /\ y.on = x.on /\ y.out = x.out /\ y.puts = x.puts
    BY <1>1, <1>3 DEF Page
  <1>6. y = [x EXCEPT !.held = Append(x.held, d[1])]
    BY DEF h
  <1> HIDE DEF y
  <1>7. Talk(y, s, k, u, lives, sess)
    <2>1. Talk(x, s, k, u, lives, sess)
      BY DEF Fine, Flow, Talk, u, s
    <2>2. Alike(x, y)
      BY <1>5 DEF Alike
    <2> QED BY <2>1, <2>2, AlikeTalk
  <1>8. Asking(y, s, k, u, lives, sess)
    <2>1. Asking(x, s, k, u, lives, sess)
      BY DEF Fine, Flow, u, s
    <2>2. \A q : RequestOK(x, q, s, lives) => RequestOK(y, q, s, lives)
      BY <1>5 DEF RequestOK, Covered
    <2>3. \A i \in 1 .. Len(h) : h[i].t # "closed"
      <3> SUFFICES ASSUME NEW i \in 1 .. Len(h) PROVE h[i].t # "closed"
        OBVIOUS
      <3>1. \A j \in 1 .. Len(p) : p[j].t # "closed"
        BY <2>1 DEF Asking
      <3>2. i \in 1 .. Len(p) \/ i = Len(p) + 1
        BY <1>3
      <3> QED BY <1>3, <3>1, <3>2
    <2> QED BY <1>5, <2>1, <2>2, <2>3 DEF Asking
  <1>9. Flow(y, s, k, u, lives, sess)
    BY <1>7, <1>8 DEF Flow, Talk
  <1>10. Backed(adapter, remade, lives, disk, writes \o y.puts, y)
    <2>1. Backed(adapter, remade, lives, disk, writes \o y.puts, x)
      BY <1>5 DEF Fine
    <2>2. Keeps(x, y)
      BY <1>5 DEF Keeps
    <2> QED BY <2>1, <2>2, BackedKeeps
  <1>11. Fine(y, s, k, un)
    <2>1. up \o y.out = u
      BY <1>5 DEF u
    <2>2. PageOK(y, lives, pages)
      BY <1>1, <1>5 DEF PageOK
    <2>3. /\ y.dirty => adapter = "document"
          /\ y.reset \/ Explains(Elements(y.outbox), y.v, y.epoch, un, lives)
      BY <1>5 DEF Fine
    <2> QED BY <1>9, <1>10, <2>1, <2>2, <2>3 DEF Fine
  <1> QED BY <1>4, <1>5, <1>6, <1>11

-------------------------------------------------------------------------------
(* What waited for a snapshot.                                             *)

\* The rest of what waited, with what comes after it.
LEMMA RestIs ==
  ASSUME NEW p \in Seq(DownMessage), NEW d \in Seq(DownMessage), NEW i \in 1 .. Len(p)
  PROVE  LET s == SubSeq(p, i, Len(p)) \o d
         IN  /\ s \in Seq(DownMessage) /\ s # <<>> /\ s[1] = p[i]
             /\ Tail(s) = SubSeq(p, i + 1, Len(p)) \o d
  <1> DEFINE t == SubSeq(p, i + 1, Len(p))
             w == t \o d
             s == SubSeq(p, i, Len(p)) \o d
  <1>1. /\ Len(p) \in Nat /\ i \in 1 .. Len(p) /\ Len(p) \in i .. Len(p) /\ p[i] \in DownMessage
        /\ \A j \in i + 1 .. Len(p) : p[j] \in DownMessage
    OBVIOUS
  <1>2. SubSeq(p, i, Len(p)) = <<p[i]>> \o t
    BY <1>1, SubSeqRecursiveFirst
  <1>3. t \in Seq(DownMessage) /\ <<p[i]>> \in Seq(DownMessage)
    BY <1>1
  <1> HIDE DEF t
  <1>4. s = <<p[i]>> \o w
    BY <1>2, <1>3, ConcatAssociative
  <1>5. w \in Seq(DownMessage)
    BY <1>3
  <1> HIDE DEF w, s
  <1>6. s \in Seq(DownMessage) /\ s # <<>> /\ s[1] = p[i] /\ Tail(s) = w
    BY <1>1, <1>4, <1>5
  <1> QED BY <1>6 DEF s, w, t

\* A step of HandleHeld().
HeldStep(y, m, v) == IF m.t = "patch" /\ m.v <= v THEN y ELSE Handle(y, m)

\* The client after each of its steps.
Steps(x, p, v, f) ==
  /\ f = [i \in 0 .. Len(p) |-> f[i]] /\ f[0] = x
  /\ \A i \in 1 .. Len(p) : f[i] = HeldStep(f[i - 1], p[i], v)

\* There are such.
LEMMA StepsExist ==
  ASSUME NEW x, NEW p \in Seq(DownMessage), NEW v
  PROVE  \E f : Steps(x, p, v, f)
  <1> DEFINE n == Len(p)
             To(m, D) == /\ D = [i \in 0 .. m |-> D[i]] /\ D[0] = x
                         /\ \A i \in 1 .. m : D[i] = HeldStep(D[i - 1], p[i], v)
             T == {m \in Nat : ~\E D : To(m, D)}
  <1>1. n \in Nat
    OBVIOUS
  <1>2. T = {}
    <2> SUFFICES ASSUME T # {} PROVE FALSE
      OBVIOUS
    <2>1. T \subseteq Nat
      OBVIOUS
    <2>2. To(0, [i \in 0 .. 0 |-> x])
      OBVIOUS
    <2>3. 0 \notin T
      BY <2>2
    <2> HIDE DEF T
    <2>4. PICK m \in T : \A y \in T : m <= y
      BY <2>1, SmallestOf
    <2>5. m \in Nat /\ m # 0 /\ m - 1 \in Nat
      BY <2>1, <2>3, <2>4
    <2>6. m - 1 \notin T
      <3> SUFFICES ASSUME m - 1 \in T PROVE FALSE
        OBVIOUS
      <3>1. m <= m - 1
        BY <2>4
      <3> QED BY <2>5, <3>1
    <2>7. PICK D : To(m - 1, D)
      BY <2>5, <2>6 DEF T
    <2> DEFINE F == [i \in 0 .. m |-> IF i = m THEN HeldStep(D[m - 1], p[m], v) ELSE D[i]]
    <2>8. /\ \A i \in 0 .. m - 1 : F[i] = D[i]
          /\ F[m] = HeldStep(D[m - 1], p[m], v)
          /\ F = [i \in 0 .. m |-> F[i]]
      BY <2>5
    <2> HIDE DEF F
    <2>9. F[0] = x
      <3>1. 0 \in 0 .. m - 1
        BY <2>5
      <3> QED BY <2>7, <2>8, <3>1
    <2>10. ASSUME NEW i \in 1 .. m PROVE F[i] = HeldStep(F[i - 1], p[i], v)
      <3>1. CASE i = m
        <4>1. m - 1 \in 0 .. m - 1
          BY <2>5
        <4> QED BY <2>8, <3>1, <4>1
      <3>2. CASE i # m
        <4>1. i \in 1 .. m - 1 /\ i \in 0 .. m - 1 /\ i - 1 \in 0 .. m - 1
          BY <2>5, <3>2
        <4> QED BY <2>7, <2>8, <4>1
      <3> QED BY <3>1, <3>2
    <2>11. To(m, F)
      BY <2>8, <2>9, <2>10
    <2> QED BY <2>4, <2>11 DEF T
  <1>3. \E D : To(n, D)
    BY <1>1, <1>2
  <1> QED BY <1>3 DEF Steps

\* The client after the last of them is what HandleHeld() leaves.
LEMMA HandleHeldIs ==
  ASSUME NEW x, NEW p \in Seq(DownMessage), NEW v
  PROVE  \E f : Steps(x, p, v, f) /\ HandleHeld(x, p, v) = f[Len(p)]
  <1> DEFINE n == Len(p)
             Eq(f) == f = [i \in 0 .. n |-> IF i = 0 THEN x ELSE HeldStep(f[i - 1], p[i], v)]
             f == CHOOSE g : Eq(g)
  <1>1. n \in Nat
    OBVIOUS
  <1>2. HandleHeld(x, p, v) = f[n]
    BY DEF HandleHeld, HeldStep
  <1>3. PICK D : Steps(x, p, v, D)
    BY StepsExist
  <1> HIDE DEF n
  <1>4. /\ D = [i \in 0 .. n |-> D[i]] /\ D[0] = x
        /\ \A i \in 1 .. n : D[i] = HeldStep(D[i - 1], p[i], v)
    BY <1>3 DEF Steps, n
  <1>5. Eq(D)
    <2> DEFINE G == [i \in 0 .. n |-> IF i = 0 THEN x ELSE HeldStep(D[i - 1], p[i], v)]
    <2>1. \A i \in 0 .. n : D[i] = G[i]
      <3> SUFFICES ASSUME NEW i \in 0 .. n PROVE D[i] = G[i]
        OBVIOUS
      <3>1. CASE i = 0
        BY <1>4, <3>1
      <3>2. CASE i # 0
        <4>1. i \in 1 .. n
          BY <1>1, <3>2
        <4> QED BY <1>4, <3>2, <4>1
      <3> QED BY <3>1, <3>2
    <2>2. G = [i \in 0 .. n |-> G[i]]
      OBVIOUS
    <2> HIDE DEF G
    <2>3. D = G
      BY <1>4, <2>1, <2>2
    <2> QED BY <2>3 DEF G
  <1>6. Eq(f)
    BY <1>5
  <1> HIDE DEF f
  <1>7. f = [i \in 0 .. n |-> IF i = 0 THEN x ELSE HeldStep(f[i - 1], p[i], v)]
    BY <1>6
  <1>8. f[0] = x /\ (\A i \in 1 .. n : f[i] = HeldStep(f[i - 1], p[i], v))
        /\ f = [i \in 0 .. n |-> f[i]]
    <2>1. \A i \in 0 .. n : f[i] = IF i = 0 THEN x ELSE HeldStep(f[i - 1], p[i], v)
      BY <1>7
    <2>2. 0 \in 0 .. n /\ \A i \in 1 .. n : i \in 0 .. n /\ i # 0
      BY <1>1
    <2>3. f = [i \in 0 .. n |-> f[i]]
      <3> DEFINE G == [i \in 0 .. n |-> IF i = 0 THEN x ELSE HeldStep(f[i - 1], p[i], v)]
      <3>1. G = [i \in 0 .. n |-> G[i]]
        OBVIOUS
      <3>2. f = G
        BY <1>7
      <3> HIDE DEF G
      <3> QED BY <3>1, <3>2
    <2> QED BY <2>1, <2>2, <2>3
  <1>9. Steps(x, p, v, f)
    BY <1>8 DEF Steps, n
  <1> QED BY <1>2, <1>9 DEF n

\* The client y after some of it, which x was before.
Held(x, y, s, v, un) ==
  /\ Fine(y, s, 0, un) /\ Idle(y)
  /\ y.out = x.out /\ y.synced = x.synced /\ y.reset = x.reset
  /\ y.synced => v <= y.v

\* The next message that waited, a patch or an acknowledgement, is handled.
LEMMA HeldStepIs ==
  ASSUME NEW x, NEW y, NEW s, NEW v \in Nat, NEW un, Held(x, y, s, v, un), s # <<>>,
         ~Answers(s[1]), s[1].t # "closed", Lives(lives, pages), writes \in Seq(Write)
  PROVE  Held(x, HeldStep(y, s[1], v), Tail(s), v, un)
  <1> DEFINE m == s[1]
             z == HeldStep(y, m, v)
  <1>1. /\ Fine(y, s, 0, un) /\ Idle(y) /\ ~y.holds
        /\ y.out = x.out /\ y.synced = x.synced /\ y.reset = x.reset
        /\ y.synced => v <= y.v
    BY DEF Held, Idle
  <1>2. m \in DownMessage /\ m.v \in Nat
    BY <1>1, FirstIs
  <1>3. m.t \in {"patch", "ack"}
    BY <1>2, DownKinds DEF Answers
  <1>4. NextEnd(0) = 0
    BY DEF NextEnd
  <1>5. y.v \in Nat
    BY <1>1 DEF Fine, PageOK, Page
  <1>6. Moved(y, z, s, 0, un) /\ (z.v >= y.v \/ (z.v = m.v /\ m.v > v))
    <2>1. CASE m.t = "patch" /\ m.v <= v
      <3>1. z = y
        BY <2>1 DEF HeldStep
      <3>2. y.synced => m.v <= y.v
        BY <1>1, <1>2, <1>5, <2>1
      <3>3. Moved(y, y, s, 0, un)
        BY <1>1, <3>2, PassFine
      <3> HIDE DEF z
      <3>4. Moved(y, z, s, 0, un)
        BY <3>1, <3>3
      <3>5. z.v >= y.v
        BY <1>5, <3>1
      <3> QED BY <3>4, <3>5
    <2>2. CASE m.t = "patch" /\ ~(m.v <= v)
      <3>1. z = HearPatch(y, m)
        BY <1>1, <2>2 DEF HeldStep, Handle
      <3>2. Moved(y, HearPatch(y, m), s, 0, un)
        BY <1>1, <2>2, PatchFine
      <3>3. m.v > v
        BY <1>2, <2>2
      <3> HIDE DEF z
      <3>4. Moved(y, z, s, 0, un)
        BY <3>1, <3>2
      <3> QED BY <3>3, <3>4 DEF Moved
    <2>3. CASE m.t = "ack"
      <3>1. z = Acknowledge([y EXCEPT !.v = Larger(y.v, m.v)], m.seq)
        <4>1. [y EXCEPT !.v = Larger(@, m.v)] = [y EXCEPT !.v = Larger(y.v, m.v)]
          OBVIOUS
        <4> QED BY <1>1, <2>3, <4>1 DEF HeldStep, Handle
      <3>2. Moved(y, Acknowledge([y EXCEPT !.v = Larger(y.v, m.v)], m.seq), s, 0, un)
        BY <1>1, <2>3, AckFine
      <3> HIDE DEF z
      <3>3. Moved(y, z, s, 0, un)
        BY <3>1, <3>2
      <3>4. s[1].t # "patch"
        BY <2>3
      <3>5. z.v >= y.v
        BY <3>3, <3>4 DEF Moved
      <3> QED BY <3>3, <3>5
    <2> QED BY <1>3, <2>1, <2>2, <2>3
  <1> HIDE DEF z, m
  <1>7. z.v \in Nat
    BY <1>6 DEF Moved, Fine, PageOK, Page
  <1>8. z.synced => v <= z.v
    BY <1>1, <1>2, <1>5, <1>6, <1>7 DEF Moved
  <1>9. Held(x, z, Tail(s), v, un)
    BY <1>1, <1>4, <1>6, <1>8 DEF Moved, Held
  <1> QED BY <1>9 DEF z, m

\* All of it is.
LEMMA HeldFine ==
  ASSUME NEW x, NEW p \in Seq(DownMessage), NEW d \in Seq(DownMessage), NEW v \in Nat, NEW un,
         Fine(x, p \o d, 0, un), Idle(x), x.synced => v <= x.v,
         \A i \in 1 .. Len(p) : ~Answers(p[i]) /\ p[i].t # "closed",
         Lives(lives, pages), writes \in Seq(Write)
  PROVE  Held(x, HandleHeld(x, p, v), d, v, un)
  <1> DEFINE n == Len(p)
             Rest(i) == SubSeq(p, i, n) \o d
  <1>1. n \in Nat
    OBVIOUS
  <1>2. PICK f : Steps(x, p, v, f) /\ HandleHeld(x, p, v) = f[n]
    BY HandleHeldIs
  <1>3. f[0] = x /\ \A i \in 1 .. n : f[i] = HeldStep(f[i - 1], p[i], v)
    BY <1>2 DEF Steps
  <1> DEFINE OK(i) == Held(x, f[i], Rest(i + 1), v, un)
             T == {i \in 0 .. n : ~OK(i)}
  <1>4. OK(0)
    <2>1. SubSeq(p, 1, n) = p
      BY SubSeqFull
    <2>2. Rest(0 + 1) = p \o d
      <3>1. 0 + 1 = 1
        OBVIOUS
      <3> HIDE DEF n
      <3>2. Rest(1) = p \o d
        BY <2>1
      <3> HIDE DEF Rest
      <3> QED BY <3>1, <3>2
    <2> HIDE DEF Rest
    <2> QED BY <1>3, <2>2 DEF Held
  <1>5. ASSUME NEW i \in 1 .. n, OK(i - 1) PROVE OK(i)
    <2> DEFINE s == Rest(i)
    <2>1. s # <<>> /\ s[1] = p[i] /\ Tail(s) = Rest(i + 1)
      <3>1. i \in 1 .. Len(p)
        OBVIOUS
      <3> DEFINE w == SubSeq(p, i, Len(p)) \o d
      <3>2. w # <<>> /\ w[1] = p[i] /\ Tail(w) = SubSeq(p, i + 1, Len(p)) \o d
        BY <3>1, RestIs
      <3> QED BY <3>2
    <2>2. (i - 1) + 1 = i
      OBVIOUS
    <2> HIDE DEF s
    <2>3. Held(x, f[i - 1], s, v, un)
      BY <1>5, <2>2 DEF s
    <2>4. ~Answers(s[1]) /\ s[1].t # "closed"
      BY <2>1
    <2>5. Held(x, HeldStep(f[i - 1], s[1], v), Tail(s), v, un)
      BY <2>1, <2>3, <2>4, HeldStepIs
    <2> HIDE DEF Rest
    <2> QED BY <1>3, <2>1, <2>5
  <1> HIDE DEF OK
  <1>6. T = {}
    <2> SUFFICES ASSUME T # {} PROVE FALSE
      OBVIOUS
    <2>1. T \subseteq Nat
      BY <1>1
    <2> HIDE DEF T
    <2>2. PICK m \in T : \A j \in T : m <= j
      BY <2>1, SmallestOf
    <2>3. m \in 0 .. n /\ ~OK(m)
      BY <2>2 DEF T
    <2>4. m # 0
      BY <1>4, <2>3
    <2>5. m \in 1 .. n /\ m - 1 \in 0 .. n
      BY <1>1, <2>3, <2>4
    <2>6. m - 1 \in T
      BY <1>5, <2>3, <2>5 DEF T
    <2>7. m <= m - 1
      BY <2>2, <2>6
    <2> QED BY <2>5, <2>7
  <1>7. OK(n)
    <2>1. n \in 0 .. n
      BY <1>1
    <2> QED BY <1>6, <2>1
  <1>8. Rest(n + 1) = d
    <2>1. SubSeq(p, n + 1, n) = <<>>
      <3>1. n + 1 > n
        BY <1>1
      <3> QED BY <1>1, <3>1
    <2> QED BY <2>1
  <1> HIDE DEF Rest
  <1> QED BY <1>2, <1>7, <1>8 DEF OK

-------------------------------------------------------------------------------
(* The handlers of the client.                                             *)

\* A handler left the client y, with d still to come.
Handled(y, d, un) == \E k \in Nat : Fine(y, y.held \o d, k, un)

\* A sequence after none, and none after it.
LEMMA NoneBefore ==
  ASSUME NEW A, NEW s \in Seq(A)
  PROVE  <<>> \o s = s /\ s \o <<>> = s /\ <<>> \in Seq(A) /\ Len(<<>>) = 0
  OBVIOUS

\* Between two handlers the client is right.
LEMMA OpenedFine ==
  ASSUME TypesOK, Opened
  PROVE  /\ Handled(c, down, Unexplained) /\ c \in Page
         /\ up \o c.out = up /\ writes \o c.puts = writes
  <1>1. /\ PageOK(c, lives, pages) /\ c.out = <<>> /\ c.puts = <<>>
        /\ c.dirty => adapter = "document"
        /\ Explains(Elements(c.outbox), c.v, c.epoch, Unexplained, lives)
        /\ Backed(adapter, remade, lives, disk, writes, c)
    BY DEF Opened
  <1>2. up \o c.out = up /\ writes \o c.puts = writes
    <2>1. up \in Seq(UpMessage) /\ writes \in Seq(Write)
      BY DEF TypesOK
    <2> QED BY <1>1, <2>1, NoneBefore
  <1>3. PICK k \in Nat : Flow(c, c.held \o down, k, up, lives, sess)
    BY DEF Opened, Pending
  <1>4. Fine(c, c.held \o down, k, Unexplained)
    BY <1>1, <1>2, <1>3 DEF Fine
  <1> QED BY <1>1, <1>2, <1>4 DEF Handled, PageOK

\* And once one is done all is.
LEMMA HandlerDone ==
  ASSUME TypesOK, Lives(lives, pages), NEW y, NEW un, Handled(y, down', un), Does(y),
         down' \in Seq(DownMessage), made' \in Nat,
         lives' = lives, sess' = sess, pages' = pages, adapter' = adapter, remade' = remade,
         link' \in BOOLEAN,
         ~link' => /\ y.out = <<>> /\ up = <<>> /\ down' = <<>> /\ ~sess
                   /\ ~y.synced /\ ~y.holds,
         y.reset \/ Unexplained' \subseteq un, y.reset => Unexplained' = {}
  PROVE  IInv'
  <1>1. PICK k \in Nat : Fine(y, y.held \o down', k, un)
    BY DEF Handled
  <1>2. y \in Page
    BY <1>1 DEF Fine, PageOK
  <1> DEFINE s == y.held \o down'
  <1>3. s = y.held \o down'
    OBVIOUS
  <1> HIDE DEF s
  <1>4. Fine(y, s, k, un)
    BY <1>1 DEF s
  <1>5. /\ Opened' /\ c'.on
        /\ up' \in Seq(UpMessage) /\ writes' \in Seq(Write)
        /\ adapter # "indexeddb" => writes' = <<>>
        /\ remade = "rewriting" => writes' # <<>>
    BY <1>2, <1>3, <1>4, DoesOpened
  <1>6. TypesOK'
    BY <1>5 DEF TypesOK
  <1>7. Lives(lives, pages)'
    BY DEF Lives
  <1> QED BY <1>5, <1>6, <1>7 DEF IInv

\* Edits that are told of are explained.
LEMMA ToldExplains ==
  ASSUME NEW y, Does(y), mine' = mine, moot' = moot
  PROVE  (y.reset \/ Unexplained' \subseteq Unexplained) /\ (y.reset => Unexplained' = {})
  BY DEF Does, Unexplained

\* The client handles the next message.
LEMMA HearHandled ==
  ASSUME TypesOK, Lives(lives, pages), Opened, down # <<>>
  PROVE  Handled(Handle(c, down[1]), Tail(down), Unexplained)
  <1> DEFINE m == down[1]
             d == Tail(down)
             un == Unexplained
             y == Handle(c, m)
             p == c.held
  <1>1. /\ down \in Seq(DownMessage) /\ writes \in Seq(Write) /\ up \in Seq(UpMessage)
    BY DEF TypesOK
  <1>2. /\ Handled(c, down, un) /\ c \in Page
    BY OpenedFine
  <1>3. p \in Seq(DownMessage) /\ m \in DownMessage /\ d \in Seq(DownMessage)
    BY <1>1, <1>2, TailIs DEF Page
  <1>4. PICK k \in Nat : Fine(c, p \o down, k, un)
    BY <1>2 DEF Handled
  <1> HIDE DEF un, d, m, y
  <1>5. SUFFICES \E l \in Nat : Fine(y, y.held \o d, l, un)
    BY DEF Handled, un, d, m, y
  <1>6. CASE m.t = "closed"
    <2>1. LET z == [Cancelled(c) EXCEPT !.synced = FALSE, !.retry = TRUE]
          IN  /\ Fine(z, d, 0, un) /\ z \in Page /\ z.held = <<>> /\ Idle(z)
              /\ z.out = c.out /\ z.reset = c.reset
      BY <1>1, <1>3, <1>4, <1>6, EndFine DEF d, m
    <2>2. y = [Cancelled(c) EXCEPT !.synced = FALSE, !.retry = TRUE]
      BY <1>6 DEF y, Handle
    <2>3. Fine(y, d, 0, un) /\ y.held = <<>>
      BY <2>1, <2>2
    <2>4. <<>> \o d = d
      BY <1>3, NoneBefore
    <2> QED BY <2>3, <2>4
  <1>7. CASE m.t # "closed" /\ c.holds
    <2>1. LET z == [c EXCEPT !.held = Append(c.held, down[1])]
          IN  /\ Fine(z, z.held \o Tail(down), k, un) /\ z \in Page
              /\ z.out = c.out /\ z.reset = c.reset
      BY <1>1, <1>3, <1>4, <1>7, HoldFine DEF m
    <2>2. y = [c EXCEPT !.held = Append(c.held, down[1])]
      <3>1. [c EXCEPT !.held = Append(@, m)] = [c EXCEPT !.held = Append(c.held, m)]
        OBVIOUS
      <3>2. y = [c EXCEPT !.held = Append(@, m)]
        BY <1>7 DEF y, Handle
      <3> QED BY <3>1, <3>2 DEF m
    <2>3. Fine(y, y.held \o d, k, un)
      BY <2>1, <2>2 DEF d
    <2> QED BY <2>3
  <1>8. CASE m.t # "closed" /\ ~c.holds
    <2>1. Asking(c, p \o down, k, up \o c.out, lives, sess)
      BY <1>4 DEF Fine, Flow
    <2>2. Idle(c) /\ p = <<>>
      BY <1>8, <2>1, IdleAsking DEF Asking
    <2>3. p \o down = down /\ <<>> \o d = d
      BY <1>1, <1>3, <2>2, NoneBefore
    <2>4. Fine(c, down, k, un)
      BY <1>4, <2>3
    <2>5. SUFFICES y.held = <<>> /\ \E l \in Nat : Fine(y, d, l, un)
      BY <2>3
    <2>6. m.t \in {"patch", "ack", "pointer", "delta", "snapshot"}
      BY <1>3, <1>8, DownKinds
    <2>7. NextEnd(k) \in Nat
      BY DEF NextEnd
    <2>8. CASE m.t = "pointer"
      <3>1. Fine(Asked(c, m), d, 0, un) /\ Asked(c, m).held = <<>>
        BY <2>2, <2>4, <2>8, PointerFine DEF m, d
      <3>2. y = Asked(c, m)
        BY <1>8, <2>8 DEF y, Handle
      <3> QED BY <3>1, <3>2
    <2>9. CASE m.t \in {"snapshot", "delta"}
      <3>1. Fine(y, d, 0, un) /\ Idle(y)
        BY <1>1, <2>2, <2>4, <2>9, AnswerFine DEF m, d, y
      <3> QED BY <3>1 DEF Idle
    <2>10. CASE m.t = "patch"
      <3>1. Moved(c, HearPatch(c, m), down, k, un)
        BY <1>1, <2>2, <2>4, <2>10, PatchFine DEF m
      <3>2. y = HearPatch(c, m)
        BY <1>8, <2>10 DEF y, Handle
      <3>3. Fine(y, d, NextEnd(k), un) /\ Idle(y)
        BY <3>1, <3>2 DEF Moved, d
      <3> QED BY <2>7, <3>3 DEF Idle
    <2>11. CASE m.t = "ack"
      <3>1. Moved(c, Acknowledge([c EXCEPT !.v = Larger(c.v, m.v)], m.seq), down, k, un)
        BY <1>1, <2>2, <2>4, <2>11, AckFine DEF m
      <3>2. y = Acknowledge([c EXCEPT !.v = Larger(c.v, m.v)], m.seq)
        <4>1. [c EXCEPT !.v = Larger(@, m.v)] = [c EXCEPT !.v = Larger(c.v, m.v)]
          OBVIOUS
        <4> QED BY <1>8, <2>11, <4>1 DEF y, Handle
      <3>3. Fine(y, d, NextEnd(k), un) /\ Idle(y)
        BY <3>1, <3>2 DEF Moved, d
      <3> QED BY <2>7, <3>3 DEF Idle
    <2> QED BY <2>6, <2>8, <2>9, <2>10, <2>11
  <1> QED BY <1>6, <1>7, <1>8

\* So all is right once it has heard.
LEMMA HearKeeps ==
  ASSUME IInv, Hear
  PROVE  IInv'
  <1> DEFINE y == Handle(c, Head(down))
  <1>1. /\ c.on /\ down # <<>> /\ down' = Tail(down) /\ Does(y)
        /\ adapter' = adapter /\ remade' = remade /\ link' = link /\ sess' = sess
        /\ lives' = lives /\ made' = made /\ mine' = mine /\ moot' = moot /\ pages' = pages
    BY DEF Hear, store
  <1>2. TypesOK /\ Lives(lives, pages) /\ Opened
    BY <1>1 DEF IInv
  <1>3. down \in Seq(DownMessage) /\ made \in Nat /\ link \in BOOLEAN
    BY <1>2 DEF TypesOK
  <1>4. link
    BY <1>1, <1>2 DEF Opened
  <1>5. Tail(down) \in Seq(DownMessage) /\ Head(down) = down[1]
    BY <1>1, <1>3, TailIs
  <1>6. Handled(y, down', Unexplained)
    BY <1>1, <1>2, <1>5, HearHandled
  <1> HIDE DEF y
  <1>7. (y.reset \/ Unexplained' \subseteq Unexplained) /\ (y.reset => Unexplained' = {})
    BY <1>1, ToldExplains
  <1> QED BY <1>1, <1>2, <1>3, <1>4, <1>5, <1>6, <1>7, HandlerDone

\* Clients that are told apart by no more than what they ask for.
Like(x, y) ==
  /\ Alike(x, y) /\ y \in Page
  /\ y.on = x.on /\ y.base = x.base /\ y.dirty = x.dirty /\ y.reset = x.reset
  /\ y.out = x.out /\ y.puts = x.puts

\* One that asks for nothing is as right as the other.
LEMMA LikeFine ==
  ASSUME NEW x, NEW y, Like(x, y), Idle(y), NEW s, NEW k, NEW un, Fine(x, s, k, un)
  PROVE  Fine(y, s, k, un)
  <1> DEFINE u == up \o x.out
  <1>1. Talk(x, s, k, u, lives, sess)
    BY DEF Fine, Flow, Talk, u
  <1> HIDE DEF u
  <1>2. Alike(x, y)
    BY DEF Like
  <1>3. Talk(y, s, k, u, lives, sess)
    BY <1>1, <1>2, AlikeTalk
  <1>4. Flow(y, s, k, u, lives, sess)
    BY <1>3, IdleAsking DEF Flow, Talk
  <1>5. Backed(adapter, remade, lives, disk, writes \o y.puts, y)
    <2>1. Backed(adapter, remade, lives, disk, writes \o y.puts, x)
      BY DEF Fine, Like
    <2>2. Keeps(x, y)
      BY DEF Keeps, Like, Alike
    <2> QED BY <2>1, <2>2, BackedKeeps
  <1>6. PageOK(y, lives, pages)
    BY DEF PageOK, Fine, Like, Alike
  <1>7. /\ y.dirty => adapter = "document"
        /\ y.reset \/ Explains(Elements(y.outbox), y.v, y.epoch, un, lives)
        /\ up \o y.out = u
    BY DEF Fine, Like, Alike, u
  <1> QED BY <1>4, <1>5, <1>6, <1>7 DEF Fine

\* With no end of the store to come, none is said.
LEMMA QuietIs ==
  ASSUME NEW x, NEW p \in Seq(DownMessage), NEW d \in Seq(DownMessage), NEW k, NEW un,
         Fine(x, p \o d, k, un),
         x.held = p, \A i \in 1 .. Len(d) : d[i].t # "closed"
  PROVE  k = 0
  <1> DEFINE s == p \o d
  <1>1. /\ s \in Seq(DownMessage) /\ Len(s) = Len(p) + Len(d)
        /\ Len(p) \in Nat /\ Len(d) \in Nat
        /\ \A i \in 1 .. Len(p) : s[i] = p[i]
        /\ \A i \in 1 .. Len(d) : s[Len(p) + i] = d[i]
    BY ConcatIs
  <1> HIDE DEF s
  <1>2. k \in 0 .. Len(s) /\ \A i \in 1 .. Len(s) : s[i].t = "closed" <=> i = k
    BY DEF Fine, Flow, Chained, s
  <1>3. \A i \in 1 .. Len(p) : p[i].t # "closed"
    BY DEF Fine, Flow, Asking
  <1> SUFFICES ASSUME k # 0 PROVE FALSE
    OBVIOUS
  <1>4. k \in 1 .. Len(s) /\ s[k].t = "closed"
    BY <1>1, <1>2
  <1>5. CASE k \in 1 .. Len(p)
    BY <1>1, <1>3, <1>4, <1>5
  <1>6. CASE k \notin 1 .. Len(p)
    <2>1. k - Len(p) \in 1 .. Len(d) /\ Len(p) + (k - Len(p)) = k
      BY <1>1, <1>4, <1>6
    <2>2. s[k] = d[k - Len(p)]
      BY <1>1, <2>1
    <2> QED BY <1>4, <2>1, <2>2
  <1> QED BY <1>5, <1>6

\* A client that holds, without the request q of its own.
Without(x, q) == [x EXCEPT !.asks = x.asks \ {q}]

\* Once it asks for nothing it is the same client, whether the request failed or not.
LEMMA OverIs ==
  ASSUME NEW x \in Page, NEW q \in x.asks, \A r \in x.asks : r.mine => r = q
  PROVE  LET z == Over(Without(x, q))
         IN  /\ Like(x, z) /\ Idle(z) /\ z.held = <<>>
             /\ Like(x, [z EXCEPT !.failed = TRUE]) /\ Idle([z EXCEPT !.failed = TRUE])
             /\ Without(x, q).held = x.held
  <1> DEFINE A == x.asks \ {q}
             w == [x EXCEPT !.asks = A]
             z == [w EXCEPT !.holds = FALSE, !.held = <<>>]
             f == [z EXCEPT !.failed = TRUE]
  <1>1. A \in SUBSET Request /\ <<>> \in Seq(DownMessage) /\ \A r \in A : ~r.mine
    BY DEF Page
  <1> HIDE DEF A
  <1>2. /\ w \in Page /\ w.asks = A /\ w.held = x.held /\ w.failed = x.failed
        /\ Alike(x, w) /\ w.on = x.on /\ w.base = x.base /\ w.dirty = x.dirty
        /\ w.reset = x.reset /\ w.out = x.out /\ w.puts = x.puts
    BY <1>1 DEF Page, Alike
  <1>3. w = Without(x, q)
    BY DEF Without, A
  <1> HIDE DEF w
  <1>4. /\ z \in Page /\ z.asks = A /\ z.held = <<>> /\ ~z.holds
        /\ Alike(w, z) /\ z.on = w.on /\ z.base = w.base /\ z.dirty = w.dirty
        /\ z.reset = w.reset /\ z.out = w.out /\ z.puts = w.puts
    BY <1>1, <1>2 DEF Page, Alike
  <1>5. z = Over(w)
    BY DEF Over
  <1> HIDE DEF z
  <1>6. /\ f \in Page /\ f.asks = A /\ f.held = <<>> /\ ~f.holds
        /\ Alike(z, f) /\ f.on = z.on /\ f.base = z.base /\ f.dirty = z.dirty
        /\ f.reset = z.reset /\ f.out = z.out /\ f.puts = z.puts
    BY <1>4 DEF Page, Alike
  <1> HIDE DEF f
  <1>7. Like(x, z) /\ Like(x, f)
    BY <1>2, <1>4, <1>6 DEF Like, Alike
  <1>8. Idle(z) /\ Idle(f)
    BY <1>1, <1>4, <1>6 DEF Idle
  <1> QED BY <1>2, <1>3, <1>4, <1>5, <1>7, <1>8 DEF f

\* The snapshot that was fetched lands, and what waited for it is handled.
LEMMA SnapshotHandled ==
  ASSUME Lives(lives, pages), writes \in Seq(Write), up \in Seq(UpMessage),
         NEW x, NEW p \in Seq(DownMessage), NEW d \in Seq(DownMessage), NEW un,
         Fine(x, p \o d, 0, un), x.held = p, NEW q \in x.asks, q.mine, q.at = "body",
         x.out = <<>>
  PROVE  Handled(SnapshotLands(Without(x, q), q), d, un)
  <1> DEFINE s == p \o d
             z == Over(Without(x, q))
             m == [seq |-> q.seq, v |-> q.v, epoch |-> q.life]
             h == Now(lives)
             y == CaughtUp(z, m, q.base, Records)
             e == HandleHeld(y, p, q.v)
  <1>1. x \in Page /\ PageOK(x, lives, pages)
    BY DEF Fine, PageOK
  <1>2. Asking(x, s, 0, up \o x.out, lives, sess)
    BY DEF Fine, Flow
  <1>3. \A r \in x.asks : r.mine => r = q
    BY <1>2 DEF Asking
  <1>4. x.holds /\ RequestOK(x, q, s, lives) /\ sess
        /\ (\A i \in 1 .. Len(s) : ~Answers(s[i]))
        /\ (\A i \in 1 .. Len(up \o x.out) : (up \o x.out)[i].t # "hello")
    BY <1>2 DEF Asking
  <1>5. Like(x, z) /\ Idle(z) /\ Without(x, q).held = p
    BY <1>1, <1>3, OverIs
  <1>6. Fine(z, s, 0, un)
    BY <1>5, LikeFine
  <1>7. q \in Request
    BY <1>1 DEF Page
  <1>8. m.seq \in Nat /\ m.v \in Nat /\ m.epoch = q.life /\ m.seq = q.seq /\ m.v = q.v
    BY <1>7 DEF Request
  <1>9. h \in Seq(Op) /\ Len(h) \in Nat
    <2>1. Len(lives) \in 1 .. Len(lives)
      BY DEF Lives
    <2> QED BY <2>1 DEF Lives, Now
  <1>10. SnapshotLands(Without(x, q), q) = e
    BY <1>5 DEF SnapshotLands
  <1>11. z.answered = x.answered /\ z.epoch = x.epoch /\ z.v = x.v /\ z.outbox = x.outbox
         /\ z.out = x.out
    BY <1>5 DEF Like, Alike
  <1> HIDE DEF z, m, s, h
  <1>12. Right(z, m, q.base, Records, s)
    <2>1. q.life = Len(lives) /\ q.v <= Len(h) /\ q.base = StateOf(UpTo(h, q.v))
          /\ Start(s, lives) <= q.v /\ Covered(x, q.seq, h, q.v)
          /\ (x.epoch = Len(lives) /\ x.v > 0 => q.v > 0)
          /\ x.answered <= q.seq
      BY <1>4 DEF RequestOK, h
    <2>2. q.v \in 0 .. Len(h)
      BY <1>8, <1>9, <2>1
    <2>3. AsOf(q.base, q.v, h) /\ UpTo(h, q.v) \in Seq(Op)
      BY <1>9, <2>1, <2>2, SnapshotIsAsOf
    <2>4. q.base \in Rows
      BY <2>1, <2>3, StateRows
    <2>5. Covered(z, q.seq, h, q.v)
      BY <1>11, <2>1 DEF Covered
    <2>6. Records \in SUBSET Records /\ \A r \in Records \ Records : q.base[r] = z.base[r]
      OBVIOUS
    <2> QED BY <1>8, <1>11, <2>1, <2>3, <2>4, <2>5, <2>6 DEF Right, h
  <1>13. Ready(z, s, un)
    <2>1. z.synced => z.epoch = Len(lives)
      BY <1>6 DEF Fine, Flow, InTouch
    <2>2. \A i \in 1 .. Len(up \o z.out) : (up \o z.out)[i].t # "hello"
      BY <1>4, <1>11
    <2> QED BY <1>4, <1>5, <1>6, <2>1, <2>2 DEF Ready, Fine, Flow
  <1>14. Fine(y, s, 0, un) /\ Idle(y) /\ y.synced /\ y.v = m.v
    BY <1>12, <1>13, CaughtUpFine
  <1> HIDE DEF y
  <1>15. y.v \in Nat /\ q.v \in Nat /\ (y.synced => q.v <= y.v)
    BY <1>8, <1>14
  <1>16. \A i \in 1 .. Len(p) : ~Answers(p[i]) /\ p[i].t # "closed"
    <2> SUFFICES ASSUME NEW i \in 1 .. Len(p) PROVE ~Answers(p[i]) /\ p[i].t # "closed"
      OBVIOUS
    <2>1. p[i].t # "closed"
      BY <1>2 DEF Asking
    <2>2. s[i] = p[i] /\ i \in 1 .. Len(s)
      BY ConcatIs DEF s
    <2> QED BY <1>4, <2>1, <2>2
  <1>17. Held(y, e, d, q.v, un)
    BY <1>14, <1>15, <1>16, HeldFine DEF s
  <1> HIDE DEF e
  <1>18. Fine(e, d, 0, un) /\ e.held = <<>>
    BY <1>17 DEF Held, Idle
  <1>19. <<>> \o d = d
    BY NoneBefore
  <1> QED BY <1>10, <1>18, <1>19 DEF Handled

\* A request fails: what waited is handled, and the hello is said again.
LEMMA FailureHandled ==
  ASSUME Lives(lives, pages), writes \in Seq(Write), up \in Seq(UpMessage),
         NEW x, NEW p \in Seq(DownMessage), NEW d \in Seq(DownMessage), NEW un,
         Fine(x, p \o d, 0, un), x.held = p, NEW q \in x.asks, q.mine,
         x.out = <<>>
  PROVE  Handled(FetchFails(Without(x, q)), d, un)
  <1> DEFINE s == p \o d
             z == [Over(Without(x, q)) EXCEPT !.failed = TRUE]
             e == HandleHeld(z, p, 0)
  <1>1. x \in Page /\ PageOK(x, lives, pages)
    BY DEF Fine, PageOK
  <1>2. Asking(x, s, 0, up \o x.out, lives, sess)
    BY DEF Fine, Flow
  <1>3. \A r \in x.asks : r.mine => r = q
    BY <1>2 DEF Asking
  <1>4. x.holds
        /\ (\A i \in 1 .. Len(s) : ~Answers(s[i]))
        /\ (\A i \in 1 .. Len(up \o x.out) : (up \o x.out)[i].t # "hello")
    BY <1>2 DEF Asking
  <1>5. Like(x, z) /\ Idle(z) /\ Without(x, q).held = p
    BY <1>1, <1>3, OverIs
  <1>6. Fine(z, s, 0, un)
    BY <1>5, LikeFine
  <1>7. FetchFails(Without(x, q)) = Hello(e)
    BY <1>5 DEF FetchFails, Resumed
  <1>8. z.out = <<>> /\ z.v \in Nat
    BY <1>5 DEF Like, Alike, Page
  <1> HIDE DEF z, s
  <1>9. \A i \in 1 .. Len(p) : ~Answers(p[i]) /\ p[i].t # "closed"
    <2> SUFFICES ASSUME NEW i \in 1 .. Len(p) PROVE ~Answers(p[i]) /\ p[i].t # "closed"
      OBVIOUS
    <2>1. p[i].t # "closed"
      BY <1>2 DEF Asking
    <2>2. s[i] = p[i] /\ i \in 1 .. Len(s)
      BY ConcatIs DEF s
    <2> QED BY <1>4, <2>1, <2>2
  <1>10. \A i \in 1 .. Len(d) : ~Answers(d[i])
    <2> SUFFICES ASSUME NEW i \in 1 .. Len(d) PROVE ~Answers(d[i])
      OBVIOUS
    <2>1. s[Len(p) + i] = d[i] /\ Len(p) + i \in 1 .. Len(s)
      BY ConcatIs DEF s
    <2> QED BY <1>4, <2>1
  <1>11. 0 \in Nat /\ (z.synced => 0 <= z.v)
    BY <1>8
  <1>12. Held(z, e, d, 0, un)
    BY <1>5, <1>6, <1>9, <1>11, HeldFine DEF s
  <1> HIDE DEF e
  <1>13. Fine(e, d, 0, un) /\ Idle(e) /\ e.out = x.out
    BY <1>8, <1>12 DEF Held
  <1>14. \A i \in 1 .. Len(up \o e.out) : (up \o e.out)[i].t # "hello"
    BY <1>4, <1>13
  <1>15. Fine(Hello(e), d, 0, un) /\ Idle(Hello(e))
    BY <1>10, <1>13, <1>14, HelloFine
  <1>16. <<>> \o d = d
    BY NoneBefore
  <1> QED BY <1>7, <1>15, <1>16 DEF Handled, Idle

\* A request is answered, or let go of.
LEMMA FetchedKeeps ==
  ASSUME IInv, Fetched, "early" \notin Uses
  PROVE  IInv'
  <1>1. PICK q \in c.asks :
          /\ q.at \in {"body", "failed"} /\ Quiet
          /\ UNCHANGED <<adapter, remade, link, down, sess, store, made, mine, moot, pages, turns>>
          /\ Does(IF ~Current(q) THEN [c EXCEPT !.asks = @ \ {q}]
                  ELSE IF q.at = "body" THEN SnapshotLands([c EXCEPT !.asks = @ \ {q}], q)
                  ELSE FetchFails([c EXCEPT !.asks = @ \ {q}]))
    BY DEF Fetched
  <1> DEFINE w == Without(c, q)
             y == IF ~Current(q) THEN w ELSE IF q.at = "body" THEN SnapshotLands(w, q) ELSE FetchFails(w)
             un == Unexplained
             p == c.held
  <1>2. Does(y)
    <2>1. [c EXCEPT !.asks = @ \ {q}] = w
      BY DEF Without
    <2> QED BY <1>1, <2>1
  <1>3. /\ adapter' = adapter /\ remade' = remade /\ link' = link /\ sess' = sess /\ down' = down
        /\ lives' = lives /\ made' = made /\ mine' = mine /\ moot' = moot /\ pages' = pages
    BY <1>1 DEF store
  <1>4. c.on
    <2> SUFFICES ASSUME ~c.on PROVE FALSE
      OBVIOUS
    <2>1. c.asks = {}
      BY DEF IInv, Shut, Off
    <2> QED BY <2>1
  <1>5. TypesOK /\ Lives(lives, pages) /\ Opened
    BY <1>4 DEF IInv
  <1>6. /\ down \in Seq(DownMessage) /\ made \in Nat /\ link \in BOOLEAN
        /\ up \in Seq(UpMessage) /\ writes \in Seq(Write)
    BY <1>5 DEF TypesOK
  <1>7. Handled(c, down, un) /\ c \in Page /\ c.out = <<>> /\ p \in Seq(DownMessage)
    BY <1>5, OpenedFine DEF Opened, Page
  <1>8. PICK k \in Nat : Fine(c, p \o down, k, un)
    BY <1>7 DEF Handled
  <1>9. \A i \in 1 .. Len(down) : down[i].t # "closed"
    BY <1>1, <1>6 DEF Quiet, Elements
  <1>10. Fine(c, p \o down, 0, un)
    <2>1. k = 0
      BY <1>6, <1>7, <1>8, <1>9, QuietIs
    <2> QED BY <1>8, <2>1
  <1>11. w \in Page /\ w.asks = c.asks \ {q} /\ w.held = p /\ w.holds = c.holds
         /\ Alike(c, w) /\ w.on = c.on /\ w.base = c.base /\ w.dirty = c.dirty
         /\ w.reset = c.reset /\ w.out = c.out /\ w.puts = c.puts
    <2> DEFINE A == c.asks \ {q}
    <2>1. A \in SUBSET Request
      BY <1>7 DEF Page
    <2>2. w = [c EXCEPT !.asks = A]
      BY DEF Without
    <2> HIDE DEF A, w
    <2>3. w \in Page /\ w.asks = A /\ w.held = p /\ w.holds = c.holds
         /\ Alike(c, w) /\ w.on = c.on /\ w.base = c.base /\ w.dirty = c.dirty
         /\ w.reset = c.reset /\ w.out = c.out /\ w.puts = c.puts
      BY <1>7, <2>1, <2>2 DEF Page, Alike
    <2> QED BY <2>3 DEF A
  <1>12. CASE ~Current(q)
    <2>1. y = w
      BY <1>12
    <2>2. ~q.mine
      BY <1>12 DEF Current
    <2> HIDE DEF w, y
    <2>3. Fine(w, p \o down, 0, un)
      <3> DEFINE u == up \o c.out
                 s == p \o down
      <3>1. Talk(c, s, 0, u, lives, sess) /\ Asking(c, s, 0, u, lives, sess)
        BY <1>10 DEF Fine, Flow, Talk, u, s
      <3> HIDE DEF u, s
      <3>2. Talk(w, s, 0, u, lives, sess)
        BY <1>11, <3>1, AlikeTalk
      <3>3. Asking(w, s, 0, u, lives, sess)
        <4>1. \A r : RequestOK(c, r, s, lives) => RequestOK(w, r, s, lives)
          BY <1>11 DEF RequestOK, Covered, Alike
        <4> QED BY <1>11, <3>1, <4>1 DEF Asking
      <3>4. Flow(w, s, 0, u, lives, sess)
        BY <3>2, <3>3 DEF Flow, Talk
      <3>5. Backed(adapter, remade, lives, disk, writes \o w.puts, w)
        <4>1. Backed(adapter, remade, lives, disk, writes \o w.puts, c)
          BY <1>10, <1>11 DEF Fine
        <4>2. Keeps(c, w)
          BY <1>11 DEF Keeps, Alike
        <4> QED BY <4>1, <4>2, BackedKeeps
      <3>6. PageOK(w, lives, pages)
        BY <1>10, <1>11 DEF PageOK, Fine, Alike
      <3>7. /\ w.dirty => adapter = "document"
            /\ w.reset \/ Explains(Elements(w.outbox), w.v, w.epoch, un, lives)
            /\ up \o w.out = u
        BY <1>10, <1>11 DEF Fine, Alike, u
      <3> QED BY <3>4, <3>5, <3>6, <3>7 DEF Fine, s
    <2>4. Handled(w, down', un)
      BY <1>3, <1>11, <2>3 DEF Handled
    <2>5. (w.reset \/ Unexplained' \subseteq Unexplained) /\ (w.reset => Unexplained' = {})
      BY <1>2, <1>3, <2>1, ToldExplains
    <2>6. ~link' => /\ w.out = <<>> /\ up = <<>> /\ down' = <<>> /\ ~sess
                    /\ ~w.synced /\ ~w.holds
      BY <1>3, <1>5, <1>7, <1>11 DEF Opened, Alike
    <2>7. Does(w) /\ down' \in Seq(DownMessage) /\ made' \in Nat /\ link' \in BOOLEAN
      BY <1>2, <1>3, <1>6, <2>1
    <2> QED BY <1>3, <1>5, <2>4, <2>5, <2>6, <2>7, HandlerDone DEF un
  <1>13. CASE Current(q)
    <2>1. q.mine
      BY <1>13 DEF Current
    <2>2. link'
      <3>1. c.holds
        BY <1>10, <2>1 DEF Fine, Flow, Asking
      <3> QED BY <1>3, <1>5, <3>1 DEF Opened
    <2>3. Handled(y, down', un)
      <3>1. CASE q.at = "body"
        <4>1. Handled(SnapshotLands(w, q), down, un)
          BY <1>5, <1>6, <1>7, <1>10, <2>1, <3>1, SnapshotHandled
        <4> QED BY <1>3, <1>13, <3>1, <4>1
      <3>2. CASE q.at # "body"
        <4>1. Handled(FetchFails(w), down, un)
          BY <1>5, <1>6, <1>7, <1>10, <2>1, FailureHandled
        <4> QED BY <1>3, <1>13, <3>2, <4>1
      <3> QED BY <3>1, <3>2
    <2> HIDE DEF y
    <2>4. (y.reset \/ Unexplained' \subseteq Unexplained) /\ (y.reset => Unexplained' = {})
      BY <1>2, <1>3, ToldExplains
    <2>5. down' \in Seq(DownMessage) /\ made' \in Nat /\ link' \in BOOLEAN
      BY <1>3, <1>6
    <2> QED BY <1>2, <1>3, <1>5, <2>2, <2>3, <2>4, <2>5, HandlerDone DEF un
  <1> QED BY <1>12, <1>13

\* When nothing is asked and no answer is to come, a hello may be said.
LEMMA SettledIs ==
  ASSUME TypesOK, Opened, Settled, "crossed" \notin Uses
  PROVE  /\ Idle(c) /\ c.held = <<>> /\ \E k \in Nat : Fine(c, down, k, Unexplained)
         /\ \A i \in 1 .. Len(up) : up[i].t # "hello"
         /\ \A i \in 1 .. Len(down) : ~Answers(down[i])
  <1>1. Handled(c, down, Unexplained) /\ c \in Page
    BY OpenedFine
  <1>2. PICK k \in Nat : Fine(c, c.held \o down, k, Unexplained)
    BY <1>1 DEF Handled
  <1>3. Crossing = {} /\ ~c.holds
    BY DEF Settled
  <1>4. Idle(c) /\ c.held = <<>>
    <2>1. Asking(c, c.held \o down, k, up \o c.out, lives, sess)
      BY <1>2 DEF Fine, Flow
    <2>2. Idle(c)
      BY <1>3, <2>1, IdleAsking
    <2> QED BY <2>2 DEF Idle
  <1>5. down \in Seq(DownMessage) /\ up \in Seq(UpMessage)
    BY DEF TypesOK
  <1>6. <<>> \o down = down
    BY <1>5, NoneBefore
  <1>7. ASSUME NEW i \in 1 .. Len(up) PROVE up[i].t # "hello"
    <2>1. up[i] \in Elements(up)
      BY <1>5 DEF Elements
    <2> QED BY <1>3, <2>1 DEF Crossing
  <1>8. ASSUME NEW i \in 1 .. Len(down) PROVE ~Answers(down[i])
    <2>1. down[i] \in Elements(down)
      BY <1>5 DEF Elements
    <2> QED BY <1>3, <2>1 DEF Crossing, Answers
  <1> QED BY <1>2, <1>4, <1>6, <1>7, <1>8

\* The client says its hello, or another client that is told apart by what it asks for.
LEMMA HelloSaid ==
  ASSUME TypesOK, Lives(lives, pages), NEW x, NEW k \in Nat, NEW un,
         Fine(x, down, k, un), Idle(x), x.out = <<>>,
         \A i \in 1 .. Len(up) : up[i].t # "hello",
         \A i \in 1 .. Len(down) : ~Answers(down[i])
  PROVE  Handled(Hello(x), down, un)
  <1>1. down \in Seq(DownMessage) /\ up \in Seq(UpMessage)
    BY DEF TypesOK
  <1>2. up \o x.out = up
    BY <1>1, NoneBefore
  <1>3. \A i \in 1 .. Len(up \o x.out) : (up \o x.out)[i].t # "hello"
    BY <1>2
  <1>4. Fine(Hello(x), down, k, un) /\ Idle(Hello(x))
    BY <1>1, <1>3, HelloFine
  <1>5. <<>> \o down = down
    BY <1>1, NoneBefore
  <1> QED BY <1>4, <1>5 DEF Handled, Idle

\* The timer of retryHello.
LEMMA RetryKeeps ==
  ASSUME IInv, Retry, "crossed" \notin Uses
  PROVE  IInv'
  <1> DEFINE x == [c EXCEPT !.retry = FALSE]
             y == IF link THEN Hello(x) ELSE x
             un == Unexplained
  <1>1. /\ c.retry /\ Settled /\ Does(y)
        /\ adapter' = adapter /\ remade' = remade /\ link' = link /\ sess' = sess /\ down' = down
        /\ lives' = lives /\ made' = made /\ mine' = mine /\ moot' = moot /\ pages' = pages
    BY DEF Retry, store
  <1>2. c.on
    <2> SUFFICES ASSUME ~c.on PROVE FALSE
      OBVIOUS
    <2>1. ~c.retry
      BY DEF IInv, Shut, Off
    <2> QED BY <1>1, <2>1
  <1>3. TypesOK /\ Lives(lives, pages) /\ Opened
    BY <1>2 DEF IInv
  <1>4. /\ Idle(c) /\ c.held = <<>>
        /\ \A i \in 1 .. Len(up) : up[i].t # "hello"
        /\ \A i \in 1 .. Len(down) : ~Answers(down[i])
    BY <1>1, <1>3, SettledIs
  <1>5. PICK k \in Nat : Fine(c, down, k, un)
    BY <1>1, <1>3, SettledIs
  <1>6. c \in Page /\ c.out = <<>>
    BY <1>3, OpenedFine DEF Opened
  <1>7. /\ down \in Seq(DownMessage) /\ made \in Nat /\ link \in BOOLEAN
    BY <1>3 DEF TypesOK
  <1>8. Like(c, x) /\ Idle(x) /\ x.out = <<>> /\ x.held = <<>> /\ x.synced = c.synced /\ x.holds = c.holds
    BY <1>4, <1>6 DEF Like, Alike, Idle, Page
  <1> HIDE DEF x
  <1>9. Fine(x, down, k, un)
    BY <1>5, <1>8, LikeFine
  <1>10. Handled(y, down', un)
    <2>1. Handled(Hello(x), down, un)
      BY <1>3, <1>4, <1>8, <1>9, HelloSaid
    <2>2. Handled(x, down, un)
      <3>1. <<>> \o down = down
        BY <1>7, NoneBefore
      <3> QED BY <1>8, <1>9, <3>1 DEF Handled
    <2> QED BY <1>1, <2>1, <2>2
  <1>11. ~link' => /\ y.out = <<>> /\ up = <<>> /\ down' = <<>> /\ ~sess
                   /\ ~y.synced /\ ~y.holds
    BY <1>1, <1>3, <1>8 DEF Opened
  <1> HIDE DEF y
  <1>12. (y.reset \/ Unexplained' \subseteq Unexplained) /\ (y.reset => Unexplained' = {})
    BY <1>1, ToldExplains
  <1>13. down' \in Seq(DownMessage) /\ made' \in Nat /\ link' \in BOOLEAN
    BY <1>1, <1>7
  <1> QED BY <1>1, <1>3, <1>10, <1>11, <1>12, <1>13, HandlerDone DEF un

\* The app asks for another hello.
LEMMA AgainKeeps ==
  ASSUME IInv, Again, "crossed" \notin Uses
  PROVE  IInv'
  <1> DEFINE y == Hello(c)
             un == Unexplained
  <1>1. /\ link /\ Settled /\ Does(y)
        /\ adapter' = adapter /\ remade' = remade /\ link' = link /\ sess' = sess /\ down' = down
        /\ lives' = lives /\ made' = made /\ mine' = mine /\ moot' = moot /\ pages' = pages
    BY DEF Again, store
  <1>2. c.on
    BY <1>1 DEF IInv, Shut
  <1>3. TypesOK /\ Lives(lives, pages) /\ Opened
    BY <1>2 DEF IInv
  <1>4. /\ Idle(c) /\ c.held = <<>>
        /\ \A i \in 1 .. Len(up) : up[i].t # "hello"
        /\ \A i \in 1 .. Len(down) : ~Answers(down[i])
    BY <1>1, <1>3, SettledIs
  <1>5. PICK k \in Nat : Fine(c, down, k, un)
    BY <1>1, <1>3, SettledIs
  <1>6. c.out = <<>>
    BY <1>3 DEF Opened
  <1>7. Handled(y, down', un)
    BY <1>1, <1>3, <1>4, <1>5, <1>6, HelloSaid
  <1> HIDE DEF y
  <1>8. (y.reset \/ Unexplained' \subseteq Unexplained) /\ (y.reset => Unexplained' = {})
    BY <1>1, ToldExplains
  <1>9. down' \in Seq(DownMessage) /\ made' \in Nat /\ link' \in BOOLEAN
    BY <1>1, <1>3 DEF TypesOK
  <1> QED BY <1>1, <1>3, <1>7, <1>8, <1>9, HandlerDone DEF un

\* A new socket: the client says its hello.
LEMMA OpenKeeps ==
  ASSUME IInv, Open
  PROVE  IInv'
  <1> DEFINE z == Cancelled(c)
             x == [z EXCEPT !.failed = FALSE, !.synced = FALSE]
             y == Hello(x)
             un == Unexplained
  <1>1. /\ c.on /\ ~link /\ link' = TRUE /\ Does(y)
        /\ adapter' = adapter /\ remade' = remade /\ sess' = sess /\ down' = down
        /\ lives' = lives /\ made' = made /\ mine' = mine /\ moot' = moot /\ pages' = pages
    BY DEF Open, store
  <1>2. TypesOK /\ Lives(lives, pages) /\ Opened
    BY <1>1 DEF IInv
  <1>3. up = <<>> /\ down = <<>> /\ ~c.synced /\ ~c.holds /\ c.out = <<>>
    BY <1>1, <1>2 DEF Opened
  <1>4. Handled(c, down, un) /\ c \in Page
    BY <1>2, OpenedFine
  <1>5. PICK k \in Nat : Fine(c, c.held \o down, k, un)
    BY <1>4 DEF Handled
  <1>6. c.held = <<>>
    <2>1. Asking(c, c.held \o down, k, up \o c.out, lives, sess)
      BY <1>5 DEF Fine, Flow
    <2> QED BY <1>3, <2>1 DEF Asking
  <1>7. down \in Seq(DownMessage) /\ made \in Nat
    BY <1>2 DEF TypesOK
  <1>8. Fine(c, down, k, un)
    <2>1. <<>> \o down = down
      BY <1>7, NoneBefore
    <2> QED BY <1>5, <1>6, <2>1
  <1>9. /\ z \in Page /\ Idle(z) /\ z.held = <<>>
        /\ z = [c EXCEPT !.holds = FALSE, !.held = <<>>, !.asks = z.asks]
    BY <1>4, CancelledIs
  <1> HIDE DEF z
  <1>10. Like(c, x) /\ Idle(x) /\ x.out = <<>>
    <2>1. Like(c, z) /\ ~z.synced /\ z.out = <<>>
      BY <1>3, <1>4, <1>9 DEF Like, Alike, Page
    <2>2. x \in Page /\ x.synced = z.synced
      BY <1>9, <2>1 DEF Page
    <2>3. /\ x.id = z.id /\ x.seq = z.seq /\ x.outbox = z.outbox /\ x.v = z.v /\ x.epoch = z.epoch
          /\ x.answered = z.answered /\ x.on = z.on /\ x.base = z.base /\ x.dirty = z.dirty
          /\ x.reset = z.reset /\ x.out = z.out /\ x.puts = z.puts
          /\ x.holds = z.holds /\ x.held = z.held /\ x.asks = z.asks
      BY <1>9 DEF Page
    <2> HIDE DEF x
    <2> QED BY <1>9, <2>1, <2>2, <2>3 DEF Like, Alike, Idle
  <1>11. x = [Cancelled(c) EXCEPT !.failed = FALSE, !.synced = FALSE]
    BY DEF z
  <1> HIDE DEF x
  <1>12. Fine(x, down, k, un)
    BY <1>8, <1>10, LikeFine
  <1>13. /\ \A i \in 1 .. Len(up) : up[i].t # "hello"
         /\ \A i \in 1 .. Len(down) : ~Answers(down[i])
    <2>1. Len(up) = 0 /\ Len(down) = 0 /\ \A i \in 1 .. 0 : FALSE
      BY <1>3
    <2> QED BY <2>1
  <1>14. Handled(y, down', un)
    BY <1>1, <1>2, <1>10, <1>12, <1>13, HelloSaid
  <1> HIDE DEF y
  <1>15. (y.reset \/ Unexplained' \subseteq Unexplained) /\ (y.reset => Unexplained' = {})
    BY <1>1, ToldExplains
  <1>16. down' \in Seq(DownMessage) /\ made' \in Nat /\ link' \in BOOLEAN
    BY <1>1, <1>7
  <1> QED BY <1>1, <1>2, <1>14, <1>15, <1>16, HandlerDone DEF un

-------------------------------------------------------------------------------
(* The link drops, pages die, and storage goes on.                         *)

\* A client that is not linked and asks for nothing has nothing to come.
LEMMA QuietFlow ==
  ASSUME NEW x, ~x.synced, Idle(x), NEW ls
  PROVE  Flow(x, <<>>, 0, <<>>, ls, FALSE)
  <1>1. /\ <<>> \in Seq(DownMessage) /\ <<>> \in Seq(UpMessage) /\ Len(<<>>) = 0
        /\ (\A i \in 1 .. 0 : FALSE) /\ (\A i \in 0 + 1 .. 0 : FALSE) /\ (\A i \in 1 .. 0 - 1 : FALSE)
        /\ 0 \in 0 .. 0
    OBVIOUS
  <1>2. Chained(<<>>, 0, ls, FALSE)
    BY <1>1 DEF Chained
  <1>3. Downward(x, <<>>, 0, ls)
    BY <1>1 DEF Downward
  <1>4. InTouch(x, <<>>, 0, ls, FALSE)
    BY DEF InTouch
  <1>5. Upward(x, <<>>, 0, <<>>, ls, FALSE)
    BY <1>1 DEF Upward
  <1> QED BY <1>2, <1>3, <1>4, <1>5, IdleAsking DEF Flow

\* The link drops.
LEMMA DropKeeps ==
  ASSUME IInv, Drop
  PROVE  IInv'
  <1> DEFINE z == Cancelled(c)
             y == [z EXCEPT !.synced = FALSE]
  <1>1. /\ link /\ c' = y /\ link' = FALSE /\ up' = <<>> /\ down' = <<>> /\ sess' = FALSE
        /\ adapter' = adapter /\ disk' = disk /\ writes' = writes /\ remade' = remade
        /\ lives' = lives /\ made' = made /\ mine' = mine /\ moot' = moot /\ told' = told
        /\ pages' = pages
    BY DEF Drop, Unlinked, kept, store, ghost
  <1>2. c.on
    BY <1>1 DEF IInv, Shut
  <1>3. TypesOK /\ Lives(lives, pages) /\ Opened
    BY <1>2 DEF IInv
  <1>4. c \in Page /\ PageOK(c, lives, pages)
    BY <1>3, OpenedFine DEF Opened
  <1>5. /\ z \in Page /\ Idle(z) /\ z.held = <<>>
        /\ z = [c EXCEPT !.holds = FALSE, !.held = <<>>, !.asks = z.asks]
    BY <1>4, CancelledIs
  <1> HIDE DEF z
  <1>6. /\ y \in Page /\ ~y.synced /\ Idle(y) /\ y.held = <<>> /\ ~y.holds
        /\ y.id = c.id /\ y.seq = c.seq /\ y.outbox = c.outbox /\ y.v = c.v /\ y.epoch = c.epoch
        /\ y.on = c.on /\ y.base = c.base /\ y.dirty = c.dirty
        /\ y.reset = c.reset /\ y.out = c.out /\ y.puts = c.puts
    <2>1. /\ z.id = c.id /\ z.seq = c.seq /\ z.outbox = c.outbox /\ z.v = c.v /\ z.epoch = c.epoch
          /\ z.on = c.on /\ z.base = c.base /\ z.dirty = c.dirty
          /\ z.reset = c.reset /\ z.out = c.out /\ z.puts = c.puts /\ ~z.holds
      BY <1>4, <1>5 DEF Page
    <2>2. /\ y.id = z.id /\ y.seq = z.seq /\ y.outbox = z.outbox /\ y.v = z.v /\ y.epoch = z.epoch
          /\ y.on = z.on /\ y.base = z.base /\ y.dirty = z.dirty /\ y.reset = z.reset
          /\ y.out = z.out /\ y.puts = z.puts /\ y.asks = z.asks /\ y.held = z.held
          /\ y.holds = z.holds /\ ~y.synced /\ y \in Page
      BY <1>5 DEF Page
    <2> HIDE DEF y
    <2>3. Idle(y)
      BY <1>5, <2>2 DEF Idle
    <2> QED BY <1>5, <2>1, <2>2, <2>3
  <1> HIDE DEF y
  <1>7. Flow(y, <<>>, 0, <<>>, lives, FALSE)
    BY <1>6, QuietFlow
  <1>8. Backed(adapter, remade, lives, disk, writes, y)
    <2>1. Keeps(c, y)
      BY <1>6 DEF Keeps
    <2>2. Backed(adapter, remade, lives, disk, writes, c)
      BY <1>3 DEF Opened
    <2> QED BY <2>1, <2>2, BackedKeeps
  <1>9. TypesOK'
    <2>1. <<>> \in Seq(UpMessage) /\ <<>> \in Seq(DownMessage)
      OBVIOUS
    <2> QED BY <1>1, <1>3, <2>1 DEF TypesOK
  <1>10. Lives(lives, pages)'
    BY <1>1, <1>3 DEF Lives
  <1>11. Opened'
    <2>1. <<>> \o <<>> = <<>>
      OBVIOUS
    <2>2. Pending' = <<>>
      BY <1>1, <1>6, <2>1 DEF Pending
    <2>3. PageOK(y, lives, pages)
      BY <1>4, <1>6 DEF PageOK
    <2>4. Unexplained' = Unexplained
      BY <1>1 DEF Unexplained
    <2>5. /\ y.reset = FALSE /\ y.out = <<>> /\ y.puts = <<>> /\ (y.dirty => adapter = "document")
          /\ Explains(Elements(y.outbox), y.v, y.epoch, Unexplained, lives)
      BY <1>3, <1>6 DEF Opened
    <2>6. PageOK(c, lives, pages)'
      BY <1>1, <2>3 DEF PageOK, Owns, Whole
    <2>7. Backed(adapter, remade, lives, disk, writes, c)'
      BY <1>1, <1>8
    <2>8. \E k \in Nat : Flow(c', Pending', k, up', lives', sess')
      BY <1>1, <1>7, <2>2
    <2>9. Explains(Elements(c.outbox), c.v, c.epoch, Unexplained, lives)'
      BY <1>1, <2>4, <2>5
    <2> QED BY <1>1, <1>6, <2>5, <2>6, <2>7, <2>8, <2>9 DEF Opened
  <1>12. c'.on
    BY <1>1, <1>2, <1>6
  <1> QED BY <1>9, <1>10, <1>11, <1>12 DEF IInv

\* Storage goes on, and the page is as it was.
LEMMA StorageDone ==
  ASSUME IInv, c.on, c' = c, adapter' = adapter,
         link' = link, up' = up, down' = down, sess' = sess,
         lives' = lives, made' = made, mine' = mine, moot' = moot, told' = told, pages' = pages,
         Backed(adapter, remade', lives, disk', writes', c),
         writes' \in Seq(Write), remade' \in {"no", "gone", "rewriting"},
         adapter # "indexeddb" => writes' = <<>> /\ remade' = "no",
         remade' = "rewriting" => writes' # <<>>
  PROVE  IInv'
  <1>1. TypesOK /\ Lives(lives, pages) /\ Opened
    BY DEF IInv
  <1>2. TypesOK'
    BY <1>1 DEF TypesOK
  <1>3. Lives(lives, pages)'
    BY <1>1 DEF Lives
  <1>4. Opened'
    <2>1. Pending' = Pending /\ Unexplained' = Unexplained
      BY DEF Pending, Unexplained
    <2>2. PageOK(c, lives, pages)'
      BY <1>1 DEF Opened, PageOK, Owns, Whole
    <2>3. \E k \in Nat : Flow(c', Pending', k, up', lives', sess')
      BY <1>1, <2>1 DEF Opened
    <2>4. Explains(Elements(c.outbox), c.v, c.epoch, Unexplained, lives)'
      BY <1>1, <2>1 DEF Opened
    <2>5. Backed(adapter, remade, lives, disk, writes, c)'
      OBVIOUS
    <2> QED BY <1>1, <2>2, <2>3, <2>4, <2>5 DEF Opened
  <1> QED BY <1>2, <1>3, <1>4 DEF IInv

\* A write lands.
LEMMA LandKeeps ==
  ASSUME IInv, Land
  PROVE  IInv'
  <1>1. /\ writes # <<>> /\ remade # "gone"
        /\ disk' = Landed(disk, Head(writes)) /\ writes' = Tail(writes)
        /\ remade' = IF Len(writes) = 1 THEN "no" ELSE remade
        /\ adapter' = adapter /\ c' = c
        /\ link' = link /\ up' = up /\ down' = down /\ sess' = sess
        /\ lives' = lives /\ made' = made /\ mine' = mine /\ moot' = moot /\ told' = told
        /\ pages' = pages
    BY DEF Land, net, store, ghost
  <1>2. c.on
    BY <1>1 DEF IInv, Shut
  <1>3. TypesOK /\ Lives(lives, pages) /\ Opened
    BY <1>2 DEF IInv
  <1>4. /\ adapter = "indexeddb" /\ writes \in Seq(Write) /\ remade \in {"no", "rewriting"}
    BY <1>1, <1>3 DEF TypesOK
  <1>5. /\ Tail(writes) \in Seq(Write) /\ Head(writes) = writes[1]
        /\ (Tail(writes) = <<>> <=> Len(writes) = 1)
    BY <1>1, <1>4, TailIs
  <1>6. disk' = LandedBy(adapter, disk, writes[1])
    BY <1>1, <1>5 DEF Landed, LandedBy
  <1>7. Backed(adapter, remade, lives, disk', writes', c)
    <2>1. Backed(adapter, remade, lives, disk, writes, c)
      BY <1>3 DEF Opened
    <2>2. Backed(adapter, remade, lives, LandedBy(adapter, disk, writes[1]), Tail(writes), c)
      BY <1>1, <1>4, <2>1, BackedTail
    <2> QED BY <1>1, <1>6, <2>2
  <1>8. Backed(adapter, remade', lives, disk', writes', c)
    <2>1. CASE Len(writes) = 1
      <3>1. Backed(adapter, remade, lives, disk', <<>>, c)
        BY <1>1, <1>5, <1>7, <2>1
      <3>2. Whole(c.base, c.v, c.epoch, lives)
        BY <1>3 DEF Opened, PageOK
      <3>3. Backed(adapter, "no", lives, disk', <<>>, c)
        BY <1>1, <1>4, <3>1, <3>2, BackedLast
      <3> QED BY <1>1, <1>5, <2>1, <3>3
    <2>2. CASE Len(writes) # 1
      BY <1>1, <1>7, <2>2
    <2> QED BY <2>1, <2>2
  <1>9. remade' \in {"no", "gone", "rewriting"} /\ (remade' = "rewriting" => writes' # <<>>)
    BY <1>1, <1>4, <1>5
  <1> QED BY <1>1, <1>2, <1>4, <1>5, <1>8, <1>9, StorageDone

\* Another tab deletes the database.
LEMMA DestroyKeeps ==
  ASSUME IInv, Destroy
  PROVE  IInv'
  <1>1. /\ adapter = "indexeddb" /\ c.on /\ remade = "no"
        /\ disk' = Empty /\ writes' = writes /\ remade' = "gone"
        /\ adapter' = adapter /\ c' = c
        /\ link' = link /\ up' = up /\ down' = down /\ sess' = sess
        /\ lives' = lives /\ made' = made /\ mine' = mine /\ moot' = moot /\ told' = told
        /\ pages' = pages
    BY DEF Destroy, net, store, ghost
  <1>2. TypesOK /\ Lives(lives, pages) /\ Opened
    BY <1>1 DEF IInv
  <1>3. writes \in Seq(Write)
    BY <1>2 DEF TypesOK
  <1>4. Backed(adapter, "gone", lives, Empty, writes, c)
    <2>1. Backed(adapter, "no", lives, disk, writes, c)
      BY <1>1, <1>2 DEF Opened
    <2> QED BY <1>3, <2>1, BackedGone
  <1> QED BY <1>1, <1>3, <1>4, StorageDone

\* It is made anew, and all is to be written again.
LEMMA ReopenKeeps ==
  ASSUME IInv, Reopen
  PROVE  IInv'
  <1>1. /\ remade = "gone" /\ writes # <<>>
        /\ disk' = disk /\ writes' = writes \o Rewrite(c) /\ remade' = "rewriting"
        /\ adapter' = adapter /\ c' = c
        /\ link' = link /\ up' = up /\ down' = down /\ sess' = sess
        /\ lives' = lives /\ made' = made /\ mine' = mine /\ moot' = moot /\ told' = told
        /\ pages' = pages
    BY DEF Reopen, net, store, ghost
  <1>2. c.on
    BY <1>1 DEF IInv, Shut
  <1>3. TypesOK /\ Lives(lives, pages) /\ Opened /\ c \in Page
    BY <1>2, OpenedFine DEF IInv
  <1>4. adapter = "indexeddb" /\ writes \in Seq(Write)
    BY <1>1, <1>3 DEF TypesOK
  <1>5. /\ Rewrite(c) \in Seq(Write) /\ Rewrite(c) # <<>>
        /\ Backed(adapter, "rewriting", lives, disk, writes \o Rewrite(c), c)
    <2>1. Backed(adapter, "gone", lives, disk, writes, c)
      BY <1>1, <1>3 DEF Opened
    <2> QED BY <1>3, <1>4, <2>1, BackedAnew
  <1>6. writes \o Rewrite(c) \in Seq(Write) /\ writes \o Rewrite(c) # <<>>
    <2> DEFINE r == Rewrite(c)
    <2>1. r \in Seq(Write) /\ r # <<>>
      BY <1>5
    <2> HIDE DEF r
    <2>2. writes \o r \in Seq(Write) /\ Len(writes \o r) = Len(writes) + Len(r)
      BY <1>4, <2>1
    <2>3. Len(writes) \in Nat /\ Len(r) \in Nat /\ Len(r) # 0
      BY <1>4, <2>1
    <2>4. writes \o r # <<>>
      <3> SUFFICES Len(writes \o r) # 0
        OBVIOUS
      <3> QED BY <2>2, <2>3
    <2> QED BY <2>2, <2>4 DEF r
  <1>7. /\ remade' \in {"no", "gone", "rewriting"} /\ writes' # <<>> /\ writes' \in Seq(Write)
        /\ Backed(adapter, remade', lives, disk', writes', c)
    BY <1>1, <1>5, <1>6
  <1> QED BY <1>1, <1>2, <1>4, <1>7, StorageDone

\* A document adapter writes the base.
LEMMA WriteBaseKeeps ==
  ASSUME IInv, WriteBase
  PROVE  IInv'
  <1> DEFINE y == [c EXCEPT !.dirty = FALSE]
             e == [id |-> disk.id, seq |-> disk.seq, ops |-> disk.ops,
                   rows |-> c.base, v |-> c.v, epoch |-> c.epoch]
  <1>1. /\ c.dirty /\ disk' = e /\ c' = y
        /\ writes' = writes /\ remade' = remade /\ adapter' = adapter
        /\ link' = link /\ up' = up /\ down' = down /\ sess' = sess
        /\ lives' = lives /\ made' = made /\ mine' = mine /\ moot' = moot /\ told' = told
        /\ pages' = pages
    BY DEF WriteBase, net, store, ghost
  <1>2. c.on
    <2> SUFFICES ASSUME ~c.on PROVE FALSE
      OBVIOUS
    <2>1. ~c.dirty
      BY DEF IInv, Shut, Off
    <2> QED BY <1>1, <2>1
  <1>3. TypesOK /\ Lives(lives, pages) /\ Opened /\ c \in Page
    BY <1>2, OpenedFine DEF IInv
  <1>4. adapter = "document" /\ writes = <<>> /\ remade = "no"
    BY <1>1, <1>3 DEF Opened, TypesOK
  <1>5. /\ Kin(c, y) /\ y \in Page /\ ~y.dirty
        /\ y.on = c.on /\ y.base = c.base /\ y.reset = c.reset
        /\ y.out = c.out /\ y.puts = c.puts
    BY <1>3 DEF Kin, Alike, Page
  <1>6. /\ e.id = disk.id /\ e.seq = disk.seq /\ e.ops = disk.ops
        /\ e.rows = c.base /\ e.v = c.v /\ e.epoch = c.epoch
    OBVIOUS
  <1> HIDE DEF y, e
  <1>7. Backed(adapter, remade, lives, e, writes, y)
    <2>1. PICK D : /\ Trail(adapter, disk, writes, D)
                   /\ Reflects(adapter, remade, D[Len(writes)], c)
      BY <1>3 DEF Opened, Backed
    <2>2. Mirrors(adapter, disk, c)
      <3>1. Len(writes) = 0 /\ D[0] = disk /\ remade # "gone"
        BY <1>4, <2>1 DEF Trail
      <3> QED BY <2>1, <3>1 DEF Reflects
    <2> DEFINE F == [i \in {0} |-> e]
    <2>3. Trail(adapter, e, <<>>, F)
      BY TrailNone
    <2>4. Len(<<>>) = 0 /\ \A i \in 0 .. 0 : F[i] = e
      OBVIOUS
    <2> HIDE DEF F
    <2>5. Mirrors(adapter, e, y)
      BY <1>4, <1>5, <1>6, <2>2 DEF Mirrors, Kin, Alike
    <2>6. Whole(e.rows, e.v, e.epoch, lives)
      BY <1>3, <1>6 DEF Opened, PageOK
    <2>7. /\ Reflects(adapter, remade, F[0], y)
          /\ \A i \in 0 .. 0 : Whole(F[i].rows, F[i].v, F[i].epoch, lives)
      BY <1>4, <2>4, <2>5, <2>6 DEF Reflects
    <2>8. Backed(adapter, remade, lives, e, <<>>, y)
      BY <2>3, <2>4, <2>7 DEF Backed
    <2> QED BY <1>4, <2>8
  <1>8. TypesOK'
    BY <1>1, <1>3 DEF TypesOK
  <1>9. Lives(lives, pages)'
    BY <1>1, <1>3 DEF Lives
  <1>10. Opened'
    <2>1. Pending' = Pending /\ Unexplained' = Unexplained
      BY <1>1, <1>5 DEF Pending, Unexplained, Kin
    <2>2. PageOK(y, lives, pages)
      BY <1>3, <1>5 DEF Opened, PageOK, Kin, Alike
    <2>3. PageOK(c, lives, pages)'
      BY <1>1, <2>2
    <2>4. \E k \in Nat : Flow(c', Pending', k, up', lives', sess')
      <3>1. PICK k \in Nat : Flow(c, Pending, k, up, lives, sess)
        BY <1>3 DEF Opened
      <3>2. Flow(y, Pending, k, up, lives, sess)
        BY <1>5, <3>1, KinFlow
      <3> QED BY <1>1, <2>1, <3>2
    <2>5. Explains(Elements(c.outbox), c.v, c.epoch, Unexplained, lives)'
      BY <1>1, <1>3, <1>5, <2>1 DEF Opened, Kin, Alike
    <2>6. Backed(adapter, remade, lives, disk, writes, c)'
      BY <1>1, <1>7
    <2> QED BY <1>1, <1>3, <1>5, <2>3, <2>4, <2>5, <2>6 DEF Opened, Kin, Alike
  <1>11. c'.on
    BY <1>1, <1>2, <1>5
  <1> QED BY <1>8, <1>9, <1>10, <1>11 DEF IInv

\* The page dies, with nothing under way: storage has what it had.
LEMMA DieKeeps ==
  ASSUME IInv, Die, "kill" \notin Uses
  PROVE  IInv'
  <1>1. /\ c.on /\ writes = <<>> /\ remade = "no" /\ c' = Off /\ writes' = <<>> /\ remade' = "no"
        /\ link' = FALSE /\ up' = <<>> /\ down' = <<>> /\ sess' = FALSE
        /\ adapter' = adapter /\ disk' = disk /\ lives' = lives
        /\ made' = made /\ mine' = mine /\ moot' = moot /\ told' = told /\ pages' = pages
    BY DEF Die, Unlinked, store, ghost
  <1>2. TypesOK /\ Lives(lives, pages) /\ Opened /\ c \in Page
    BY <1>1, OpenedFine DEF IInv
  <1>3. /\ PageOK(c, lives, pages)
        /\ Explains(Elements(c.outbox), c.v, c.epoch, Unexplained, lives)
        /\ Backed(adapter, remade, lives, disk, writes, c)
    BY <1>2 DEF Opened
  <1>4. Mirrors(adapter, disk, c) /\ Whole(disk.rows, disk.v, disk.epoch, lives)
    <2>1. PICK D : /\ Trail(adapter, disk, writes, D)
                   /\ \A i \in 0 .. Len(writes) : Whole(D[i].rows, D[i].v, D[i].epoch, lives)
                   /\ Reflects(adapter, remade, D[Len(writes)], c)
      BY <1>1, <1>3 DEF Backed
    <2>2. Len(writes) = 0 /\ D[0] = disk /\ remade # "gone" /\ 0 \in 0 .. 0
      BY <1>1, <2>1 DEF Trail
    <2> QED BY <2>1, <2>2 DEF Reflects
  <1>5. /\ c.id \in 1 .. pages /\ c.seq \in Nat /\ pages \in Nat /\ c.outbox \in Seq(Op)
        /\ Owns(c.id, c.seq, Elements(c.outbox), lives) /\ Ascends(c.outbox)
    BY <1>2, <1>3 DEF PageOK, Page, TypesOK
  <1>6. disk.id \in 0 .. pages /\ disk.seq \in Nat
    BY <1>4, <1>5 DEF Mirrors
  <1>7. disk.id = 0 => disk.ops = {} /\ disk.seq = 0 /\ (adapter # "document" => disk = Empty)
    <2> SUFFICES ASSUME disk.id = 0
        PROVE  disk.ops = {} /\ disk.seq = 0 /\ (adapter # "document" => disk = Empty)
      OBVIOUS
    <2>1. c.seq = 0 /\ (adapter # "document" => disk = Empty) /\ disk.seq = c.seq
          /\ disk.ops = Elements(c.outbox)
      BY <1>4, <1>5 DEF Mirrors
    <2>2. \A o \in Elements(c.outbox) : o.seq \in 1 .. 0
      BY <1>5, <2>1 DEF Owns
    <2> QED BY <2>1, <2>2
  <1>8. disk.id # 0 => Owns(disk.id, disk.seq, disk.ops, lives)
    BY <1>4, <1>5 DEF Mirrors
  <1>9. \E s \in Seq(Op) : Ascends(s) /\ Elements(s) = disk.ops
    BY <1>4, <1>5 DEF Mirrors
  <1>10. mine \subseteq moot \cup told \cup {o.n : o \in disk.ops} \cup Decided
    <2> SUFFICES ASSUME NEW n \in mine, n \notin moot, n \notin told, n \notin {o.n : o \in disk.ops}
                 PROVE  n \in Decided
      OBVIOUS
    <2>1. n \in Unexplained
      BY DEF Unexplained
    <2>2. n \notin {o.n : o \in Elements(c.outbox)}
      BY <1>4 DEF Mirrors
    <2>3. c.v # 0 /\ n \in Numbers(lives[c.epoch])
      BY <1>3, <2>1, <2>2 DEF Explains
    <2>4. c.epoch \in 1 .. Len(lives)
      <3>1. c.epoch \in 0 .. Len(lives) /\ c.epoch # 0
        BY <1>3, <2>3 DEF PageOK, Whole
      <3>2. Len(lives) \in Nat
        BY <1>2 DEF Lives
      <3> QED BY <3>1, <3>2
    <2>5. lives[c.epoch] \in Elements(lives)
      BY <1>2, <2>4 DEF Elements, Lives
    <2> QED BY <2>3, <2>5 DEF Decided
  <1>11. TypesOK'
    <2>1. <<>> \in Seq(UpMessage) /\ <<>> \in Seq(DownMessage) /\ <<>> \in Seq(Write)
      OBVIOUS
    <2> QED BY <1>1, <1>2, <2>1 DEF TypesOK
  <1>12. Lives(lives, pages)'
    BY <1>1, <1>2 DEF Lives
  <1>13. Shut'
    BY <1>1, <1>4, <1>6, <1>7, <1>8, <1>9, <1>10
    DEF Shut, Whole, Owns, Decided
  <1>14. ~c'.on
    BY <1>1 DEF Off
  <1> QED BY <1>11, <1>12, <1>13, <1>14 DEF IInv

\* What is to come starts at no later version than the store's.
LEMMA StartIs ==
  ASSUME NEW s, NEW ls, NEW ss, Chained(s, 0, ls, ss), Len(Now(ls)) \in Nat
  PROVE  Start(s, ls) <= Len(Now(ls))
  <1>1. CASE s = <<>>
    BY <1>1 DEF Start
  <1>2. CASE s # <<>>
    <2>1. s \in Seq(DownMessage) /\ 1 \in 1 .. Len(s)
      BY <1>2 DEF Chained
    <2>2. s[1] \in DownMessage /\ s[1].t # "closed" /\ s[1].v <= Len(Now(ls))
      BY <2>1 DEF Chained
    <2>3. s[1].v \in Nat
      BY <2>2, DownKinds
    <2>4. From(s[1]) <= s[1].v
      BY <2>3 DEF From
    <2>5. From(s[1]) \in Int
      BY <2>3 DEF From
    <2> QED BY <1>2, <2>2, <2>3, <2>4, <2>5 DEF Start
  <1> QED BY <1>1, <1>2

\* A request q of the client was answered, as p says.
Asks(x, q, p, y) == y = [x EXCEPT !.asks = (x.asks \ {q}) \cup {p}]

\* The page is as right as it was.
LEMMA AnsweredKeeps ==
  ASSUME IInv, c.on, NEW q \in c.asks, NEW p \in Request, p.mine = q.mine, Asks(c, q, p, c'),
         \A s : q.mine /\ RequestOK(c, q, s, lives) /\ Chained(s, 0, lives, sess)
                  => RequestOK(c, p, s, lives),
         disk' = disk, writes' = writes, remade' = remade, adapter' = adapter,
         link' = link, up' = up, down' = down, sess' = sess,
         lives' = lives, made' = made, mine' = mine, moot' = moot, told' = told, pages' = pages
  PROVE  IInv'
  <1> DEFINE A == (c.asks \ {q}) \cup {p}
             y == [c EXCEPT !.asks = A]
  <1>1. TypesOK /\ Lives(lives, pages) /\ Opened /\ c \in Page
    BY OpenedFine DEF IInv
  <1>2. c' = y
    BY DEF Asks
  <1>3. A \in SUBSET Request
    BY <1>1 DEF Page
  <1>4. \A r \in A : r = p \/ (r \in c.asks /\ r # q)
    OBVIOUS
  <1> HIDE DEF A
  <1>5. /\ y \in Page /\ y.asks = A /\ Alike(c, y) /\ y.holds = c.holds /\ y.held = c.held
        /\ y.on = c.on /\ y.base = c.base /\ y.reset = c.reset /\ y.dirty = c.dirty
        /\ y.out = c.out /\ y.puts = c.puts
    BY <1>1, <1>3 DEF Alike, Page
  <1> HIDE DEF y
  <1>6. PICK k \in Nat : Flow(c, Pending, k, up, lives, sess)
    BY <1>1 DEF Opened
  <1>7. Talk(y, Pending, k, up, lives, sess)
    <2>1. Talk(c, Pending, k, up, lives, sess)
      BY <1>6 DEF Flow, Talk
    <2> QED BY <1>5, <2>1, AlikeTalk
  <1>8. Asking(y, Pending, k, up, lives, sess)
    <2>1. Asking(c, Pending, k, up, lives, sess) /\ Chained(Pending, k, lives, sess)
      BY <1>6 DEF Flow
    <2>2. \A r : RequestOK(c, r, Pending, lives) => RequestOK(y, r, Pending, lives)
      BY <1>5 DEF RequestOK, Covered, Alike
    <2>3. \A r, t \in A : r.mine /\ t.mine => r = t
      <3> SUFFICES ASSUME NEW r \in A, NEW t \in A, r.mine, t.mine PROVE r = t
        OBVIOUS
      <3> QED BY <1>4, <2>1 DEF Asking
    <2>4. ASSUME NEW r \in A, r.mine PROVE y.holds /\ (k = 0 => RequestOK(y, r, Pending, lives))
      <3>1. CASE r = p
        <4>1. q.mine
          BY <2>4, <3>1
        <4>2. c.holds /\ (k = 0 => RequestOK(c, q, Pending, lives))
          BY <2>1, <4>1 DEF Asking
        <4>3. k = 0 => RequestOK(c, p, Pending, lives)
          BY <2>1, <4>1, <4>2
        <4> QED BY <1>5, <2>2, <3>1, <4>2, <4>3
      <3>2. CASE r # p
        <4>1. r \in c.asks
          BY <1>4, <3>2
        <4>2. c.holds /\ (k = 0 => RequestOK(c, r, Pending, lives))
          BY <2>1, <2>4, <4>1 DEF Asking
        <4> QED BY <1>5, <2>2, <4>2
      <3> QED BY <3>1, <3>2
    <2> QED BY <1>5, <2>1, <2>3, <2>4 DEF Asking
  <1>9. Flow(y, Pending, k, up, lives, sess)
    BY <1>7, <1>8 DEF Flow, Talk
  <1>10. Backed(adapter, remade, lives, disk, writes, y)
    <2>1. Keeps(c, y)
      BY <1>5 DEF Keeps, Alike
    <2>2. Backed(adapter, remade, lives, disk, writes, c)
      BY <1>1 DEF Opened
    <2> QED BY <2>1, <2>2, BackedKeeps
  <1>11. TypesOK'
    BY <1>1 DEF TypesOK
  <1>12. Lives(lives, pages)'
    BY <1>1 DEF Lives
  <1>13. Opened'
    <2>1. Pending' = Pending /\ Unexplained' = Unexplained
      BY <1>2, <1>5 DEF Pending, Unexplained
    <2>2. PageOK(y, lives, pages)
      BY <1>1, <1>5 DEF Opened, PageOK, Alike
    <2>3. PageOK(c, lives, pages)'
      BY <1>2, <2>2
    <2>4. \E l \in Nat : Flow(c', Pending', l, up', lives', sess')
      BY <1>2, <1>9, <2>1
    <2>5. Explains(Elements(c.outbox), c.v, c.epoch, Unexplained, lives)'
      BY <1>1, <1>2, <1>5, <2>1 DEF Opened, Alike
    <2>6. Backed(adapter, remade, lives, disk, writes, c)'
      BY <1>2, <1>10
    <2> QED BY <1>1, <1>2, <1>5, <2>3, <2>4, <2>5, <2>6 DEF Opened, Alike
  <1>14. c'.on
    BY <1>2, <1>5
  <1> QED BY <1>11, <1>12, <1>13, <1>14 DEF IInv

\* The store serves a snapshot: it is of the version and the life the store is at.
LEMMA ServeKeeps ==
  ASSUME IInv, Serve
  PROVE  IInv'
  <1>1. PICK q \in c.asks :
          /\ q.at = "sent"
          /\ c' = [c EXCEPT !.asks = (@ \ {q}) \cup
                     {[q EXCEPT !.at = "body", !.life = epoch, !.v = version,
                                !.base = StateOf(history)]}]
    BY DEF Serve
  <1> DEFINE p == [q EXCEPT !.at = "body", !.life = epoch, !.v = version, !.base = StateOf(history)]
             h == Now(lives)
  <1>2. /\ disk' = disk /\ writes' = writes /\ remade' = remade /\ adapter' = adapter
        /\ link' = link /\ up' = up /\ down' = down /\ sess' = sess
        /\ lives' = lives /\ made' = made /\ mine' = mine /\ moot' = moot /\ told' = told
        /\ pages' = pages
    BY DEF Serve, kept, net, store, ghost
  <1>3. c.on
    <2> SUFFICES ASSUME ~c.on PROVE FALSE
      OBVIOUS
    <2>1. c.asks = {}
      BY DEF IInv, Shut, Off
    <2> QED BY <2>1
  <1>4. TypesOK /\ Lives(lives, pages) /\ Opened /\ c \in Page
    BY <1>3, OpenedFine DEF IInv
  <1>5. q \in Request
    BY <1>4 DEF Page
  <1>6. h \in Seq(Op) /\ Len(h) \in Nat /\ epoch \in Nat /\ epoch = Len(lives) /\ history = h
        /\ version = Len(h) /\ Len(lives) \in 1 .. Len(lives)
    <2>1. Len(lives) \in 1 .. Len(lives) /\ lives \in Seq(Seq(Op))
      BY <1>4 DEF Lives
    <2>2. h \in Seq(Op)
      BY <2>1 DEF Now
    <2> QED BY <2>1, <2>2 DEF Now, epoch, history, version
  <1>7. StateOf(history) \in Rows
    BY <1>6, StateRows
  <1>8. /\ p \in Request /\ p.mine = q.mine /\ p.at = "body" /\ p.life = epoch /\ p.v = version
        /\ p.base = StateOf(history) /\ p.seq = q.seq
    <2> DEFINE e == epoch
               v == version
               b == StateOf(history)
    <2>1. e \in Nat /\ v \in Nat /\ b \in Rows
      BY <1>6, <1>7
    <2> HIDE DEF e, v, b
    <2>2. p = [q EXCEPT !.at = "body", !.life = e, !.v = v, !.base = b]
      BY DEF e, v, b
    <2>3. /\ p \in Request /\ p.mine = q.mine /\ p.at = "body" /\ p.life = e /\ p.v = v
          /\ p.base = b /\ p.seq = q.seq
      BY <1>5, <2>1, <2>2 DEF Request
    <2> QED BY <2>3 DEF e, v, b
  <1>9. Asks(c, q, p, c')
    BY <1>1 DEF Asks
  <1> HIDE DEF p, h
  <1>10. ASSUME NEW s, RequestOK(c, q, s, lives), Chained(s, 0, lives, sess)
         PROVE  RequestOK(c, p, s, lives)
    <2>1. /\ c.answered <= q.seq /\ q.seq <= c.seq /\ Covered(c, q.seq, h, Len(h))
      BY <1>10 DEF RequestOK, h
    <2>2. UpTo(h, Len(h)) = h
      BY <1>6, SubSeqFull DEF UpTo
    <2>3. Start(s, lives) <= Len(h)
      BY <1>6, <1>10, StartIs DEF h
    <2>4. c.epoch = Len(lives) /\ c.v > 0 => Len(h) > 0
      <3> SUFFICES ASSUME c.epoch = Len(lives), c.v > 0 PROVE Len(h) > 0
        OBVIOUS
      <3>1. Whole(c.base, c.v, c.epoch, lives)
        BY <1>4 DEF Opened, PageOK
      <3>2. c.v <= Len(lives[c.epoch]) /\ c.v \in Nat
        BY <1>6, <3>1 DEF Whole, AsOf
      <3>3. lives[c.epoch] = h
        BY DEF h, Now
      <3> QED BY <1>6, <3>2, <3>3
    <2>5. Len(h) <= Len(h)
      BY <1>6
    <2> QED BY <1>6, <1>8, <2>1, <2>2, <2>3, <2>4, <2>5 DEF RequestOK, h
  <1> QED BY <1>2, <1>3, <1>8, <1>9, <1>10, AnsweredKeeps

\* A request is refused.
LEMMA NotServedKeeps ==
  ASSUME IInv, NotServed
  PROVE  IInv'
  <1>1. PICK q \in c.asks :
          /\ q.at = "sent"
          /\ c' = [c EXCEPT !.asks = (@ \ {q}) \cup {[q EXCEPT !.at = "failed"]}]
    BY DEF NotServed
  <1> DEFINE p == [q EXCEPT !.at = "failed"]
  <1>2. /\ disk' = disk /\ writes' = writes /\ remade' = remade /\ adapter' = adapter
        /\ link' = link /\ up' = up /\ down' = down /\ sess' = sess
        /\ lives' = lives /\ made' = made /\ mine' = mine /\ moot' = moot /\ told' = told
        /\ pages' = pages
    BY DEF NotServed, kept, net, store, ghost
  <1>3. c.on
    <2> SUFFICES ASSUME ~c.on PROVE FALSE
      OBVIOUS
    <2>1. c.asks = {}
      BY DEF IInv, Shut, Off
    <2> QED BY <2>1
  <1>4. q \in Request
    BY <1>3, OpenedFine DEF IInv, Page
  <1>5. p \in Request /\ p.mine = q.mine /\ p.at = "failed" /\ p.seq = q.seq
    BY <1>4 DEF Request
  <1>6. Asks(c, q, p, c')
    BY <1>1 DEF Asks
  <1> HIDE DEF p
  <1>7. \A s : RequestOK(c, q, s, lives) => RequestOK(c, p, s, lives)
    BY <1>5 DEF RequestOK
  <1> QED BY <1>2, <1>3, <1>5, <1>6, <1>7, AnsweredKeeps

-------------------------------------------------------------------------------
(* The store.                                                              *)

\* What was decided stays decided.
LEMMA DecidedGrows ==
  ASSUME NEW ls, NEW l2, Grows(ls, l2) \/ AnotherLife(ls, l2)
  PROVE  UNION {Numbers(l) : l \in Elements(ls)} \subseteq UNION {Numbers(l) : l \in Elements(l2)}
  <1> SUFFICES ASSUME NEW l \in Elements(ls), NEW n \in Numbers(l)
               PROVE  \E g \in Elements(l2) : n \in Numbers(g)
    OBVIOUS
  <1>1. /\ ls \in Seq(Seq(Op)) /\ l2 \in Seq(Seq(Op)) /\ Len(ls) <= Len(l2)
        /\ \A e \in 1 .. Len(ls) : Extends(l2[e], ls[e])
    <2>1. CASE Grows(ls, l2)
      BY <2>1 DEF Grows
    <2>2. CASE AnotherLife(ls, l2)
      <3>1. ls \in Seq(Seq(Op)) /\ l2 \in Seq(Seq(Op)) /\ Len(l2) = Len(ls) + 1 /\ Len(ls) \in Nat
            /\ \A e \in 1 .. Len(ls) : l2[e] = ls[e]
        BY <2>2 DEF AnotherLife
      <3>2. \A e \in 1 .. Len(ls) : Extends(ls[e], ls[e])
        <4> SUFFICES ASSUME NEW e \in 1 .. Len(ls) PROVE Extends(ls[e], ls[e])
          OBVIOUS
        <4>1. ls[e] \in Seq(Op)
          BY <3>1
        <4> QED BY <4>1 DEF Extends
      <3> QED BY <3>1, <3>2
    <2> QED BY <2>1, <2>2
  <1>2. PICK e \in 1 .. Len(ls) : l = ls[e]
    BY <1>1 DEF Elements
  <1>3. l \in Seq(Op) /\ l2[e] \in Seq(Op) /\ e \in 1 .. Len(l2) /\ Extends(l2[e], l)
    BY <1>1, <1>2
  <1>4. PICK i \in 1 .. Len(l) : n = l[i].n
    BY <1>3 DEF Numbers
  <1>5. i \in 1 .. Len(l2[e]) /\ l2[e][i].n = n
    BY <1>3, <1>4 DEF Extends
  <1>6. n \in Numbers(l2[e])
    BY <1>3, <1>5 DEF Numbers
  <1>7. l2[e] \in Elements(l2)
    BY <1>1, <1>3 DEF Elements
  <1> QED BY <1>6, <1>7

\* The page is as right as it was when the store goes on.
LEMMA StoreDone ==
  ASSUME IInv, c.on, c' = c, disk' = disk, writes' = writes, remade' = remade,
         adapter' = adapter, link' = link, pages' = pages,
         mine' = mine, moot' = moot, told' = told, made' \in Nat,
         Grows(lives, lives') \/ AnotherLife(lives, lives'), Lives(lives', pages),
         Owns(c.id, c.seq, Elements(c.outbox), lives'),
         NEW k \in Nat, Flow(c, c.held \o down', k, up', lives', sess'),
         up' \in Seq(UpMessage), down' \in Seq(DownMessage), sess' \in BOOLEAN,
         ~link => up' = <<>> /\ down' = <<>> /\ ~sess'
  PROVE  IInv'
  <1>1. TypesOK /\ Opened /\ c \in Page
    BY OpenedFine DEF IInv
  <1>2. Whole(c.base, c.v, c.epoch, lives) /\ Explains(Elements(c.outbox), c.v, c.epoch, Unexplained, lives)
        /\ Backed(adapter, remade, lives, disk, writes, c)
    BY <1>1 DEF Opened, PageOK
  <1>3. c.v # 0 => c.epoch \in 1 .. Len(lives)
    <2>1. c.epoch \in 0 .. Len(lives) /\ (c.v # 0 => c.epoch # 0)
      BY <1>2 DEF Whole
    <2>2. Len(lives) \in Nat
      BY DEF Grows, AnotherLife
    <2> QED BY <2>1, <2>2
  <1>4. Whole(c.base, c.v, c.epoch, lives')
    BY <1>2, WholeGrows, AgainHolds
  <1>5. Explains(Elements(c.outbox), c.v, c.epoch, Unexplained, lives')
    BY <1>2, <1>3, ExplainsGrows, AgainHolds
  <1>6. Backed(adapter, remade, lives', disk, writes, c)
    BY <1>2, BackedGrows
  <1>7. TypesOK'
    BY <1>1 DEF TypesOK
  <1>8. Opened'
    <2>1. Pending' = c.held \o down' /\ Unexplained' = Unexplained
      BY DEF Pending, Unexplained
    <2>2. PageOK(c, lives', pages)
      BY <1>1, <1>4 DEF Opened, PageOK
    <2>3. PageOK(c, lives, pages)'
      BY <2>2
    <2>4. \E l \in Nat : Flow(c', Pending', l, up', lives', sess')
      BY <2>1
    <2>5. Explains(Elements(c.outbox), c.v, c.epoch, Unexplained, lives)'
      BY <1>5, <2>1
    <2>6. Backed(adapter, remade, lives, disk, writes, c)'
      BY <1>6
    <2> QED BY <1>1, <2>3, <2>4, <2>5, <2>6 DEF Opened
  <1> QED BY <1>7, <1>8 DEF IInv

\* With no page open storage is as right as it was when the store goes on.
LEMMA StoreShut ==
  ASSUME IInv, ~c.on, c' = c, disk' = disk, writes' = writes, remade' = remade,
         adapter' = adapter, link' = link, pages' = pages, up' = up, down' = down, sess' = sess,
         mine' = mine, moot' = moot, told' = told, made' \in Nat,
         Grows(lives, lives') \/ AnotherLife(lives, lives'), Lives(lives', pages),
         disk.id # 0 => Owns(disk.id, disk.seq, disk.ops, lives')
  PROVE  IInv'
  <1>1. TypesOK /\ Shut
    BY DEF IInv
  <1>2. Whole(disk.rows, disk.v, disk.epoch, lives')
    BY <1>1, WholeGrows, AgainHolds DEF Shut
  <1>3. Decided \subseteq Decided'
    BY DecidedGrows DEF Decided
  <1>4. TypesOK'
    BY <1>1 DEF TypesOK
  <1>5. Shut'
    <2>1. mine \subseteq moot \cup told \cup {o.n : o \in disk.ops} \cup Decided'
      BY <1>1, <1>3 DEF Shut
    <2>2. (disk.id # 0 => Owns(disk.id, disk.seq, disk.ops, lives))'
      OBVIOUS
    <2>3. Whole(disk.rows, disk.v, disk.epoch, lives)'
      BY <1>2
    <2> QED BY <1>1, <2>1, <2>2, <2>3 DEF Shut
  <1> QED BY <1>4, <1>5 DEF IInv

\* What waits and what is to come, with more to come.
LEMMA MoreToCome ==
  ASSUME NEW p \in Seq(DownMessage), NEW d \in Seq(DownMessage), NEW w \in Seq(DownMessage)
  PROVE  p \o (d \o w) = (p \o d) \o w /\ d \o w \in Seq(DownMessage)
  BY ConcatAssociative

\* The store another wrote in.
LEMMA OthersWriteKeeps ==
  ASSUME IInv, OthersWrite
  PROVE  IInv'
  <1>1. PICK recs \in Edits :
          LET h == Append(history, [n |-> made', by |-> 0, seq |-> 0, recs |-> recs])
          IN  /\ Grown(h)
              /\ down' = IF sess THEN down \o Patches(h, version) ELSE down
    BY DEF OthersWrite
  <1> DEFINE o == [n |-> made', by |-> 0, seq |-> 0, recs |-> recs]
             g == Append(Now(lives), o)
  <1>2. /\ made' = made + 1 /\ c' = c /\ disk' = disk /\ writes' = writes /\ remade' = remade
        /\ adapter' = adapter /\ link' = link /\ up' = up /\ sess' = sess /\ pages' = pages
        /\ mine' = mine /\ moot' = moot /\ told' = told
    BY DEF OthersWrite, kept
  <1>3. TypesOK /\ Lives(lives, pages)
    BY DEF IInv
  <1>4. made \in Nat /\ made' \in Nat /\ pages \in Nat /\ sess \in BOOLEAN
        /\ down \in Seq(DownMessage) /\ up \in Seq(UpMessage)
    BY <1>2, <1>3 DEF TypesOK
  <1>5. o \in Op /\ o.by = 0
    <2>1. recs \in SUBSET Records
      BY ReplicaAssumption
    <2> QED BY <1>4, <2>1 DEF Op
  <1>6. lives' = [lives EXCEPT ![Len(lives)] = g] /\ version = Len(Now(lives))
        /\ down' = IF sess THEN down \o Patches(g, Len(Now(lives))) ELSE down
    BY <1>1 DEF Grown, history, epoch, version, Now
  <1>7. Now(lives) \in Seq(Op) /\ Len(Now(lives)) \in Nat
    <2>1. Len(lives) \in 1 .. Len(lives) /\ lives \in Seq(Seq(Op))
      BY <1>3 DEF Lives
    <2>2. Now(lives) \in Seq(Op)
      BY <2>1 DEF Now
    <2> QED BY <2>2
  <1>8. g \in Seq(Op) /\ Len(g) = Len(Now(lives)) + 1
    BY <1>5, <1>7
  <1> HIDE DEF o
  <1>9. CASE c.on
    <2>1. Opened
      BY <1>9 DEF IInv
    <2>2. PICK k \in Nat : Flow(c, c.held \o down, k, up, lives, sess)
      BY <2>1 DEF Opened, Pending
    <2>3. PageOK(c, lives, pages) /\ c \in Page /\ c.held \in Seq(DownMessage)
      BY <2>1 DEF Opened, PageOK, Page
    <2> DEFINE w == IF sess THEN Patches(g, Len(Now(lives))) ELSE <<>>
               ls == lives'
    <2>4. g = Append(Now(lives), o) /\ ls = [lives EXCEPT ![Len(lives)] = g]
      BY <1>6
    <2> HIDE DEF g, ls
    <2>5. PassedOn(w, g, Len(Now(lives)), sess)
      BY <1>4 DEF PassedOn
    <2>6. w \in Seq(DownMessage)
      <3>1. Len(Now(lives)) \in 0 .. Len(g)
        BY <1>7, <1>8
      <3>2. Patches(g, Len(Now(lives))) \in Seq(DownMessage)
        BY <1>8, <3>1, PatchesIs
      <3> QED BY <3>2
    <2>7. down' = down \o w
      BY <1>4, <1>6, NoneBefore
    <2> HIDE DEF w
    <2>12. /\ Grows(lives, ls) /\ Lives(ls, pages)
           /\ Owns(c.id, c.seq, Elements(c.outbox), ls)
           /\ Flow(c, (c.held \o down) \o w, k, up, ls, sess)
      <3> DEFINE s == c.held \o down
      <3>1. /\ pages \in Nat /\ Lives(lives, pages) /\ PageOK(c, lives, pages)
            /\ Flow(c, s, k, up, lives, sess) /\ o \in Op /\ o.by = 0
            /\ g = Append(Now(lives), o) /\ ls = [lives EXCEPT ![Len(lives)] = g]
            /\ PassedOn(w, g, Len(Now(lives)), sess)
        BY <1>3, <1>4, <1>5, <2>2, <2>3, <2>4, <2>5
      <3> HIDE DEF s
      <3>2. /\ Grows(lives, ls) /\ Lives(ls, pages)
            /\ Owns(c.id, c.seq, Elements(c.outbox), ls)
            /\ Flow(c, s \o w, k, up, ls, sess)
        BY <3>1, OthersTaken
      <3> QED BY <3>2 DEF s
    <2>8. c.held \o down' = (c.held \o down) \o w /\ down' \in Seq(DownMessage)
      BY <1>4, <2>3, <2>6, <2>7, MoreToCome
    <2>9. Flow(c, c.held \o down', k, up', ls, sess')
      BY <1>2, <2>8, <2>12
    <2>10. ~link => up' = <<>> /\ down' = <<>> /\ ~sess'
      BY <1>2, <1>6, <2>1 DEF Opened
    <2>11. Grows(lives, lives') /\ Lives(lives', pages)
           /\ Owns(c.id, c.seq, Elements(c.outbox), lives')
           /\ Flow(c, c.held \o down', k, up', lives', sess')
      BY <2>9, <2>12 DEF ls
    <2> QED BY <1>2, <1>4, <1>9, <2>8, <2>10, <2>11, StoreDone
  <1>10. CASE ~c.on
    <2>1. Shut
      BY <1>10 DEF IInv
    <2> DEFINE ls == lives'
    <2>2. g = Append(Now(lives), o) /\ ls = [lives EXCEPT ![Len(lives)] = g]
      BY <1>6
    <2> HIDE DEF g, ls
    <2>3. /\ Grows(lives, ls) /\ Lives(ls, pages)
          /\ \A id, seq, ops : id # 0 /\ Owns(id, seq, ops, lives) => Owns(id, seq, ops, ls)
      BY <1>3, <1>4, <1>5, <2>2, OthersOwn
    <2>4. disk.id # 0 => Owns(disk.id, disk.seq, disk.ops, ls)
      BY <2>1, <2>3 DEF Shut
    <2>5. down' = down
      BY <1>6, <2>1 DEF Shut
    <2>6. Grows(lives, lives') /\ Lives(lives', pages)
          /\ (disk.id # 0 => Owns(disk.id, disk.seq, disk.ops, lives'))
      BY <2>3, <2>4 DEF ls
    <2> QED BY <1>2, <1>4, <1>10, <2>5, <2>6, StoreShut
  <1> QED BY <1>9, <1>10

\* The store is put back from a backup.
LEMMA RestoreKeeps ==
  ASSUME IInv, Restore, "early" \notin Uses
  PROVE  IInv'
  <1>1. /\ ~sess \/ (up = <<>> /\ Crossing = {})
        /\ sess' = FALSE
        /\ down' = IF sess THEN Append(down, [t |-> "closed"]) ELSE down
        /\ c' = c /\ disk' = disk /\ writes' = writes /\ remade' = remade
        /\ adapter' = adapter /\ link' = link /\ up' = up /\ pages' = pages
        /\ made' = made /\ mine' = mine /\ moot' = moot /\ told' = told
    BY DEF Restore, kept, ghost
  <1>2. PICK v \in 0 .. version : lives' = Append(lives, UpTo(history, v))
    BY DEF Restore
  <1>3. TypesOK /\ Lives(lives, pages)
    BY DEF IInv
  <1>4. made' \in Nat /\ pages \in Nat /\ sess \in BOOLEAN
        /\ down \in Seq(DownMessage) /\ up \in Seq(UpMessage)
    BY <1>1, <1>3 DEF TypesOK
  <1>5. AnotherLife(lives, lives')
    <2>1. lives \in Seq(Seq(Op)) /\ Len(lives) >= 1
      BY <1>3 DEF Lives
    <2>2. v \in 0 .. Len(Now(lives)) /\ history = Now(lives)
      BY DEF version, history, epoch, Now
    <2>3. AnotherLife(lives, Append(lives, UpTo(Now(lives), v)))
      BY <2>1, <2>2, AgainIs
    <2> QED BY <1>2, <2>2, <2>3
  <1>6. Lives(lives', pages)
    BY <1>3, <1>5, AgainHolds
  <1>7. CASE c.on
    <2>1. Opened
      BY <1>7 DEF IInv
    <2>2. PICK k \in Nat : Flow(c, c.held \o down, k, up, lives, sess)
      BY <2>1 DEF Opened, Pending
    <2>3. PageOK(c, lives, pages) /\ c \in Page /\ c.held \in Seq(DownMessage)
      BY <2>1 DEF Opened, PageOK, Page
    <2>4. c.epoch \in 0 .. Len(lives) /\ Owns(c.id, c.seq, Elements(c.outbox), lives)
      BY <2>3 DEF PageOK, Whole
    <2>5. Owns(c.id, c.seq, Elements(c.outbox), lives')
      BY <1>5, <2>4, AgainHolds
    <2>6. CASE sess
      <3> DEFINE s == c.held \o down
                 end == [t |-> "closed"]
      <3>1. end \in DownMessage
        BY DEF DownMessage, Closing
      <3> HIDE DEF end
      <3>2. /\ Append(s, end) = c.held \o Append(down, end) /\ Append(down, end) \in Seq(DownMessage)
            /\ s \in Seq(DownMessage)
        <4> DEFINE p == c.held
        <4>1. p \in Seq(DownMessage) /\ down \in Seq(DownMessage) /\ end \in DownMessage
          BY <1>4, <2>3, <3>1
        <4> HIDE DEF p
        <4>2. /\ Append(p \o down, end) = p \o Append(down, end)
              /\ Append(down, end) \in Seq(DownMessage) /\ p \o down \in Seq(DownMessage)
          BY <4>1, AppendThen
        <4> QED BY <4>2 DEF p
      <3>3. up = <<>> /\ Crossing = {} /\ sess = TRUE
        BY <1>1, <1>4, <2>6
      <3>4. Len(s) = Len(c.held) + Len(down) /\ Len(c.held) \in Nat /\ Len(down) \in Nat
            /\ (\A i \in 1 .. Len(c.held) : s[i] = c.held[i])
            /\ (\A i \in 1 .. Len(down) : s[Len(c.held) + i] = down[i])
            /\ (\A i \in Len(c.held) + 1 .. Len(s) : s[i] = down[i - Len(c.held)])
        BY <1>4, <2>3, ConcatIs
      <3> HIDE DEF s
      <3>5. \A i \in 1 .. Len(s) : ~Answers(s[i])
        <4> SUFFICES ASSUME NEW i \in 1 .. Len(s) PROVE ~Answers(s[i])
          OBVIOUS
        <4>1. CASE i \in 1 .. Len(c.held)
          <5>1. s[i] \in Elements(c.held)
            BY <2>3, <3>4, <4>1 DEF Elements
          <5> QED BY <3>3, <5>1 DEF Crossing, Answers
        <4>2. CASE i \notin 1 .. Len(c.held)
          <5>1. i \in Len(c.held) + 1 .. Len(s) /\ i - Len(c.held) \in 1 .. Len(down)
            BY <3>4, <4>2
          <5>2. s[i] \in Elements(down)
            <6>1. s[i] = down[i - Len(c.held)]
              BY <3>4, <5>1
            <6> QED BY <1>4, <5>1, <6>1 DEF Elements
          <5> QED BY <3>3, <5>2 DEF Crossing, Answers
        <4> QED BY <4>1, <4>2
      <3>6. Flow(c, s, k, <<>>, lives, TRUE)
        BY <2>2, <3>3 DEF s
      <3> DEFINE ls == lives'
      <3>7. AnotherLife(lives, ls)
        BY <1>5
      <3> HIDE DEF ls
      <3>8. Flow(c, Append(s, end), Len(s) + 1, <<>>, ls, FALSE)
        BY <2>4, <3>5, <3>6, <3>7, ClosedFlow DEF end
      <3>9. down' = Append(down, end) /\ Len(s) + 1 \in Nat
        BY <1>1, <2>6, <3>4 DEF end
      <3>10. Flow(c, c.held \o down', Len(s) + 1, up', lives', sess')
        BY <1>1, <3>2, <3>3, <3>8, <3>9 DEF ls
      <3>11. ~link => FALSE
        BY <2>1, <2>6 DEF Opened
      <3>12. /\ down' \in Seq(DownMessage) /\ up' \in Seq(UpMessage) /\ sess' \in BOOLEAN
             /\ Len(s) + 1 \in Nat /\ (~link => up' = <<>> /\ down' = <<>> /\ ~sess')
        BY <1>1, <1>4, <3>2, <3>9, <3>11
      <3> QED BY <1>1, <1>4, <1>5, <1>6, <1>7, <2>5, <3>10, <3>12, StoreDone
    <2>7. CASE ~sess
      <3> DEFINE ls == lives'
      <3>1. AnotherLife(lives, ls) /\ sess = FALSE
        BY <1>4, <1>5, <2>7
      <3> HIDE DEF ls
      <3>2. Flow(c, c.held \o down, k, up, ls, FALSE)
        BY <2>2, <2>4, <3>1, UntoldFlow
      <3>3. Flow(c, c.held \o down', k, up', lives', sess')
        BY <1>1, <2>7, <3>2 DEF ls
      <3>4. /\ down' \in Seq(DownMessage) /\ up' \in Seq(UpMessage) /\ sess' \in BOOLEAN
            /\ (~link => up' = <<>> /\ down' = <<>> /\ ~sess')
        BY <1>1, <1>4, <2>1, <2>7 DEF Opened
      <3> QED BY <1>1, <1>4, <1>5, <1>6, <1>7, <2>5, <3>3, <3>4, StoreDone
    <2> QED BY <2>6, <2>7
  <1>8. CASE ~c.on
    <2>1. Shut
      BY <1>8 DEF IInv
    <2>2. disk.id # 0 => Owns(disk.id, disk.seq, disk.ops, lives')
      BY <1>5, <2>1, AgainHolds DEF Shut
    <2>3. down' = down /\ sess' = sess
      BY <1>1, <1>4, <2>1 DEF Shut
    <2> QED BY <1>1, <1>4, <1>5, <1>6, <1>8, <2>2, <2>3, StoreShut
  <1> QED BY <1>7, <1>8

\* What the store answers to a hello, in its history g.
LEMMA AnswerIs ==
  ASSUME TypesOK, Lives(lives, pages), NEW g \in Seq(Op), NEW m \in HelloMessage
  PROVE  LET a == Answer(g, m)
         IN  /\ a \in DownMessage /\ Answers(a) /\ a.seq = Mark(g, m.id) /\ a.v = Len(g)
             /\ a.epoch = Len(lives)
             /\ a.t = "snapshot" => a.base = StateOf(g)
             /\ a.t = "delta" => /\ m.epoch = Len(lives) /\ m.since <= Len(g)
                                 /\ a.ops = SubSeq(g, m.since + 1, Len(g))
  <1> DEFINE seq == Mark(g, m.id)
             v == Len(g)
             e == Len(lives)
             d == [t |-> "delta", seq |-> seq, v |-> v, epoch |-> e, ops |-> SubSeq(g, m.since + 1, v)]
             p == [t |-> "pointer", seq |-> seq, v |-> v, epoch |-> e]
             s == [t |-> "snapshot", seq |-> seq, v |-> v, epoch |-> e, base |-> StateOf(g)]
             a == Answer(g, m)
  <1>1. seq \in Nat /\ v \in Nat /\ e \in Nat /\ StateOf(g) \in Rows /\ m.since \in Nat
    <2>1. lives \in Seq(Seq(Op))
      BY DEF Lives
    <2>2. m.since \in Nat
      BY DEF HelloMessage
    <2> QED BY <2>1, <2>2, MarkNat, StateRows
  <1>2. \/ a = d /\ m.epoch = e /\ m.since <= v
        \/ a = p
        \/ a = s
    BY DEF Answer, epoch
  <1> HIDE DEF a
  <1> SUFFICES /\ a \in DownMessage /\ Answers(a) /\ a.seq = seq /\ a.v = v /\ a.epoch = e
               /\ a.t = "snapshot" => a.base = StateOf(g)
               /\ a.t = "delta" => m.epoch = e /\ m.since <= v /\ a.ops = SubSeq(g, m.since + 1, v)
    BY DEF a
  <1>3. CASE a = d /\ m.epoch = e /\ m.since <= v
    <2>1. SubSeq(g, m.since + 1, v) \in Seq(Op)
      <3>1. m.since \in 0 .. Len(g) /\ Len(g) \in m.since .. Len(g)
        BY <1>1, <1>3
      <3> QED BY <3>1, Between
    <2>2. d \in Delta
      <3> DEFINE b == SubSeq(g, m.since + 1, v)
                 r == [t |-> "delta", seq |-> seq, v |-> v, epoch |-> e, ops |-> b]
      <3>1. b \in Seq(Op) /\ d = r
        BY <2>1
      <3> HIDE DEF seq, v, e, b, d
      <3>2. r \in Delta
        BY <1>1, <3>1 DEF Delta
      <3> QED BY <3>1, <3>2
    <2> QED BY <1>3, <2>2 DEF DownMessage, Answers
  <1>4. CASE a = p
    <2>1. p \in Pointer
      BY <1>1 DEF Pointer
    <2> QED BY <1>4, <2>1 DEF DownMessage, Answers
  <1>5. CASE a = s
    <2>1. s \in Snapshot
      BY <1>1 DEF Snapshot
    <2> QED BY <1>5, <2>1 DEF DownMessage, Answers
  <1> QED BY <1>2, <1>3, <1>4, <1>5

\* What the client said is read, decided and answered.
LEMMA ReceiveKeeps ==
  ASSUME IInv, Receive
  PROVE  IInv'
  <1> DEFINE m == up[1]
             id == IF m.t = "hello" THEN m.id ELSE m.op.by
             sent == IF m.t = "hello" THEN m.ops ELSE <<m.op>>
             g == Now(lives) \o TakenOf(Now(lives), id, sent)
             a == IF m.t = "hello" THEN Answer(g, m)
                  ELSE [t |-> "ack", seq |-> m.op.seq, v |-> Len(g)]
             P == Patches(g, Len(Now(lives)))
             w == P \o <<a>>
             s == c.held \o down
             ls == lives'
  <1>1. /\ up # <<>> /\ up' = Tail(up) /\ sess' = TRUE
        /\ adapter' = adapter /\ c' = c /\ disk' = disk /\ writes' = writes /\ remade' = remade
        /\ link' = link /\ pages' = pages /\ made' = made /\ mine' = mine /\ moot' = moot
        /\ told' = told
    BY DEF Receive, kept, ghost
  <1>2. TypesOK /\ Lives(lives, pages)
    BY DEF IInv
  <1>3. made' \in Nat /\ pages \in Nat /\ down \in Seq(DownMessage) /\ up \in Seq(UpMessage)
    BY <1>1, <1>2 DEF TypesOK
  <1>4. c.on /\ Opened /\ link
    <2>1. c.on
      BY <1>1 DEF IInv, Shut
    <2> QED BY <1>1, <2>1 DEF IInv, Opened
  <1>5. PageOK(c, lives, pages) /\ c \in Page /\ c.held \in Seq(DownMessage)
    BY <1>4 DEF Opened, PageOK, Page
  <1>6. PICK k, ss : k \in Nat /\ Flow(c, s, k, up, lives, ss)
    <2>1. \E k \in Nat : Flow(c, s, k, up, lives, sess)
      BY <1>4 DEF Opened, Pending
    <2> QED BY <2>1, Zenon
  <1>7. m = Head(up) /\ m \in UpMessage /\ up' \in Seq(UpMessage)
    BY <1>1, <1>3, TailIs
  <1>8. /\ ls = [lives EXCEPT ![Len(lives)] = g]
        /\ down' = (down \o P) \o <<a>>
    BY <1>7 DEF Receive, Grown, TakenOf, history, epoch, version, Now
  <1> HIDE DEF ls, s
  <1>9. /\ Grows(lives, ls) /\ Lives(ls, pages) /\ g \in Seq(Op)
        /\ Owns(c.id, c.seq, Elements(c.outbox), ls) /\ a \in DownMessage
        /\ Flow(c, s \o w, k, Tail(up), ls, TRUE)
        /\ Len(Now(lives)) \in 0 .. Len(g)
    <2>1. Len(Now(lives)) \in Nat /\ Now(lives) \in Seq(Op) /\ Len(lives) \in Nat
      <3>1. Len(lives) \in 1 .. Len(lives) /\ lives \in Seq(Seq(Op))
        BY <1>2 DEF Lives
      <3>2. Now(lives) \in Seq(Op)
        BY <3>1 DEF Now
      <3> QED BY <3>1, <3>2
    <2>2. CASE m.t = "hello"
      <3>1. m \in HelloMessage /\ id = m.id /\ sent = m.ops
        BY <1>7, <2>2, UpKinds
      <3>2. m.id = c.id /\ Ascends(m.ops)
        <4>1. 1 \in 1 .. Len(up)
          BY <1>1, <1>3, TailIs
        <4> QED BY <1>6, <2>2, <4>1 DEF Flow, Upward, HelloOK
      <3>3. m.ops \in Seq(Op)
        BY <3>1 DEF HelloMessage
      <3>4. g \in Seq(Op) /\ Len(Now(lives)) <= Len(g) /\ Len(g) \in Nat
        BY <2>1, <3>1, <3>2, <3>3, TakenIs
      <3>5. g = Now(lives) \o TakenOf(Now(lives), c.id, up[1].ops)
        BY <3>1, <3>2
      <3> HIDE DEF g
      <3>6. /\ a \in DownMessage /\ Answers(a) /\ a.seq = Mark(g, m.id) /\ a.v = Len(g)
            /\ a.epoch = Len(lives)
            /\ a.t = "snapshot" => a.base = StateOf(g)
            /\ a.t = "delta" => /\ m.epoch = Len(lives) /\ m.since <= Len(g)
                                /\ a.ops = SubSeq(g, m.since + 1, Len(g))
        BY <1>2, <2>2, <3>1, <3>4, AnswerIs
      <3> HIDE DEF a
      <3>7. /\ pages \in Nat /\ Lives(lives, pages) /\ PageOK(c, lives, pages)
            /\ Flow(c, s, k, up, lives, ss) /\ up # <<>> /\ up[1].t = "hello"
            /\ HelloGives(lives, c, up, g, ls, a) /\ Reply(w, g, Len(Now(lives)), a)
        BY <1>1, <1>2, <1>3, <1>5, <1>6, <1>8, <2>2, <3>2, <3>5, <3>6 DEF Reply, HelloGives, Becomes
      <3>8. /\ Grows(lives, ls) /\ Lives(ls, pages)
            /\ Owns(c.id, c.seq, Elements(c.outbox), ls)
            /\ Flow(c, s \o w, k, Tail(up), ls, TRUE)
        <4> HIDE DEF w, m
        <4> QED BY <3>7, HelloTaken
      <3>9. Len(Now(lives)) \in 0 .. Len(g)
        BY <2>1, <3>4
      <3>10. a \in DownMessage
        BY <3>6
      <3> HIDE DEF w
      <3> QED BY <3>4, <3>8, <3>9, <3>10
    <2>3. CASE m.t # "hello"
      <3>1. id = m.op.by /\ sent = <<m.op>> /\ a = [t |-> "ack", seq |-> up[1].op.seq, v |-> Len(g)]
        BY <2>3
      <3>2. m \in OpMessage /\ m.op.by = c.id /\ m.op \in Op
        <4>1. 1 \in 1 .. Len(up) /\ m \in OpMessage
          BY <1>1, <1>3, <1>7, <2>3, TailIs, UpKinds
        <4>2. Said(m) = {m.op}
          BY <2>3 DEF Said
        <4> QED BY <1>6, <4>1, <4>2 DEF Flow, Upward, OpMessage
      <3>3. g = Now(lives) \o TakenOf(Now(lives), c.id, <<up[1].op>>)
        BY <3>1, <3>2
      <3> HIDE DEF g, a
      <3>4. g \in Seq(Op) /\ Len(Now(lives)) <= Len(g) /\ Len(g) \in Nat
        <4> DEFINE one == <<up[1].op>>
        <4>1. one \in Seq(Op) /\ DOMAIN one = {1}
          BY <3>2
        <4>2. Ascends(one)
          <5> HIDE DEF one
          <5> QED BY <4>1 DEF Ascends
        <4> HIDE DEF one
        <4>3. LET f == Now(lives) \o TakenOf(Now(lives), c.id, one)
              IN  f \in Seq(Op) /\ Len(f) = Len(Now(lives)) + Len(TakenOf(Now(lives), c.id, one))
                  /\ TakenOf(Now(lives), c.id, one) \in Seq(Op)
          BY <2>1, <4>1, <4>2, TakenIs
        <4>4. g = Now(lives) \o TakenOf(Now(lives), c.id, one)
          BY <3>3 DEF one
        <4> QED BY <2>1, <4>3, <4>4
      <3>5. a \in DownMessage
        <4>2. m.op.seq \in Nat
          BY <3>2 DEF Op
        <4>3. a = [t |-> "ack", seq |-> m.op.seq, v |-> Len(g)]
          BY <3>1
        <4>1. a \in Ack
          BY <3>4, <4>2, <4>3 DEF Ack
        <4> QED BY <4>1 DEF DownMessage
      <3>6. /\ pages \in Nat /\ Lives(lives, pages) /\ PageOK(c, lives, pages)
            /\ Flow(c, s, k, up, lives, ss) /\ up # <<>> /\ up[1].t # "hello"
            /\ OpGives(lives, c, up, g, ls, a) /\ Reply(w, g, Len(Now(lives)), a)
        BY <1>1, <1>2, <1>3, <1>5, <1>6, <1>8, <2>3, <3>1, <3>3 DEF Reply, OpGives, Becomes
      <3>7. /\ Grows(lives, ls) /\ Lives(ls, pages)
            /\ Owns(c.id, c.seq, Elements(c.outbox), ls)
            /\ Flow(c, s \o w, k, Tail(up), ls, TRUE)
        <4> HIDE DEF w, m
        <4> QED BY <3>6, OpTaken
      <3>9. Len(Now(lives)) \in 0 .. Len(g)
        BY <2>1, <3>4
      <3> HIDE DEF w
      <3> QED BY <3>4, <3>5, <3>7, <3>9
    <2> QED BY <2>2, <2>3
  <1> HIDE DEF g, a
  <1>10. P \in Seq(DownMessage)
    BY <1>9, PatchesIs
  <1> HIDE DEF P
  <1>11. /\ c.held \o down' = s \o w /\ down' \in Seq(DownMessage)
    <2> DEFINE p == c.held
               one == <<a>>
    <2>1. /\ p \in Seq(DownMessage) /\ one \in Seq(DownMessage) /\ down' = (down \o P) \o one
          /\ s = p \o down /\ w = P \o one
      BY <1>5, <1>8, <1>9 DEF s
    <2> HIDE DEF p, one
    <2>2. (down \o P) \o one = down \o (P \o one) /\ P \o one \in Seq(DownMessage)
      BY <1>3, <1>10, <2>1, MoreToCome
    <2>3. p \o (down \o (P \o one)) = (p \o down) \o (P \o one) /\ down \o (P \o one) \in Seq(DownMessage)
      BY <1>3, <2>1, <2>2, MoreToCome
    <2> QED BY <2>1, <2>2, <2>3 DEF p, one
  <1> HIDE DEF w
  <1>12. Flow(c, c.held \o down', k, up', lives', sess')
    BY <1>1, <1>9, <1>11 DEF ls
  <1>13. /\ Grows(lives, lives') /\ Lives(lives', pages) /\ Owns(c.id, c.seq, Elements(c.outbox), lives')
         /\ sess' \in BOOLEAN
    BY <1>1, <1>9 DEF ls
  <1> QED BY <1>1, <1>3, <1>4, <1>6, <1>7, <1>11, <1>12, <1>13, StoreDone

-------------------------------------------------------------------------------
(* A page opens.                                                           *)

\* The ops in the order of their seqs: those of a sequence that is in that order.
LEMMA InOrderIs ==
  ASSUME NEW s \in Seq(Op), Ascends(s)
  PROVE  LET f == InOrder(Elements(s))
         IN  f \in Seq(Op) /\ Ascends(f) /\ Elements(f) = Elements(s)
  <1> DEFINE n == Len(s)
             S == Elements(s)
             OK(f) == Elements(f) = S /\ \A i, j \in DOMAIN f : i < j => f[i].seq < f[j].seq
  <1>1. n \in Nat /\ DOMAIN s = 1 .. n /\ S = {s[i] : i \in 1 .. n} /\ S \subseteq Op
    BY ElementsIs
  <1> HIDE DEF n, S
  <1>2. s \in [1 .. n -> S]
    <2>1. s = [i \in 1 .. n |-> s[i]]
      BY <1>1
    <2>2. \A i \in 1 .. n : s[i] \in S
      BY <1>1
    <2> QED BY <2>1, <2>2
  <1>3. \A i, j \in 1 .. n : s[i] = s[j] => i = j
    <2> SUFFICES ASSUME NEW i \in 1 .. n, NEW j \in 1 .. n, s[i] = s[j], i < j PROVE FALSE
      <3>1. \A i, j \in 1 .. n : i = j \/ i < j \/ j < i
        BY <1>1
      <3> QED BY <3>1
    <2>1. s[i].seq < s[j].seq
      BY <1>1 DEF Ascends
    <2>2. s[i] \in Op
      BY <1>1
    <2>3. s[i].seq \in Nat
      BY <2>2 DEF Op
    <2>4. s[j].seq = s[i].seq
      OBVIOUS
    <2> QED BY <2>1, <2>3, <2>4
  <1>4. Cardinality(S) = n
    <2>1. s \in Bijection(1 .. n, S)
      <3>1. \A a, b \in 1 .. n : a # b => s[a] # s[b]
        BY <1>3
      <3>2. \A t \in S : \E a \in 1 .. n : s[a] = t
        BY <1>1
      <3> QED BY <1>2, <1>3, <3>1, <3>2 DEF Bijection, Injection, Surjection, IsInjective
    <2>2. ExistsBijection(1 .. n, S)
      BY <2>1 DEF ExistsBijection
    <2> QED BY <1>1, <2>2, FS_CountingElements
  <1>5. OK(s)
    BY DEF S, Ascends
  <1>6. InOrder(S) = CHOOSE f \in [1 .. n -> S] : OK(f)
    BY <1>4 DEF InOrder
  <1> DEFINE f == InOrder(S)
  <1>7. f \in [1 .. n -> S] /\ OK(f)
    BY <1>2, <1>5, <1>6
  <1> HIDE DEF f
  <1>8. f \in [1 .. n -> Op]
    BY <1>1, <1>7
  <1>9. f \in Seq(Op)
    BY <1>1, <1>8, FunctionSeq
  <1>10. Ascends(f) /\ Elements(f) = S
    BY <1>7 DEF Ascends
  <1> QED BY <1>9, <1>10 DEF f, S

\* What a page starts from, x, is what storage d holds, or a replica with a number of its own.
Started(x, d, pg) ==
  /\ x \in Page /\ x.on /\ x.id \in 1 .. pg + 1 /\ Ascends(x.outbox)
  /\ Elements(x.outbox) = d.ops /\ x.seq = d.seq
  /\ x.id = d.id \/ (d.id = 0 /\ x.id = pg + 1)
  /\ d.id # 0 \/ adapter # "document" => x.base = d.rows /\ x.v = d.v /\ x.epoch = d.epoch
  /\ d.id = 0 => x.base = Blank /\ x.v = 0 /\ x.epoch = 0
  /\ ~x.synced /\ Idle(x) /\ ~x.dirty
  /\ x.reset = FALSE /\ x.out = <<>> /\ x.puts = <<>>

\* A page that is not open is one.
LEMMA OffIs == Off \in Page
  <1> DEFINE b == Blank
             e == {}
             u == <<>>
             w == <<>>
             h == <<>>
             o == <<>>
  <1>1. /\ b \in Rows /\ e \in SUBSET Request /\ u \in Seq(UpMessage) /\ w \in Seq(Write)
        /\ h \in Seq(DownMessage) /\ o \in Seq(Op)
    <2>1. o \in Seq(Op) /\ u \in Seq(UpMessage) /\ w \in Seq(Write) /\ h \in Seq(DownMessage)
      OBVIOUS
    <2>2. b \in Rows
      BY <2>1, StateRows
    <2>3. e \in SUBSET Request
      OBVIOUS
    <2> QED BY <2>1, <2>2, <2>3
  <1> DEFINE x == [on |-> FALSE, id |-> 0, seq |-> 0, outbox |-> o, base |-> b, epoch |-> 0,
                   v |-> 0, synced |-> FALSE, answered |-> 0, holds |-> FALSE, held |-> h,
                   failed |-> FALSE, asks |-> e, retry |-> FALSE, dirty |-> FALSE,
                   reset |-> FALSE, out |-> u, puts |-> w]
  <1>2. Off = x
    BY DEF Off
  <1> HIDE DEF b, e, u, w, h, o
  <1>3. x \in Page
    BY <1>1 DEF Page
  <1> QED BY <1>2, <1>3

\* load() starts from that.
LEMMA LoadedIs ==
  ASSUME TypesOK, Shut
  PROVE  Started(Loaded, disk, pages)
  <1>1. /\ pages \in Nat /\ disk.id \in 0 .. pages /\ disk.seq \in Nat
        /\ Whole(disk.rows, disk.v, disk.epoch, lives) /\ Blank \in Rows
        /\ disk.rows \in Rows /\ disk.v \in Nat /\ disk.epoch \in 0 .. Len(lives)
    <2>1. <<>> \in Seq(Op)
      OBVIOUS
    <2> QED BY <2>1, StateRows DEF TypesOK, Shut, Whole
  <1>2. CASE disk.id = 0
    <2> DEFINE x == [Off EXCEPT !.on = TRUE, !.id = pages + 1]
    <2>1. x = Loaded
      BY <1>2 DEF Loaded
    <2>2. /\ x.on = TRUE /\ x.id = pages + 1 /\ x.seq = 0 /\ x.outbox = <<>> /\ x.base = Blank
          /\ x.epoch = 0 /\ x.v = 0 /\ x.synced = FALSE /\ x.holds = FALSE /\ x.held = <<>>
          /\ x.asks = {} /\ x.dirty = FALSE /\ x.reset = FALSE /\ x.out = <<>> /\ x.puts = <<>>
      BY DEF Off
    <2>3. x \in Page
      <3>1. pages + 1 \in Nat
        BY <1>1
      <3> QED BY <3>1, OffIs DEF Page
    <2> HIDE DEF x
    <2>4. x.outbox \in Seq(Op) /\ Elements(x.outbox) = {} /\ Ascends(x.outbox)
      <3>1. <<>> \in Seq(Op) /\ DOMAIN <<>> = {}
        OBVIOUS
      <3> QED BY <2>2, <3>1 DEF Elements, Ascends
    <2>5. disk.ops = {} /\ disk.seq = 0 /\ (adapter # "document" => disk = Empty)
      BY <1>2 DEF Shut
    <2>6. adapter # "document" => disk.rows = Blank /\ disk.v = 0 /\ disk.epoch = 0
      BY <2>5 DEF Empty
    <2>7. pages + 1 \in 1 .. pages + 1
      BY <1>1
    <2>8. Idle(x)
      BY <2>2 DEF Idle
    <2> QED BY <1>2, <2>1, <2>2, <2>3, <2>4, <2>5, <2>6, <2>7, <2>8 DEF Started
  <1>3. CASE disk.id # 0
    <2> DEFINE l == InOrder(disk.ops)
               x == [Off EXCEPT !.on = TRUE, !.id = disk.id, !.seq = disk.seq,
                                !.outbox = l,
                                !.base = disk.rows, !.epoch = disk.epoch, !.v = disk.v]
    <2>1. x = Loaded
      BY <1>3 DEF Loaded
    <2>2. l \in Seq(Op) /\ Ascends(l) /\ Elements(l) = disk.ops
      <3>1. PICK s \in Seq(Op) : Ascends(s) /\ Elements(s) = disk.ops
        BY DEF Shut
      <3> QED BY <3>1, InOrderIs
    <2> HIDE DEF l
    <2>3. /\ x.on = TRUE /\ x.id = disk.id /\ x.seq = disk.seq /\ x.outbox = l /\ x.base = disk.rows
          /\ x.epoch = disk.epoch /\ x.v = disk.v
          /\ x.synced = FALSE /\ x.holds = FALSE /\ x.held = <<>>
          /\ x.asks = {} /\ x.dirty = FALSE /\ x.reset = FALSE /\ x.out = <<>> /\ x.puts = <<>>
      BY DEF Off
    <2>4. disk.id \in Nat /\ disk.epoch \in Nat /\ disk.id \in 1 .. pages + 1
      <3>1. Len(lives) \in Nat \/ disk.epoch \in Nat
        BY <1>1
      <3> QED BY <1>1, <1>3, <3>1
    <2>5. x \in Page
      BY <1>1, <2>2, <2>4, OffIs DEF Page
    <2> HIDE DEF x
    <2>6. Idle(x)
      BY <2>3 DEF Idle
    <2> QED BY <1>3, <2>1, <2>2, <2>3, <2>4, <2>5, <2>6 DEF Started
  <1> QED BY <1>2, <1>3

\* It owns its ops.
LEMMA StartedOwns ==
  ASSUME TypesOK, Lives(lives, pages), Shut, NEW x, Started(x, disk, pages)
  PROVE  PageOK(x, lives, pages + 1)
  <1>1. pages \in Nat /\ lives \in Seq(Seq(Op)) /\ Len(lives) \in Nat
    BY DEF TypesOK, Lives
  <1>2. Whole(x.base, x.v, x.epoch, lives)
    <2>1. CASE disk.id = 0
      <3>1. Blank \in Rows
        <4>1. <<>> \in Seq(Op)
          OBVIOUS
        <4> QED BY <4>1, StateRows
      <3>2. 0 \in 0 .. Len(lives)
        BY <1>1
      <3> QED BY <2>1, <3>1, <3>2 DEF Started, Whole
    <2>2. CASE disk.id # 0
      BY <2>2 DEF Started, Shut
    <2> QED BY <2>1, <2>2
  <1>3. Owns(x.id, x.seq, Elements(x.outbox), lives)
    <2>1. CASE disk.id = 0
      <3>1. Elements(x.outbox) = {}
        BY <2>1 DEF Started, Shut
      <3>2. CASE x.id = pages + 1
        <4>1. ASSUME NEW e \in 1 .. Len(lives), NEW j \in 1 .. Len(lives[e])
              PROVE  lives[e][j].by # x.id
          <5>1. lives[e][j].by <= pages
            BY DEF Lives
          <5>2. lives[e] \in Seq(Op)
            BY <1>1
          <5>3. lives[e][j] \in Op
            BY <5>2
          <5>4. lives[e][j].by \in Nat
            BY <5>3 DEF Op
          <5>5. \A a, b \in Nat : a <= b => a # b + 1
            OBVIOUS
          <5> QED BY <1>1, <3>2, <5>1, <5>4, <5>5
        <4> QED BY <3>1, <4>1 DEF Owns
      <3>3. CASE x.id # pages + 1
        BY <1>1, <2>1, <3>3 DEF Started
      <3> QED BY <3>2, <3>3
    <2>2. CASE disk.id # 0
      BY <2>2 DEF Started, Shut
    <2> QED BY <2>1, <2>2
  <1> QED BY <1>2, <1>3 DEF Started, PageOK

\* Of the edits decided it has those that are not told of.
LEMMA StartedExplains ==
  ASSUME TypesOK, Lives(lives, pages), Shut, NEW x, Started(x, disk, pages), PageOK(x, lives, pages + 1),
         NEW n \in mine, n \notin moot, n \notin told, n \notin Decided \ Shown(x)
  PROVE  n \in {o.n : o \in Elements(x.outbox)} \/ (x.v # 0 /\ n \in Numbers(lives[x.epoch]))
  <1>1. n \in {o.n : o \in disk.ops} \/ n \in Decided
    BY DEF Shut
  <1>2. Whole(x.base, x.v, x.epoch, lives) /\ Elements(x.outbox) = disk.ops
    BY DEF PageOK, Started
  <1>3. CASE n \in Decided
    <2>1. x.epoch # 0 /\ n \in Numbers(UpTo(lives[x.epoch], x.v))
      BY <1>3 DEF Shown
    <2>2. /\ lives[x.epoch] \in Seq(Op) /\ x.v \in 0 .. Len(lives[x.epoch])
      <3>1. x.epoch \in 1 .. Len(lives) /\ lives \in Seq(Seq(Op))
        <4>1. x.epoch \in 0 .. Len(lives) /\ Len(lives) \in Nat /\ lives \in Seq(Seq(Op))
          BY <1>2 DEF Lives, Whole
        <4> QED BY <2>1, <4>1
      <3>2. lives[x.epoch] \in Seq(Op)
        BY <3>1
      <3>3. x.v \in Nat /\ x.v <= Len(lives[x.epoch])
        BY <1>2, <2>1 DEF Whole, AsOf
      <3> QED BY <3>2, <3>3
    <2> DEFINE h == lives[x.epoch]
               p == UpTo(h, x.v)
    <2>3. p \in Seq(Op) /\ Len(p) = x.v /\ Extends(h, p)
      BY <2>2, SnapshotIsAsOf
    <2> HIDE DEF h, p
    <2>4. n \in Numbers(p) /\ h \in Seq(Op)
      BY <2>1, <2>2 DEF h, p
    <2>5. PICK i \in 1 .. Len(p) : n = p[i].n
      BY <2>3, <2>4 DEF Numbers
    <2>6. i \in 1 .. Len(h) /\ h[i].n = n /\ x.v # 0
      BY <2>3, <2>4, <2>5 DEF Extends
    <2>7. n \in Numbers(h)
      BY <2>4, <2>6 DEF Numbers
    <2> QED BY <2>6, <2>7 DEF h
  <1> QED BY <1>1, <1>2, <1>3

\* A page opens.
LEMMA OpenPageKeeps ==
  ASSUME IInv, OpenPage
  PROVE  IInv'
  <1>1. /\ ~c.on /\ pages' = pages + 1 /\ c' = Loaded
        /\ told' = told \cup ((mine \cap Decided) \ Shown(Loaded))
        /\ adapter' = adapter /\ disk' = disk /\ writes' = writes /\ remade' = remade
        /\ link' = link /\ up' = up /\ down' = down /\ sess' = sess /\ lives' = lives
        /\ made' = made /\ mine' = mine /\ moot' = moot
    BY DEF OpenPage, Opens, kept, net, store
  <1>2. TypesOK /\ Lives(lives, pages) /\ Shut
    BY <1>1 DEF IInv
  <1> DEFINE x == Loaded
  <1>3. Started(x, disk, pages)
    BY <1>2, LoadedIs
  <1>4. c' = x /\ told' = told \cup ((mine \cap Decided) \ Shown(x))
    BY <1>1
  <1> HIDE DEF x
  <1>5. PageOK(x, lives, pages + 1)
    BY <1>2, <1>3, StartedOwns
  <1>6. pages \in Nat /\ pages' \in Nat
    BY <1>1, <1>2 DEF TypesOK
  <1>7. /\ ~link /\ up = <<>> /\ down = <<>> /\ ~sess /\ writes = <<>> /\ remade = "no"
        /\ sess \in BOOLEAN
    BY <1>2 DEF Shut, TypesOK
  <1>8. Explains(Elements(x.outbox), x.v, x.epoch, Unexplained', lives)
    <2> SUFFICES ASSUME NEW n \in Unexplained'
                 PROVE  n \in {o.n : o \in Elements(x.outbox)} \/ (x.v # 0 /\ n \in Numbers(lives[x.epoch]))
      BY DEF Explains
    <2>1. n \in mine /\ n \notin moot /\ n \notin told /\ n \notin Decided \ Shown(x)
      BY <1>1, <1>4 DEF Unexplained
    <2> QED BY <1>2, <1>3, <1>5, <2>1, StartedExplains
  <1>9. Flow(x, <<>>, 0, <<>>, lives, FALSE)
    BY <1>3, QuietFlow DEF Started
  <1>10. Backed(adapter, "no", lives, disk, <<>>, x)
    <2> DEFINE D == [i \in {0} |-> disk]
    <2>1. Trail(adapter, disk, <<>>, D) /\ Len(<<>>) = 0 /\ D[0] = disk /\ 0 .. 0 = {0}
      BY TrailNone
    <2>2. Whole(disk.rows, disk.v, disk.epoch, lives)
      BY <1>2 DEF Shut
    <2>3. Mirrors(adapter, disk, x)
      <3>1. disk.id = 0 => disk.seq = 0 /\ (adapter # "document" => disk = Empty)
        BY <1>2 DEF Shut
      <3> QED BY <1>3, <3>1 DEF Started, Mirrors
    <2> HIDE DEF D
    <2> QED BY <2>1, <2>2, <2>3 DEF Backed, Reflects
  <1>11. TypesOK'
    BY <1>1, <1>2, <1>6 DEF TypesOK
  <1>12. Lives(lives', pages')
    <2>1. ASSUME NEW e \in 1 .. Len(lives), NEW j \in 1 .. Len(lives[e])
          PROVE  lives[e][j].by <= pages + 1
      <3>1. lives[e][j].by <= pages
        BY <1>2 DEF Lives
      <3>2. lives[e] \in Seq(Op)
        BY <1>2 DEF Lives
      <3>3. lives[e][j] \in Op
        BY <3>2
      <3>4. lives[e][j].by \in Nat
        BY <3>3 DEF Op
      <3> QED BY <1>6, <3>1, <3>4
    <2> QED BY <1>1, <1>2, <2>1 DEF Lives
  <1>13. Opened'
    <2>1. x.held = <<>> /\ ~x.holds /\ ~x.synced /\ x.reset = FALSE /\ x.out = <<>> /\ x.puts = <<>> /\ ~x.dirty
      BY <1>3 DEF Started, Idle
    <2>2. Pending' = <<>>
      <3>1. Pending' = <<>> \o <<>>
        BY <1>1, <1>4, <1>7, <2>1 DEF Pending
      <3> QED BY <3>1
    <2>3. \E k \in Nat : Flow(x, Pending', k, up', lives', sess')
      <3>1. 0 \in Nat /\ sess' = FALSE /\ up' = <<>> /\ lives' = lives
        BY <1>1, <1>7
      <3> QED BY <1>9, <2>2, <3>1
    <2>4. /\ PageOK(c', lives', pages') /\ Explains(Elements(c'.outbox), c'.v, c'.epoch, Unexplained', lives')
          /\ Backed(adapter', remade', lives', disk', writes', c')
      BY <1>1, <1>4, <1>5, <1>7, <1>8, <1>10
    <2>5. PageOK(c, lives, pages)' /\ Explains(Elements(c.outbox), c.v, c.epoch, Unexplained, lives)'
          /\ Backed(adapter, remade, lives, disk, writes, c)'
      BY <2>4
    <2> QED BY <1>1, <1>4, <1>7, <2>1, <2>3, <2>5 DEF Opened
  <1>14. c'.on
    BY <1>3, <1>4 DEF Started
  <1> QED BY <1>11, <1>12, <1>13, <1>14 DEF IInv

-------------------------------------------------------------------------------
(* An edit.                                                                *)

\* An op that is told apart from o by no more than its records.
Twin(p, o) == p.n = o.n /\ p.by = o.by /\ p.seq = o.seq

\* The client y once x has op in its outbox as well, and the others with other records.
Edited(x, y, op) ==
  /\ x \in Page /\ y \in Page
  /\ y.id = x.id /\ y.seq = x.seq + 1 /\ y.v = x.v /\ y.epoch = x.epoch
  /\ y.synced = x.synced /\ y.answered = x.answered
  /\ y.holds = x.holds /\ y.held = x.held /\ y.asks = x.asks
  /\ op \in Op /\ op.by = x.id /\ op.seq = x.seq + 1
  /\ \A o \in Elements(y.outbox) : o = op \/ \E p \in Elements(x.outbox) : Twin(p, o)

\* What the store has of what was pending it has, for the new op came after.
LEMMA EditedCovered ==
  ASSUME NEW x, NEW y, NEW op, Edited(x, y, op), NEW seq \in Nat, seq <= x.seq, NEW h, NEW v,
         Covered(x, seq, h, v)
  PROVE  Covered(y, seq, h, v) /\ seq <= y.seq
  <1>1. x.seq \in Nat /\ y.seq = x.seq + 1 /\ op.seq = x.seq + 1
    BY DEF Edited, Page
  <1>2. ASSUME NEW o \in Elements(y.outbox), o.seq <= seq
        PROVE  Has(h, v, o)
    <2>1. o # op
      BY <1>1, <1>2
    <2>2. PICK p \in Elements(x.outbox) : Twin(p, o)
      BY <2>1 DEF Edited
    <2>3. Has(h, v, p)
      BY <1>2, <2>2 DEF Twin, Covered
    <2> QED BY <2>2, <2>3 DEF Twin, Has
  <1> QED BY <1>1, <1>2 DEF Covered

\* What is on its way down is right for the client.
LEMMA EditedDownward ==
  ASSUME NEW x, NEW y, NEW op, Edited(x, y, op), NEW s, NEW ls,
         s \in Seq(DownMessage), Downward(x, s, 0, ls)
  PROVE  Downward(y, s, 0, ls)
  <1> SUFFICES ASSUME NEW i \in 1 .. Len(s)
               PROVE  /\ s[i].t = "patch" => PatchOK(y, s[i], i < 0, ls)
                      /\ s[i].t = "ack" => AckOK(y, s[i], ls)
                      /\ Answers(s[i]) => AnswerOK(y, s[i], ls)
    BY DEF Downward
  <1>1. /\ s[i].t = "patch" => PatchOK(x, s[i], i < 0, ls)
        /\ s[i].t = "ack" => AckOK(x, s[i], ls)
        /\ Answers(s[i]) => AnswerOK(x, s[i], ls)
    BY DEF Downward
  <1>2. y.epoch = x.epoch /\ y.synced = x.synced /\ y.v = x.v /\ y.answered = x.answered
    BY DEF Edited
  <1>3. s[i] \in DownMessage
    OBVIOUS
  <1>4. s[i].t = "patch" => PatchOK(y, s[i], i < 0, ls)
    BY <1>1, <1>2 DEF PatchOK
  <1>5. s[i].t = "ack" => AckOK(y, s[i], ls)
    <2> SUFFICES ASSUME s[i].t = "ack" PROVE AckOK(y, s[i], ls)
      OBVIOUS
    <2>1. s[i].seq \in Nat
      <3>1. s[i] \in Ack
        BY <1>3, DownKinds
      <3> QED BY <3>1 DEF Ack
    <2>2. Covered(y, s[i].seq, ls[x.epoch], s[i].v) /\ s[i].seq <= y.seq
      BY <1>1, <2>1, EditedCovered DEF AckOK
    <2> QED BY <1>1, <1>2, <2>2 DEF AckOK
  <1>6. Answers(s[i]) => AnswerOK(y, s[i], ls)
    <2> SUFFICES ASSUME Answers(s[i]) PROVE AnswerOK(y, s[i], ls)
      OBVIOUS
    <2>1. s[i].seq \in Nat
      <3>1. s[i] \in Pointer \cup Delta \cup Snapshot
        BY <1>3, DownKinds DEF Answers
      <3> QED BY <3>1 DEF Pointer, Delta, Snapshot
    <2>2. Covered(y, s[i].seq, Now(ls), s[i].v) /\ s[i].seq <= y.seq
      BY <1>1, <2>1, EditedCovered DEF AnswerOK
    <2> QED BY <1>1, <1>2, <2>2 DEF AnswerOK
  <1> QED BY <1>4, <1>5, <1>6

\* And so is what was asked for.
LEMMA EditedAsking ==
  ASSUME NEW x, NEW y, NEW op, Edited(x, y, op), NEW s, NEW u, NEW w, NEW ls, NEW ss,
         Asking(x, s, 0, u, ls, ss),
         u \in Seq(UpMessage), w \in Seq(UpMessage), \A i \in 1 .. Len(w) : w[i].t # "hello"
  PROVE  Asking(y, s, 0, u \o w, ls, ss)
  <1>1. /\ y.epoch = x.epoch /\ y.synced = x.synced /\ y.v = x.v /\ y.answered = x.answered
        /\ y.holds = x.holds /\ y.held = x.held /\ y.asks = x.asks
    BY DEF Edited
  <1>2. ASSUME NEW q \in x.asks, q.mine
        PROVE  RequestOK(y, q, s, ls)
    <2>1. RequestOK(x, q, s, ls)
      BY <1>2 DEF Asking
    <2>2. q.seq \in Nat
      <3>1. q \in Request
        BY DEF Edited, Page
      <3> QED BY <3>1 DEF Request
    <2>3. /\ Covered(y, q.seq, Now(ls), Len(Now(ls))) /\ q.seq <= y.seq
          /\ q.at = "body" => Covered(y, q.seq, Now(ls), q.v)
      BY <2>1, <2>2, EditedCovered DEF RequestOK
    <2> QED BY <1>1, <2>1, <2>3 DEF RequestOK
  <1>3. ASSUME x.holds, NEW i \in 1 .. Len(u \o w)
        PROVE  (u \o w)[i].t # "hello"
    <2>1. /\ Len(u) \in Nat /\ Len(w) \in Nat /\ Len(u \o w) = Len(u) + Len(w)
          /\ (\A j \in 1 .. Len(u) : (u \o w)[j] = u[j])
          /\ (\A j \in Len(u) + 1 .. Len(u \o w) : (u \o w)[j] = w[j - Len(u)])
      BY ConcatIs
    <2>2. CASE i <= Len(u)
      <3>1. i \in 1 .. Len(u)
        BY <2>1, <2>2
      <3> QED BY <1>3, <2>1, <3>1 DEF Asking
    <2>3. CASE i > Len(u)
      <3>1. i \in Len(u) + 1 .. Len(u \o w) /\ i - Len(u) \in 1 .. Len(w)
        BY <2>1, <2>3
      <3> QED BY <2>1, <3>1
    <2>4. i <= Len(u) \/ i > Len(u)
      BY <2>1
    <2> QED BY <2>2, <2>3, <2>4
  <1> QED BY <1>1, <1>2, <1>3 DEF Asking

\* A synced client sends the op of an edit (w), and the store is told of all it has pending.
LEMMA EditedUpward ==
  ASSUME NEW x, NEW y, NEW op, Edited(x, y, op), NEW s, NEW u, NEW w, NEW ls, NEW ss,
         Upward(x, s, 0, u, ls, ss), w \in Seq(UpMessage), x.synced => ss,
         (x.synced /\ Len(w) = 1) \/ (~x.synced /\ Len(w) = 0),
         \A i \in 1 .. Len(w) : w[i].t = "op" /\ w[i].op = op
  PROVE  Upward(y, s, 0, u \o w, ls, ss)
  <1> DEFINE z == u \o w
  <1>1. /\ u \in Seq(UpMessage) /\ Len(u) \in Nat /\ Len(w) \in Nat /\ Len(z) = Len(u) + Len(w)
        /\ z \in Seq(UpMessage)
        /\ (\A j \in 1 .. Len(u) : z[j] = u[j])
        /\ (\A j \in Len(u) + 1 .. Len(z) : z[j] = w[j - Len(u)])
    BY ConcatIs DEF Upward
  <1>2. /\ y.id = x.id /\ y.answered = x.answered /\ y.epoch = x.epoch /\ y.v = x.v
        /\ y.synced = x.synced
        /\ x.seq \in Nat /\ y.seq = x.seq + 1 /\ op.seq = x.seq + 1 /\ op.by = x.id
    BY DEF Edited, Page
  <1>3. /\ (\A o : \A i \in 0 .. Len(u) : Says(z, i, o) <=> Says(u, i, o))
        /\ (\A o : Says(u, Len(u), o) => \A i \in Len(u) .. Len(u) + Len(w) : Says(z, i, o))
    BY <1>1, SaysMore
  <1> HIDE DEF z
  <1>4. ASSUME NEW i \in 1 .. Len(z)
        PROVE  \/ i \in 1 .. Len(u) /\ z[i] = u[i]
               \/ i = Len(u) + 1 /\ z[i].t = "op" /\ z[i].op = op /\ x.synced /\ ss
    <2>1. CASE i <= Len(u)
      <3>1. i \in 1 .. Len(u)
        BY <1>1, <2>1
      <3> QED BY <1>1, <3>1
    <2>2. CASE i > Len(u)
      <3>1. i \in Len(u) + 1 .. Len(z) /\ i - Len(u) \in 1 .. Len(w)
        BY <1>1, <2>2
      <3>2. Len(w) = 1 /\ x.synced /\ i = Len(u) + 1
        <4>1. Len(w) # 0
          BY <1>1, <3>1
        <4>2. Len(w) = 1
          BY <4>1
        <4> QED BY <1>1, <3>1, <4>1, <4>2
      <3> QED BY <1>1, <3>1, <3>2
    <2>3. i <= Len(u) \/ i > Len(u)
      BY <1>1
    <2> QED BY <2>1, <2>2, <2>3
  <1>5. ASSUME NEW o \in Elements(y.outbox), o # op
        PROVE  \E p \in Elements(x.outbox) : Twin(p, o)
    BY <1>5 DEF Edited
  <1>6. ASSUME NEW i \in 1 .. Len(z), NEW p \in Said(z[i])
        PROVE  p.by = y.id /\ p.seq \in 1 .. y.seq
    <2>1. CASE i \in 1 .. Len(u) /\ z[i] = u[i]
      <3>1. p.by = x.id /\ p.seq \in 1 .. x.seq
        BY <1>6, <2>1 DEF Upward
      <3> QED BY <1>2, <3>1
    <2>2. CASE z[i].t = "op" /\ z[i].op = op
      <3>1. p = op
        BY <1>6, <2>2 DEF Said
      <3> QED BY <1>2, <3>1
    <2> QED BY <1>4, <2>1, <2>2
  <1>7. ASSUME NEW i \in 1 .. Len(z), z[i].t = "hello"
        PROVE  /\ HelloOK(y, z[i], ls)
               /\ \A j \in 1 .. Len(z) : z[j].t = "hello" => i = j
               /\ \A j \in 1 .. Len(s) : ~Answers(s[j])
    <2>1. i \in 1 .. Len(u) /\ z[i] = u[i]
      BY <1>4, <1>7
    <2>2. /\ HelloOK(x, u[i], ls) /\ (\A j \in 1 .. Len(u) : u[j].t = "hello" => i = j)
          /\ \A j \in 1 .. Len(s) : ~Answers(s[j])
      BY <1>7, <2>1 DEF Upward
    <2>3. \A j \in 1 .. Len(z) : z[j].t = "hello" => i = j
      <3> SUFFICES ASSUME NEW j \in 1 .. Len(z), z[j].t = "hello" PROVE i = j
        OBVIOUS
      <3>1. j \in 1 .. Len(u) /\ z[j] = u[j]
        BY <1>4
      <3> QED BY <2>2, <3>1
    <2>4. x.answered <= x.seq /\ x.answered \in Nat
      <3> DEFINE ops == u[i].ops
      <3>1. ops \in Seq(Op) /\ Said(u[i]) = Elements(ops)
        <4>1. u[i] \in HelloMessage
          BY <1>1, <1>7, <2>1, UpKinds
        <4> QED BY <1>7, <2>1, <4>1 DEF HelloMessage, Said
      <3>2. \A p \in Elements(ops) : p.seq \in 1 .. x.seq
        BY <2>1, <3>1 DEF Upward
      <3>3. x.answered = IF ops = <<>> THEN 0 ELSE ops[Len(ops)].seq
        BY <2>2 DEF HelloOK
      <3> HIDE DEF ops
      <3>4. CASE ops = <<>>
        BY <1>2, <3>3, <3>4
      <3>5. CASE ops # <<>>
        <4>1. Len(ops) \in 1 .. Len(ops) /\ Elements(ops) = {ops[j] : j \in 1 .. Len(ops)}
          BY <3>1, <3>5, ElementsIs
        <4>2. ops[Len(ops)].seq \in 1 .. x.seq
          BY <3>2, <4>1
        <4> QED BY <1>2, <3>3, <3>5, <4>2
      <3> QED BY <3>4, <3>5
    <2>5. \A o \in Elements(y.outbox) : o.seq <= y.answered => \E p \in Elements(u[i].ops) : Same(p, o)
      <3> SUFFICES ASSUME NEW o \in Elements(y.outbox), o.seq <= x.answered
                   PROVE  \E p \in Elements(u[i].ops) : Same(p, o)
        BY <1>2
      <3>1. o # op
        BY <1>2, <2>4
      <3>2. PICK p \in Elements(x.outbox) : Twin(p, o)
        BY <1>5, <3>1
      <3>3. p.seq <= x.answered
        BY <3>2 DEF Twin
      <3>4. PICK q \in Elements(u[i].ops) : Same(q, p)
        BY <2>2, <3>3 DEF HelloOK
      <3> QED BY <3>2, <3>4 DEF Same, Twin
    <2>6. HelloOK(y, u[i], ls)
      BY <1>2, <2>2, <2>5 DEF HelloOK
    <2> QED BY <2>1, <2>2, <2>3, <2>6
  <1>8. x.synced => \A o \in Elements(y.outbox) : Has(Now(ls), Len(Now(ls)), o) \/ Says(z, Len(z), o)
    <2> SUFFICES ASSUME x.synced, NEW o \in Elements(y.outbox)
                 PROVE  Has(Now(ls), Len(Now(ls)), o) \/ Says(z, Len(z), o)
      OBVIOUS
    <2>1. Len(w) = 1 /\ Len(z) = Len(u) + 1
      BY <1>1
    <2>2. CASE o = op
      <3>1. Len(z) \in 1 .. Len(z)
        BY <1>1, <2>1
      <3>2. z[Len(z)].t = "op" /\ z[Len(z)].op = op
        <4>1. Len(z) \notin 1 .. Len(u)
          BY <1>1, <2>1
        <4> QED BY <1>4, <3>1, <4>1
      <3>3. Same(op, o)
        BY <2>2 DEF Same
      <3>4. op \in Said(z[Len(z)])
        BY <3>2 DEF Said
      <3> QED BY <3>1, <3>3, <3>4 DEF Says
    <2>3. CASE o # op
      <3>1. PICK p \in Elements(x.outbox) : Twin(p, o)
        BY <1>5, <2>3
      <3>2. Has(Now(ls), Len(Now(ls)), p) \/ Says(u, Len(u), p)
        BY <3>1 DEF Upward
      <3>3. CASE Has(Now(ls), Len(Now(ls)), p)
        BY <3>1, <3>3 DEF Has, Twin
      <3>4. CASE Says(u, Len(u), p)
        <4>1. Len(z) \in Len(u) .. Len(u) + Len(w)
          BY <1>1, <2>1
        <4>2. Says(z, Len(z), p)
          BY <1>3, <3>4, <4>1
        <4> QED BY <3>1, <4>2 DEF Says, Same, Twin
      <3> QED BY <3>2, <3>3, <3>4
    <2> QED BY <2>2, <2>3
  <1>9. ASSUME NEW i \in 1 .. Len(z), z[i].t = "op"
        PROVE  OpOK(y, z, i, 0, ls, ss)
    <2>1. CASE i \in 1 .. Len(u) /\ z[i] = u[i]
      <3>1. OpOK(x, u, i, 0, ls, ss)
        BY <1>9, <2>1 DEF Upward
      <3>2. u[i].op.seq \in 1 .. x.seq
        <4>1. u[i].op \in Said(u[i])
          BY <1>9, <2>1 DEF Said
        <4> QED BY <2>1, <4>1 DEF Upward
      <3>3. ASSUME NEW o \in Elements(y.outbox), o.seq <= z[i].op.seq
            PROVE  Has(Now(ls), Len(Now(ls)), o) \/ Says(z, i, o)
        <4>1. o # op
          BY <1>2, <2>1, <3>2, <3>3
        <4>2. PICK p \in Elements(x.outbox) : Twin(p, o)
          BY <1>5, <4>1
        <4>3. p.seq <= u[i].op.seq
          BY <2>1, <3>3, <4>2 DEF Twin
        <4>4. Has(Now(ls), Len(Now(ls)), p) \/ Says(u, i, p)
          BY <3>1, <4>3 DEF OpOK
        <4>5. CASE Has(Now(ls), Len(Now(ls)), p)
          BY <4>2, <4>5 DEF Has, Twin
        <4>6. CASE Says(u, i, p)
          <5>1. i \in 0 .. Len(u)
            BY <2>1
          <5>2. Says(z, i, p)
            BY <1>3, <4>6, <5>1
          <5> QED BY <4>2, <5>2 DEF Says, Same, Twin
        <4> QED BY <4>4, <4>5, <4>6
      <3> QED BY <1>2, <3>1, <3>3 DEF OpOK
    <2>2. CASE i = Len(u) + 1 /\ z[i].t = "op" /\ z[i].op = op /\ x.synced /\ ss
      <3>1. i = Len(z)
        <4>1. Len(w) = 1
          BY <2>2
        <4> QED BY <1>1, <2>2, <4>1
      <3> QED BY <1>2, <1>8, <2>2, <3>1 DEF OpOK
    <2> QED BY <1>4, <2>1, <2>2
  <1> QED BY <1>1, <1>2, <1>6, <1>7, <1>8, <1>9 DEF Upward, z

\* What is to come is right after an edit, with no end of the store to come.
LEMMA EditedFlow ==
  ASSUME NEW x, NEW y, NEW op, Edited(x, y, op), NEW s, NEW u, NEW w, NEW ls, NEW ss,
         Flow(x, s, 0, u, ls, ss), w \in Seq(UpMessage),
         (x.synced /\ Len(w) = 1) \/ (~x.synced /\ Len(w) = 0),
         \A i \in 1 .. Len(w) : w[i].t = "op" /\ w[i].op = op
  PROVE  Flow(y, s, 0, u \o w, ls, ss)
  <1>1. Upward(y, s, 0, u \o w, ls, ss)
    BY EditedUpward DEF Flow, InTouch
  <1>2. Asking(y, s, 0, u \o w, ls, ss)
    <2>1. \A i \in 1 .. Len(w) : w[i].t # "hello"
      OBVIOUS
    <2>2. u \in Seq(UpMessage)
      BY DEF Flow, Upward
    <2> QED BY <2>1, <2>2, EditedAsking DEF Flow
  <1>3. Downward(y, s, 0, ls)
    BY EditedDownward DEF Flow, Chained
  <1>4. InTouch(y, s, 0, ls, ss)
    BY DEF Flow, InTouch, Edited
  <1> QED BY <1>1, <1>2, <1>3, <1>4 DEF Flow

\* Ops in the order of their seqs have each a seq of its own.
LEMMA AscendsApart ==
  ASSUME NEW s \in Seq(Op), Ascends(s), NEW o \in Elements(s), NEW p \in Elements(s), o.seq = p.seq
  PROVE  o = p
  <1>1. DOMAIN s = 1 .. Len(s) /\ Len(s) \in Nat
    BY ElementsIs
  <1>2. PICK i \in 1 .. Len(s) : o = s[i]
    BY <1>1 DEF Elements
  <1>3. PICK j \in 1 .. Len(s) : p = s[j]
    BY <1>1 DEF Elements
  <1>4. s[i] \in Op /\ s[j] \in Op
    BY <1>1
  <1>5. s[i].seq \in Nat /\ s[j].seq \in Nat /\ s[i].seq = s[j].seq
    <2>1. \A q \in Op : q.seq \in Nat
      BY DEF Op
    <2> QED BY <1>2, <1>3, <1>4, <2>1
  <1>6. (i < j => s[i].seq < s[j].seq) /\ (j < i => s[j].seq < s[i].seq)
    BY <1>1 DEF Ascends
  <1>7. ~(i < j) /\ ~(j < i)
    BY <1>5, <1>6
  <1>8. i = j
    BY <1>1, <1>7
  <1> QED BY <1>2, <1>3, <1>8

\* The pending ops s after an edit: some keep records (left), of which some are others
\* now (changed), and some keep none (removed).
Superseded(s, left, changed, removed) ==
  /\ left \in Seq(Op) /\ changed \in Seq(Op) /\ removed \in Seq(Op)
  /\ Ascends(left) /\ Ascends(changed) /\ Ascends(removed)
  /\ Elements(changed) = Elements(left) \ Elements(s)
  /\ Elements(left) \cap Elements(removed) = {}
  /\ \A p \in Elements(left) \cup Elements(removed) : \E o \in Elements(s) : Twin(p, o)
  /\ \A o \in Elements(s) : \E p \in Elements(left) \cup Elements(removed) : Twin(p, o)
  /\ \A p, q \in Elements(left) \cup Elements(removed) : p.seq = q.seq => p = q

\* What the pending ops are without the records recs, as Edit() has it.
Less(s, recs) == [i \in DOMAIN s |-> [s[i] EXCEPT !.recs = @ \ recs]]

\* They are ops, in their order.
LEMMA LessIs ==
  ASSUME NEW s \in Seq(Op), Ascends(s), NEW recs
  PROVE  /\ Less(s, recs) \in Seq(Op) /\ Ascends(Less(s, recs))
         /\ \A p \in Elements(Less(s, recs)) : \E o \in Elements(s) : Twin(p, o)
         /\ \A o \in Elements(s) : \E p \in Elements(Less(s, recs)) : Twin(p, o)
  <1> DEFINE l == Less(s, recs)
             n == Len(s)
  <1>1. n \in Nat /\ DOMAIN s = 1 .. n
    BY ElementsIs
  <1>2. ASSUME NEW i \in 1 .. n
        PROVE  l[i] \in Op /\ Twin(l[i], s[i])
    <2> DEFINE o == s[i]
               p == [o EXCEPT !.recs = @ \ recs]
    <2>1. l[i] = p
      BY <1>1 DEF Less
    <2>2. o \in Op
      BY <1>1
    <2> HIDE DEF o
    <2>3. p.n = o.n /\ p.by = o.by /\ p.seq = o.seq /\ p \in Op
      BY <2>2 DEF Op
    <2> QED BY <2>1, <2>3 DEF Twin, o
  <1>3. l = [i \in 1 .. n |-> l[i]]
    BY <1>1 DEF Less
  <1> HIDE DEF l, n
  <1>4. l \in [1 .. n -> Op]
    BY <1>2, <1>3
  <1>5. l \in Seq(Op) /\ DOMAIN l = 1 .. n
    BY <1>1, <1>4, FunctionSeq
  <1>6. Ascends(l)
    <2> SUFFICES ASSUME NEW i \in 1 .. n, NEW j \in 1 .. n, i < j PROVE l[i].seq < l[j].seq
      BY <1>5 DEF Ascends
    <2>1. s[i].seq < s[j].seq
      BY <1>1 DEF Ascends
    <2> QED BY <1>2, <2>1 DEF Twin
  <1>7. Elements(l) = {l[i] : i \in 1 .. n} /\ Elements(s) = {s[i] : i \in 1 .. n}
    BY <1>1, <1>5 DEF Elements
  <1> QED BY <1>2, <1>5, <1>6, <1>7 DEF l

\* An edit supersedes what it writes of them.
LEMMA SupersededIs ==
  ASSUME NEW s \in Seq(Op), Ascends(s), NEW less, less \in Seq(Op), Ascends(less),
         \A p \in Elements(less) : \E o \in Elements(s) : Twin(p, o),
         \A o \in Elements(s) : \E p \in Elements(less) : Twin(p, o),
         NEW left, left = Kept(less, {o \in Elements(less) : o.recs # {}}),
         NEW changed, changed = Kept(left, Elements(left) \ Elements(s)),
         NEW removed, removed = Kept(less, {o \in Elements(less) : o.recs = {}})
  PROVE  Superseded(s, left, changed, removed)
  <1>1. /\ left \in Seq(Op) /\ Ascends(left)
        /\ Elements(left) = {o \in Elements(less) : o.recs # {}}
    <2>1. Elements(left) = Elements(less) \cap {o \in Elements(less) : o.recs # {}}
          /\ left \in Seq(Op) /\ Ascends(left)
      BY KeptIs
    <2> QED BY <2>1
  <1>2. /\ removed \in Seq(Op) /\ Ascends(removed)
        /\ Elements(removed) = {o \in Elements(less) : o.recs = {}}
    <2>1. Elements(removed) = Elements(less) \cap {o \in Elements(less) : o.recs = {}}
          /\ removed \in Seq(Op) /\ Ascends(removed)
      BY KeptIs
    <2> QED BY <2>1
  <1>3. /\ changed \in Seq(Op) /\ Ascends(changed)
        /\ Elements(changed) = Elements(left) \ Elements(s)
    <2>1. Elements(changed) = Elements(left) \cap (Elements(left) \ Elements(s))
          /\ changed \in Seq(Op) /\ Ascends(changed)
      BY <1>1, KeptIs
    <2> QED BY <2>1
  <1>4. \A p, q \in Elements(less) : p.seq = q.seq => p = q
    BY AscendsApart
  <1>5. Elements(left) \cup Elements(removed) = Elements(less) /\ Elements(left) \cap Elements(removed) = {}
    BY <1>1, <1>2
  <1> QED BY <1>1, <1>2, <1>3, <1>4, <1>5 DEF Superseded

\* The writes of an edit by client x: what it changed, what it removed and the new op.
EditWrites(x, changed, removed, op) ==
  [i \in DOMAIN changed |-> OpsWrite(x, {changed[i].seq}, {changed[i]})]
    \o [i \in DOMAIN removed |-> OpsWrite(x, {removed[i].seq}, {})]
    \o <<OpsWrite(x, {op.seq}, {op})>>

\* Which is which of the writes bs.
Placed(x, changed, removed, op, bs) ==
  /\ bs \in Seq(Write) /\ Len(bs) = Len(changed) + Len(removed) + 1
  /\ \A i \in 1 .. Len(changed) : bs[i] = OpsWrite(x, {changed[i].seq}, {changed[i]})
  /\ \A i \in 1 .. Len(removed) : bs[Len(changed) + i] = OpsWrite(x, {removed[i].seq}, {})
  /\ bs[Len(bs)] = OpsWrite(x, {op.seq}, {op})
  /\ \A j \in 1 .. Len(bs) : \/ j \in 1 .. Len(changed)
                             \/ \E i \in 1 .. Len(removed) : j = Len(changed) + i
                             \/ j = Len(bs)

\* They are in that order.
LEMMA EditWritesIs ==
  ASSUME NEW x, x.id \in Nat, x.seq \in Nat, x.v \in Nat, x.epoch \in Nat,
         NEW changed \in Seq(Op), NEW removed \in Seq(Op), NEW op \in Op
  PROVE  Placed(x, changed, removed, op, EditWrites(x, changed, removed, op))
  <1> DEFINE a == [i \in DOMAIN changed |-> OpsWrite(x, {changed[i].seq}, {changed[i]})]
             b == [i \in DOMAIN removed |-> OpsWrite(x, {removed[i].seq}, {})]
             w == OpsWrite(x, {op.seq}, {op})
             n == Len(changed)
             m == Len(removed)
  <1>1. \A o \in Op : /\ OpsWrite(x, {o.seq}, {o}) \in Write /\ OpsWrite(x, {o.seq}, {}) \in Write
    <2> SUFFICES ASSUME NEW o \in Op
                 PROVE  OpsWrite(x, {o.seq}, {o}) \in Write /\ OpsWrite(x, {o.seq}, {}) \in Write
      OBVIOUS
    <2>1. {o.seq} \subseteq Nat
      BY DEF Op
    <2> QED BY <2>1, WriteIs
  <1>2. n \in Nat /\ m \in Nat /\ DOMAIN changed = 1 .. n /\ DOMAIN removed = 1 .. m
    BY ElementsIs
  <1>3. a \in Seq(Write) /\ Len(a) = n
    <2>1. a = [i \in 1 .. n |-> a[i]]
      BY <1>2
    <2>2. \A i \in 1 .. n : a[i] \in Write
      BY <1>1, <1>2
    <2> HIDE DEF a, n
    <2>3. a \in [1 .. n -> Write]
      BY <2>1, <2>2
    <2> QED BY <1>2, <2>3, FunctionSeq
  <1>4. b \in Seq(Write) /\ Len(b) = m
    <2>1. b = [i \in 1 .. m |-> b[i]]
      BY <1>2
    <2>2. \A i \in 1 .. m : b[i] \in Write
      <3> SUFFICES ASSUME NEW i \in 1 .. m PROVE b[i] \in Write
        OBVIOUS
      <3>1. removed[i] \in Op /\ b[i] = OpsWrite(x, {removed[i].seq}, {})
        BY <1>2
      <3> HIDE DEF b
      <3> QED BY <1>1, <3>1
    <2> HIDE DEF b, m
    <2>3. b \in [1 .. m -> Write]
      BY <2>1, <2>2
    <2> QED BY <1>2, <2>3, FunctionSeq
  <1>5. w \in Write
    BY <1>1
  <1>6. /\ \A i \in 1 .. n : a[i] = OpsWrite(x, {changed[i].seq}, {changed[i]})
        /\ \A i \in 1 .. m : b[i] = OpsWrite(x, {removed[i].seq}, {})
    BY <1>2
  <1>7. EditWrites(x, changed, removed, op) = (a \o b) \o <<w>>
    BY DEF EditWrites
  <1> DEFINE p == a \o b
             bs == p \o <<w>>
  <1> HIDE DEF a, b, w, n, m
  <1>8. /\ p \in Seq(Write) /\ Len(p) = n + m /\ Len(p) \in Nat
        /\ (\A i \in 1 .. n : p[i] = a[i])
        /\ (\A i \in 1 .. m : p[n + i] = b[i])
    <2>1. /\ p \in Seq(Write) /\ Len(p) = Len(a) + Len(b)
          /\ \A i \in 1 .. Len(a) : p[i] = a[i]
          /\ \A i \in 1 .. Len(b) : p[Len(a) + i] = b[i]
      <3>1. a \in Seq(Write) /\ b \in Seq(Write)
        BY <1>3, <1>4
      <3> QED BY <3>1, ConcatIs
    <2> HIDE DEF p
    <2>2. Len(a) = n /\ Len(b) = m
      BY <1>3, <1>4
    <2> QED BY <1>2, <2>1, <2>2
  <1> HIDE DEF p
  <1>9. bs \in Seq(Write) /\ Len(bs) = n + m + 1 /\ bs[n + m + 1] = w
        /\ \A i \in 1 .. n + m : bs[i] = p[i]
    <2>1. /\ <<w>> \in Seq(Write) /\ Len(<<w>>) = 1 /\ <<w>>[1] = w
      BY <1>5
    <2> DEFINE z == <<w>>
    <2>2. z \in Seq(Write) /\ Len(z) = 1 /\ z[1] = w /\ bs = p \o z
      BY <2>1
    <2> HIDE DEF z, bs
    <2>3. /\ p \o z \in Seq(Write) /\ Len(p \o z) = Len(p) + Len(z)
          /\ \A i \in 1 .. Len(p) : (p \o z)[i] = p[i]
          /\ \A i \in 1 .. Len(z) : (p \o z)[Len(p) + i] = z[i]
      <3>1. p \in Seq(Write) /\ z \in Seq(Write)
        BY <1>8, <2>2
      <3> QED BY <3>1, ConcatIs
    <2>4. 1 \in 1 .. Len(z)
      BY <2>2
    <2> QED BY <1>8, <2>2, <2>3, <2>4
  <1> HIDE DEF bs
  <1>10. \A i \in 1 .. n : bs[i] = a[i]
    <2> SUFFICES ASSUME NEW i \in 1 .. n PROVE bs[i] = a[i]
      OBVIOUS
    <2>1. i \in 1 .. n + m
      BY <1>2
    <2> QED BY <1>8, <1>9, <2>1
  <1>11. \A i \in 1 .. m : bs[n + i] = b[i]
    <2> SUFFICES ASSUME NEW i \in 1 .. m PROVE bs[n + i] = b[i]
      OBVIOUS
    <2>1. n + i \in 1 .. n + m
      BY <1>2
    <2> QED BY <1>8, <1>9, <2>1
  <1>12. \A j \in 1 .. Len(bs) : j \in 1 .. n \/ (\E i \in 1 .. m : j = n + i) \/ j = Len(bs)
    <2> SUFFICES ASSUME NEW j \in 1 .. Len(bs), j \notin 1 .. n, j # Len(bs)
                 PROVE  \E i \in 1 .. m : j = n + i
      OBVIOUS
    <2>1. j - n \in 1 .. m /\ j = n + (j - n)
      BY <1>2, <1>9
    <2> QED BY <2>1
  <1>13. bs = EditWrites(x, changed, removed, op)
    BY <1>7 DEF bs, p
  <1>14. Placed(x, changed, removed, op, bs)
    <2>1. bs[Len(bs)] = OpsWrite(x, {op.seq}, {op})
      BY <1>9 DEF w
    <2>2. Len(bs) = n + m + 1 /\ bs \in Seq(Write)
      BY <1>9
    <2>3. /\ \A i \in 1 .. n : bs[i] = OpsWrite(x, {changed[i].seq}, {changed[i]})
          /\ \A i \in 1 .. m : bs[n + i] = OpsWrite(x, {removed[i].seq}, {})
      BY <1>6, <1>10, <1>11
    <2> QED BY <1>12, <2>1, <2>2, <2>3 DEF Placed, n, m
  <1> QED BY <1>13, <1>14

\* Storage has what is pending once they have landed, and none takes out what another put in.
LEMMA EditWritesLand ==
  ASSUME NEW x, NEW s \in Seq(Op), Ascends(s), NEW left, NEW changed, NEW removed,
         Superseded(s, left, changed, removed),
         NEW op \in Op, \A o \in Elements(s) : o.seq < op.seq,
         NEW bs, Placed(x, changed, removed, op, bs)
  PROVE  /\ \A i, j \in 1 .. Len(bs) : i < j => \A o \in bs[i].put : o.seq \notin bs[j].drop
         /\ {o \in Elements(s) : \A j \in 1 .. Len(bs) : o.seq \notin bs[j].drop}
              \cup UNION {bs[j].put : j \in 1 .. Len(bs)} = Elements(left) \cup {op}
         /\ bs # <<>>
         /\ \A i \in 1 .. Len(bs) : /\ bs[i].rows = Nowhere /\ bs[i].id = x.id /\ bs[i].seq = x.seq
                                    /\ bs[i].v = x.v /\ bs[i].epoch = x.epoch
  <1> DEFINE n == Len(changed)
             m == Len(removed)
             N == Len(bs)
  <1>1. /\ changed \in Seq(Op) /\ removed \in Seq(Op) /\ left \in Seq(Op)
        /\ n \in Nat /\ m \in Nat /\ N = n + m + 1 /\ N \in Nat
        /\ Elements(changed) = {changed[i] : i \in 1 .. n}
        /\ Elements(removed) = {removed[i] : i \in 1 .. m}
        /\ DOMAIN changed = 1 .. n /\ DOMAIN removed = 1 .. m
    BY ElementsIs DEF Superseded, Placed
  <1>2. /\ \A i \in 1 .. n : bs[i].drop = {changed[i].seq} /\ bs[i].put = {changed[i]}
        /\ \A i \in 1 .. m : bs[n + i].drop = {removed[i].seq} /\ bs[n + i].put = {}
        /\ bs[N].drop = {op.seq} /\ bs[N].put = {op}
    <2>1. /\ \A i \in 1 .. n : bs[i] = OpsWrite(x, {changed[i].seq}, {changed[i]})
          /\ \A i \in 1 .. m : bs[n + i] = OpsWrite(x, {removed[i].seq}, {})
          /\ bs[N] = OpsWrite(x, {op.seq}, {op})
      BY DEF Placed
    <2>2. \A drop, put : OpsWrite(x, drop, put).drop = drop /\ OpsWrite(x, drop, put).put = put
      BY DEF OpsWrite
    <2> HIDE DEF n, m, N
    <2>3. \A i \in 1 .. n : bs[i].drop = {changed[i].seq} /\ bs[i].put = {changed[i]}
      <3> SUFFICES ASSUME NEW i \in 1 .. n
                   PROVE  bs[i].drop = {changed[i].seq} /\ bs[i].put = {changed[i]}
        OBVIOUS
      <3>1. bs[i] = OpsWrite(x, {changed[i].seq}, {changed[i]})
        BY <2>1
      <3> QED BY <2>2, <3>1
    <2>4. \A i \in 1 .. m : bs[n + i].drop = {removed[i].seq} /\ bs[n + i].put = {}
      <3> SUFFICES ASSUME NEW i \in 1 .. m
                   PROVE  bs[n + i].drop = {removed[i].seq} /\ bs[n + i].put = {}
        OBVIOUS
      <3>1. bs[n + i] = OpsWrite(x, {removed[i].seq}, {})
        BY <2>1
      <3> QED BY <2>2, <3>1
    <2>5. bs[N].drop = {op.seq} /\ bs[N].put = {op}
      <3>1. bs[N] = OpsWrite(x, {op.seq}, {op})
        BY <2>1
      <3> QED BY <2>2, <3>1
    <2> QED BY <2>3, <2>4, <2>5
  <1>3. \A j \in 1 .. N : j \in 1 .. n \/ (\E i \in 1 .. m : j = n + i) \/ j = N
    BY DEF Placed
  <1>4. \A j \in 1 .. N : /\ bs[j].rows = Nowhere /\ bs[j].id = x.id /\ bs[j].seq = x.seq
                          /\ bs[j].v = x.v /\ bs[j].epoch = x.epoch
    <2> SUFFICES ASSUME NEW j \in 1 .. N
                 PROVE  /\ bs[j].rows = Nowhere /\ bs[j].id = x.id /\ bs[j].seq = x.seq
                        /\ bs[j].v = x.v /\ bs[j].epoch = x.epoch
      OBVIOUS
    <2>1. /\ \A i \in 1 .. n : bs[i] = OpsWrite(x, {changed[i].seq}, {changed[i]})
          /\ \A i \in 1 .. m : bs[n + i] = OpsWrite(x, {removed[i].seq}, {})
          /\ bs[N] = OpsWrite(x, {op.seq}, {op})
      BY DEF Placed
    <2>2. \A drop, put : LET w == OpsWrite(x, drop, put)
                         IN  /\ w.rows = Nowhere /\ w.id = x.id /\ w.seq = x.seq
                             /\ w.v = x.v /\ w.epoch = x.epoch
      BY DEF OpsWrite
    <2> HIDE DEF n, m, N
    <2>3. CASE j \in 1 .. n
      <3>1. bs[j] = OpsWrite(x, {changed[j].seq}, {changed[j]})
        BY <2>1, <2>3
      <3> QED BY <2>2, <3>1
    <2>4. CASE \E i \in 1 .. m : j = n + i
      <3>1. PICK i \in 1 .. m : j = n + i
        BY <2>4
      <3>2. bs[j] = OpsWrite(x, {removed[i].seq}, {})
        BY <2>1, <3>1
      <3> QED BY <2>2, <3>2
    <2>5. CASE j = N
      <3>1. bs[j] = OpsWrite(x, {op.seq}, {op})
        BY <2>1, <2>5
      <3> QED BY <2>2, <3>1
    <2> QED BY <1>3, <2>3, <2>4, <2>5
  <1>5. bs # <<>>
    <2> SUFFICES N # 0
      OBVIOUS
    <2> QED BY <1>1
  <1> HIDE DEF n, m, N
  <1>6. /\ \A p \in Elements(left) \cup Elements(removed) : \E o \in Elements(s) : Twin(p, o)
        /\ \A o \in Elements(s) : \E p \in Elements(left) \cup Elements(removed) : Twin(p, o)
        /\ \A p, q \in Elements(left) \cup Elements(removed) : p.seq = q.seq => p = q
        /\ Elements(left) \cap Elements(removed) = {}
        /\ Elements(changed) = Elements(left) \ Elements(s)
        /\ Ascends(changed)
    BY DEF Superseded
  <1>7. \A o \in Elements(s) : o.seq # op.seq
    <2> SUFFICES ASSUME NEW o \in Elements(s), o.seq = op.seq PROVE FALSE
      OBVIOUS
    <2>1. op.seq \in Nat /\ op.seq < op.seq
      BY DEF Op
    <2> QED BY <2>1
  <1>8. \A p \in Elements(left) \cup Elements(removed) : p.seq # op.seq
    BY <1>6, <1>7 DEF Twin
  <1>9. ASSUME NEW i \in 1 .. N, NEW j \in 1 .. N, i < j, NEW o \in bs[i].put
        PROVE  o.seq \notin bs[j].drop
    <2>1. CASE i \in 1 .. n
      <3>1. o = changed[i] /\ o \in Elements(changed) /\ o \in Elements(left)
        BY <1>1, <1>2, <1>6, <1>9, <2>1
      <3>2. CASE j \in 1 .. n
        <4>1. changed[i].seq < changed[j].seq
          BY <1>1, <1>6, <1>9, <2>1, <3>2 DEF Ascends
        <4>2. changed[i] \in Op
          BY <1>1, <2>1
        <4>3. changed[i].seq \in Nat
          BY <4>2 DEF Op
        <4>4. changed[i].seq # changed[j].seq
          BY <4>1, <4>3
        <4> QED BY <1>2, <3>1, <3>2, <4>4
      <3>3. CASE \E k \in 1 .. m : j = n + k
        <4>1. PICK k \in 1 .. m : j = n + k
          BY <3>3
        <4>2. removed[k] \in Elements(removed)
          BY <1>1
        <4>3. o.seq # removed[k].seq
          BY <1>6, <3>1, <4>2
        <4> QED BY <1>2, <4>1, <4>3
      <3>4. CASE j = N
        BY <1>2, <1>8, <3>1, <3>4
      <3> QED BY <1>3, <3>2, <3>3, <3>4
    <2>2. CASE \E k \in 1 .. m : i = n + k
      BY <1>2, <1>9, <2>2
    <2>3. CASE i = N
      BY <1>1, <1>9, <2>3
    <2> QED BY <1>3, <2>1, <2>2, <2>3
  <1>10. UNION {bs[j].put : j \in 1 .. N} = Elements(changed) \cup {op}
    <2>1. ASSUME NEW j \in 1 .. N, NEW o \in bs[j].put
          PROVE  o \in Elements(changed) \cup {op}
      <3>1. CASE j \in 1 .. n
        BY <1>1, <1>2, <2>1, <3>1
      <3>2. CASE \E k \in 1 .. m : j = n + k
        BY <1>2, <2>1, <3>2
      <3>3. CASE j = N
        BY <1>2, <2>1, <3>3
      <3> QED BY <1>3, <3>1, <3>2, <3>3
    <2>2. ASSUME NEW o \in Elements(changed)
          PROVE  \E j \in 1 .. N : o \in bs[j].put
      <3>1. PICK i \in 1 .. n : o = changed[i]
        BY <1>1
      <3>2. i \in 1 .. N /\ bs[i].put = {changed[i]}
        BY <1>1, <1>2
      <3> QED BY <3>1, <3>2
    <2>3. N \in 1 .. N /\ op \in bs[N].put
      BY <1>1, <1>2
    <2> QED BY <2>1, <2>2, <2>3
  <1>11. ASSUME NEW o \in Elements(s)
         PROVE  (\A j \in 1 .. N : o.seq \notin bs[j].drop) <=> o \in Elements(left)
    <2>1. PICK p \in Elements(left) \cup Elements(removed) : Twin(p, o)
      BY <1>6
    <2>2. p.seq = o.seq
      BY <2>1 DEF Twin
    <2>3. ASSUME \A j \in 1 .. N : o.seq \notin bs[j].drop
          PROVE  o \in Elements(left)
      <3>1. p \notin Elements(removed)
        <4> SUFFICES ASSUME p \in Elements(removed) PROVE FALSE
          OBVIOUS
        <4>1. PICK k \in 1 .. m : p = removed[k]
          BY <1>1
        <4>2. n + k \in 1 .. N /\ bs[n + k].drop = {removed[k].seq}
          BY <1>1, <1>2
        <4> QED BY <2>2, <2>3, <4>1, <4>2
      <3>2. p \notin Elements(changed)
        <4> SUFFICES ASSUME p \in Elements(changed) PROVE FALSE
          OBVIOUS
        <4>1. PICK k \in 1 .. n : p = changed[k]
          BY <1>1
        <4>2. k \in 1 .. N /\ bs[k].drop = {changed[k].seq}
          BY <1>1, <1>2
        <4> QED BY <2>2, <2>3, <4>1, <4>2
      <3>3. p \in Elements(left) /\ p \in Elements(s)
        BY <1>6, <2>1, <3>1, <3>2
      <3>4. p = o
        BY <2>2, <3>3, AscendsApart
      <3> QED BY <3>3, <3>4
    <2>4. ASSUME o \in Elements(left), NEW j \in 1 .. N
          PROVE  o.seq \notin bs[j].drop
      <3>1. CASE j \in 1 .. n
        <4>1. changed[j] \in Elements(left) \ Elements(s)
          BY <1>1, <1>6, <3>1
        <4>2. o.seq # changed[j].seq
          BY <1>6, <2>4, <4>1
        <4> QED BY <1>2, <3>1, <4>2
      <3>2. CASE \E k \in 1 .. m : j = n + k
        <4>1. PICK k \in 1 .. m : j = n + k
          BY <3>2
        <4>2. removed[k] \in Elements(removed)
          BY <1>1
        <4>3. o.seq # removed[k].seq
          BY <1>6, <2>4, <4>2
        <4> QED BY <1>2, <4>1, <4>3
      <3>3. CASE j = N
        BY <1>2, <1>7, <3>3
      <3> QED BY <1>3, <3>1, <3>2, <3>3
    <2> QED BY <2>3, <2>4
  <1>12. {o \in Elements(s) : \A j \in 1 .. N : o.seq \notin bs[j].drop}
           \cup UNION {bs[j].put : j \in 1 .. N} = Elements(left) \cup {op}
    <2>1. {o \in Elements(s) : \A j \in 1 .. N : o.seq \notin bs[j].drop} = Elements(s) \cap Elements(left)
      BY <1>11
    <2> QED BY <1>6, <1>10, <2>1
  <1> QED BY <1>4, <1>5, <1>9, <1>12 DEF N

\* The client y once an edit of client x is op, in the outbox after left, the writes are ws
\* and what is sent is w.
EditLeaves(x, y, op, left, ws, w) ==
  /\ y \in Page
  /\ y.seq = op.seq /\ y.outbox = Append(left, op)
  /\ y.puts = x.puts \o ws /\ y.out = x.out \o w
  /\ y.on = x.on /\ y.id = x.id /\ y.base = x.base /\ y.epoch = x.epoch /\ y.v = x.v
  /\ y.synced = x.synced /\ y.answered = x.answered /\ y.holds = x.holds /\ y.held = x.held
  /\ y.asks = x.asks /\ y.dirty = x.dirty /\ y.reset = x.reset

\* Such a client is left, whether it sends the op or not.
LEMMA EditLeavesIs ==
  ASSUME NEW x \in Page, NEW op \in Op, NEW left \in Seq(Op), NEW ws \in Seq(Write)
  PROVE  LET z == [x EXCEPT !.seq = op.seq, !.outbox = Append(left, op)]
             y == [z EXCEPT !.puts = @ \o ws]
             m == [t |-> "op", op |-> op]
         IN  EditLeaves(x, y, op, left, ws, <<>>) /\ EditLeaves(x, Sent(y, <<m>>), op, left, ws, <<m>>)
  <1> DEFINE s == op.seq
             o == Append(left, op)
             p == x.puts \o ws
             m == [t |-> "op", op |-> op]
             r == x.out \o <<m>>
             z == [x EXCEPT !.seq = s, !.outbox = o]
             y == [z EXCEPT !.puts = @ \o ws]
             y2 == Sent(y, <<m>>)
  <1>1. s \in Nat /\ o \in Seq(Op)
    BY DEF Op
  <1>2. p \in Seq(Write)
    <2>1. x.puts \in Seq(Write)
      BY DEF Page
    <2> QED BY <2>1, ConcatProperties
  <1>3. r \in Seq(UpMessage)
    <2>1. x.out \in Seq(UpMessage)
      BY DEF Page
    <2>2. m \in UpMessage
      BY DEF UpMessage, OpMessage
    <2> DEFINE a == <<m>>
    <2>3. a \in Seq(UpMessage)
      BY <2>2
    <2> HIDE DEF a, m
    <2>4. x.out \o a \in Seq(UpMessage)
      BY <2>1, <2>3, ConcatProperties
    <2> QED BY <2>4 DEF a
  <1>4. x.out \o <<>> = x.out
    <2>1. x.out \in Seq(UpMessage)
      BY DEF Page
    <2> QED BY <2>1, NoneBefore
  <1> HIDE DEF s, o
  <1>5. /\ z \in Page /\ z.seq = s /\ z.outbox = o /\ z.puts = x.puts /\ z.out = x.out
        /\ z.on = x.on /\ z.id = x.id /\ z.base = x.base /\ z.epoch = x.epoch /\ z.v = x.v
        /\ z.synced = x.synced /\ z.answered = x.answered /\ z.holds = x.holds /\ z.held = x.held
        /\ z.asks = x.asks /\ z.dirty = x.dirty /\ z.reset = x.reset
    BY <1>1 DEF Page
  <1> HIDE DEF z
  <1>6. y = [z EXCEPT !.puts = p]
    BY <1>5 DEF Page
  <1> HIDE DEF p, y
  <1>7. /\ y \in Page /\ y.seq = z.seq /\ y.outbox = z.outbox /\ y.puts = p /\ y.out = z.out
        /\ y.on = z.on /\ y.id = z.id /\ y.base = z.base /\ y.epoch = z.epoch /\ y.v = z.v
        /\ y.synced = z.synced /\ y.answered = z.answered /\ y.holds = z.holds /\ y.held = z.held
        /\ y.asks = z.asks /\ y.dirty = z.dirty /\ y.reset = z.reset
    BY <1>2, <1>5, <1>6 DEF Page
  <1>8. y2 = [y EXCEPT !.out = r]
    BY <1>5, <1>7 DEF Sent, Page
  <1> HIDE DEF r, y2
  <1>9. /\ y2 \in Page /\ y2.seq = y.seq /\ y2.outbox = y.outbox /\ y2.puts = y.puts /\ y2.out = r
        /\ y2.on = y.on /\ y2.id = y.id /\ y2.base = y.base /\ y2.epoch = y.epoch /\ y2.v = y.v
        /\ y2.synced = y.synced /\ y2.answered = y.answered /\ y2.holds = y.holds /\ y2.held = y.held
        /\ y2.asks = y.asks /\ y2.dirty = y.dirty /\ y2.reset = y.reset
    BY <1>3, <1>7, <1>8 DEF Page
  <1>10. EditLeaves(x, y, op, left, ws, <<>>)
    BY <1>4, <1>5, <1>7 DEF EditLeaves, s, o, p
  <1>11. EditLeaves(x, y2, op, left, ws, <<m>>)
    BY <1>5, <1>7, <1>9 DEF EditLeaves, s, o, p, r
  <1> QED BY <1>10, <1>11 DEF y2, y, z, s, o

\* The op of an edit comes after those that are pending.
LEMMA EditAscends ==
  ASSUME NEW left \in Seq(Op), Ascends(left), NEW op \in Op, \A p \in Elements(left) : p.seq < op.seq
  PROVE  Ascends(Append(left, op))
  <1> DEFINE s == Append(left, op)
             n == Len(left)
  <1>1. /\ n \in Nat /\ DOMAIN s = 1 .. n + 1 /\ s[n + 1] = op /\ DOMAIN left = 1 .. n
        /\ \A i \in 1 .. n : s[i] = left[i]
    OBVIOUS
  <1> HIDE DEF s, n
  <1> SUFFICES ASSUME NEW i \in 1 .. n + 1, NEW j \in 1 .. n + 1, i < j
               PROVE  s[i].seq < s[j].seq
    BY <1>1 DEF Ascends, s
  <1>2. i \in 1 .. n /\ s[i] = left[i]
    BY <1>1
  <1>3. CASE j = n + 1
    <2>1. left[i] \in Elements(left)
      BY <1>1, <1>2 DEF Elements
    <2> QED BY <1>1, <1>2, <1>3, <2>1
  <1>4. CASE j # n + 1
    <2>1. j \in 1 .. n /\ s[j] = left[j]
      BY <1>1, <1>4
    <2> QED BY <1>1, <1>2, <2>1 DEF Ascends
  <1> QED BY <1>3, <1>4

\* Of a history that is gapless for an op it is so for its twin.
LEMMA TwinGapless ==
  ASSUME NEW h, NEW o, NEW p, Twin(p, o), Gapless(h, o)
  PROVE  Gapless(h, p)
  <1>1. p.n = o.n /\ p.by = o.by /\ p.seq = o.seq
    BY DEF Twin
  <1>2. \A v : Has(h, v, o) <=> Has(h, v, p)
    BY <1>1 DEF Has
  <1> QED BY <1>1, <1>2 DEF Gapless

\* The client owns its ops after an edit.
LEMMA EditReplica ==
  ASSUME Lives(lives, pages), NEW x, PageOK(x, lives, pages), NEW y, NEW op \in Op,
         op.by = x.id, op.seq = x.seq + 1, NEW left, NEW changed, NEW removed, NEW ws, NEW w,
         Superseded(x.outbox, left, changed, removed), EditLeaves(x, y, op, left, ws, w)
  PROVE  /\ PageOK(y, lives, pages) /\ Elements(y.outbox) = Elements(left) \cup {op}
         /\ Edited(x, y, op)
  <1>1. /\ x \in Page /\ y \in Page /\ x.seq \in Nat /\ x.outbox \in Seq(Op)
    BY DEF PageOK, EditLeaves, Page
  <1>2. /\ left \in Seq(Op) /\ Ascends(left)
        /\ \A p \in Elements(left) : \E o \in Elements(x.outbox) : Twin(p, o)
    BY DEF Superseded
  <1>3. Elements(y.outbox) = Elements(left) \cup {op}
    BY <1>2, ElementsAppend DEF EditLeaves
  <1>4. /\ \A o \in Elements(x.outbox) : o \in Op /\ o.by = x.id /\ o.seq \in 1 .. x.seq
        /\ \A o \in Elements(x.outbox) : \A e \in 1 .. Len(lives) : Gapless(lives[e], o)
        /\ \A e \in 1 .. Len(lives) : \A j \in 1 .. Len(lives[e]) :
             lives[e][j].by = x.id => lives[e][j].seq <= x.seq
    BY DEF PageOK, Owns
  <1>5. ASSUME NEW p \in Elements(left)
        PROVE  /\ p \in Op /\ p.by = x.id /\ p.seq \in 1 .. x.seq /\ p.seq < op.seq
               /\ \A e \in 1 .. Len(lives) : Gapless(lives[e], p)
    <2>1. PICK o \in Elements(x.outbox) : Twin(p, o)
      BY <1>2
    <2>2. o.by = x.id /\ o.seq \in 1 .. x.seq
      BY <1>4
    <2>3. p \in Op
      BY <1>2, ElementsIs
    <2>4. p.by = x.id /\ p.seq \in 1 .. x.seq
      BY <2>1, <2>2 DEF Twin
    <2>5. p.seq < op.seq
      BY <1>1, <2>4
    <2>6. ASSUME NEW e \in 1 .. Len(lives) PROVE Gapless(lives[e], p)
      <3>1. Gapless(lives[e], o)
        BY <1>4
      <3> QED BY <2>1, <3>1, TwinGapless
    <2> QED BY <2>3, <2>4, <2>5, <2>6
  <1>6. Ascends(y.outbox)
    <2>1. Ascends(Append(left, op))
      BY <1>2, <1>5, EditAscends
    <2> QED BY <2>1 DEF EditLeaves
  <1>7. ASSUME NEW e \in 1 .. Len(lives), NEW j \in 1 .. Len(lives[e]), lives[e][j].by = x.id
        PROVE  lives[e][j].seq \in Nat /\ lives[e][j].seq < op.seq
    <2>1. lives[e] \in Seq(Op)
      BY DEF Lives
    <2>2. lives[e][j] \in Op
      BY <2>1
    <2>3. lives[e][j].seq \in Nat /\ lives[e][j].seq <= x.seq
      BY <1>4, <1>7, <2>2 DEF Op
    <2> QED BY <1>1, <2>3
  <1>8. ASSUME NEW e \in 1 .. Len(lives) PROVE Gapless(lives[e], op)
    <2> SUFFICES ASSUME NEW j \in DOMAIN lives[e], lives[e][j].by = op.by, lives[e][j].seq >= op.seq
                 PROVE  FALSE
      BY DEF Gapless
    <2>1. lives[e] \in Seq(Op)
      BY DEF Lives
    <2>2. j \in 1 .. Len(lives[e])
      BY <2>1
    <2>3. lives[e][j].seq \in Nat /\ lives[e][j].seq < op.seq /\ op.seq \in Nat
      BY <1>1, <1>7, <2>2
    <2> QED BY <2>3
  <1>9. Owns(y.id, y.seq, Elements(y.outbox), lives)
    <2>1. y.id = x.id /\ y.seq = x.seq + 1
      BY DEF EditLeaves
    <2>2. ASSUME NEW o \in Elements(y.outbox)
          PROVE  /\ o \in Op /\ o.by = y.id /\ o.seq \in 1 .. y.seq
                 /\ \A e \in 1 .. Len(lives) : Gapless(lives[e], o)
      <3>1. CASE o = op
        BY <1>1, <1>8, <2>1, <3>1
      <3>2. CASE o \in Elements(left)
        <4>1. o \in Op /\ o.by = x.id /\ o.seq \in 1 .. x.seq
          BY <1>5, <3>2
        <4>2. o.seq \in 1 .. x.seq + 1
          BY <1>1, <4>1
        <4> QED BY <1>5, <2>1, <3>2, <4>1, <4>2
      <3> QED BY <1>3, <3>1, <3>2
    <2>3. ASSUME NEW e \in 1 .. Len(lives), NEW j \in 1 .. Len(lives[e]), lives[e][j].by = y.id
          PROVE  lives[e][j].seq <= y.seq
      <3>1. lives[e][j].seq \in Nat /\ lives[e][j].seq < op.seq
        BY <1>7, <2>1, <2>3
      <3> QED BY <1>1, <2>1, <3>1
    <2> QED BY <2>2, <2>3 DEF Owns
  <1>10. PageOK(y, lives, pages)
    <2>1. y.on /\ y.id \in 1 .. pages /\ Whole(y.base, y.v, y.epoch, lives)
      BY DEF PageOK, EditLeaves
    <2> QED BY <1>1, <1>6, <1>9, <2>1 DEF PageOK
  <1>11. Edited(x, y, op)
    <2>1. \A o \in Elements(y.outbox) : o = op \/ \E p \in Elements(x.outbox) : Twin(p, o)
      BY <1>2, <1>3 DEF Twin
    <2> QED BY <1>1, <2>1 DEF Edited, EditLeaves
  <1> QED BY <1>3, <1>10, <1>11

\* What an edit leaves unexplained of un, with its own number.
LeftOpen(un, op, removed) == (un \cup {op.n}) \ Numbers(removed)

\* It is pending, or explained as it was.
LEMMA EditExplains ==
  ASSUME NEW x, NEW y, NEW op, NEW left, NEW changed, NEW removed, NEW ls, NEW un,
         Superseded(x.outbox, left, changed, removed),
         Elements(y.outbox) = Elements(left) \cup {op}, y.v = x.v, y.epoch = x.epoch,
         Explains(Elements(x.outbox), x.v, x.epoch, un, ls)
  PROVE  Explains(Elements(y.outbox), y.v, y.epoch, LeftOpen(un, op, removed), ls)
  <1> DEFINE there == IF x.v = 0 THEN {} ELSE Numbers(ls[x.epoch])
  <1>1. there = IF y.v = 0 THEN {} ELSE Numbers(ls[y.epoch])
    OBVIOUS
  <1>2. \A n \in un : n \in there \/ \E o \in Elements(x.outbox) : n = o.n
    BY DEF Explains
  <1> HIDE DEF there
  <1>3. ASSUME NEW n \in LeftOpen(un, op, removed), \A p \in Elements(y.outbox) : n # p.n
        PROVE  n \in there
    <2>1. n # op.n /\ n \in un /\ n \notin Numbers(removed)
      BY <1>3 DEF LeftOpen
    <2> SUFFICES ASSUME n \notin there PROVE FALSE
      OBVIOUS
    <2>2. PICK o \in Elements(x.outbox) : n = o.n
      BY <1>2, <2>1
    <2>3. PICK p \in Elements(left) \cup Elements(removed) : Twin(p, o)
      BY DEF Superseded
    <2>4. p.n = n
      BY <2>2, <2>3 DEF Twin
    <2>5. CASE p \in Elements(left)
      BY <1>3, <2>4, <2>5
    <2>6. CASE p \in Elements(removed)
      BY <2>1, <2>4, <2>6 DEF Elements, Numbers
    <2> QED BY <2>3, <2>5, <2>6
  <1> QED BY <1>1, <1>3 DEF Explains

\* What an edit of which y is left writes.
EditPut(y, changed, removed, op, ws) ==
  \/ adapter = "document" /\ ws = <<OpsWrite(y, Nat, Elements(y.outbox))>>
  \/ adapter # "document" /\ ws = EditWrites(y, changed, removed, op)

\* Once it has landed storage has what the client has.
LEMMA EditBacked ==
  ASSUME NEW x \in Page, NEW y, NEW op \in Op, NEW left, NEW changed, NEW removed, NEW ws, NEW w,
         Ascends(x.outbox), \A o \in Elements(x.outbox) : o.seq < op.seq,
         Superseded(x.outbox, left, changed, removed), EditLeaves(x, y, op, left, ws, w),
         Elements(y.outbox) = Elements(left) \cup {op}, EditPut(y, changed, removed, op, ws),
         Whole(x.base, x.v, x.epoch, lives), writes \in Seq(Write),
         Backed(adapter, remade, lives, disk, writes \o x.puts, x)
  PROVE  Backed(adapter, remade, lives, disk, writes \o y.puts, y)
  <1> DEFINE p == writes \o x.puts
  <1>1. /\ x.puts \in Seq(Write) /\ x.outbox \in Seq(Op) /\ x.base \in Rows
        /\ y \in Page /\ y.id \in Nat /\ y.seq \in Nat /\ y.v \in Nat /\ y.epoch \in Nat
        /\ y.outbox \in Seq(Op)
    BY DEF Page, EditLeaves
  <1>2. /\ y.id = x.id /\ y.base = x.base /\ y.v = x.v /\ y.epoch = x.epoch
        /\ y.puts = x.puts \o ws
    BY DEF EditLeaves
  <1>3. p \in Seq(Write)
    BY <1>1, ConcatProperties
  <1>4. Backed(adapter, remade, lives, disk, p, x)
    OBVIOUS
  <1>5. CASE adapter = "document"
    <2> DEFINE put == Elements(y.outbox)
               a == OpsWrite(y, Nat, put)
    <2>1. ws = <<a>>
      BY <1>5 DEF EditPut
    <2>2. put \subseteq Op
      BY <1>1, ElementsIs
    <2>3. a \in Write
      <3>1. Nat \subseteq Nat
        OBVIOUS
      <3> QED BY <1>1, <2>2, <3>1, WriteIs
    <2>4. {o \in Elements(x.outbox) : o.seq \notin Nat} \cup put = put
      <3>1. \A o \in Elements(x.outbox) : o \in Op
        BY <1>1, ElementsIs
      <3>2. \A o \in Elements(x.outbox) : o.seq \in Nat
        BY <3>1 DEF Op
      <3> QED BY <3>2
    <2> HIDE DEF p
    <2>5. Backed(adapter, remade, lives, disk, Append(p, a), y)
      <3> HIDE DEF put
      <3>1. put = Elements(y.outbox)
        BY DEF put
      <3> QED BY <1>1, <1>2, <1>3, <1>4, <2>3, <2>4, <3>1, BackedOps
    <2> HIDE DEF a
    <2>6. Append(p, a) = writes \o (x.puts \o <<a>>)
      <3> DEFINE o == x.puts
      <3>1. o \in Seq(Write) /\ p = writes \o o /\ x.puts = o
        BY <1>1 DEF p
      <3> HIDE DEF o
      <3>2. Append(writes \o o, a) = writes \o Append(o, a) /\ Append(o, a) = o \o <<a>>
        BY <2>3, <3>1, AppendThen
      <3> QED BY <3>1, <3>2
    <2> QED BY <1>2, <2>1, <2>5, <2>6
  <1>6. CASE adapter # "document"
    <2>1. ws = EditWrites(y, changed, removed, op)
      BY <1>6 DEF EditPut
    <2>2. changed \in Seq(Op) /\ removed \in Seq(Op)
      BY DEF Superseded
    <2>3. Placed(y, changed, removed, op, ws)
      BY <1>1, <2>1, <2>2, EditWritesIs
    <2>4. ws \in Seq(Write)
      BY <2>3 DEF Placed
    <2>5. /\ \A i, j \in 1 .. Len(ws) : i < j => \A o \in ws[i].put : o.seq \notin ws[j].drop
          /\ {o \in Elements(x.outbox) : \A j \in 1 .. Len(ws) : o.seq \notin ws[j].drop}
               \cup UNION {ws[j].put : j \in 1 .. Len(ws)} = Elements(y.outbox)
          /\ ws # <<>>
          /\ \A i \in 1 .. Len(ws) : /\ ws[i].rows = Nowhere /\ ws[i].id = y.id /\ ws[i].seq = y.seq
                                     /\ ws[i].v = y.v /\ ws[i].epoch = y.epoch
      BY <1>1, <2>3, EditWritesLand
    <2> HIDE DEF p
    <2>6. Backed(adapter, remade, lives, disk, p \o ws, y)
      BY <1>1, <1>2, <1>3, <1>4, <1>6, <2>4, <2>5, BackedBatch
    <2>7. p \o ws = writes \o (x.puts \o ws)
      <3> DEFINE o == x.puts
      <3>1. o \in Seq(Write) /\ p = writes \o o /\ x.puts = o
        BY <1>1 DEF p
      <3> HIDE DEF o
      <3>2. (writes \o o) \o ws = writes \o (o \o ws)
        BY <2>4, <3>1, ConcatAssociative
      <3> QED BY <3>1, <3>2
    <2> QED BY <1>2, <2>6, <2>7
  <1> QED BY <1>5, <1>6

\* What an edit sends: its op, of a client that is synced.
EditSends(x, op, w) ==
  /\ w \in Seq(UpMessage)
  /\ (x.synced /\ Len(w) = 1) \/ (~x.synced /\ Len(w) = 0)
  /\ \A i \in 1 .. Len(w) : w[i].t = "op" /\ w[i].op = op

\* The client is right after an edit, with no end of the store to come.
LEMMA EditFine ==
  ASSUME Lives(lives, pages), writes \in Seq(Write), up \in Seq(UpMessage),
         NEW x, NEW s, NEW un, Fine(x, s, 0, un), ~x.reset, NEW y, NEW op \in Op,
         op.by = x.id, op.seq = x.seq + 1, NEW left, NEW changed, NEW removed, NEW ws, NEW w,
         Superseded(x.outbox, left, changed, removed), EditLeaves(x, y, op, left, ws, w),
         EditPut(y, changed, removed, op, ws), EditSends(x, op, w)
  PROVE  Fine(y, s, 0, LeftOpen(un, op, removed))
  <1>1. PageOK(x, lives, pages)
    BY DEF Fine
  <1>2. PageOK(y, lives, pages) /\ Elements(y.outbox) = Elements(left) \cup {op} /\ Edited(x, y, op)
    BY <1>1, EditReplica
  <1>3. y.v = x.v /\ y.epoch = x.epoch /\ y.dirty = x.dirty /\ y.out = x.out \o w
    BY DEF EditLeaves
  <1>4. Explains(Elements(y.outbox), y.v, y.epoch, LeftOpen(un, op, removed), lives)
    <2>1. Explains(Elements(x.outbox), x.v, x.epoch, un, lives)
      BY DEF Fine
    <2> QED BY <1>2, <1>3, <2>1, EditExplains
  <1>5. /\ x \in Page /\ Ascends(x.outbox) /\ Whole(x.base, x.v, x.epoch, lives)
        /\ \A o \in Elements(x.outbox) : o.seq < op.seq
    <2>1. /\ x \in Page /\ Ascends(x.outbox) /\ Whole(x.base, x.v, x.epoch, lives)
          /\ \A o \in Elements(x.outbox) : o.seq \in 1 .. x.seq
      BY <1>1 DEF PageOK, Owns
    <2>2. x.seq \in Nat
      BY <2>1 DEF Page
    <2>3. \A o \in Elements(x.outbox) : o.seq < op.seq
      BY <2>1, <2>2
    <2> QED BY <2>1, <2>3
  <1>6. Backed(adapter, remade, lives, disk, writes \o y.puts, y)
    <2>1. Backed(adapter, remade, lives, disk, writes \o x.puts, x)
      BY DEF Fine
    <2> QED BY <1>2, <1>5, <2>1, EditBacked
  <1>7. Flow(y, s, 0, up \o y.out, lives, sess)
    <2> DEFINE u == up \o x.out
    <2>1. x.out \in Seq(UpMessage)
      BY <1>5 DEF Page
    <2>2. Flow(x, s, 0, u, lives, sess)
      BY DEF Fine
    <2>3. /\ w \in Seq(UpMessage)
          /\ (x.synced /\ Len(w) = 1) \/ (~x.synced /\ Len(w) = 0)
          /\ \A i \in 1 .. Len(w) : w[i].t = "op" /\ w[i].op = op
      BY DEF EditSends
    <2>4. u \o w = up \o (x.out \o w)
      <3>1. up \in Seq(UpMessage) /\ x.out \in Seq(UpMessage) /\ w \in Seq(UpMessage)
        BY <2>1, <2>3
      <3> DEFINE o == x.out
                 a == up
      <3>2. o \in Seq(UpMessage) /\ u = a \o o /\ x.out = o /\ a \in Seq(UpMessage) /\ up = a
        BY <3>1
      <3>3. w \in Seq(UpMessage)
        BY <3>1
      <3> HIDE DEF o, a, u
      <3>4. (a \o o) \o w = a \o (o \o w)
        BY ONLY <3>2, <3>3, ConcatAssociative
      <3> QED BY <3>2, <3>4
    <2> HIDE DEF u
    <2>5. Flow(y, s, 0, u \o w, lives, sess)
      BY <1>2, <2>2, <2>3, EditedFlow
    <2> QED BY <1>3, <2>4, <2>5
  <1>8. y.dirty => adapter = "document"
    BY <1>3 DEF Fine
  <1> QED BY <1>2, <1>4, <1>6, <1>7, <1>8 DEF Fine

\* What the action Edit is of: the op, what is left of those before it, and the client y.
EditIs(op, left, changed, removed, y) ==
  /\ op \in Op /\ op.n = made + 1 /\ op.by = c.id /\ op.seq = c.seq + 1
  /\ Superseded(c.outbox, left, changed, removed)
  /\ mine' = mine \cup {op.n} /\ moot' = moot \cup Numbers(removed) /\ Does(y)
  /\ \E ws, w : /\ EditLeaves(c, y, op, left, ws, w)
                /\ EditPut(y, changed, removed, op, ws)
                /\ EditSends(c, op, w)

\* It is of that, in the page that is open.
LEMMA EditOf ==
  ASSUME TypesOK, Opened, Edit
  PROVE  \E op, left, changed, removed, y : EditIs(op, left, changed, removed, y)
  <1>1. PICK recs \in Edits :
          LET op == [n |-> made', by |-> c.id, seq |-> c.seq + 1, recs |-> recs]
              less == [i \in DOMAIN c.outbox |-> [c.outbox[i] EXCEPT !.recs = @ \ recs]]
              left == Kept(less, {o \in Elements(less) : o.recs # {}})
              changed == Kept(left, Elements(left) \ Elements(c.outbox))
              removed == Kept(less, {o \in Elements(less) : o.recs = {}})
              x == [c EXCEPT !.seq = op.seq, !.outbox = Append(left, op)]
              y == Wrote(x, [i \in DOMAIN changed |-> OpsWrite(x, {changed[i].seq}, {changed[i]})]
                            \o [i \in DOMAIN removed |-> OpsWrite(x, {removed[i].seq}, {})]
                            \o <<OpsWrite(x, {op.seq}, {op})>>)
          IN  /\ mine' = mine \cup {op.n}
              /\ moot' = moot \cup Numbers(removed)
              /\ Does(IF link /\ y.synced THEN Sent(y, <<[t |-> "op", op |-> op]>>) ELSE y)
    BY ZenonT(30) DEF Edit
  <1> DEFINE op == [n |-> made', by |-> c.id, seq |-> c.seq + 1, recs |-> recs]
             less == Less(c.outbox, recs)
             left == Kept(less, {o \in Elements(less) : o.recs # {}})
             changed == Kept(left, Elements(left) \ Elements(c.outbox))
             removed == Kept(less, {o \in Elements(less) : o.recs = {}})
             x == [c EXCEPT !.seq = op.seq, !.outbox = Append(left, op)]
             es == EditWrites(x, changed, removed, op)
             ws == IF adapter = "document" THEN <<OutboxWrite(x)>> ELSE es
             y == [x EXCEPT !.puts = @ \o ws]
             m == [t |-> "op", op |-> op]
             y2 == Sent(y, <<m>>)
  <1>2. /\ mine' = mine \cup {op.n} /\ moot' = moot \cup Numbers(removed)
        /\ Does(IF link /\ y.synced THEN y2 ELSE y)
    BY <1>1 DEF Less, EditWrites, Wrote
  <1>3. /\ c \in Page /\ Ascends(c.outbox) /\ c.outbox \in Seq(Op) /\ c.id \in Nat /\ c.seq \in Nat
        /\ made \in Nat /\ made' = made + 1 /\ (~link => ~c.synced) /\ recs \in SUBSET Records
    <2>1. c \in Page /\ Ascends(c.outbox) /\ (~link => ~c.synced)
      BY SMTT(30) DEF Opened, PageOK
    <2>2. made \in Nat /\ made' = made + 1 /\ recs \in SUBSET Records
      BY ReplicaAssumption DEF TypesOK, Edit
    <2> QED BY <2>1, <2>2 DEF Page
  <1>4. op \in Op /\ op.n = made + 1 /\ op.by = c.id /\ op.seq = c.seq + 1
    BY <1>3 DEF Op
  <1>5. /\ less \in Seq(Op) /\ Ascends(less)
        /\ \A p \in Elements(less) : \E o \in Elements(c.outbox) : Twin(p, o)
        /\ \A o \in Elements(c.outbox) : \E p \in Elements(less) : Twin(p, o)
    BY <1>3, LessIs
  <1> HIDE DEF op, less
  <1>6. Superseded(c.outbox, left, changed, removed)
    <2> DEFINE ch == changed
               le == left
               re == removed
    <2>1. /\ le = Kept(less, {o \in Elements(less) : o.recs # {}})
          /\ ch = Kept(le, Elements(le) \ Elements(c.outbox))
          /\ re = Kept(less, {o \in Elements(less) : o.recs = {}})
      OBVIOUS
    <2> HIDE DEF ch, le, re, changed, left, removed
    <2>2. Superseded(c.outbox, le, ch, re)
      BY <1>3, <1>5, <2>1, SupersededIs
    <2> QED BY <2>2 DEF ch, le, re
  <1>7. left \in Seq(Op) /\ changed \in Seq(Op) /\ removed \in Seq(Op)
    BY <1>6 DEF Superseded
  <1> HIDE DEF left, changed, removed
  <1>8. Append(left, op) \in Seq(Op)
    BY <1>4, <1>7
  <1>9. /\ x \in Page /\ x.id = c.id /\ x.v = c.v /\ x.epoch = c.epoch /\ x.seq = op.seq
        /\ x.outbox = Append(left, op)
    <2> DEFINE s == op.seq
               o == Append(left, op)
    <2>1. s \in Nat /\ o \in Seq(Op)
      BY <1>3, <1>4, <1>8
    <2> HIDE DEF s, o
    <2>2. x = [c EXCEPT !.seq = s, !.outbox = o]
      BY DEF s, o
    <2> HIDE DEF x
    <2>3. /\ x \in Page /\ x.id = c.id /\ x.v = c.v /\ x.epoch = c.epoch /\ x.seq = s
          /\ x.outbox = o
      BY <1>3, <2>1, <2>2 DEF Page
    <2> QED BY <2>3 DEF s, o
  <1>10. x.id \in Nat /\ x.seq \in Nat /\ x.v \in Nat /\ x.epoch \in Nat
    BY <1>9 DEF Page
  <1>11. x = [c EXCEPT !.seq = op.seq, !.outbox = Append(left, op)]
    OBVIOUS
  <1> HIDE DEF x
  <1>12. ws \in Seq(Write)
    <2>1. es \in Seq(Write)
      BY <1>4, <1>7, <1>10, EditWritesIs DEF Placed
    <2>2. OutboxWrite(x) \in Write
      <3>1. Elements(x.outbox) \subseteq Op /\ Nat \subseteq Nat
        BY <1>8, <1>9, ElementsIs
      <3> QED BY <1>10, <3>1, WriteIs DEF OutboxWrite
    <2> DEFINE a == <<OutboxWrite(x)>>
    <2>3. a \in Seq(Write)
      BY <2>2
    <2> HIDE DEF a, es
    <2>4. ws = IF adapter = "document" THEN a ELSE es
      BY DEF a
    <2> QED BY <2>1, <2>3, <2>4
  <1>13. ws = IF adapter = "document" THEN <<OutboxWrite(x)>> ELSE es
    OBVIOUS
  <1> HIDE DEF ws
  <1>14. EditLeaves(c, y, op, left, ws, <<>>) /\ EditLeaves(c, y2, op, left, ws, <<m>>)
    BY <1>3, <1>4, <1>7, <1>11, <1>12, EditLeavesIs
  <1> HIDE DEF y2, y
  <1>15. \A z, w : EditLeaves(c, z, op, left, ws, w) => EditPut(z, changed, removed, op, ws)
    <2> SUFFICES ASSUME NEW z, NEW w, EditLeaves(c, z, op, left, ws, w)
                 PROVE  EditPut(z, changed, removed, op, ws)
      OBVIOUS
    <2>1. z.id = x.id /\ z.seq = x.seq /\ z.v = x.v /\ z.epoch = x.epoch /\ z.outbox = x.outbox
      BY <1>9 DEF EditLeaves
    <2>2. \A drop, put : OpsWrite(z, drop, put) = OpsWrite(x, drop, put)
      BY <2>1 DEF OpsWrite
    <2>3. OutboxWrite(x) = OpsWrite(z, Nat, Elements(z.outbox))
      BY <2>1, <2>2 DEF OutboxWrite
    <2>4. EditWrites(z, changed, removed, op) = EditWrites(x, changed, removed, op)
      BY <2>2 DEF EditWrites
    <2> QED BY <1>13, <2>3, <2>4 DEF EditPut
  <1>16. CASE c.synced
    <2>1. link /\ y.synced
      BY <1>3, <1>14, <1>16 DEF EditLeaves
    <2>2. EditSends(c, op, <<m>>)
      <3>1. m \in UpMessage /\ m.t = "op" /\ m.op = op
        BY <1>4 DEF UpMessage, OpMessage
      <3> HIDE DEF m
      <3> DEFINE w == <<m>>
      <3>2. w \in Seq(UpMessage) /\ Len(w) = 1 /\ w[1] = m
        BY <3>1
      <3> HIDE DEF w
      <3>3. \A i \in 1 .. Len(w) : i = 1
        BY <3>2
      <3>4. EditSends(c, op, w)
        BY <1>16, <3>1, <3>2, <3>3 DEF EditSends
      <3> QED BY <3>4 DEF w
    <2>3. Does(y2)
      BY <1>2, <2>1
    <2>4. EditPut(y2, changed, removed, op, ws)
      BY <1>14, <1>15
    <2>5. EditIs(op, left, changed, removed, y2)
      BY <1>2, <1>4, <1>6, <1>14, <2>2, <2>3, <2>4 DEF EditIs
    <2> QED BY <2>5
  <1>17. CASE ~c.synced
    <2>1. ~y.synced
      BY <1>14, <1>17 DEF EditLeaves
    <2>2. EditSends(c, op, <<>>)
      BY <1>17 DEF EditSends
    <2>3. Does(y)
      BY <1>2, <2>1
    <2>4. EditPut(y, changed, removed, op, ws)
      BY <1>14, <1>15
    <2>5. EditIs(op, left, changed, removed, y)
      BY <1>2, <1>4, <1>6, <1>14, <2>2, <2>3, <2>4 DEF EditIs
    <2> QED BY <2>5
  <1> QED BY <1>16, <1>17, SMTT(30)

\* An edit.
LEMMA EditKeeps ==
  ASSUME IInv, Edit, "early" \notin Uses
  PROVE  IInv'
  <1>1. /\ c.on /\ Quiet /\ made' = made + 1
        /\ adapter' = adapter /\ remade' = remade /\ link' = link /\ down' = down /\ sess' = sess
        /\ lives' = lives /\ pages' = pages
    BY DEF Edit, store
  <1>2. TypesOK /\ Lives(lives, pages) /\ Opened
    BY <1>1 DEF IInv
  <1>3. PICK op, left, changed, removed, y : EditIs(op, left, changed, removed, y)
    BY <1>2, EditOf
  <1>4. PICK ws, w : /\ EditLeaves(c, y, op, left, ws, w)
                     /\ EditPut(y, changed, removed, op, ws)
                     /\ EditSends(c, op, w)
    BY <1>3 DEF EditIs
  <1>5. /\ op \in Op /\ op.by = c.id /\ op.seq = c.seq + 1
        /\ Superseded(c.outbox, left, changed, removed)
        /\ mine' = mine \cup {op.n} /\ moot' = moot \cup Numbers(removed) /\ Does(y)
    BY <1>3 DEF EditIs
  <1>6. /\ down \in Seq(DownMessage) /\ made \in Nat /\ link \in BOOLEAN
        /\ up \in Seq(UpMessage) /\ writes \in Seq(Write)
    BY <1>2 DEF TypesOK
  <1> DEFINE p == c.held
             un == Unexplained
             un2 == LeftOpen(un, op, removed)
  <1>7. Handled(c, down, un) /\ c \in Page /\ p \in Seq(DownMessage) /\ ~c.reset /\ c.out = <<>>
    BY <1>2, OpenedFine DEF Opened, Page
  <1>8. PICK k \in Nat : Fine(c, p \o down, k, un)
    BY <1>7 DEF Handled
  <1>9. \A i \in 1 .. Len(down) : down[i].t # "closed"
    BY <1>1, <1>6 DEF Quiet, Elements
  <1>10. Fine(c, p \o down, 0, un)
    <2>1. k = 0
      BY <1>6, <1>7, <1>8, <1>9, QuietIs
    <2> QED BY <1>8, <2>1
  <1> HIDE DEF un
  <1>11. Fine(y, p \o down, 0, un2)
    BY <1>2, <1>4, <1>5, <1>6, <1>7, <1>10, EditFine
  <1>12. y.held = p /\ ~y.reset /\ y.synced = c.synced /\ y.holds = c.holds /\ y.out = c.out \o w
    BY <1>4, <1>7 DEF EditLeaves
  <1>13. Handled(y, down', un2)
    BY <1>1, <1>11, <1>12 DEF Handled
  <1>14. Unexplained' \subseteq un2
    <2>1. told' = told
      BY <1>5, <1>12 DEF Does
    <2> QED BY <1>5, <2>1 DEF Unexplained, LeftOpen, un
  <1>15. ~link' => /\ y.out = <<>> /\ up = <<>> /\ down' = <<>> /\ ~sess
                   /\ ~y.synced /\ ~y.holds
    <2> SUFFICES ASSUME ~link PROVE /\ y.out = <<>> /\ up = <<>> /\ down' = <<>> /\ ~sess
                                    /\ ~y.synced /\ ~y.holds
      BY <1>1
    <2>1. up = <<>> /\ down = <<>> /\ ~sess /\ ~c.synced /\ ~c.holds
      BY <1>2 DEF Opened
    <2>2. w = <<>>
      BY <1>4, <2>1 DEF EditSends
    <2>3. y.out = <<>>
      BY <1>7, <1>12, <2>2
    <2> QED BY <1>1, <1>12, <2>1, <2>3
  <1>16. down' \in Seq(DownMessage) /\ made' \in Nat /\ link' \in BOOLEAN
    BY <1>1, <1>6
  <1> HIDE DEF un2
  <1> QED BY <1>1, <1>2, <1>5, <1>12, <1>13, <1>14, <1>15, <1>16, HandlerDone, SMTT(30)

-------------------------------------------------------------------------------
(* The invariant, and what it says.                                        *)

\* It holds at first: no page is open, and storage has nothing.
LEMMA IInvInit ==
  ASSUME Init
  PROVE  IInv
  <1>1. /\ adapter \in Adapters /\ c = Off /\ disk = Empty /\ writes = <<>> /\ remade = "no"
        /\ link = FALSE /\ up = <<>> /\ down = <<>> /\ sess = FALSE /\ lives = <<<<>>>>
        /\ made = 0 /\ mine = {} /\ pages = 0
    BY DEF Init
  <1>2. TypesOK
    <2>1. adapter \in AllAdapters
      BY <1>1, ReplicaAssumption
    <2>2. /\ <<>> \in Seq(UpMessage) /\ <<>> \in Seq(DownMessage) /\ <<>> \in Seq(Write)
      OBVIOUS
    <2> QED BY <1>1, <2>1, <2>2 DEF TypesOK
  <1>3. lives \in Seq(Seq(Op)) /\ Len(lives) = 1 /\ lives[1] = <<>>
    <2>1. <<>> \in Seq(Op)
      OBVIOUS
    <2> DEFINE h == <<>>
    <2>2. h \in Seq(Op) /\ lives = <<h>>
      BY <1>1, <2>1
    <2> HIDE DEF h
    <2>3. <<h>> \in Seq(Seq(Op)) /\ Len(<<h>>) = 1 /\ <<h>>[1] = h
      BY <2>2
    <2> QED BY <2>2, <2>3 DEF h
  <1>4. Lives(lives, pages)
    <2>1. ASSUME NEW e \in 1 .. Len(lives), NEW j \in 1 .. Len(lives[e])
          PROVE  FALSE
      <3>1. e = 1 /\ Len(lives[1]) = 0
        BY <1>3
      <3> QED BY <3>1
    <2> QED BY <1>3, <2>1 DEF Lives
  <1>5. ~c.on
    BY <1>1 DEF Off
  <1>6. Shut
    <2>1. disk.id = 0 /\ disk.seq = 0 /\ disk.ops = {} /\ disk.rows = Blank /\ disk.v = 0 /\ disk.epoch = 0
      BY <1>1 DEF Empty
    <2>2. \E s \in Seq(Op) : Ascends(s) /\ Elements(s) = {}
      <3>1. <<>> \in Seq(Op) /\ DOMAIN <<>> = {}
        OBVIOUS
      <3>2. Ascends(<<>>) /\ Elements(<<>>) = {}
        BY <3>1 DEF Ascends, Elements
      <3> QED BY <3>1, <3>2
    <2>3. Whole(Blank, 0, 0, lives)
      <3>1. Blank \in Rows
        BY DEF Blank, Rows
      <3> QED BY <1>3, <3>1 DEF Whole
    <2>4. disk.id \in 0 .. pages /\ disk.seq \in Nat
      BY <1>1, <2>1
    <2> QED BY <1>1, <2>1, <2>2, <2>3, <2>4 DEF Shut
  <1> QED BY <1>2, <1>4, <1>5, <1>6 DEF IInv

\* It holds when nothing changes.
LEMMA StutterKeeps ==
  ASSUME IInv, UNCHANGED vars
  PROVE  IInv'
  <1>1. /\ adapter' = adapter /\ c' = c /\ disk' = disk /\ writes' = writes /\ remade' = remade
        /\ link' = link /\ up' = up /\ down' = down /\ sess' = sess /\ lives' = lives
        /\ made' = made /\ mine' = mine /\ moot' = moot /\ told' = told /\ pages' = pages
    BY DEF vars, kept, net, store, ghost
  <1>2. TypesOK' /\ Lives(lives, pages)'
    BY <1>1 DEF IInv, TypesOK
  <1>3. c.on => Opened'
    <2> SUFFICES ASSUME c.on PROVE Opened'
      OBVIOUS
    <2>1. Opened
      BY DEF IInv
    <2>2. Unexplained' = Unexplained /\ Pending' = Pending
      BY <1>1 DEF Unexplained, Pending
    <2>3. /\ PageOK(c, lives, pages)' /\ Backed(adapter, remade, lives, disk, writes, c)'
          /\ Explains(Elements(c.outbox), c.v, c.epoch, Unexplained, lives)'
          /\ (\E k \in Nat : Flow(c, Pending, k, up, lives, sess))'
      BY <1>1, <2>1, <2>2 DEF Opened
    <2> QED BY <1>1, <2>1, <2>3 DEF Opened
  <1>4. ~c.on => Shut'
    <2>1. Decided' = Decided
      BY <1>1 DEF Decided
    <2> QED BY <1>1, <2>1 DEF IInv, Shut
  <1> QED BY <1>1, <1>2, <1>3, <1>4 DEF IInv

\* Every step keeps it: where no hello crosses another, nothing is sent before the end of the
\* store is heard, and pages die with their writes done.
LEMMA NextKeeps ==
  ASSUME IInv, [Next]_vars, "crossed" \notin Uses, "early" \notin Uses, "kill" \notin Uses
  PROVE  IInv'
  <1>1. CASE OpenPage
    BY <1>1, OpenPageKeeps
  <1>2. CASE Die
    BY <1>2, DieKeeps
  <1>3. CASE Edit
    BY <1>3, EditKeeps
  <1>4. CASE Open
    BY <1>4, OpenKeeps
  <1>5. CASE Drop
    BY <1>5, DropKeeps
  <1>6. CASE Hear
    BY <1>6, HearKeeps
  <1>7. CASE Retry
    BY <1>7, RetryKeeps
  <1>8. CASE Again
    BY <1>8, AgainKeeps
  <1>9. CASE Fetched
    BY <1>9, FetchedKeeps
  <1>10. CASE Land
    BY <1>10, LandKeeps
  <1>11. CASE Destroy
    BY <1>11, DestroyKeeps
  <1>12. CASE Reopen
    BY <1>12, ReopenKeeps
  <1>13. CASE WriteBase
    BY <1>13, WriteBaseKeeps
  <1>14. CASE Receive
    BY <1>14, ReceiveKeeps
  <1>15. CASE OthersWrite
    BY <1>15, OthersWriteKeeps
  <1>16. CASE Restore
    BY <1>16, RestoreKeeps
  <1>17. CASE Serve
    BY <1>17, ServeKeeps
  <1>18. CASE NotServed
    BY <1>18, NotServedKeeps
  <1>19. CASE UNCHANGED vars
    BY <1>19, StutterKeeps
  <1> QED
    BY <1>1, <1>2, <1>3, <1>4, <1>5, <1>6, <1>7, <1>8, <1>9, <1>10, <1>11, <1>12, <1>13, <1>14,
       <1>15, <1>16, <1>17, <1>18, <1>19 DEF Next, Client, Storage, Server

\* Rows that are whole are the whole of their life once what came after is laid on them.
LEMMA WholeCompletes ==
  ASSUME Lives(lives, pages), NEW rows, NEW v, NEW e, Whole(rows, v, e, lives), e # 0
  PROVE  Completes(rows, v, lives[e])
  <1>1. v \in Nat /\ AsOf(rows, v, lives[e]) /\ e \in 1 .. Len(lives) /\ lives \in Seq(Seq(Op))
    BY DEF Whole, Lives
  <1>2. lives[e] \in Seq(Op)
    BY <1>1
  <1> QED BY <1>1, <1>2, AsOfCompletes

\* So the base of a synced client is.
LEMMA IInvBase ==
  ASSUME IInv
  PROVE  BaseIsWhole
  <1> SUFFICES ASSUME c.on, c.synced PROVE Completes(c.base, c.v, lives[c.epoch])
    BY DEF BaseIsWhole
  <1>1. Lives(lives, pages) /\ Opened
    BY DEF IInv
  <1>2. PICK k \in Nat : Flow(c, Pending, k, up, lives, sess)
    BY <1>1 DEF Opened
  <1>3. c.epoch # 0
    BY <1>2 DEF Flow, InTouch
  <1>4. Whole(c.base, c.v, c.epoch, lives)
    BY <1>1 DEF Opened, PageOK
  <1> QED BY <1>1, <1>3, <1>4, WholeCompletes

\* And storage is, before any of the writes on their way lands.
LEMMA IInvDisk ==
  ASSUME IInv
  PROVE  DiskIsWhole
  <1> SUFFICES ASSUME disk.epoch = epoch, remade = "no" PROVE Completes(disk.rows, disk.v, history)
    BY DEF DiskIsWhole
  <1>1. TypesOK /\ Lives(lives, pages)
    BY DEF IInv
  <1>2. epoch = Len(lives) /\ history = lives[disk.epoch] /\ disk.epoch # 0
    BY <1>1 DEF Lives, epoch, history
  <1>3. Whole(disk.rows, disk.v, disk.epoch, lives)
    <2>1. CASE c.on
      <3>1. Backed(adapter, remade, lives, disk, writes, c)
        BY <2>1 DEF IInv, Opened
      <3>2. PICK D : /\ Trail(adapter, disk, writes, D)
                     /\ \A i \in 0 .. Len(writes) : Whole(D[i].rows, D[i].v, D[i].epoch, lives)
        BY <3>1 DEF Backed
      <3>3. D[0] = disk /\ 0 \in 0 .. Len(writes)
        BY <1>1, <3>2 DEF Trail, TypesOK
      <3> QED BY <3>2, <3>3
    <2>2. CASE ~c.on
      BY <2>2 DEF IInv, Shut
    <2> QED BY <2>1, <2>2
  <1> QED BY <1>1, <1>2, <1>3, WholeCompletes

\* Storage has the outbox once the writes on their way have landed.
LEMMA IInvOutbox ==
  ASSUME IInv
  PROVE  OutboxIsKept
  <1> SUFFICES ASSUME c.on, writes = <<>>, remade = "no"
               PROVE  disk.ops = Elements(c.outbox) /\ (c.seq > 0 => disk.seq = c.seq)
    BY DEF OutboxIsKept
  <1>1. Backed(adapter, remade, lives, disk, writes, c)
    BY DEF IInv, Opened
  <1>2. PICK D : Trail(adapter, disk, writes, D) /\ Reflects(adapter, remade, D[Len(writes)], c)
    BY <1>1 DEF Backed
  <1>3. Len(writes) = 0
    OBVIOUS
  <1>4. Mirrors(adapter, disk, c)
    BY <1>2, <1>3 DEF Trail, Reflects
  <1> QED BY <1>4 DEF Mirrors

\* An edit that is not explained otherwise is pending or in the store.
LEMMA IInvEdits ==
  ASSUME IInv
  PROVE  EditsAreAccounted
  <1>1. TypesOK /\ Lives(lives, pages)
    BY DEF IInv
  <1>2. CASE c.on
    <2>1. Opened
      BY <1>2 DEF IInv
    <2>2. ASSUME NEW n \in mine, n \notin moot \cup told, n \notin Numbers(c.outbox)
          PROVE  n \in (IF c.on /\ c.synced /\ c.epoch = epoch THEN Numbers(history) ELSE Decided)
      <3>1. /\ Explains(Elements(c.outbox), c.v, c.epoch, Unexplained, lives) /\ c.outbox \in Seq(Op)
            /\ Whole(c.base, c.v, c.epoch, lives)
        BY <2>1 DEF Opened, PageOK, Page
      <3>2. n \in Unexplained
        BY <2>2 DEF Unexplained
      <3>3. n \notin {o.n : o \in Elements(c.outbox)}
        BY <2>2, <3>1 DEF Numbers, Elements
      <3>4. c.v # 0 /\ n \in Numbers(lives[c.epoch])
        BY <3>1, <3>2, <3>3 DEF Explains
      <3>5. c.epoch \in 1 .. Len(lives) /\ lives \in Seq(Seq(Op))
        BY <1>1, <3>1, <3>4 DEF Whole, Lives
      <3>6. lives[c.epoch] \in Elements(lives)
        BY <3>5 DEF Elements
      <3>7. n \in Decided
        BY <3>4, <3>6 DEF Decided
      <3> QED BY <3>4, <3>7 DEF history
    <2> QED BY <1>2, <2>2 DEF EditsAreAccounted
  <1>3. CASE ~c.on
    BY <1>3 DEF IInv, Shut, EditsAreAccounted
  <1> QED BY <1>2, <1>3

\* The base of a synced client is never behind the version it says, in the life of the store
\* it says (caughtUp and the patches in index.js, landed() in snapshot-fetch.js).
THEOREM BaseWhole ==
  ASSUME "crossed" \notin Uses, "early" \notin Uses, "kill" \notin Uses
  PROVE  Spec => []BaseIsWhole
  <1>1. Init => IInv
    BY IInvInit
  <1>2. IInv /\ [Next]_vars => IInv'
    BY NextKeeps
  <1>3. IInv => BaseIsWhole
    BY IInvBase
  <1> QED BY <1>1, <1>2, <1>3, PTL DEF Spec

\* Nor is what storage would give back, whenever a page dies (saveSnapshot and saveBatch in
\* persistence.js, indexeddb.js).
THEOREM DiskWhole ==
  ASSUME "crossed" \notin Uses, "early" \notin Uses, "kill" \notin Uses
  PROVE  Spec => []DiskIsWhole
  <1>1. Init => IInv
    BY IInvInit
  <1>2. IInv /\ [Next]_vars => IInv'
    BY NextKeeps
  <1>3. IInv => DiskIsWhole
    BY IInvDisk
  <1> QED BY <1>1, <1>2, <1>3, PTL DEF Spec

\* Whatever the adapter, storage whose writes have all landed would give back the outbox and the
\* seq the client goes by (add, settle and saveBatch in persistence.js).
THEOREM OutboxKept ==
  ASSUME "crossed" \notin Uses, "early" \notin Uses, "kill" \notin Uses
  PROVE  Spec => []OutboxIsKept
  <1>1. Init => IInv
    BY IInvInit
  <1>2. IInv /\ [Next]_vars => IInv'
    BY NextKeeps
  <1>3. IInv => OutboxIsKept
    BY IInvOutbox
  <1> QED BY <1>1, <1>2, <1>3, PTL DEF Spec

\* No edit is gone with nobody told: it is pending, taken over from, in the store, or was made
\* before a `reset' was told (acknowledge() and caughtUp() in index.js).
THEOREM EditsAccounted ==
  ASSUME "crossed" \notin Uses, "early" \notin Uses, "kill" \notin Uses
  PROVE  Spec => []EditsAreAccounted
  <1>1. Init => IInv
    BY IInvInit
  <1>2. IInv /\ [Next]_vars => IInv'
    BY NextKeeps
  <1>3. IInv => EditsAreAccounted
    BY IInvEdits
  <1> QED BY <1>1, <1>2, <1>3, PTL DEF Spec

===============================================================================
