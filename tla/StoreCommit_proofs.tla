----------------------- MODULE StoreCommit_proofs -----------------------
(***************************************************************************)
(* The state of StoreCommit keeps its types, and with no op observer to    *)
(* call back, whatever a client heard is stored: for any number of clients *)
(* and versions, any size of group, and every failure and crash.  Then,    *)
(* what becomes of what it holds back: it waits for a commit that is to    *)
(* come, sessions that the store ends hear of it, and the other ends hear  *)
(* of the versions one by one.                                             *)
(***************************************************************************)
EXTENDS StoreCommit, SequenceTheorems, TLAPS

-----------------------------------------------------------------------------
(* Sequences: what is in one made of others.                               *)

LEMMA InAppend ==
  ASSUME NEW S, NEW s \in Seq(S), NEW e \in S, NEW i \in 1 .. Len(Append(s, e))
  PROVE  Append(s, e)[i] = e \/ (i \in 1 .. Len(s) /\ Append(s, e)[i] = s[i])
BY AppendProperties

LEMMA InConcat ==
  ASSUME NEW S, NEW s \in Seq(S), NEW t \in Seq(S), NEW i \in 1 .. Len(s \o t)
  PROVE  \/ i \in 1 .. Len(s) /\ (s \o t)[i] = s[i]
         \/ \E j \in 1 .. Len(t) : (s \o t)[i] = t[j]
<1>1. Len(s \o t) = Len(s) + Len(t) /\ Len(s) \in Nat /\ Len(t) \in Nat
  BY ConcatProperties, LenProperties
<1>2. CASE i <= Len(s)
  BY <1>1, <1>2, ConcatProperties
<1>3. CASE i > Len(s)
  BY <1>1, <1>3, ConcatProperties
<1>4. QED BY <1>1, <1>2, <1>3

LEMMA InTail ==
  ASSUME NEW S, NEW s \in Seq(S), s # <<>>
  PROVE  /\ Tail(s) \in Seq(S) /\ Head(s) \in S /\ Head(s) = s[1] /\ 1 \in 1 .. Len(s)
         /\ \A i \in 1 .. Len(Tail(s)) : i + 1 \in 1 .. Len(s) /\ Tail(s)[i] = s[i + 1]
BY HeadTailProperties, EmptySeq, LenProperties

-----------------------------------------------------------------------------
(* Histories and images.                                                   *)

LEMMA BeforeTrans ==
  ASSUME NEW a \in Seq(Ops), NEW b \in Seq(Ops), NEW c \in Seq(Ops),
         Before(a, b), Before(b, c)
  PROVE  Before(a, c)
BY LenProperties DEF Before

LEMMA PrecedesRefl == ASSUME NEW a \in Image PROVE Precedes(a, a)
BY LenProperties DEF Precedes, Before, Image

LEMMA PrecedesTrans ==
  ASSUME NEW a \in Image, NEW b \in Image, NEW c \in Image,
         Precedes(a, b), Precedes(b, c)
  PROVE  Precedes(a, c)
<1>1. Before(a.log, c.log)
  BY BeforeTrans DEF Precedes, Image
<1>2. ASSUME NEW p \in Peers PROVE a.seq[p] <= c.seq[p]
  <2>1. a.seq[p] \in Nat /\ b.seq[p] \in Nat /\ c.seq[p] \in Nat
    BY DEF Image
  <2>2. a.seq[p] <= b.seq[p] /\ b.seq[p] <= c.seq[p]
    BY DEF Precedes
  <2>3. QED BY <2>1, <2>2
<1>3. QED BY <1>1, <1>2 DEF Precedes

LEMMA BeforeAppend ==
  ASSUME NEW a \in Seq(Ops), NEW x \in Ops
  PROVE  Append(a, x) \in Seq(Ops) /\ Before(a, Append(a, x))
BY AppendProperties, LenProperties DEF Before

\* A claim that holds of an image holds of those it leads to.
LEMMA HoldsUp ==
  ASSUME NEW a \in Image, NEW b \in Image, Precedes(a, b),
         NEW e \in Message, Holds(e, a)
  PROVE  Holds(e, b)
<1>1. CASE e.t = "patch"
  <2>1. e.log \in Seq(Ops)
    BY <1>1 DEF Message
  <2>2. Before(e.log, b.log)
    BY <1>1, <2>1, BeforeTrans DEF Holds, Tells, Precedes, Image
  <2>3. QED BY <1>1, <2>2 DEF Holds
<1>2. CASE e.t \in {"ack", "answer"}
  <2>1. e.log \in Seq(Ops) /\ e.p \in Peers /\ e.seq \in Nat
    BY <1>2 DEF Message
  <2>2. Before(e.log, b.log)
    BY <1>2, <2>1, BeforeTrans DEF Holds, Tells, Precedes, Image
  <2>3. e.seq <= b.seq[e.p]
    BY <1>2, <2>1 DEF Holds, Tells, Precedes, Image
  <2>4. QED BY <1>2, <2>2, <2>3 DEF Holds
<1>3. CASE ~Tells(e)
  BY <1>3 DEF Holds
<1>4. QED BY <1>1, <1>2, <1>3 DEF Tells

-----------------------------------------------------------------------------
(* Type correctness.                                                       *)

OutsideOK ==
  /\ copy \in [Sessions -> [synced : BOOLEAN, v : Nat, whole : BOOLEAN]]
  /\ heard \in Seq(Ops)
  /\ acked \in [Peers -> Nat]
  /\ untold \subseteq Nat

\* What commitNow leaves the store in.
CommittedOK ==
  /\ disk \in Image
  /\ changes \in Seq(Image)
  /\ effects \in Seq(Message)
  /\ stack \in Seq(Calls)
  /\ armed \in BOOLEAN
  /\ status \in {"live", "disposed", "down"}
  /\ open \subseteq 1 .. Len(conn)

LEMMA FrameTypes ==
  ASSUME NEW f \in Calls
  PROVE  /\ f.k \in {"claim", "open", "apply", "ack", "answer"} => f.p \in Peers
         /\ f.k \in {"apply", "ack"} => f.seq \in Nat
         /\ f.k = "apply" => f.ackTo \in Nat
         /\ f.k = "broadcast" => f.log \in Seq(Ops)
         /\ f.k \in {"ack", "answer", "evict", "reject"} => f.n \in Nat
BY DEF Calls

LEMMA MessageTypes ==
  ASSUME NEW e \in Message
  PROVE  /\ e.t \in {"patch", "ack", "answer", "closed", "op"}
         /\ Tells(e) => e.log \in Seq(Ops)
         /\ e.t \in {"ack", "answer"} => e.n \in Nat /\ e.p \in Peers /\ e.seq \in Nat
         /\ e.t = "closed" => e.n \in Nat
BY DEF Message, Tells

LEMMA DeliverType ==
  ASSUME OutsideOK, NEW e \in Message, e.t # "op", Deliver(e)
  PROVE  OutsideOK'
<1> DEFINE C == [synced : BOOLEAN, v : Nat, whole : BOOLEAN]
<1>1. ASSUME NEW n \in Sessions PROVE Hears(n, e) \in C
  <2>1. copy[n] \in C
    BY DEF OutsideOK
  <2>2. Tells(e) => Len(e.log) \in Nat
    BY MessageTypes, LenProperties
  <2>3. CASE e.t = "patch"
    BY <2>1, <2>2, <2>3 DEF Hears, Tells
  <2>4. CASE e.t = "ack"
    BY <2>1, <2>2, <2>4 DEF Hears, Tells, Larger
  <2>5. CASE e.t = "answer"
    BY <2>1, <2>2, <2>5 DEF Hears, Tells
  <2>6. CASE ~Tells(e)
    BY <2>1, <2>6 DEF Hears, Tells
  <2>7. QED BY <2>3, <2>4, <2>5, <2>6 DEF Tells
<1>2. copy' \in [Sessions -> C]
  BY <1>1 DEF Deliver
<1>3. heard' \in Seq(Ops)
  BY MessageTypes DEF Deliver, OutsideOK, Tells
<1>4. acked' \in [Peers -> Nat]
  BY MessageTypes DEF Deliver, OutsideOK, Larger
<1>5. untold' \subseteq Nat
  BY DEF Deliver, OutsideOK
<1>6. QED BY <1>2, <1>3, <1>4, <1>5 DEF OutsideOK

LEMMA SendType ==
  ASSUME OutsideOK, effects \in Seq(Message), NEW e \in Message, e.t # "op", Send(e)
  PROVE  OutsideOK' /\ effects' \in Seq(Message)
<1>1. CASE pending
  <2>1. effects' = Append(effects, e) /\ UNCHANGED <<copy, heard, acked, untold>>
    BY <1>1 DEF Send, outside
  <2>2. effects' \in Seq(Message)
    BY <2>1, AppendProperties
  <2>3. OutsideOK'
    BY <2>1 DEF OutsideOK
  <2>4. QED BY <2>2, <2>3
<1>2. CASE ~pending
  BY <1>2, DeliverType DEF Send
<1>3. QED BY <1>1, <1>2

LEMMA UnwoundType ==
  ASSUME NEW s \in Seq(Calls)
  PROVE  Unwound(s) \in Seq(Calls)
<1> DEFINE first == {i \in 1 .. Len(s) : s[i].k = "hook" /\ \A j \in 1 .. i - 1 : s[j].k # "hook"}
<1>1. CASE first = {}
  BY <1>1 DEF Unwound
<1>2. CASE first # {}
  <2>1. PICK i \in 1 .. Len(s) : i = CHOOSE j \in first : TRUE
    BY <1>2
  <2>2. SubSeq(s, i, Len(s)) \in Seq(Calls)
    BY SubSeqProperties, LenProperties
  <2>3. QED BY <1>2, <2>1, <2>2 DEF Unwound
<1>3. QED BY <1>1, <1>2

LEMMA CommittedType ==
  ASSUME CommittedOK, OutsideOK,
         NEW pend \in Seq(Image), NEW calls \in Seq(Calls), NEW undone \in Seq(Calls),
         Store(pend, calls) \/ StoreFails(pend, undone), conn' = conn
  PROVE  CommittedOK' /\ OutsideOK'
<1>1. CASE Store(pend, calls)
  <2>1. disk' \in Image
    BY <1>1, EmptySeq, ElementOfSeq, LenProperties DEF Store, CommittedOK
  <2>2. stack' \in Seq(Calls)
    <3>1. [k |-> "drain"] \in Calls
      BY DEF Calls
    <3>2. <<>> \in Seq(Calls) /\ <<[k |-> "drain"]>> \in Seq(Calls)
      BY <3>1
    <3>3. QED BY <1>1, <3>2, ConcatProperties DEF Store
  <2>3. changes' \in Seq(Image) /\ armed' \in BOOLEAN /\ UNCHANGED <<status, effects, open, copy, heard, acked, untold>>
    BY <1>1, EmptySeq DEF Store, outside
  <2>4. OutsideOK'
    BY <2>3 DEF OutsideOK
  <2>5. QED BY <2>1, <2>2, <2>3, <2>4 DEF CommittedOK
<1>2. CASE StoreFails(pend, undone)
  <2>1. disk' \in Image
    BY <1>2, ElementOfSeq, LenProperties DEF StoreFails, CommittedOK
  <2>2. changes' \in Seq(Image) /\ effects' \in Seq(Message) /\ stack' \in Seq(Calls) /\ armed' \in BOOLEAN
    BY <1>2, EmptySeq DEF StoreFails
  <2>3. status' \in {"live", "disposed", "down"} /\ open' \subseteq 1 .. Len(conn')
    BY <1>2 DEF StoreFails, CommittedOK
  <2>4. untold' \subseteq Nat
    <3>1. open \subseteq Nat
      BY LenProperties DEF CommittedOK
    <3>2. QED BY <1>2, <3>1 DEF StoreFails, OutsideOK
  <2>5. OutsideOK'
    BY <1>2, <2>4 DEF StoreFails, OutsideOK
  <2>6. QED BY <2>1, <2>2, <2>3, <2>5 DEF CommittedOK
<1>3. QED BY <1>1, <1>2

LEMMA TypeParts ==
  TypeOK <=> /\ CommittedOK /\ OutsideOK
             /\ mem \in Image
             /\ run \in Seq(Message)
             /\ conn \in Seq(Peers)
             /\ fetched \in Seq(Ops)
BY DEF TypeOK, CommittedOK, OutsideOK

LEMMA CommitNowType ==
  ASSUME TypeOK, NEW calls \in Seq(Calls), CommitNow(calls)
  PROVE  TypeOK'
<1>1. CommittedOK' /\ OutsideOK'
  BY TypeParts, CommittedType DEF CommitNow, TypeOK
<1>2. UNCHANGED <<mem, run, conn, fetched>>
  BY DEF CommitNow
<1>3. QED BY <1>1, <1>2 DEF TypeOK, CommittedOK, OutsideOK

LEMMA CommitType ==
  ASSUME TypeOK, NEW m \in Image, NEW calls \in Seq(Calls), Commit(m, calls)
  PROVE  TypeOK'
<1> DEFINE pend == Append(changes, m)
<1>1. pend \in Seq(Image)
  BY AppendProperties DEF TypeOK
<1>2. mem' = m /\ UNCHANGED <<run, conn, fetched>>
  BY DEF Commit
<1>3. CommittedOK' /\ OutsideOK'
  <2>1. CASE Len(pend) < GroupMax
    <3>1. /\ changes' = pend /\ armed' = TRUE /\ stack' = calls
          /\ UNCHANGED <<disk, status, effects, open, outside>>
      BY <2>1 DEF Commit, Scheduled
    <3>2. CommittedOK'
      BY <1>1, <1>2, <3>1 DEF TypeOK, CommittedOK
    <3>3. OutsideOK'
      BY <3>1 DEF TypeOK, OutsideOK, outside
    <3>4. QED BY <3>2, <3>3
  <2>2. CASE ~(Len(pend) < GroupMax)
    <3>1. Store(pend, calls) \/ StoreFails(pend, Unwound(calls))
      BY <2>2 DEF Commit
    <3>2. Unwound(calls) \in Seq(Calls)
      BY UnwoundType
    <3>3. QED BY <1>1, <1>2, <3>1, <3>2, TypeParts, CommittedType
  <2>3. QED BY <2>1, <2>2
<1>4. QED BY <1>2, <1>3 DEF TypeOK, CommittedOK, OutsideOK

\* What a task or a frame is made of.
LEMMA FrameIn ==
  ASSUME TypeOK, stack # <<>>
  PROVE  Frame \in Calls /\ Tail(stack) \in Seq(Calls)
BY InTail DEF TypeOK, Frame

LEMMA Pushed ==
  ASSUME NEW f \in Calls, NEW s \in Seq(Calls)
  PROVE  <<f>> \in Seq(Calls) /\ <<f>> \o s \in Seq(Calls)
<1>1. <<f>> \in Seq(Calls)
  OBVIOUS
<1>2. QED BY <1>1, ConcatProperties

LEMMA LandedType ==
  ASSUME TypeOK, NEW m \in Image, NEW calls \in Seq(Calls), Landed(m, calls)
  PROVE  TypeOK'
<1>1. [k |-> "broadcast", log |-> m.log] \in Calls /\ [k |-> "observe"] \in Calls
  BY DEF Calls, Image
<1>2. <<[k |-> "broadcast", log |-> m.log]>> \in Seq(Calls) /\ Observers \in Seq(Calls)
  BY <1>1 DEF Observers
<1>3. <<[k |-> "broadcast", log |-> m.log]>> \o Observers \o calls \in Seq(Calls)
  BY <1>2, ConcatProperties
<1>4. QED BY <1>3, CommitType DEF Landed

\* A step that leaves the storage, the memory and the sessions alone.
LEMMA QuietType ==
  ASSUME TypeOK, UNCHANGED <<store, people, fetched>>, OutsideOK',
         effects' \in Seq(Message), run' \in Seq(Message), stack' \in Seq(Calls)
  PROVE  TypeOK'
BY DEF TypeOK, OutsideOK, store, people

LEMMA RunningType ==
  ASSUME TypeOK, Running
  PROVE  TypeOK'
<1> USE DEF TypeOK
<1>a. OutsideOK
  BY DEF OutsideOK
<1>b. ASSUME UNCHANGED outside PROVE OutsideOK'
  BY <1>b DEF outside, OutsideOK
<1>c. ASSUME Done, stack # <<>> PROVE stack' \in Seq(Calls)
  BY <1>c, FrameIn DEF Done
<1>1. CASE DrainTake
  BY <1>1, <1>a, <1>b, QuietType DEF DrainTake
<1>2. CASE RunEffect
  <2>1. Head(run) \in Message /\ Tail(run) \in Seq(Message)
    BY <1>2, InTail DEF RunEffect
  <2>2. [k |-> "hook"] \in Calls
    BY DEF Calls
  <2>3. CASE Head(run).t = "op"
    BY <1>2, <2>1, <2>2, <2>3, <1>b, Pushed, QuietType DEF RunEffect
  <2>4. CASE Head(run).t # "op"
    <3>1. OutsideOK'
      BY <1>2, <2>1, <2>4, <1>a, <1>b, DeliverType DEF RunEffect
    <3>2. QED BY <1>2, <2>1, <2>4, <3>1, QuietType DEF RunEffect
  <2>5. QED BY <2>3, <2>4
<1>3. CASE DrainEnd
  <2>1. stack' \in Seq(Calls)
    BY <1>3, FrameIn DEF DrainEnd, Top
  <2>2. QED BY <1>3, <2>1 DEF DrainEnd, people, outside
<1>4. CASE Claim
  <2>1. Frame \in Calls /\ Frame.p \in Peers /\ Tail(stack) \in Seq(Calls)
    BY <1>4, FrameIn, FrameTypes DEF Claim, Top, Frame
  <2>2. CASE Frame.p \in mem.owned
    BY <1>4, <2>1, <2>2, <1>b, QuietType DEF Claim, Done
  <2>3. CASE Frame.p \notin mem.owned
    <3>1. [mem EXCEPT !.owned = @ \cup {Frame.p}] \in Image
      BY <2>1 DEF Image
    <3>2. QED BY <1>4, <2>1, <2>3, <3>1, CommitType DEF Claim
  <2>4. QED BY <2>2, <2>3
<1>5. CASE Alive
  <2>1. stack' \in Seq(Calls)
    BY <1>5, FrameIn, UnwoundType DEF Alive, Top
  <2>2. QED BY <1>5, <2>1, <1>b, QuietType DEF Alive
<1>6. CASE Apply
  <2> DEFINE f == Frame
             decided == [mem EXCEPT !.seq[f.p] = f.seq, !.owned = @ \cup {f.p}]
             landed == [decided EXCEPT !.log = Append(@, <<f.p, f.seq>>)]
  <2>1. f \in Calls /\ f.p \in Peers /\ f.seq \in Nat /\ f.ackTo \in Nat /\ Tail(stack) \in Seq(Calls)
    BY <1>6, FrameIn, FrameTypes DEF Apply, Top, Frame
  <2>2. Applied(f) \in Seq(Calls)
    <3>1. [k |-> "ack", n |-> f.ackTo, p |-> f.p, seq |-> f.seq] \in Calls
      BY <2>1 DEF Calls
    <3>2. <<>> \o Tail(stack) \in Seq(Calls)
      BY <2>1, ConcatProperties
    <3>3. QED BY <2>1, <3>1, <3>2, Pushed DEF Applied
  <2>3. decided \in Image
    BY <2>1 DEF Image
  <2>4. landed \in Image
    <3>1. Append(mem.log, <<f.p, f.seq>>) \in Seq(Ops)
      BY <2>1, AppendProperties DEF Image, Ops
    <3>2. QED BY <2>3, <3>1 DEF Image
  <2>5. CASE Decided(f)
    BY <1>6, <2>2, <2>5, <1>b, QuietType DEF Apply
  <2>6. CASE ~Decided(f) /\ f.lands
    BY <1>6, <2>2, <2>4, <2>6, LandedType DEF Apply
  <2>7. CASE ~Decided(f) /\ ~f.lands
    <3>1. Observers \o Applied(f) \in Seq(Calls)
      <4>1. [k |-> "observe"] \in Calls
        BY DEF Calls
      <4>2. Observers \in Seq(Calls)
        BY <4>1 DEF Observers
      <4>3. QED BY <2>2, <4>2, ConcatProperties
    <3>2. QED BY <1>6, <2>3, <2>7, <3>1, CommitType DEF Apply
  <2>8. QED BY <2>5, <2>6, <2>7
<1>7. CASE Broadcast
  <2>1. Frame.log \in Seq(Ops) /\ Len(conn) \in Nat
    BY <1>7, FrameIn, FrameTypes, LenProperties DEF Broadcast, Top, Frame
  <2> DEFINE e == [t |-> "patch", log |-> Frame.log, upTo |-> Len(conn)]
  <2>2. e \in Message /\ e.t # "op"
    BY <2>1 DEF Message
  <2>3. OutsideOK' /\ effects' \in Seq(Message)
    <3>1. CASE open = {}
      BY <1>7, <3>1, <1>b DEF Broadcast
    <3>2. CASE open # {}
      <4>1. Send(e)
        BY <1>7, <3>2 DEF Broadcast
      <4>2. QED BY <1>a, <2>2, <4>1, SendType
    <3>3. QED BY <3>1, <3>2
  <2>4. QED BY <1>7, <2>3, <1>c, QuietType DEF Broadcast, Top
<1>8. CASE Observe
  <2>1. [t |-> "op"] \in Message /\ [k |-> "hook"] \in Calls
    BY DEF Message, Calls
  <2>2. effects' \in Seq(Message)
    <3>1. effects' \in {effects, Append(effects, [t |-> "op"])}
      BY <1>8 DEF Observe
    <3>2. Append(effects, [t |-> "op"]) \in Seq(Message)
      BY <2>1, AppendProperties
    <3>3. QED BY <3>1, <3>2
  <2>3. stack' \in Seq(Calls)
    <3>1. stack' \in {Tail(stack), <<[k |-> "hook"]>> \o Tail(stack)}
      BY <1>8 DEF Observe, Done
    <3>2. Tail(stack) \in Seq(Calls)
      BY <1>8, FrameIn DEF Observe, Top
    <3>3. <<[k |-> "hook"]>> \o Tail(stack) \in Seq(Calls)
      BY <2>1, <3>2, Pushed
    <3>4. QED BY <3>1, <3>2, <3>3
  <2>4. QED BY <1>8, <2>2, <2>3, <1>b, QuietType DEF Observe
<1>9. CASE HookReturns
  BY <1>9, <1>b, <1>c, QuietType DEF HookReturns, Top
<1>10. CASE Ack
  <2> DEFINE e == [t |-> "ack", n |-> Frame.n, p |-> Frame.p, seq |-> Frame.seq, log |-> mem.log]
  <2>1. e \in Message /\ e.t # "op"
    BY <1>10, FrameIn, FrameTypes DEF Ack, Top, Frame, Message, Image
  <2>2. Send(e)
    BY <1>10 DEF Ack
  <2>3. OutsideOK' /\ effects' \in Seq(Message)
    BY <1>a, <2>1, <2>2, SendType
  <2>4. QED BY <1>10, <2>3, <1>c, QuietType DEF Ack, Top
<1>11. CASE Answer
  <2> DEFINE e == [t |-> "answer", n |-> Frame.n, p |-> Frame.p, seq |-> mem.seq[Frame.p], log |-> mem.log]
  <2>1. Frame.n \in Nat /\ Frame.p \in Peers
    BY <1>11, FrameIn, FrameTypes DEF Answer, Top, Frame
  <2>2. e \in Message /\ e.t # "op"
    BY <2>1 DEF Message, Image
  <2>3. Send(e)
    BY <1>11 DEF Answer
  <2>4. OutsideOK' /\ effects' \in Seq(Message)
    BY <1>a, <2>2, <2>3, SendType
  <2>5. QED BY <1>11, <2>4, <1>c, QuietType DEF Answer, Top
<1>12. CASE Open
  <2>1. Frame.p \in Peers
    BY <1>12, FrameIn, FrameTypes DEF Open, Top, Frame
  <2>2. conn' \in Seq(Peers) /\ Len(conn') = Len(conn) + 1 /\ Len(conn) \in Nat
    BY <1>12, <2>1, AppendProperties, LenProperties DEF Open
  <2>3. open' \subseteq 1 .. Len(conn')
    <3>1. open' = open \cup {Len(conn) + 1} /\ open \subseteq 1 .. Len(conn)
      BY <1>12 DEF Open
    <3>2. \A n \in open' : n \in 1 .. Len(conn) + 1
      BY <2>2, <3>1
    <3>3. QED BY <2>2, <3>2
  <2>4. stack' \in Seq(Calls)
    BY <1>12, <1>c DEF Open, Top
  <2>5. QED BY <1>12, <2>2, <2>3, <2>4 DEF Open, store, outside
<1>13. ASSUME NEW n \in Nat, NEW sure \in BOOLEAN, End(n, sure)
       PROVE  OutsideOK' /\ effects' \in Seq(Message) /\ open' \subseteq open
  <2>1. [t |-> "closed", n |-> n, sure |-> sure] \in Message
    BY DEF Message
  <2>2. effects' \in Seq(Message)
    BY <1>13, <2>1, AppendProperties DEF End
  <2>3. QED BY <1>13, <2>2 DEF End, OutsideOK
<1>14. CASE Evict
  <2>1. Frame.n \in Nat /\ stack' \in Seq(Calls)
    BY <1>14, <1>c, FrameIn, FrameTypes DEF Evict, Top, Frame
  <2>2. OutsideOK' /\ effects' \in Seq(Message) /\ open' \subseteq open
    BY <1>14, <2>1, <1>13, <1>b DEF Evict
  <2>3. QED BY <1>14, <2>1, <2>2 DEF Evict, store, OutsideOK
<1>15. CASE Reject
  <2>1. Frame.n \in Nat /\ stack' \in Seq(Calls)
    BY <1>15, <1>c, FrameIn, FrameTypes DEF Reject, Top, Frame
  <2>2. OutsideOK' /\ effects' \in Seq(Message) /\ open' \subseteq open
    BY <1>15, <2>1, <1>13, <1>b DEF Reject
  <2>3. QED BY <1>15, <2>1, <2>2 DEF Reject, store, OutsideOK
<1>16. CASE Dispose
  <2>1. stack' \in Seq(Calls)
    BY <1>16, <1>c DEF Dispose, Top
  <2>2. open \subseteq Nat
    BY LenProperties
  <2>3. /\ status' \in {"live", "disposed", "down"} /\ untold' \subseteq Nat
        /\ open' \subseteq 1 .. Len(conn)
    BY <1>16, <2>2 DEF Dispose
  <2>4. QED BY <1>16, <2>1, <2>3 DEF Dispose
<1>17. CASE Fetch
  <2>1. stack' \in Seq(Calls)
    BY <1>17, <1>c DEF Fetch, Top
  <2>2. fetched' \in Seq(Ops)
    BY <1>17 DEF Fetch, Image
  <2>3. QED BY <1>17, <2>1, <2>2 DEF Fetch, store, people, outside
<1>18. QED
  BY <1>1, <1>2, <1>3, <1>4, <1>5, <1>6, <1>7, <1>8, <1>9, <1>10, <1>11, <1>12,
     <1>14, <1>15, <1>16, <1>17 DEF Running

\* A call that begins, with its frames on the thread.
LEMMA BeginType ==
  ASSUME TypeOK, NEW calls \in Seq(Calls), Begin(calls)
  PROVE  TypeOK'
BY DEF TypeOK, Begin, store, people, outside

LEMMA CallingType ==
  ASSUME TypeOK, Calling
  PROVE  TypeOK'
<1>0. stack \in Seq(Calls)
  BY DEF TypeOK
<1>1. ASSUME NEW p \in Peers, Connect(p) PROVE TypeOK'
  <2>1. <<[k |-> "open", p |-> p]>> \in Seq(Calls)
    BY DEF Calls
  <2>2. QED BY <1>1, <2>1, CommitNowType DEF Connect
<1>2. ASSUME NEW n \in open PROVE n \in Nat /\ conn[n] \in Peers
  BY <1>2, ElementOfSeq, LenProperties DEF TypeOK
<1>3. ASSUME NEW n \in open, Leave(n) PROVE TypeOK'
  BY <1>3 DEF Leave, TypeOK, store, outside
<1>4. ASSUME NEW p \in Peers, NEW ackTo \in Nat, NEW f \in ApplyCalls(p, ackTo)
      PROVE  f \in Calls
  <2>1. PICK s \in 1 .. MaxSeq, b \in Fates :
          f = [k |-> "apply", p |-> p, seq |-> s, ackTo |-> ackTo, lands |-> b]
    BY <1>4 DEF ApplyCalls
  <2>2. s \in Nat
    BY StoreAssumption
  <2>3. b \in BOOLEAN
    BY DEF Fates
  <2>4. QED BY <2>1, <2>2, <2>3 DEF Calls
<1>5. ASSUME NEW n \in open, Hello(n) PROVE TypeOK'
  <2>1. PICK ops \in {<<>>} \cup {<<f>> : f \in ApplyCalls(conn[n], 0)} :
          Begin(<<[k |-> "claim", p |-> conn[n]], [k |-> "alive"]>> \o ops
                \o <<[k |-> "answer", n |-> n, p |-> conn[n]]>>)
    BY <1>5 DEF Hello
  <2>2. ops \in Seq(Calls)
    <3>1. ASSUME NEW f \in ApplyCalls(conn[n], 0) PROVE <<f>> \in Seq(Calls)
      BY <1>2, <1>4
    <3>2. QED BY <3>1, EmptySeq
  <2>3. /\ [k |-> "claim", p |-> conn[n]] \in Calls /\ [k |-> "alive"] \in Calls
        /\ [k |-> "answer", n |-> n, p |-> conn[n]] \in Calls
    BY <1>2 DEF Calls
  <2>4. /\ <<[k |-> "claim", p |-> conn[n]], [k |-> "alive"]>> \in Seq(Calls)
        /\ <<[k |-> "answer", n |-> n, p |-> conn[n]]>> \in Seq(Calls)
    BY <2>3
  <2>5. QED BY <2>1, <2>2, <2>4, ConcatProperties, BeginType
<1>6. ASSUME NEW n \in open, HelloRejected(n) PROVE TypeOK'
  <2>1. <<[k |-> "reject", n |-> n]>> \in Seq(Calls)
    BY <1>2 DEF Calls
  <2>2. QED BY <1>6, <2>1, CommitNowType DEF HelloRejected
<1>7. ASSUME NEW n \in open, LiveOp(n) PROVE TypeOK'
  <2>1. PICK f \in ApplyCalls(conn[n], n) : Begin(<<f>>)
    BY <1>7 DEF LiveOp
  <2>2. <<f>> \in Seq(Calls)
    BY <1>2, <1>4
  <2>3. QED BY <2>1, <2>2, BeginType
<1>8. ASSUME NEW n \in open, CallEvict(n) PROVE TypeOK'
  <2>1. [k |-> "evict", n |-> n] \in Calls
    BY <1>2 DEF Calls
  <2>2. QED BY <1>0, <1>8, <2>1, Pushed, CommitNowType DEF CallEvict
<1>9. CASE ServerWrite
  <2> DEFINE m == [mem EXCEPT !.log = Append(@, <<Server, version + 1>>)]
  <2>1. <<Server, version + 1>> \in Ops
    BY LenProperties DEF TypeOK, Image, version, Ops
  <2>2. m \in Image
    BY <2>1, AppendProperties DEF TypeOK, Image
  <2>3. QED BY <1>0, <1>9, <2>2, LandedType DEF ServerWrite
<1>10. CASE CallFlush
  BY <1>0, <1>10, CommitNowType DEF CallFlush
<1>11. CASE CallDispose
  <2>1. [k |-> "dispose"] \in Calls
    BY DEF Calls
  <2>2. QED BY <1>0, <1>11, <2>1, Pushed, CommitNowType DEF CallDispose
<1>12. CASE CallFetch
  <2>1. <<[k |-> "fetch"]>> \in Seq(Calls)
    BY DEF Calls
  <2>2. QED BY <1>12, <2>1, CommitNowType DEF CallFetch
<1>13. QED
  BY <1>1, <1>3, <1>5, <1>6, <1>7, <1>8, <1>9, <1>10, <1>11, <1>12 DEF Calling

LEMMA TypeStep ==
  ASSUME TypeOK, [Next]_vars
  PROVE  TypeOK'
<1>1. CASE Turn
  <2>1. <<>> \in Seq(Calls)
    BY EmptySeq
  <2>2. QED BY <1>1, <2>1, CommitNowType DEF Turn
<1>2. CASE Crash
  <2>1. /\ UNCHANGED <<disk, conn, copy, heard, acked, fetched>>
        /\ mem' = disk /\ changes' = <<>> /\ effects' = <<>> /\ run' = <<>> /\ stack' = <<>>
        /\ armed' = FALSE /\ status' = "down" /\ open' = {} /\ untold' = {}
    BY <1>2 DEF Crash
  <2>2. OutsideOK' /\ CommittedOK' /\ mem' \in Image /\ run' \in Seq(Message)
    BY <2>1, EmptySeq DEF TypeOK, OutsideOK, CommittedOK
  <2>3. QED BY <2>1, <2>2 DEF TypeOK, OutsideOK, CommittedOK
<1>3. CASE Load
  <2>1. /\ UNCHANGED <<disk, run, stack, conn, copy, heard, acked, untold, fetched>>
        /\ mem' = disk /\ changes' = <<>> /\ effects' = <<>>
        /\ armed' = FALSE /\ status' = "live" /\ open' = {}
    BY <1>3 DEF Load, outside
  <2>2. OutsideOK' /\ CommittedOK' /\ mem' \in Image
    BY <2>1, EmptySeq DEF TypeOK, OutsideOK, CommittedOK
  <2>3. QED BY <2>1, <2>2 DEF TypeOK, OutsideOK, CommittedOK
<1>4. CASE UNCHANGED vars
  BY <1>4 DEF TypeOK, vars, store, people, outside
<1>5. QED
  BY <1>1, <1>2, <1>3, <1>4, RunningType, CallingType DEF Next

LEMMA TypeInit == Init => TypeOK
<1> SUFFICES ASSUME Init PROVE TypeOK
  OBVIOUS
<1>1. Blank \in Image
  BY EmptySeq DEF Blank, Image
<1>2. copy \in [Sessions -> [synced : BOOLEAN, v : Nat, whole : BOOLEAN]]
  BY DEF Init
<1>3. QED BY <1>1, <1>2, EmptySeq DEF Init, TypeOK

\* The state of the store keeps its types, whatever calls, failures and crashes
\* come: among them that an open session is one that was made (store.js:1038).
THEOREM TypeCorrect == Spec => []TypeOK
<1>1. Init => TypeOK
  BY TypeInit
<1>2. TypeOK /\ [Next]_vars => TypeOK'
  BY TypeStep
<1>3. QED BY <1>1, <1>2, PTL DEF Spec

-----------------------------------------------------------------------------
(* What is heard is stored.  The invariant is Pipeline, with the claims of *)
(* what is queued and of the calls under way put as membership, so that    *)
(* they carry over to a queue or a stack made of others.                   *)

Frames(m) ==
  {f \in Calls : /\ f.k \notin {"hook", "observe"}
                 /\ f.k = "broadcast" => Before(f.log, m.log)
                 /\ f.k = "ack" => f.seq <= m.seq[f.p]}
Idle == {f \in Calls : f.k \notin {"hook", "observe"} /\ ~Active(f)}
Messages(im) == {e \in Message : e.t # "op" /\ Holds(e, im)}
Byes == {e \in Message : e.t = "closed"}

\* Pending changes lead from the storage to memory m.
Leads(pend, m) ==
  /\ \A i \in 1 .. Len(pend) : Precedes(disk, pend[i]) /\ Precedes(pend[i], m)
  /\ pend # <<>> => pend[Len(pend)] = m

Ahead ==
  /\ Precedes(disk, mem)
  /\ Leads(changes, mem)
  /\ (changes = <<>> /\ status = "live") => mem = disk
  /\ changes = <<>> => mem = disk \/ (effects \in Seq(Byes) /\ stack \in Seq(Idle))
  /\ effects \in Seq(Messages(mem))
  /\ run \in Seq(Messages(disk))
  /\ stack \in Seq(Frames(mem))
  /\ HeardIsStored

LEMMA FramesUp ==
  ASSUME NEW a \in Image, NEW b \in Image, Precedes(a, b)
  PROVE  Frames(a) \subseteq Frames(b)
<1> SUFFICES ASSUME NEW f \in Frames(a) PROVE f \in Frames(b)
  OBVIOUS
<1>1. f \in Calls /\ f.k \notin {"hook", "observe"}
  BY DEF Frames
<1>2. CASE f.k = "broadcast"
  <2>1. f.log \in Seq(Ops) /\ Before(f.log, a.log)
    BY <1>1, <1>2, FrameTypes DEF Frames
  <2>2. Before(f.log, b.log)
    BY <2>1, BeforeTrans DEF Precedes, Image
  <2>3. QED BY <1>1, <1>2, <2>2 DEF Frames
<1>3. CASE f.k = "ack"
  <2>1. f.seq \in Nat /\ f.p \in Peers /\ f.seq <= a.seq[f.p]
    BY <1>1, <1>3, FrameTypes DEF Frames
  <2>2. a.seq[f.p] \in Nat /\ b.seq[f.p] \in Nat /\ a.seq[f.p] <= b.seq[f.p]
    BY <2>1 DEF Precedes, Image
  <2>3. f.seq <= b.seq[f.p]
    BY <2>1, <2>2
  <2>4. QED BY <1>1, <1>3, <2>3 DEF Frames
<1>4. CASE f.k \notin {"broadcast", "ack"}
  BY <1>1, <1>4 DEF Frames
<1>5. QED BY <1>2, <1>3, <1>4

LEMMA MessagesUp ==
  ASSUME NEW a \in Image, NEW b \in Image, Precedes(a, b)
  PROVE  Messages(a) \subseteq Messages(b)
BY HoldsUp DEF Messages

LEMMA SeqUp ==
  ASSUME NEW S, NEW T, S \subseteq T, NEW s \in Seq(S)
  PROVE  s \in Seq(T)
BY SeqMonotonic

LEMMA Innocent ==
  ASSUME NEW im
  PROVE  Byes \subseteq Messages(im) /\ Idle \subseteq Frames(im)
BY DEF Byes, Messages, Holds, Tells, Idle, Frames, Active

LEMMA NothingUnwinds ==
  ASSUME NEW m, NEW s \in Seq(Frames(m))
  PROVE  Unwound(s) = <<>>
<1>1. \A i \in 1 .. Len(s) : s[i].k # "hook"
  BY ElementOfSeq DEF Frames
<1>2. QED BY <1>1 DEF Unwound

\* What is stored grows, and what was heard of it stays.
LEMMA HeardUp ==
  ASSUME TypeOK, HeardIsStored, disk' \in Image, Precedes(disk, disk'), UNCHANGED <<heard, acked>>
  PROVE  HeardIsStored'
<1>1. Before(heard, disk'.log)
  BY BeforeTrans DEF TypeOK, HeardIsStored, Precedes, Image
<1>2. ASSUME NEW p \in Peers PROVE acked[p] <= disk'.seq[p]
  <2>1. acked[p] \in Nat /\ disk.seq[p] \in Nat /\ disk'.seq[p] \in Nat
    BY DEF TypeOK, Image
  <2>2. acked[p] <= disk.seq[p] /\ disk.seq[p] <= disk'.seq[p]
    BY DEF HeardIsStored, Precedes
  <2>3. QED BY <2>1, <2>2
<1>3. QED BY <1>1, <1>2 DEF HeardIsStored

\* A message sent that claims nothing the storage does not have.
LEMMA DeliverHeard ==
  ASSUME TypeOK, HeardIsStored, NEW e \in Messages(disk), Deliver(e), UNCHANGED disk
  PROVE  HeardIsStored'
<1>1. e \in Message /\ e.t # "op" /\ Holds(e, disk)
  BY DEF Messages
<1>2. Before(heard', disk.log)
  BY <1>1, MessageTypes DEF Deliver, Holds, Tells, HeardIsStored
<1>3. ASSUME NEW p \in Peers PROVE acked'[p] <= disk.seq[p]
  <2>1. acked[p] \in Nat /\ disk.seq[p] \in Nat /\ acked[p] <= disk.seq[p]
    BY DEF TypeOK, Image, HeardIsStored
  <2>2. CASE e.t \in {"ack", "answer"}
    <3>1. e.p \in Peers /\ e.seq \in Nat /\ e.seq <= disk.seq[e.p]
      BY <1>1, <2>2, MessageTypes DEF Holds, Tells
    <3>2. acked' = [acked EXCEPT ![e.p] = Larger(@, e.seq)]
      BY <2>2 DEF Deliver
    <3>3. CASE p = e.p
      <4>1. acked'[p] = Larger(acked[p], e.seq)
        BY <3>1, <3>2, <3>3 DEF TypeOK
      <4>2. QED BY <2>1, <3>1, <3>3, <4>1 DEF Larger
    <3>4. CASE p # e.p
      BY <2>1, <3>2, <3>4 DEF TypeOK
    <3>5. QED BY <3>3, <3>4
  <2>3. CASE e.t \notin {"ack", "answer"}
    BY <2>1, <2>3 DEF Deliver
  <2>4. QED BY <2>2, <2>3
<1>4. QED BY <1>2, <1>3 DEF HeardIsStored

\* Storing `pend', at its end the memory m, or failing to.
LEMMA CommittedAhead ==
  ASSUME TypeOK, TypeOK', HeardIsStored,
         NEW m \in Image, mem' = m, UNCHANGED run,
         NEW pend \in Seq(Image), Precedes(disk, m), Leads(pend, m),
         (pend = <<>> /\ status = "live") => m = disk,
         NEW calls \in Seq(Frames(m)), NEW undone \in Seq(Idle),
         pend = <<>> => m = disk \/ (effects \in Seq(Byes) /\ calls \in Seq(Idle)),
         effects \in Seq(Messages(m)), run \in Seq(Messages(disk)),
         Store(pend, calls) \/ StoreFails(pend, undone)
  PROVE  Ahead'
<1>0. disk \in Image /\ disk' \in Image
  BY DEF TypeOK
<1>1. UNCHANGED <<heard, acked>>
  BY DEF Store, StoreFails, outside
<1>2. changes' = <<>>
  BY DEF Store, StoreFails
<1>3. Len(<<>>) = 0
  OBVIOUS
<1>4. Leads(changes, mem)'
  BY <1>2, <1>3 DEF Leads
<1>5. ASSUME Precedes(disk, disk') PROVE HeardIsStored' /\ run' \in Seq(Messages(disk'))
  BY <1>0, <1>1, <1>5, HeardUp, MessagesUp, SeqUp
<1>6. CASE Store(pend, calls)
  <2>1. Precedes(disk, disk') /\ Precedes(disk', m) /\ (pend # <<>> => m = disk')
    <3>1. CASE pend = <<>>
      BY <1>0, <1>6, <3>1, PrecedesRefl DEF Store
    <3>2. CASE pend # <<>>
      BY <1>0, <1>6, <3>2, PrecedesRefl DEF Store, Leads
    <3>3. QED BY <3>1, <3>2
  <2>2. [k |-> "drain"] \in Idle
    BY DEF Idle, Calls, Active
  <2>3. stack' \in Seq(Frames(m)) /\ (calls \in Seq(Idle) => stack' \in Seq(Idle))
    <3>1. PICK d \in Seq(Idle) : stack' = d \o calls
      <4>1. <<>> \in Seq(Idle) /\ <<[k |-> "drain"]>> \in Seq(Idle)
        BY <2>2
      <4>2. QED BY <1>6, <4>1 DEF Store
    <3>2. d \in Seq(Frames(m))
      BY <3>1, Innocent, SeqUp
    <3>3. QED BY <3>1, <3>2, ConcatProperties
  <2>4. UNCHANGED <<effects, status>>
    BY <1>6 DEF Store
  <2>5. (status' = "live" => m = disk') /\ (m = disk' \/ (effects' \in Seq(Byes) /\ stack' \in Seq(Idle)))
    <3>1. CASE pend = <<>>
      <4>1. disk' = disk
        BY <1>6, <3>1 DEF Store
      <4>2. QED BY <2>3, <2>4, <3>1, <4>1
    <3>2. CASE pend # <<>>
      BY <2>1, <3>2
    <3>3. QED BY <3>1, <3>2
  <2>6. QED BY <1>2, <1>4, <1>5, <2>1, <2>3, <2>4, <2>5 DEF Ahead
<1>7. CASE StoreFails(pend, undone)
  <2>1. Precedes(disk, disk') /\ Precedes(disk', m)
    <3>1. CASE disk' = disk
      BY <1>0, <3>1, PrecedesRefl
    <3>2. CASE disk' # disk
      <4>1. PICK i \in 1 .. Len(pend) - 1 : disk' = pend[i]
        BY <1>7, <3>2 DEF StoreFails
      <4>2. i \in 1 .. Len(pend)
        BY LenProperties
      <4>3. QED BY <4>1, <4>2 DEF Leads
    <3>3. QED BY <3>1, <3>2
  <2>2. effects' = <<>> /\ stack' = undone /\ status' # "live"
    BY <1>7 DEF StoreFails
  <2>3. effects' \in Seq(Byes) /\ effects' \in Seq(Messages(m))
    BY <2>2, EmptySeq
  <2>4. stack' \in Seq(Idle) /\ stack' \in Seq(Frames(m))
    BY <2>2, Innocent, SeqUp
  <2>5. QED BY <1>2, <1>4, <1>5, <2>1, <2>2, <2>3, <2>4 DEF Ahead
<1>8. QED BY <1>6, <1>7

LEMMA CommitNowAhead ==
  ASSUME TypeOK, Ahead, stack = <<>>, NEW calls \in Seq(Idle), CommitNow(calls)
  PROVE  TypeOK' /\ Ahead'
<1>1. calls \in Seq(Calls)
  BY SeqUp DEF Idle
<1>2. TypeOK'
  BY <1>1, CommitNowType
<1>3. calls \in Seq(Frames(mem))
  BY Innocent, SeqUp
<1>4. mem \in Image /\ changes \in Seq(Image)
  BY DEF TypeOK
<1>5. /\ mem' = mem /\ UNCHANGED run
      /\ Store(changes, calls) \/ StoreFails(changes, calls)
  BY DEF CommitNow
<1>6. Ahead'
  BY <1>2, <1>3, <1>4, <1>5, CommittedAhead DEF Ahead
<1>7. QED BY <1>2, <1>6

LEMMA CommitAhead ==
  ASSUME TypeOK, Ahead, NEW m \in Image, Precedes(mem, m),
         NEW calls \in Seq(Frames(m)), Commit(m, calls)
  PROVE  TypeOK' /\ Ahead'
<1> DEFINE pend == Append(changes, m)
<1>1. calls \in Seq(Calls)
  BY SeqUp DEF Frames
<1>2. TypeOK'
  BY <1>1, CommitType
<1>3. disk \in Image /\ mem \in Image /\ changes \in Seq(Image)
  BY DEF TypeOK
<1>4. Precedes(disk, m)
  BY <1>3, PrecedesTrans DEF Ahead
<1>5. pend \in Seq(Image) /\ pend # <<>> /\ Len(pend) = Len(changes) + 1 /\ pend[Len(pend)] = m
  BY <1>3, AppendProperties
<1>6. Leads(pend, m)
  <2>1. ASSUME NEW i \in 1 .. Len(pend) PROVE Precedes(disk, pend[i]) /\ Precedes(pend[i], m)
    <3>1. CASE pend[i] = m
      BY <1>4, <3>1, PrecedesRefl
    <3>2. CASE i \in 1 .. Len(changes) /\ pend[i] = changes[i]
      <4>1. changes[i] \in Image
        BY <1>3, <3>2, ElementOfSeq
      <4>2. Precedes(disk, changes[i]) /\ Precedes(changes[i], mem)
        BY <3>2 DEF Ahead, Leads
      <4>3. QED BY <1>3, <3>2, <4>1, <4>2, PrecedesTrans
    <3>3. QED BY <1>3, <3>1, <3>2, InAppend
  <2>2. QED BY <1>5, <2>1 DEF Leads
<1>7. effects \in Seq(Messages(m))
  BY <1>3, MessagesUp, SeqUp DEF Ahead
<1>8. Ahead'
  <2>1. mem' = m /\ UNCHANGED run
    BY DEF Commit
  <2>2. CASE Len(pend) < GroupMax
    <3>1. /\ changes' = pend /\ stack' = calls
          /\ UNCHANGED <<disk, status, effects, heard, acked>>
      BY <2>2 DEF Commit, outside
    <3>2. HeardIsStored'
      BY <3>1 DEF Ahead, HeardIsStored
    <3>3. Leads(changes, mem)'
      BY <1>6, <2>1, <3>1 DEF Leads
    <3>4. QED BY <1>4, <1>5, <1>7, <2>1, <3>1, <3>2, <3>3 DEF Ahead
  <2>3. CASE ~(Len(pend) < GroupMax)
    <3>1. Store(pend, calls) \/ StoreFails(pend, Unwound(calls))
      BY <2>3 DEF Commit
    <3>2. Unwound(calls) \in Seq(Idle)
      BY NothingUnwinds, EmptySeq
    <3>3. HeardIsStored /\ run \in Seq(Messages(disk))
      BY DEF Ahead
    <3>4. QED BY <1>2, <1>4, <1>5, <1>6, <1>7, <2>1, <3>1, <3>2, <3>3, CommittedAhead
  <2>4. QED BY <2>2, <2>3
<1>9. QED BY <1>2, <1>8

\* A message sent now claims what is stored; one sent later, what is in memory.
LEMMA SentWithin ==
  ASSUME TypeOK, Ahead, NEW e \in Messages(mem), Send(e), UNCHANGED <<disk, mem>>,
         changes = <<>> => mem = disk
  PROVE  HeardIsStored' /\ effects' \in Seq(Messages(mem))
<1>1. CASE pending
  <2>1. effects' = Append(effects, e) /\ UNCHANGED <<heard, acked>>
    BY <1>1 DEF Send, outside
  <2>2. effects' \in Seq(Messages(mem))
    BY <2>1, AppendProperties DEF Ahead
  <2>3. HeardIsStored'
    BY <2>1 DEF Ahead, HeardIsStored
  <2>4. QED BY <2>2, <2>3
<1>2. CASE ~pending
  <2>1. Deliver(e) /\ UNCHANGED effects /\ mem = disk
    BY <1>2 DEF Send, pending
  <2>2. HeardIsStored'
    BY <2>1, DeliverHeard DEF Ahead
  <2>3. QED BY <2>1, <2>2 DEF Ahead
<1>3. QED BY <1>1, <1>2

\* While a call has something left to write or tell, memory is stored or pending.
LEMMA ActiveFrame ==
  ASSUME TypeOK, Ahead, stack # <<>>, changes = <<>>, Active(Head(stack))
  PROVE  mem = disk
<1>1. stack \notin Seq(Idle)
  BY InTail DEF Idle
<1>2. QED BY <1>1 DEF Ahead

\* A step that commits nothing and leaves the images alone.
LEMMA QuietAhead ==
  ASSUME TypeOK, Ahead, UNCHANGED <<disk, mem, changes>>, status' = "live" => status = "live",
         HeardIsStored',
         changes = <<>> => mem = disk \/ (effects' \in Seq(Byes) /\ stack' \in Seq(Idle)),
         effects' \in Seq(Messages(mem)), run' \in Seq(Messages(disk)), stack' \in Seq(Frames(mem))
  PROVE  Ahead'
BY DEF Ahead, Leads

LEMMA SameHeard ==
  ASSUME HeardIsStored, UNCHANGED <<disk, heard, acked>>
  PROVE  HeardIsStored'
BY DEF HeardIsStored

LEMMA DoneAhead ==
  ASSUME TypeOK, Ahead, stack # <<>>, Done
  PROVE  /\ stack' \in Seq(Frames(mem)) /\ Head(stack) \in Frames(mem)
         /\ stack \in Seq(Idle) => stack' \in Seq(Idle)
BY InTail DEF Ahead, Done

LEMMA RunningAhead ==
  ASSUME TypeOK, Ahead, "observe" \notin Uses, Running
  PROVE  Ahead'
<1>0. TypeOK'
  BY RunningType
<1>a. /\ HeardIsStored /\ disk \in Image /\ mem \in Image
      /\ Precedes(disk, mem)
      /\ changes = <<>> => mem = disk \/ (effects \in Seq(Byes) /\ stack \in Seq(Idle))
      /\ effects \in Seq(Messages(mem)) /\ run \in Seq(Messages(disk)) /\ stack \in Seq(Frames(mem))
  BY DEF Ahead, TypeOK
<1>b. ASSUME UNCHANGED <<store, outside>>
      PROVE  /\ UNCHANGED <<disk, mem, changes, status, heard, acked>> /\ HeardIsStored'
  BY <1>a, <1>b, SameHeard DEF store, outside
<1>c. ASSUME stack # <<>> PROVE Head(stack) \in Frames(mem) /\ Tail(stack) \in Seq(Frames(mem))
  BY <1>a, <1>c, InTail
<1>d. Observers = <<>>
  BY DEF Observers
<1>1. CASE DrainTake
  <2>1. changes = <<>> /\ run' = effects /\ effects' = <<>> /\ UNCHANGED <<store, stack, outside>>
    BY <1>1 DEF DrainTake
  <2>2. run' \in Seq(Messages(disk))
    BY <1>a, <2>1, Innocent, SeqUp
  <2>3. effects' \in Seq(Messages(mem)) /\ effects' \in Seq(Byes)
    BY <2>1, EmptySeq
  <2>4. QED BY <1>a, <1>b, <2>1, <2>2, <2>3, QuietAhead
<1>2. CASE RunEffect
  <2> DEFINE e == Head(run)
  <2>1. e \in Messages(disk) /\ run' \in Seq(Messages(disk)) /\ e.t # "op"
    BY <1>2, <1>a, InTail DEF RunEffect, Messages
  <2>2. /\ IF Sent(e) THEN Deliver(e) ELSE UNCHANGED outside
        /\ UNCHANGED <<store, effects, stack>>
    BY <1>2, <2>1 DEF RunEffect
  <2>3. UNCHANGED <<disk, mem, changes, status>>
    BY <2>2 DEF store
  <2>4. HeardIsStored'
    BY <1>a, <1>b, <2>1, <2>2, <2>3, DeliverHeard
  <2>5. QED BY <1>a, <2>1, <2>2, <2>3, <2>4, QuietAhead
<1>3. CASE DrainEnd
  <2>1. stack # <<>> /\ stack' = Tail(stack) /\ UNCHANGED <<disk, mem, changes, status, effects, run, heard, acked>>
    BY <1>3 DEF DrainEnd, Top, outside
  <2>2. HeardIsStored' /\ stack' \in Seq(Frames(mem)) /\ (stack \in Seq(Idle) => stack' \in Seq(Idle))
    BY <1>a, <2>1, SameHeard, DoneAhead DEF Done
  <2>3. QED BY <1>a, <2>1, <2>2, QuietAhead
<1>4. CASE Claim
  <2>1. stack # <<>> /\ Frame.p \in Peers
    BY <1>4, FrameIn, FrameTypes DEF Claim, Top, Frame
  <2>2. CASE Frame.p \in mem.owned
    BY <1>4, <1>a, <1>b, <2>1, <2>2, DoneAhead, QuietAhead DEF Claim
  <2>3. CASE Frame.p \notin mem.owned
    <3> DEFINE m == [mem EXCEPT !.owned = @ \cup {Frame.p}]
    <3>1. m \in Image
      BY <1>a, <2>1 DEF Image
    <3>2. Precedes(mem, m)
      BY <1>a, PrecedesRefl DEF Precedes, Image
    <3>3. Tail(stack) \in Seq(Frames(m))
      BY <1>a, <1>c, <2>1, <3>1, <3>2, FramesUp, SeqUp
    <3>4. QED BY <1>4, <2>3, <3>1, <3>2, <3>3, CommitAhead DEF Claim
  <2>4. QED BY <2>2, <2>3
<1>5. CASE Alive
  <2>1. stack # <<>> /\ UNCHANGED <<store, effects, run, outside>> /\ stack' \in {Tail(stack), Unwound(Tail(stack))}
    BY <1>5 DEF Alive, Top
  <2>2. /\ Unwound(Tail(stack)) = <<>>
        /\ stack \in Seq(Idle) => Tail(stack) \in Seq(Idle)
    BY <1>c, <2>1, NothingUnwinds, InTail
  <2>3. stack' \in Seq(Frames(mem)) /\ (stack \in Seq(Idle) => stack' \in Seq(Idle))
    BY <1>c, <2>1, <2>2, EmptySeq
  <2>4. QED BY <1>a, <1>b, <2>1, <2>3, QuietAhead
<1>6. CASE Apply
  <2> DEFINE f == Frame
             decided == [mem EXCEPT !.seq[f.p] = f.seq, !.owned = @ \cup {f.p}]
             landed == [decided EXCEPT !.log = Append(@, <<f.p, f.seq>>)]
             patch == <<[k |-> "broadcast", log |-> landed.log]>>
  <2>1. /\ f \in Calls /\ f.p \in Peers /\ f.seq \in Nat /\ f.ackTo \in Nat
        /\ stack # <<>> /\ Active(Head(stack))
    BY <1>6, FrameIn, FrameTypes DEF Apply, Top, Frame, Active
  <2>2. ASSUME NEW m \in Image, Precedes(mem, m), f.seq <= m.seq[f.p]
        PROVE  Applied(f) \in Seq(Frames(m))
    <3>1. [k |-> "ack", n |-> f.ackTo, p |-> f.p, seq |-> f.seq] \in Frames(m)
      BY <2>1, <2>2 DEF Calls, Frames
    <3>2. Tail(stack) \in Seq(Frames(m))
      BY <1>a, <1>c, <2>1, <2>2, FramesUp, SeqUp
    <3>3. <<>> \in Seq(Frames(m)) /\ <<[k |-> "ack", n |-> f.ackTo, p |-> f.p, seq |-> f.seq]>> \in Seq(Frames(m))
      BY <3>1
    <3>4. QED BY <3>2, <3>3, ConcatProperties DEF Applied
  <2>3. CASE Decided(f)
    <3>1. stack' = Applied(f) /\ UNCHANGED <<store, effects, run, outside>>
      BY <1>6, <2>3 DEF Apply
    <3>2. stack' \in Seq(Frames(mem))
      BY <1>a, <2>2, <2>3, <3>1, PrecedesRefl DEF Decided
    <3>3. changes = <<>> => mem = disk
      BY <2>1, ActiveFrame
    <3>4. QED BY <1>a, <1>b, <3>1, <3>2, <3>3, QuietAhead
  <2>4. CASE ~Decided(f)
    <3>1. decided \in Image /\ decided.seq[f.p] = f.seq /\ decided.log = mem.log
      BY <1>a, <2>1 DEF Image
    <3>2. ASSUME NEW p \in Peers PROVE mem.seq[p] <= decided.seq[p]
      <4>1. mem.seq[p] \in Nat /\ mem.seq[f.p] \in Nat /\ ~(f.seq <= mem.seq[f.p])
        BY <1>a, <2>1, <2>4 DEF Image, Decided
      <4>2. CASE p = f.p
        BY <2>1, <3>1, <4>1, <4>2
      <4>3. CASE p # f.p
        BY <1>a, <4>1, <4>3 DEF Image
      <4>4. QED BY <4>2, <4>3
    <3>3. Precedes(mem, decided)
      <4>1. mem.owned \subseteq decided.owned
        BY <1>a DEF Image
      <4>2. Before(mem.log, decided.log)
        BY <1>a, <3>1, PrecedesRefl DEF Precedes
      <4>3. QED BY <3>2, <4>1, <4>2 DEF Precedes
    <3>4. /\ landed \in Image /\ landed.seq = decided.seq /\ landed.owned = decided.owned
          /\ landed.log = Append(mem.log, <<f.p, f.seq>>) /\ Before(mem.log, landed.log)
      <4>1. <<f.p, f.seq>> \in Ops /\ mem.log \in Seq(Ops)
        BY <1>a, <2>1 DEF Image, Ops
      <4>2. /\ Append(mem.log, <<f.p, f.seq>>) \in Seq(Ops)
            /\ Before(mem.log, Append(mem.log, <<f.p, f.seq>>))
        BY <4>1, BeforeAppend
      <4>3. QED BY <3>1, <4>2 DEF Image
    <3>5. Precedes(mem, landed)
      BY <3>3, <3>4 DEF Precedes
    <3>6. f.seq <= decided.seq[f.p] /\ f.seq <= landed.seq[f.p]
      BY <2>1, <3>1, <3>4
    <3>7. CASE f.lands
      <4>1. Commit(landed, patch \o Observers \o Applied(f))
        BY <1>6, <2>4, <3>7 DEF Apply, Landed
      <4>2. [k |-> "broadcast", log |-> landed.log] \in Frames(landed)
        BY <3>4, PrecedesRefl DEF Frames, Calls, Precedes, Image
      <4>3. patch \in Seq(Frames(landed)) /\ Observers \in Seq(Frames(landed))
        BY <1>d, <4>2
      <4>4. patch \o Observers \o Applied(f) \in Seq(Frames(landed))
        BY <2>2, <3>4, <3>5, <3>6, <4>3, ConcatProperties
      <4>5. QED BY <3>4, <3>5, <4>1, <4>4, CommitAhead
    <3>8. CASE ~f.lands
      <4>1. Commit(decided, Observers \o Applied(f))
        BY <1>6, <2>4, <3>8 DEF Apply
      <4>2. Observers \o Applied(f) \in Seq(Frames(decided))
        <5>1. Observers \in Seq(Frames(decided))
          BY <1>d
        <5>2. QED BY <2>2, <3>1, <3>3, <3>6, <5>1, ConcatProperties
      <4>3. QED BY <3>1, <3>3, <4>1, <4>2, CommitAhead
    <3>9. QED BY <3>7, <3>8
  <2>5. QED BY <2>3, <2>4
<1>7. ASSUME NEW e \in Messages(mem), Send(e), Active(Head(stack)), stack # <<>>, Done,
             UNCHANGED <<store, run>>
      PROVE  Ahead'
  <2>1. changes = <<>> => mem = disk
    BY <1>7, ActiveFrame
  <2>2. UNCHANGED <<disk, mem, changes, status>>
    BY <1>7 DEF store
  <2>3. HeardIsStored' /\ effects' \in Seq(Messages(mem))
    BY <1>7, <2>1, <2>2, SentWithin
  <2>4. QED BY <1>7, <1>a, <2>1, <2>2, <2>3, DoneAhead, QuietAhead
<1>8. CASE Broadcast
  <2>1. stack # <<>> /\ Active(Head(stack)) /\ Done /\ UNCHANGED <<store, run>>
    BY <1>8 DEF Broadcast, Top, Active
  <2>2. CASE open = {}
    BY <1>8, <1>a, <1>b, <2>1, <2>2, DoneAhead, QuietAhead DEF Broadcast
  <2>3. CASE open # {}
    <3> DEFINE e == [t |-> "patch", log |-> Frame.log, upTo |-> Len(conn)]
    <3>1. Before(Frame.log, mem.log) /\ Frame.log \in Seq(Ops)
      BY <1>8, <1>c, FrameTypes DEF Broadcast, Top, Frames, Frame
    <3>2. Len(conn) \in Nat
      BY LenProperties DEF TypeOK
    <3>3. e \in Messages(mem)
      BY <3>1, <3>2 DEF Messages, Message, Holds
    <3>4. Send(e)
      BY <1>8, <2>3 DEF Broadcast
    <3>5. QED BY <1>7, <2>1, <3>3, <3>4
  <2>4. QED BY <2>2, <2>3
<1>9. CASE Observe \/ HookReturns
  BY <1>9, <1>c DEF Observe, HookReturns, Top, Frames
<1>10. CASE Ack
  <2> DEFINE e == [t |-> "ack", n |-> Frame.n, p |-> Frame.p, seq |-> Frame.seq, log |-> mem.log]
  <2>1. stack # <<>> /\ Active(Head(stack)) /\ Done /\ UNCHANGED <<store, run>> /\ Send(e)
    BY <1>10 DEF Ack, Top, Active
  <2>2. Frame.k = "ack" /\ Frame \in Calls /\ Frame.seq <= mem.seq[Frame.p]
    BY <1>10, <1>c DEF Ack, Top, Frames, Frame
  <2>3. mem.log \in Seq(Ops) /\ Before(mem.log, mem.log)
    BY <1>a, PrecedesRefl DEF Image, Precedes
  <2>4. e \in Messages(mem)
    BY <2>2, <2>3, FrameTypes DEF Messages, Message, Holds
  <2>5. QED BY <1>7, <2>1, <2>4
<1>11. CASE Answer
  <2> DEFINE e == [t |-> "answer", n |-> Frame.n, p |-> Frame.p, seq |-> mem.seq[Frame.p], log |-> mem.log]
  <2>1. stack # <<>> /\ Active(Head(stack)) /\ Done /\ UNCHANGED <<store, run>> /\ Send(e)
    BY <1>11 DEF Answer, Top, Active
  <2>2. Frame.n \in Nat /\ Frame.p \in Peers
    BY <1>11, FrameIn, FrameTypes DEF Answer, Top, Frame
  <2>3. mem.log \in Seq(Ops) /\ Before(mem.log, mem.log) /\ mem.seq[Frame.p] \in Nat
    BY <1>a, <2>2, PrecedesRefl DEF Image, Precedes
  <2>4. e \in Messages(mem)
    BY <2>2, <2>3 DEF Messages, Message, Holds
  <2>5. QED BY <1>7, <2>1, <2>4
<1>12. CASE Open
  BY <1>12, <1>a, <1>b, DoneAhead, QuietAhead DEF Open, Top
<1>13. ASSUME NEW n \in Nat, NEW sure \in BOOLEAN, End(n, sure)
       PROVE  /\ effects' \in Seq(Messages(mem)) /\ (effects \in Seq(Byes) => effects' \in Seq(Byes))
              /\ UNCHANGED <<heard, acked>>
  <2>1. [t |-> "closed", n |-> n, sure |-> sure] \in Byes
    BY DEF Byes, Message
  <2>2. [t |-> "closed", n |-> n, sure |-> sure] \in Messages(mem)
    BY <2>1, Innocent
  <2>3. effects' = Append(effects, [t |-> "closed", n |-> n, sure |-> sure]) \/ effects' = effects
    BY <1>13 DEF End
  <2>4. UNCHANGED <<heard, acked>>
    BY <1>13 DEF End
  <2>5. effects' \in Seq(Messages(mem))
    <3>1. Append(effects, [t |-> "closed", n |-> n, sure |-> sure]) \in Seq(Messages(mem))
      BY <1>a, <2>2, AppendProperties
    <3>2. QED BY <1>a, <2>3, <3>1
  <2>6. ASSUME effects \in Seq(Byes) PROVE effects' \in Seq(Byes)
    <3>1. Append(effects, [t |-> "closed", n |-> n, sure |-> sure]) \in Seq(Byes)
      BY <2>1, <2>6, AppendProperties
    <3>2. QED BY <2>3, <2>6, <3>1
  <2>7. QED BY <2>4, <2>5, <2>6
<1>14. CASE Evict \/ Reject
  <2>1. stack # <<>> /\ Done /\ UNCHANGED <<store, run>> /\ Frame.n \in Nat
    BY <1>14, FrameIn, FrameTypes DEF Evict, Reject, Top, Frame
  <2>2. UNCHANGED <<disk, mem, changes, status>>
    BY <2>1 DEF store
  <2>3. (\E sure \in BOOLEAN : End(Frame.n, sure)) \/ UNCHANGED <<effects, outside>>
    BY <1>14 DEF Evict, Reject
  <2>4. /\ effects' \in Seq(Messages(mem)) /\ (effects \in Seq(Byes) => effects' \in Seq(Byes))
        /\ UNCHANGED <<heard, acked>>
    BY <1>a, <1>13, <2>1, <2>3 DEF outside
  <2>5. HeardIsStored'
    BY <1>a, <2>2, <2>4, SameHeard
  <2>6. QED BY <1>a, <2>1, <2>2, <2>4, <2>5, DoneAhead, QuietAhead
<1>15. CASE Dispose
  <2>1. /\ stack # <<>> /\ Done /\ (status' = "live" => status = "live")
        /\ UNCHANGED <<disk, mem, changes, effects, run, heard, acked>>
    BY <1>15 DEF Dispose, Top
  <2>2. HeardIsStored'
    BY <1>a, <2>1, SameHeard
  <2>3. QED BY <1>a, <2>1, <2>2, DoneAhead, QuietAhead
<1>16. CASE Fetch
  BY <1>16, <1>a, <1>b, DoneAhead, QuietAhead DEF Fetch, Top
<1>17. QED
  BY <1>1, <1>2, <1>3, <1>4, <1>5, <1>6, <1>8, <1>9, <1>10, <1>11, <1>12, <1>14,
     <1>15, <1>16 DEF Running

LEMMA BeginAhead ==
  ASSUME TypeOK, Ahead, NEW calls \in Seq(Frames(mem)), Begin(calls), status = "live"
  PROVE  Ahead'
<1>1. UNCHANGED <<disk, mem, changes, status, effects, run, heard, acked>> /\ stack' = calls
  BY DEF Begin, store, outside
<1>2. HeardIsStored' /\ (changes = <<>> => mem = disk)
  BY <1>1, SameHeard DEF Ahead
<1>3. QED BY <1>1, <1>2, QuietAhead DEF Ahead

LEMMA CallingAhead ==
  ASSUME TypeOK, Ahead, "observe" \notin Uses, Calling
  PROVE  Ahead'
<1>1. ~Top("hook")
  BY InTail DEF Ahead, Top, Frames
<1>2. ASSUME NEW n \in open PROVE n \in Nat /\ conn[n] \in Peers
  BY <1>2, ElementOfSeq, LenProperties DEF TypeOK
<1>3. ASSUME NEW f \in Idle, stack = <<>>, CommitNow(<<f>>) PROVE Ahead'
  <2>1. <<f>> \in Seq(Idle)
    OBVIOUS
  <2>2. QED BY <1>3, <2>1, CommitNowAhead
<1>4. ASSUME NEW f, stack = <<>> PROVE <<f>> \o stack = <<f>>
  BY <1>4
<1>5. ASSUME NEW p \in Peers, Connect(p) PROVE Ahead'
  <2>1. [k |-> "open", p |-> p] \in Idle
    BY DEF Idle, Calls, Active
  <2>2. QED BY <1>5, <2>1, <1>3 DEF Connect, Task
<1>6. ASSUME NEW n \in open, Leave(n) PROVE Ahead'
  <2>1. UNCHANGED <<disk, mem, changes, status, effects, run, stack, heard, acked>>
    BY <1>6 DEF Leave, store, outside
  <2>2. HeardIsStored'
    BY <2>1, SameHeard DEF Ahead
  <2>3. QED BY <2>1, <2>2, QuietAhead DEF Ahead
<1>7. ASSUME NEW p \in Peers, NEW ackTo \in Nat, NEW f \in ApplyCalls(p, ackTo)
      PROVE  f \in Frames(mem)
  <2>1. PICK s \in 1 .. MaxSeq, b \in Fates :
          f = [k |-> "apply", p |-> p, seq |-> s, ackTo |-> ackTo, lands |-> b]
    BY <1>7 DEF ApplyCalls
  <2>2. s \in Nat
    BY StoreAssumption
  <2>3. b \in BOOLEAN
    BY DEF Fates
  <2>4. QED BY <2>1, <2>2, <2>3 DEF Calls, Frames
<1>8. ASSUME NEW n \in open, Hello(n) PROVE Ahead'
  <2>1. PICK ops \in {<<>>} \cup {<<f>> : f \in ApplyCalls(conn[n], 0)} :
          Begin(<<[k |-> "claim", p |-> conn[n]], [k |-> "alive"]>> \o ops
                \o <<[k |-> "answer", n |-> n, p |-> conn[n]]>>)
    BY <1>8 DEF Hello
  <2>2. ops \in Seq(Frames(mem))
    <3>1. ASSUME NEW f \in ApplyCalls(conn[n], 0) PROVE <<f>> \in Seq(Frames(mem))
      BY <1>2, <1>7
    <3>2. QED BY <3>1, EmptySeq
  <2>3. /\ [k |-> "claim", p |-> conn[n]] \in Frames(mem) /\ [k |-> "alive"] \in Frames(mem)
        /\ [k |-> "answer", n |-> n, p |-> conn[n]] \in Frames(mem)
    BY <1>2 DEF Calls, Frames
  <2>4. /\ <<[k |-> "claim", p |-> conn[n]], [k |-> "alive"]>> \in Seq(Frames(mem))
        /\ <<[k |-> "answer", n |-> n, p |-> conn[n]]>> \in Seq(Frames(mem))
    BY <2>3
  <2>5. status = "live"
    BY <1>8 DEF Hello
  <2>6. QED BY <2>1, <2>2, <2>4, <2>5, ConcatProperties, BeginAhead
<1>9. ASSUME NEW n \in open, HelloRejected(n) PROVE Ahead'
  <2>1. [k |-> "reject", n |-> n] \in Idle
    BY <1>2 DEF Idle, Calls, Active
  <2>2. QED BY <1>9, <2>1, <1>3 DEF HelloRejected, Task
<1>10. ASSUME NEW n \in open, LiveOp(n) PROVE Ahead'
  <2>1. PICK f \in ApplyCalls(conn[n], n) : Begin(<<f>>)
    BY <1>10 DEF LiveOp
  <2>2. <<f>> \in Seq(Frames(mem))
    BY <1>2, <1>7
  <2>3. status = "live"
    BY <1>10 DEF LiveOp
  <2>4. QED BY <2>1, <2>2, <2>3, BeginAhead
<1>11. ASSUME NEW n \in open, CallEvict(n) PROVE Ahead'
  <2>1. [k |-> "evict", n |-> n] \in Idle
    BY <1>2 DEF Idle, Calls, Active
  <2>2. stack = <<>> /\ CommitNow(<<[k |-> "evict", n |-> n]>> \o stack)
    BY <1>1, <1>11 DEF CallEvict, Call
  <2>3. QED BY <1>3, <1>4, <2>1, <2>2
<1>12. CASE ServerWrite
  <2> DEFINE m == [mem EXCEPT !.log = Append(@, <<Server, version + 1>>)]
             patch == <<[k |-> "broadcast", log |-> m.log]>>
  <2>1. <<Server, version + 1>> \in Ops /\ mem \in Image /\ mem.log \in Seq(Ops)
    BY LenProperties DEF TypeOK, Image, version, Ops
  <2>2. /\ Append(mem.log, <<Server, version + 1>>) \in Seq(Ops)
        /\ Before(mem.log, Append(mem.log, <<Server, version + 1>>))
    BY <2>1, BeforeAppend
  <2>3. m \in Image /\ m.log = Append(mem.log, <<Server, version + 1>>) /\ m.seq = mem.seq /\ m.owned = mem.owned
    BY <2>1, <2>2 DEF Image
  <2>4. Precedes(mem, m)
    BY <2>1, <2>2, <2>3, PrecedesRefl DEF Precedes
  <2>5. stack = <<>> /\ Commit(m, patch \o Observers \o stack)
    BY <1>1, <1>12 DEF ServerWrite, Call, Landed
  <2>6. Observers = <<>>
    BY DEF Observers
  <2>7. [k |-> "broadcast", log |-> m.log] \in Frames(m)
    BY <2>3, PrecedesRefl DEF Frames, Calls, Precedes, Image
  <2>8. patch \in Seq(Frames(m)) /\ <<>> \in Seq(Frames(m))
    BY <2>7
  <2>9. patch \o Observers \o stack \in Seq(Frames(m))
    BY <2>5, <2>6, <2>8, ConcatProperties
  <2>10. QED BY <2>3, <2>4, <2>5, <2>9, CommitAhead
<1>13. CASE CallFlush
  <2>1. stack = <<>> /\ CommitNow(<<>>)
    BY <1>1, <1>13 DEF CallFlush, Call
  <2>2. QED BY <2>1, EmptySeq, CommitNowAhead
<1>14. CASE CallDispose
  <2>1. [k |-> "dispose"] \in Idle
    BY DEF Idle, Calls, Active
  <2>2. stack = <<>> /\ CommitNow(<<[k |-> "dispose"]>> \o stack)
    BY <1>1, <1>14 DEF CallDispose, Call
  <2>3. QED BY <1>3, <1>4, <2>1, <2>2
<1>15. CASE CallFetch
  <2>1. [k |-> "fetch"] \in Idle
    BY DEF Idle, Calls, Active
  <2>2. QED BY <1>15, <2>1, <1>3 DEF CallFetch, Task
<1>16. QED
  BY <1>5, <1>6, <1>8, <1>9, <1>10, <1>11, <1>12, <1>13, <1>14, <1>15 DEF Calling

LEMMA AheadStep ==
  ASSUME TypeOK, Ahead, "observe" \notin Uses, [Next]_vars
  PROVE  Ahead'
<1>1. CASE Turn
  BY <1>1, EmptySeq, CommitNowAhead DEF Turn
<1>2. CASE Crash \/ Load
  <2>1. /\ UNCHANGED <<disk, heard, acked>>
        /\ mem' = disk /\ changes' = <<>> /\ effects' = <<>>
        /\ run' \in {<<>>, run} /\ stack' = <<>>
    BY <1>2 DEF Crash, Load, outside
  <2>2. HeardIsStored'
    BY <2>1, SameHeard DEF Ahead
  <2>3. Precedes(disk, disk) /\ Leads(changes, mem)'
    <3>1. Len(<<>>) = 0
      OBVIOUS
    <3>2. QED BY <2>1, <3>1, PrecedesRefl DEF Leads, TypeOK
  <2>4. /\ effects' \in Seq(Messages(mem')) /\ run' \in Seq(Messages(disk'))
        /\ stack' \in Seq(Frames(mem'))
    BY <2>1, EmptySeq DEF Ahead
  <2>5. QED BY <2>1, <2>2, <2>3, <2>4 DEF Ahead
<1>3. CASE UNCHANGED vars
  <2>1. UNCHANGED <<disk, mem, changes, status, effects, run, stack, heard, acked>>
    BY <1>3 DEF vars, store, outside
  <2>2. HeardIsStored'
    BY <2>1, SameHeard DEF Ahead
  <2>3. QED BY <2>1, <2>2, QuietAhead DEF Ahead
<1>4. QED
  BY <1>1, <1>2, <1>3, RunningAhead, CallingAhead DEF Next

LEMMA AheadInit == Init => Ahead
<1> SUFFICES ASSUME Init PROVE Ahead
  OBVIOUS
<1>1. /\ mem = Blank /\ disk = Blank /\ changes = <<>> /\ effects = <<>> /\ run = <<>> /\ stack = <<>>
      /\ heard = <<>> /\ acked = [p \in Peers |-> 0]
  BY DEF Init
<1>2. Blank \in Image
  BY EmptySeq DEF Blank, Image
<1>3. Precedes(disk, mem)
  BY <1>1, <1>2, PrecedesRefl
<1>4. HeardIsStored
  BY <1>1 DEF HeardIsStored, Blank, Before
<1>5. Leads(changes, mem)
  BY <1>1 DEF Leads
<1>6. QED BY <1>1, <1>3, <1>4, <1>5, EmptySeq DEF Ahead

\* With no op observer to call back (a group that fills while one does is told
\* apart by a run), what any client was told, a version or an op decided, is in
\* the storage, whatever fails or crashes (store.js:29-34).
THEOREM Stored == ASSUME "observe" \notin Uses PROVE Spec => []HeardIsStored
<1>1. Init => TypeOK /\ Ahead
  BY TypeInit, AheadInit
<1>2. TypeOK /\ Ahead /\ [Next]_vars => (TypeOK /\ Ahead)'
  BY TypeStep, AheadStep
<1>3. Ahead => HeardIsStored
  BY DEF Ahead
<1>4. QED BY <1>1, <1>2, <1>3, PTL DEF Spec

LEMMA AheadIsPipeline == ASSUME TypeOK, Ahead PROVE Pipeline
<1>1. /\ Precedes(disk, mem)
      /\ \A i \in 1 .. Len(changes) : Precedes(disk, changes[i]) /\ Precedes(changes[i], mem)
      /\ changes # <<>> => changes[Len(changes)] = mem
      /\ (changes = <<>> /\ status = "live") => mem = disk
  BY DEF Ahead, Leads
<1>2. ASSUME changes = <<>>, mem # disk
      PROVE  /\ \A i \in 1 .. Len(effects) : ~Tells(effects[i])
             /\ \A i \in 1 .. Len(stack) : ~Active(stack[i])
  <2>1. effects \in Seq(Byes) /\ stack \in Seq(Idle)
    BY <1>2 DEF Ahead
  <2>2. ASSUME NEW i \in 1 .. Len(effects) PROVE ~Tells(effects[i])
    <3>1. effects[i] \in Byes
      BY <2>1, <2>2, ElementOfSeq
    <3>2. QED BY <3>1 DEF Byes, Tells
  <2>3. ASSUME NEW i \in 1 .. Len(stack) PROVE ~Active(stack[i])
    <3>1. stack[i] \in Idle
      BY <2>1, <2>3, ElementOfSeq
    <3>2. QED BY <3>1 DEF Idle
  <2>4. QED BY <2>2, <2>3
<1>3. ASSUME NEW i \in 1 .. Len(effects) PROVE Holds(effects[i], mem)
  <2>1. effects[i] \in Messages(mem)
    BY <1>3, ElementOfSeq DEF Ahead
  <2>2. QED BY <2>1 DEF Messages
<1>4. ASSUME NEW i \in 1 .. Len(run) PROVE Holds(run[i], disk)
  <2>1. run[i] \in Messages(disk)
    BY <1>4, ElementOfSeq DEF Ahead
  <2>2. QED BY <2>1 DEF Messages
<1>5. ASSUME NEW i \in 1 .. Len(stack) PROVE FrameHolds(stack[i])
  <2>1. stack[i] \in Frames(mem)
    BY <1>5, ElementOfSeq DEF Ahead
  <2>2. QED BY <2>1 DEF Frames, FrameHolds
<1>6. QED BY <1>1, <1>2, <1>3, <1>4, <1>5 DEF Pipeline

\* Why what is heard is stored: what is pending leads from the storage to the
\* memory, and what is held back waits for nothing that is not pending or stored
\* (store.js:229-300).
THEOREM PipelineLeads == ASSUME "observe" \notin Uses PROVE Spec => []Pipeline
<1>1. Init => TypeOK /\ Ahead
  BY TypeInit, AheadInit
<1>2. TypeOK /\ Ahead /\ [Next]_vars => (TypeOK /\ Ahead)'
  BY TypeStep, AheadStep
<1>3. TypeOK /\ Ahead => Pipeline
  BY AheadIsPipeline
<1>4. QED BY <1>1, <1>2, <1>3, PTL DEF Spec

-----------------------------------------------------------------------------
(* No op lands twice.  DecidedOnce is not inductive: it says nothing of    *)
(* the memory, nor that an op in a history was decided.  The invariant     *)
(* says both, of every image there is.                                     *)

InLine(im, x) ==
  \/ x[1] = Server /\ x[2] <= Len(im.log)
  \/ x[1] \in Peers /\ x[2] <= im.seq[x[1]]

SoundImages ==
  {im \in Image : /\ Once(im.log)
                  /\ \A i \in 1 .. Len(im.log) : InLine(im, im.log[i])}

Sound == disk \in SoundImages /\ mem \in SoundImages /\ changes \in Seq(SoundImages)

\* An op beyond those decided is not in the history, and may be added to it.
LEMMA Added ==
  ASSUME NEW im \in SoundImages, NEW x \in Ops, NEW to \in Image,
         to.log = Append(im.log, x), \A p \in Peers : im.seq[p] <= to.seq[p],
         ~InLine(im, x), InLine(to, x)
  PROVE  to \in SoundImages
<1> DEFINE n == Len(im.log)
<1>1. /\ im \in Image /\ im.log \in Seq(Ops) /\ to.log \in Seq(Ops)
      /\ im.seq \in [Peers -> Nat] /\ to.seq \in [Peers -> Nat]
  BY DEF SoundImages, Image
<1>2. n \in Nat /\ Len(to.log) = n + 1
  BY <1>1, AppendProperties, LenProperties
<1>3. /\ \A i \in 1 .. n : to.log[i] = im.log[i]
      /\ to.log[n + 1] = x
  BY <1>1, AppendProperties
<1>4. \A i \in 1 .. n + 1 : i \in 1 .. n \/ i = n + 1
  BY <1>2
<1>5. ASSUME NEW i \in 1 .. n PROVE InLine(to, im.log[i]) /\ im.log[i] # x
  <2>1. InLine(im, im.log[i]) /\ im.log[i] \in Ops
    BY <1>1, <1>5, ElementOfSeq DEF SoundImages
  <2>2. im.log[i] # x
    BY <2>1
  <2> DEFINE y == im.log[i]
  <2>3. y[2] \in Nat
    BY <2>1 DEF Ops
  <2>4. CASE y[1] = Server /\ y[2] <= n
    <3>1. y[2] <= n + 1
      BY <1>2, <2>3, <2>4
    <3>2. QED BY <1>2, <2>2, <2>4, <3>1 DEF InLine
  <2>5. CASE y[1] \in Peers /\ y[2] <= im.seq[y[1]]
    <3>1. im.seq[y[1]] \in Nat /\ to.seq[y[1]] \in Nat /\ im.seq[y[1]] <= to.seq[y[1]]
      BY <1>1, <2>5
    <3>2. y[2] <= to.seq[y[1]]
      BY <2>3, <2>5, <3>1
    <3>3. QED BY <2>2, <2>5, <3>2 DEF InLine
  <2>6. QED BY <2>1, <2>4, <2>5 DEF InLine
<1>6. \A i \in 1 .. Len(to.log) : InLine(to, to.log[i])
  BY <1>2, <1>3, <1>4, <1>5
<1>7. Once(im.log)
  BY DEF SoundImages
<1>8. Once(to.log)
  <2> SUFFICES ASSUME NEW i \in 1 .. n + 1, NEW j \in 1 .. n + 1, i # j
               PROVE  to.log[i] # to.log[j]
    BY <1>2 DEF Once
  <2>1. CASE i \in 1 .. n /\ j \in 1 .. n
    BY <1>3, <1>7, <2>1 DEF Once
  <2>2. CASE i = n + 1 /\ j \in 1 .. n
    BY <1>3, <1>5, <2>2
  <2>3. CASE i \in 1 .. n /\ j = n + 1
    BY <1>3, <1>5, <2>3
  <2>4. QED BY <1>4, <2>1, <2>2, <2>3
<1>9. QED BY <1>6, <1>8 DEF SoundImages

\* A change of what else is stored leaves a history sound, as long as no op is taken
\* for undecided again.
LEMMA Kept ==
  ASSUME NEW im \in SoundImages, NEW to \in Image,
         to.log = im.log, \A p \in Peers : im.seq[p] <= to.seq[p]
  PROVE  to \in SoundImages
<1>1. /\ im \in Image /\ im.log \in Seq(Ops)
      /\ im.seq \in [Peers -> Nat] /\ to.seq \in [Peers -> Nat]
  BY DEF SoundImages, Image
<1>2. ASSUME NEW i \in 1 .. Len(im.log) PROVE InLine(to, im.log[i])
  <2>1. InLine(im, im.log[i]) /\ im.log[i] \in Ops
    BY <1>1, <1>2, ElementOfSeq DEF SoundImages
  <2> DEFINE y == im.log[i]
  <2>2. CASE y[1] = Server /\ y[2] <= Len(im.log)
    BY <2>2 DEF InLine
  <2>3. CASE y[1] \in Peers /\ y[2] <= im.seq[y[1]]
    <3>1. y[2] \in Nat /\ im.seq[y[1]] \in Nat /\ to.seq[y[1]] \in Nat /\ im.seq[y[1]] <= to.seq[y[1]]
      BY <1>1, <2>1, <2>3 DEF Ops
    <3>2. y[2] <= to.seq[y[1]]
      BY <2>3, <3>1
    <3>3. QED BY <2>3, <3>2 DEF InLine
  <2>4. QED BY <2>1, <2>2, <2>3 DEF InLine
<1>3. QED BY <1>2 DEF SoundImages

LEMMA StoredSound ==
  ASSUME disk \in SoundImages, NEW pend \in Seq(SoundImages), NEW calls, NEW undone,
         Store(pend, calls) \/ StoreFails(pend, undone)
  PROVE  disk' \in SoundImages /\ changes' \in Seq(SoundImages)
<1>1. \A i \in 1 .. Len(pend) : pend[i] \in SoundImages
  BY ElementOfSeq
<1>2. Len(pend) \in Nat /\ (pend # <<>> => Len(pend) \in 1 .. Len(pend))
  BY EmptySeq, LenProperties
<1>3. disk' \in SoundImages
  BY <1>1, <1>2 DEF Store, StoreFails
<1>4. changes' = <<>>
  BY DEF Store, StoreFails
<1>5. QED BY <1>3, <1>4, EmptySeq

LEMMA CommitNowSound ==
  ASSUME Sound, NEW calls, CommitNow(calls)
  PROVE  Sound'
<1>1. mem' = mem
  BY DEF CommitNow
<1>2. QED BY <1>1, StoredSound DEF CommitNow, Sound

LEMMA CommitSound ==
  ASSUME Sound, NEW m \in SoundImages, NEW calls, Commit(m, calls)
  PROVE  Sound'
<1> DEFINE pend == Append(changes, m)
<1>1. pend \in Seq(SoundImages)
  BY AppendProperties DEF Sound
<1>2. mem' = m
  BY DEF Commit
<1>3. CASE Len(pend) < GroupMax
  BY <1>1, <1>2, <1>3 DEF Commit, Sound
<1>4. CASE ~(Len(pend) < GroupMax)
  <2>1. Store(pend, calls) \/ StoreFails(pend, Unwound(calls))
    BY <1>4 DEF Commit
  <2>2. disk' \in SoundImages /\ changes' \in Seq(SoundImages)
    BY <1>1, <2>1, StoredSound DEF Sound
  <2>3. QED BY <1>2, <2>2 DEF Sound
<1>5. QED BY <1>3, <1>4

\* A replica's op is beyond the last decided, whichever call it came by.
LEMMA ApplySound ==
  ASSUME TypeOK, Sound, Apply
  PROVE  Sound'
<1> DEFINE f == Frame
           decided == [mem EXCEPT !.seq[f.p] = f.seq, !.owned = @ \cup {f.p}]
           x == <<f.p, f.seq>>
           to == [decided EXCEPT !.log = Append(@, x)]
<1>1. f \in Calls /\ f.k = "apply"
  BY FrameIn DEF Apply, Top, Frame
<1>2. f.p \in Peers /\ f.seq \in Nat /\ mem \in Image /\ mem \in SoundImages
  BY <1>1, FrameTypes DEF TypeOK, Sound
<1>3. CASE Decided(f)
  BY <1>3 DEF Apply, Sound, store
<1>4. CASE ~Decided(f)
  <2>1. mem.seq[f.p] \in Nat /\ mem.seq[f.p] < f.seq
    <3>1. mem.seq[f.p] \in Nat
      BY <1>2 DEF Image
    <3>2. QED BY <1>2, <1>4, <3>1 DEF Decided
  <2>2. decided \in Image /\ x \in Ops
    BY <1>2 DEF Image, Ops
  <2>3. /\ decided.log = mem.log /\ decided.seq = [mem.seq EXCEPT ![f.p] = f.seq]
        /\ to.log = Append(mem.log, x) /\ to.seq = decided.seq
    BY <1>2 DEF Image
  <2>4. \A p \in Peers : mem.seq[p] <= decided.seq[p]
    <3> SUFFICES ASSUME NEW p \in Peers PROVE mem.seq[p] <= decided.seq[p]
      OBVIOUS
    <3>1. mem.seq[p] \in Nat
      BY <1>2 DEF Image
    <3>2. decided.seq[p] = IF p = f.p THEN f.seq ELSE mem.seq[p]
      BY <1>2, <2>3 DEF Image
    <3>3. QED BY <1>2, <2>1, <3>1, <3>2
  <2>5. to \in Image
    <3>1. Append(mem.log, x) \in Seq(Ops)
      BY <1>2, <2>2, AppendProperties DEF Image
    <3>2. QED BY <2>2, <3>1 DEF Image
  <2>6. f.p # Server
    BY <1>2, StoreAssumption
  <2>7. ~InLine(mem, x)
    <3>1. ~(f.seq <= mem.seq[f.p])
      BY <1>2, <2>1
    <3>2. QED BY <2>6, <3>1 DEF InLine
  <2>8. InLine(to, x)
    <3>1. to.seq[f.p] = f.seq
      BY <1>2, <2>3 DEF Image
    <3>2. QED BY <1>2, <3>1 DEF InLine
  <2>9. to \in SoundImages
    BY <1>2, <2>2, <2>3, <2>4, <2>5, <2>7, <2>8, Added
  <2>10. decided \in SoundImages
    BY <1>2, <2>2, <2>3, <2>4, Kept
  <2>11. CASE f.lands
    <3>1. Landed(to, Applied(f))
      BY <1>4, <2>11 DEF Apply
    <3>2. QED BY <2>9, <3>1, CommitSound DEF Landed
  <2>12. CASE ~f.lands
    <3>1. Commit(decided, Observers \o Applied(f))
      BY <1>4, <2>12 DEF Apply
    <3>2. QED BY <2>10, <3>1, CommitSound
  <2>13. QED BY <2>11, <2>12
<1>5. QED BY <1>3, <1>4

LEMMA ServerWriteSound ==
  ASSUME TypeOK, Sound, ServerWrite
  PROVE  Sound'
<1> DEFINE x == <<Server, version + 1>>
           to == [mem EXCEPT !.log = Append(@, x)]
<1>1. mem \in Image /\ mem \in SoundImages
  BY DEF TypeOK, Sound
<1>2. Len(mem.log) \in Nat /\ x \in Ops
  BY <1>1, LenProperties DEF Image, Ops, version
<1>3. to.log = Append(mem.log, x) /\ to.seq = mem.seq
  BY <1>1 DEF Image
<1>4. to \in Image /\ Len(to.log) = Len(mem.log) + 1
  <2>1. mem.log \in Seq(Ops)
    BY <1>1 DEF Image
  <2>2. Append(mem.log, x) \in Seq(Ops) /\ Len(Append(mem.log, x)) = Len(mem.log) + 1
    BY <1>2, <2>1, AppendProperties
  <2>3. QED BY <1>1, <1>3, <2>2 DEF Image
<1>5. \A p \in Peers : mem.seq[p] <= to.seq[p]
  BY <1>1, <1>3 DEF Image
<1>6. ~InLine(mem, x) /\ InLine(to, x)
  <2>1. x[1] = Server /\ x[2] = Len(mem.log) + 1 /\ Server \notin Peers
    BY StoreAssumption DEF version
  <2>2. ~(x[2] <= Len(mem.log)) /\ x[2] <= Len(to.log)
    BY <1>2, <1>4, <2>1
  <2>3. QED BY <2>1, <2>2 DEF InLine
<1>7. to \in SoundImages
  BY <1>1, <1>2, <1>3, <1>4, <1>5, <1>6, Added
<1>8. Landed(to, stack)
  BY DEF ServerWrite
<1>9. QED BY <1>7, <1>8, CommitSound DEF Landed

LEMMA ClaimSound ==
  ASSUME TypeOK, Sound, Claim
  PROVE  Sound'
<1> DEFINE to == [mem EXCEPT !.owned = @ \cup {Frame.p}]
<1>1. CASE Frame.p \in mem.owned
  BY <1>1 DEF Claim, Sound, store
<1>2. CASE Frame.p \notin mem.owned
  <2>1. Frame \in Calls /\ Frame.k = "claim"
    BY FrameIn DEF Claim, Top, Frame
  <2>2. Frame.p \in Peers /\ mem \in Image /\ mem \in SoundImages
    BY <2>1, FrameTypes DEF TypeOK, Sound
  <2>3. to \in Image /\ to.log = mem.log /\ to.seq = mem.seq
    BY <2>2 DEF Image
  <2>4. \A p \in Peers : mem.seq[p] <= to.seq[p]
    BY <2>2, <2>3 DEF Image
  <2>5. to \in SoundImages
    BY <2>2, <2>3, <2>4, Kept
  <2>6. Commit(to, Tail(stack))
    BY <1>2 DEF Claim
  <2>7. QED BY <2>5, <2>6, CommitSound
<1>3. QED BY <1>1, <1>2

LEMMA SoundStep ==
  ASSUME TypeOK, Sound, [Next]_vars
  PROVE  Sound'
<1>1. CASE UNCHANGED <<disk, mem, changes>>
  BY <1>1 DEF Sound
<1>2. CASE Running
  <2>1. CASE DrainTake \/ RunEffect \/ DrainEnd
    BY <1>1, <2>1 DEF DrainTake, RunEffect, DrainEnd, store
  <2>2. CASE Alive \/ Broadcast \/ Observe \/ HookReturns \/ Ack \/ Answer
    BY <1>1, <2>2 DEF Alive, Broadcast, Observe, HookReturns, Ack, Answer, store
  <2>3. CASE Open \/ Evict \/ Reject \/ Dispose \/ Fetch
    BY <1>1, <2>3 DEF Open, Evict, Reject, Dispose, Fetch, store
  <2>4. QED
    BY <1>2, <2>1, <2>2, <2>3, ApplySound, ClaimSound DEF Running
<1>3. CASE Calling
  <2>1. ASSUME NEW p \in Peers, Connect(p) PROVE Sound'
    BY <2>1, CommitNowSound DEF Connect
  <2>2. ASSUME NEW n \in open, Leave(n) \/ Hello(n) \/ LiveOp(n) PROVE Sound'
    BY <1>1, <2>2 DEF Leave, Hello, LiveOp, Begin, store
  <2>3. ASSUME NEW n \in open, HelloRejected(n) \/ CallEvict(n) PROVE Sound'
    BY <2>3, CommitNowSound DEF HelloRejected, CallEvict
  <2>4. CASE CallFlush \/ CallDispose \/ CallFetch
    BY <2>4, CommitNowSound DEF CallFlush, CallDispose, CallFetch
  <2>5. QED BY <1>3, <2>1, <2>2, <2>3, <2>4, ServerWriteSound DEF Calling
<1>4. CASE Turn
  BY <1>4, CommitNowSound DEF Turn
<1>5. CASE Crash \/ Load
  <2>1. disk' = disk /\ mem' = disk /\ changes' = <<>>
    BY <1>5 DEF Crash, Load
  <2>2. QED BY <2>1, EmptySeq DEF Sound
<1>6. CASE UNCHANGED vars
  BY <1>1, <1>6 DEF vars, store
<1>7. QED BY <1>2, <1>3, <1>4, <1>5, <1>6 DEF Next

LEMMA SoundInit == Init => Sound
<1> SUFFICES ASSUME Init PROVE Sound
  OBVIOUS
<1>1. Blank \in Image /\ Blank.log = <<>> /\ Len(<<>>) = 0
  BY EmptySeq DEF Blank, Image
<1>2. Blank \in SoundImages
  BY <1>1 DEF SoundImages, Once
<1>3. QED BY <1>2, EmptySeq DEF Init, Sound

\* However often an op is resent, and whatever fails, crashes or is called from
\* within an observer, it is in the storage at most once (store.js:595).
THEOREM LandsOnce == Spec => []DecidedOnce
<1>1. Init => TypeOK /\ Sound
  BY TypeInit, SoundInit
<1>2. TypeOK /\ Sound /\ [Next]_vars => (TypeOK /\ Sound)'
  BY TypeStep, SoundStep
<1>3. Sound => DecidedOnce
  BY DEF Sound, SoundImages, DecidedOnce
<1>4. QED BY <1>1, <1>2, <1>3, PTL DEF Spec

-----------------------------------------------------------------------------
(* The store implements DurableStore: a step stores, or tells, or neither  *)
(* is seen.  That a step keeps HeardIsStored and DecidedOnce says most of  *)
(* it; what is left is that neither what is stored nor what a replica was  *)
(* told ever shrinks, and that no step does both.                          *)

Storing == Precedes(disk, disk') /\ UNCHANGED <<heard, acked>>
Telling == disk' = disk /\ \A p \in Peers : acked[p] <= acked'[p]

LEMMA StoredGrows ==
  ASSUME disk \in Image, NEW pend \in Seq(Image), NEW calls, NEW undone,
         \A i \in 1 .. Len(pend) : Precedes(disk, pend[i]),
         Store(pend, calls) \/ StoreFails(pend, undone)
  PROVE  Storing
<1>1. Len(pend) \in Nat /\ (pend # <<>> => Len(pend) \in 1 .. Len(pend))
  BY EmptySeq, LenProperties
<1>2. disk' = disk \/ \E i \in 1 .. Len(pend) : disk' = pend[i]
  BY <1>1 DEF Store, StoreFails
<1>3. Precedes(disk, disk')
  BY <1>2, PrecedesRefl
<1>4. UNCHANGED <<heard, acked>>
  BY DEF Store, StoreFails, outside
<1>5. QED BY <1>3, <1>4 DEF Storing

LEMMA CommitNowStores ==
  ASSUME TypeOK, Ahead, NEW calls, CommitNow(calls)
  PROVE  Storing
BY StoredGrows DEF CommitNow, TypeOK, Ahead, Leads

LEMMA CommitStores ==
  ASSUME TypeOK, Ahead, NEW m \in Image, Precedes(mem, m), NEW calls, Commit(m, calls)
  PROVE  Storing
<1> DEFINE pend == Append(changes, m)
<1>1. disk \in Image /\ mem \in Image /\ changes \in Seq(Image)
  BY DEF TypeOK
<1>2. pend \in Seq(Image)
  BY <1>1, AppendProperties
<1>3. Precedes(disk, m)
  BY <1>1, PrecedesTrans DEF Ahead
<1>4. \A i \in 1 .. Len(pend) : Precedes(disk, pend[i])
  BY <1>1, <1>3, InAppend DEF Ahead, Leads
<1>5. CASE Len(pend) < GroupMax
  BY <1>1, <1>5, PrecedesRefl DEF Commit, Storing, outside
<1>6. CASE ~(Len(pend) < GroupMax)
  BY <1>1, <1>2, <1>4, <1>6, StoredGrows DEF Commit
<1>7. QED BY <1>5, <1>6

\* What an op, a claim or the server's write makes comes after what memory holds.
LEMMA Follows ==
  ASSUME NEW im \in Image, NEW to \in Image,
         to.log = im.log \/ \E x \in Ops : to.log = Append(im.log, x),
         \A p \in Peers : im.seq[p] <= to.seq[p], im.owned \subseteq to.owned
  PROVE  Precedes(im, to)
<1>1. im.log \in Seq(Ops)
  BY DEF Image
<1>2. Before(im.log, to.log)
  BY <1>1, BeforeAppend, PrecedesRefl DEF Precedes
<1>3. QED BY <1>2 DEF Precedes

LEMMA ApplyStores ==
  ASSUME TypeOK, Ahead, Apply
  PROVE  Storing
<1> DEFINE f == Frame
           decided == [mem EXCEPT !.seq[f.p] = f.seq, !.owned = @ \cup {f.p}]
           x == <<f.p, f.seq>>
           to == [decided EXCEPT !.log = Append(@, x)]
<1>1. f \in Calls /\ f.k = "apply"
  BY FrameIn DEF Apply, Top, Frame
<1>2. f.p \in Peers /\ f.seq \in Nat /\ mem \in Image /\ disk \in Image
  BY <1>1, FrameTypes DEF TypeOK
<1>3. CASE Decided(f)
  BY <1>2, <1>3, PrecedesRefl DEF Apply, Storing, store, outside
<1>4. CASE ~Decided(f)
  <2>1. decided \in Image /\ x \in Ops /\ decided.log = mem.log /\ mem.log \in Seq(Ops)
        /\ decided.seq = [mem.seq EXCEPT ![f.p] = f.seq] /\ mem.owned \subseteq decided.owned
    BY <1>2 DEF Image, Ops
  <2>2. \A p \in Peers : mem.seq[p] <= decided.seq[p]
    <3> SUFFICES ASSUME NEW p \in Peers PROVE mem.seq[p] <= decided.seq[p]
      OBVIOUS
    <3>1. mem.seq[p] \in Nat /\ mem.seq[f.p] \in Nat /\ ~(f.seq <= mem.seq[f.p])
      BY <1>2, <1>4 DEF Image, Decided
    <3>2. decided.seq[p] = IF p = f.p THEN f.seq ELSE mem.seq[p]
      BY <1>2, <2>1 DEF Image
    <3>3. QED BY <1>2, <3>1, <3>2
  <2>3. Append(mem.log, x) \in Seq(Ops)
    BY <2>1, AppendProperties
  <2>4. to \in Image /\ to.log = Append(mem.log, x) /\ to.seq = decided.seq /\ to.owned = decided.owned
    BY <1>2, <2>3 DEF Image
  <2>5. Precedes(mem, decided)
    BY <1>2, <2>1, <2>2, Follows
  <2>6. Precedes(mem, to)
    BY <1>2, <2>1, <2>2, <2>4, Follows
  <2>7. CASE f.lands
    <3>1. Landed(to, Applied(f))
      BY <1>4, <2>7 DEF Apply
    <3>2. QED BY <2>4, <2>6, <3>1, CommitStores DEF Landed
  <2>8. CASE ~f.lands
    <3>1. Commit(decided, Observers \o Applied(f))
      BY <1>4, <2>8 DEF Apply
    <3>2. QED BY <2>1, <2>5, <3>1, CommitStores
  <2>9. QED BY <2>7, <2>8
<1>5. QED BY <1>3, <1>4

LEMMA ClaimStores ==
  ASSUME TypeOK, Ahead, Claim
  PROVE  Storing
<1> DEFINE to == [mem EXCEPT !.owned = @ \cup {Frame.p}]
<1>1. Frame \in Calls /\ Frame.k = "claim"
  BY FrameIn DEF Claim, Top, Frame
<1>2. Frame.p \in Peers /\ mem \in Image /\ disk \in Image
  BY <1>1, FrameTypes DEF TypeOK
<1>3. CASE Frame.p \in mem.owned
  BY <1>2, <1>3, PrecedesRefl DEF Claim, Storing, store, outside
<1>4. CASE Frame.p \notin mem.owned
  <2>1. to \in Image /\ to.log = mem.log /\ to.seq = mem.seq /\ mem.owned \subseteq to.owned
    BY <1>2 DEF Image
  <2>2. \A p \in Peers : mem.seq[p] <= to.seq[p]
    BY <1>2, <2>1 DEF Image
  <2>3. Precedes(mem, to)
    BY <1>2, <2>1, <2>2, Follows
  <2>4. Commit(to, Tail(stack))
    BY <1>4 DEF Claim
  <2>5. QED BY <2>1, <2>3, <2>4, CommitStores
<1>5. QED BY <1>3, <1>4

LEMMA ServerWriteStores ==
  ASSUME TypeOK, Ahead, ServerWrite
  PROVE  Storing
<1> DEFINE x == <<Server, version + 1>>
           to == [mem EXCEPT !.log = Append(@, x)]
<1>1. mem \in Image /\ mem.log \in Seq(Ops)
  BY DEF TypeOK, Image
<1>2. x \in Ops
  BY <1>1, LenProperties DEF Ops, version
<1>3. Append(mem.log, x) \in Seq(Ops)
  BY <1>1, <1>2, AppendProperties
<1>4. to \in Image /\ to.log = Append(mem.log, x) /\ to.seq = mem.seq /\ to.owned = mem.owned
  BY <1>1, <1>3 DEF Image
<1>5. \A p \in Peers : mem.seq[p] <= to.seq[p]
  BY <1>1, <1>4 DEF Image
<1>6. Precedes(mem, to)
  BY <1>1, <1>2, <1>4, <1>5, Follows
<1>7. Landed(to, stack)
  BY DEF ServerWrite
<1>8. QED BY <1>4, <1>6, <1>7, CommitStores DEF Landed

\* Being told of an op decided never takes back a later one.
LEMMA DeliverGrows ==
  ASSUME TypeOK, NEW e, e.t \in {"ack", "answer"} => e.p \in Peers /\ e.seq \in Nat,
         Deliver(e), disk' = disk
  PROVE  Telling
<1> SUFFICES ASSUME NEW p \in Peers PROVE acked[p] <= acked'[p]
  BY DEF Telling
<1>1. acked[p] \in Nat /\ acked \in [Peers -> Nat]
  BY DEF TypeOK
<1>2. CASE e.t \in {"ack", "answer"}
  <2>1. acked' = [acked EXCEPT ![e.p] = Larger(@, e.seq)] /\ e.p \in Peers /\ e.seq \in Nat
    BY <1>2 DEF Deliver
  <2>2. acked'[p] = IF p = e.p THEN Larger(acked[p], e.seq) ELSE acked[p]
    BY <1>1, <2>1
  <2>3. QED BY <1>1, <2>1, <2>2 DEF Larger
<1>3. CASE e.t \notin {"ack", "answer"}
  BY <1>1, <1>3 DEF Deliver
<1>4. QED BY <1>2, <1>3

LEMMA SameTells == ASSUME TypeOK, UNCHANGED <<disk, acked>> PROVE Telling
<1>1. \A p \in Peers : acked[p] \in Nat
  BY DEF TypeOK
<1>2. QED BY <1>1 DEF Telling

LEMMA SendGrows ==
  ASSUME TypeOK, NEW e, e.t \in {"ack", "answer"} => e.p \in Peers /\ e.seq \in Nat,
         Send(e), disk' = disk
  PROVE  Telling
BY SameTells, DeliverGrows DEF Send, outside

LEMMA RunningGrows ==
  ASSUME TypeOK, Ahead, Running
  PROVE  Storing \/ Telling
<1>1. CASE DrainTake \/ DrainEnd
  BY <1>1, SameTells DEF DrainTake, DrainEnd, store, outside
<1>2. CASE RunEffect
  <2>1. Head(run) \in Message
    BY <1>2, InTail DEF RunEffect, TypeOK
  <2>2. UNCHANGED disk /\ (Deliver(Head(run)) \/ UNCHANGED outside)
    BY <1>2 DEF RunEffect, store
  <2>3. QED BY <2>1, <2>2, MessageTypes, DeliverGrows, SameTells DEF outside
<1>3. CASE Alive \/ Observe \/ HookReturns \/ Open \/ Fetch
  BY <1>3, SameTells DEF Alive, Observe, HookReturns, Open, Fetch, store, outside
<1>4. CASE Broadcast
  <2> DEFINE e == [t |-> "patch", log |-> Frame.log, upTo |-> Len(conn)]
  <2>1. disk' = disk /\ (UNCHANGED outside \/ Send(e))
    BY <1>4 DEF Broadcast, store
  <2>2. e.t = "patch"
    OBVIOUS
  <2>3. QED BY <2>1, <2>2, SendGrows, SameTells DEF outside
<1>5. CASE Ack
  <2> DEFINE e == [t |-> "ack", n |-> Frame.n, p |-> Frame.p, seq |-> Frame.seq, log |-> mem.log]
  <2>1. Frame \in Calls /\ Frame.k = "ack"
    BY <1>5, FrameIn DEF Ack, Top, Frame
  <2>2. e.p \in Peers /\ e.seq \in Nat
    BY <2>1, FrameTypes
  <2>3. disk' = disk /\ Send(e)
    BY <1>5 DEF Ack, store
  <2>4. QED BY <2>2, <2>3, SendGrows
<1>6. CASE Answer
  <2> DEFINE e == [t |-> "answer", n |-> Frame.n, p |-> Frame.p, seq |-> mem.seq[Frame.p], log |-> mem.log]
  <2>1. Frame \in Calls /\ Frame.k = "answer"
    BY <1>6, FrameIn DEF Answer, Top, Frame
  <2>2. e.p \in Peers /\ e.seq \in Nat
    BY <2>1, FrameTypes DEF TypeOK, Image
  <2>3. disk' = disk /\ Send(e)
    BY <1>6 DEF Answer, store
  <2>4. QED BY <2>2, <2>3, SendGrows
<1>7. CASE Evict \/ Reject \/ Dispose
  BY <1>7, SameTells DEF Evict, Reject, Dispose, End, store, outside
<1>8. QED
  BY <1>1, <1>2, <1>3, <1>4, <1>5, <1>6, <1>7, ApplyStores, ClaimStores DEF Running

LEMMA CallingGrows ==
  ASSUME TypeOK, Ahead, Calling
  PROVE  Storing \/ Telling
<1>1. ASSUME NEW p \in Peers, Connect(p) PROVE Storing
  BY <1>1, CommitNowStores DEF Connect
<1>2. ASSUME NEW n \in open, Leave(n) \/ Hello(n) \/ LiveOp(n) PROVE Telling
  BY <1>2, SameTells DEF Leave, Hello, LiveOp, Begin, store, outside
<1>3. ASSUME NEW n \in open, HelloRejected(n) \/ CallEvict(n) PROVE Storing
  BY <1>3, CommitNowStores DEF HelloRejected, CallEvict
<1>4. CASE CallFlush \/ CallDispose \/ CallFetch
  BY <1>4, CommitNowStores DEF CallFlush, CallDispose, CallFetch
<1>5. QED BY <1>1, <1>2, <1>3, <1>4, ServerWriteStores DEF Calling

LEMMA StepGrows ==
  ASSUME TypeOK, Ahead, [Next]_vars
  PROVE  Storing \/ Telling
<1>1. CASE Turn
  BY <1>1, CommitNowStores DEF Turn
<1>2. CASE Crash \/ Load \/ UNCHANGED vars
  BY <1>2, SameTells DEF Crash, Load, vars, store, outside
<1>3. QED BY <1>1, <1>2, RunningGrows, CallingGrows DEF Next

\* DurableStore has histories of its own, which are these.
LEMMA SameHistories ==
  /\ Promise!Blank = Blank /\ Promise!Ops = Ops /\ Promise!Image = Image
  /\ \A a, b : Promise!Before(a, b) <=> Before(a, b)
  /\ \A a, b : Promise!Precedes(a, b) <=> Precedes(a, b)
  /\ \A a : Promise!Once(a) <=> Once(a)
<1>1. Promise!Blank = Blank
  BY DEF Promise!Blank, Blank
<1>2. Promise!Ops = Ops
  BY DEF Promise!Ops, Ops
<1>3. Promise!Image = Image
  BY <1>2 DEF Promise!Image, Image
<1>4. \A a, b : Promise!Before(a, b) <=> Before(a, b)
  BY DEF Promise!Before, Before
<1>5. \A a, b : Promise!Precedes(a, b) <=> Precedes(a, b)
  BY <1>4 DEF Promise!Precedes, Precedes
<1>6. \A a : Promise!Once(a) <=> Once(a)
  BY DEF Promise!Once, Once
<1>7. QED BY <1>1, <1>2, <1>3, <1>4, <1>5, <1>6

LEMMA DurableStep ==
  ASSUME TypeOK, Ahead, [Next]_vars, TypeOK', Ahead', Sound'
  PROVE  [Promise!Store \/ Promise!Tell]_<<disk, heard, acked>>
<1>1. CASE Storing
  <2>1. disk' \in Image /\ Once(disk'.log)
    BY DEF Sound, SoundImages
  <2>2. QED BY <1>1, <2>1, SameHistories DEF Storing, Promise!Store
<1>2. CASE Telling
  <2>1. heard' \in Seq(Ops) /\ acked' \in [Peers -> Nat]
    BY DEF TypeOK
  <2>2. Before(heard', disk'.log) /\ \A p \in Peers : acked'[p] <= disk'.seq[p]
    BY DEF Ahead, HeardIsStored
  <2>3. QED BY <1>2, <2>1, <2>2, SameHistories DEF Telling, Promise!Tell
<1>3. QED BY <1>1, <1>2, StepGrows

\* With no op observer to call back, the store implements its promise: what is stored
\* only grows, no op lands in it twice, and whatever a client is told is stored already
\* (store.js:29-34).
THEOREM Promised == ASSUME "observe" \notin Uses PROVE Spec => Durable
<1>1. Init => TypeOK /\ Ahead /\ Sound
  BY TypeInit, AheadInit, SoundInit
<1>2. TypeOK /\ Ahead /\ Sound /\ [Next]_vars => (TypeOK /\ Ahead /\ Sound)'
  BY TypeStep, AheadStep, SoundStep
<1>3. Init => Promise!Init
  BY SameHistories DEF Init, Promise!Init
<1>4. TypeOK /\ Ahead /\ [Next]_vars /\ (TypeOK /\ Ahead /\ Sound)'
        => [Promise!Store \/ Promise!Tell]_<<disk, heard, acked>>
  BY DurableStep
<1>5. QED BY <1>1, <1>2, <1>3, <1>4, PTL DEF Spec, Durable, Promise!Spec

-----------------------------------------------------------------------------
(* Nothing is held back for good.                                          *)

Draining(s) == \E i \in 1 .. Len(s) : s[i].k = "drain"

\* With the store live, what is pending has a commit scheduled, or a loop under way
\* that sends it and looks for more before it ends.
Awaited ==
  status = "live" => armed \/ Draining(stack) \/ (changes = <<>> /\ effects = <<>>)

LEMMA DrainingIs == ASSUME TypeOK PROVE draining <=> Draining(stack)
BY LenProperties DEF draining, Draining, TypeOK

LEMMA DrainsUnder ==
  ASSUME NEW s \in Seq(Calls), NEW t \in Seq(Calls), Draining(t)
  PROVE  Draining(s \o t)
<1>1. PICK i \in 1 .. Len(t) : t[i].k = "drain"
  BY DEF Draining
<1>2. Len(s) \in Nat /\ Len(t) \in Nat /\ Len(s \o t) = Len(s) + Len(t)
  BY ConcatProperties, LenProperties
<1>3. Len(s) + i \in 1 .. Len(s \o t) /\ (s \o t)[Len(s) + i] = t[i]
  BY <1>2, ConcatProperties
<1>4. QED BY <1>1, <1>3 DEF Draining

\* The loop goes on when another call ends.
LEMMA DrainsAfter ==
  ASSUME TypeOK, stack # <<>>, Head(stack).k # "drain", Draining(stack)
  PROVE  Draining(Tail(stack))
<1>1. PICK i \in 1 .. Len(stack) : stack[i].k = "drain"
  BY DEF Draining
<1>2. Head(stack) = stack[1]
  BY DEF TypeOK
<1>3. /\ i - 1 \in 1 .. Len(Tail(stack)) /\ Tail(stack)[i - 1] = stack[i]
  BY <1>1, <1>2, HeadTailProperties, LenProperties DEF TypeOK
<1>4. QED BY <1>1, <1>3 DEF Draining

\* A commit leaves nothing to store, and a loop that sends, or no store.
LEMMA StoredAwaited ==
  ASSUME TypeOK, NEW pend \in Seq(Image), NEW calls \in Seq(Calls), NEW undone,
         Draining(stack) => Draining(calls),
         Store(pend, calls) \/ StoreFails(pend, undone)
  PROVE  Awaited'
<1>1. CASE Store(pend, calls)
  <2>1. CASE Draining(stack)
    <3>1. stack' = calls
      BY <1>1, <2>1, DrainingIs, ConcatProperties DEF Store
    <3>2. QED BY <2>1, <3>1 DEF Awaited
  <2>2. CASE ~Draining(stack)
    <3>1. stack' = <<[k |-> "drain"]>> \o calls
      BY <1>1, <2>2, DrainingIs DEF Store
    <3>2. Len(stack') = 1 + Len(calls) /\ Len(calls) \in Nat /\ stack'[1] = [k |-> "drain"]
      BY <3>1, ConcatProperties, LenProperties
    <3>3. 1 \in 1 .. Len(stack') /\ stack'[1].k = "drain"
      BY <3>2
    <3>4. QED BY <3>3 DEF Awaited, Draining
  <2>3. QED BY <2>1, <2>2
<1>2. CASE StoreFails(pend, undone)
  BY <1>2 DEF StoreFails, Awaited
<1>3. QED BY <1>1, <1>2

LEMMA CommitNowAwaited ==
  ASSUME TypeOK, NEW calls \in Seq(Calls), Draining(stack) => Draining(calls), CommitNow(calls)
  PROVE  Awaited'
BY StoredAwaited DEF CommitNow, TypeOK

LEMMA CommitAwaited ==
  ASSUME TypeOK, NEW m \in Image, NEW calls \in Seq(Calls),
         Draining(stack) => Draining(calls), Commit(m, calls)
  PROVE  Awaited'
<1>1. Append(changes, m) \in Seq(Image)
  BY AppendProperties DEF TypeOK
<1>2. CASE Len(Append(changes, m)) < GroupMax
  BY <1>2 DEF Commit, Scheduled, Awaited
<1>3. CASE ~(Len(Append(changes, m)) < GroupMax)
  BY <1>1, <1>3, StoredAwaited DEF Commit
<1>4. QED BY <1>2, <1>3

\* A step that neither stores nor ends the loop, and holds nothing back but where
\* something is pending.
LEMMA QuietAwaited ==
  ASSUME TypeOK, Awaited, UNCHANGED <<changes, armed>>, status' = "live" => status = "live",
         effects' = effects \/ pending, Draining(stack) => Draining(stack')
  PROVE  Awaited'
BY DrainingIs DEF Awaited, pending

LEMMA LandedAwaited ==
  ASSUME TypeOK, NEW m \in Image, NEW calls \in Seq(Calls),
         Draining(stack) => Draining(calls), Landed(m, calls)
  PROVE  Awaited'
<1>0. [k |-> "broadcast", log |-> m.log] \in Calls /\ [k |-> "observe"] \in Calls
  BY DEF Calls, Image
<1>1. <<[k |-> "broadcast", log |-> m.log]>> \in Seq(Calls) /\ Observers \in Seq(Calls)
  BY <1>0 DEF Observers
<1>2. /\ Observers \o calls \in Seq(Calls)
      /\ <<[k |-> "broadcast", log |-> m.log]>> \o Observers \o calls \in Seq(Calls)
      /\ <<[k |-> "broadcast", log |-> m.log]>> \o Observers \in Seq(Calls)
      /\ (<<[k |-> "broadcast", log |-> m.log]>> \o Observers) \o calls
           = <<[k |-> "broadcast", log |-> m.log]>> \o Observers \o calls
  BY <1>1, ConcatProperties
<1>3. Draining(calls) => Draining(<<[k |-> "broadcast", log |-> m.log]>> \o Observers \o calls)
  BY <1>2, DrainsUnder
<1>4. QED BY <1>2, <1>3, CommitAwaited DEF Landed

\* Nothing of the loop is in what a call puts before the rest of the stack.
LEMMA RunningAwaited ==
  ASSUME TypeOK, Awaited, Running
  PROVE  Awaited'
<1>0. stack # <<>> /\ stack \in Seq(Calls)
  BY DEF Running, Top, DrainTake, RunEffect, DrainEnd, Claim, Alive, Apply, Broadcast, Observe,
         HookReturns, Ack, Answer, Open, Evict, Reject, Dispose, Fetch, TypeOK
<1>a. Frame \in Calls /\ Tail(stack) \in Seq(Calls)
  BY <1>0, FrameIn
<1>b. ASSUME Head(stack).k # "drain", Draining(stack) PROVE Draining(Tail(stack))
  BY <1>0, <1>b, DrainsAfter
<1>c. ASSUME Head(stack).k # "drain", Done, UNCHANGED <<changes, armed, status>>,
             effects' = effects \/ pending
      PROVE  Awaited'
  BY <1>b, <1>c, QuietAwaited DEF Done
<1>1. CASE DrainTake
  <2>1. Draining(stack)
    BY <1>0, <1>1, InTail DEF DrainTake, Top, Draining
  <2>2. QED BY <1>1, <2>1 DEF DrainTake, Awaited
<1>2. CASE RunEffect
  <2>1. Draining(stack) /\ [k |-> "hook"] \in Calls
    BY <1>0, <1>2, InTail DEF RunEffect, Top, Draining, Calls
  <2>2. <<[k |-> "hook"]>> \in Seq(Calls)
    BY <2>1
  <2>3. Draining(stack')
    BY <1>0, <1>2, <2>1, <2>2, DrainsUnder DEF RunEffect
  <2>4. QED BY <2>3 DEF Awaited
<1>3. CASE DrainEnd
  BY <1>3 DEF DrainEnd, Awaited
<1>4. CASE Claim
  <2>1. Frame.p \in Peers
    BY <1>0, <1>4, <1>a, FrameTypes DEF Claim, Top, Frame
  <2>2. [mem EXCEPT !.owned = @ \cup {Frame.p}] \in Image
    BY <2>1 DEF Image, TypeOK
  <2>3. CASE Frame.p \in mem.owned
    BY <1>4, <2>3, <1>c DEF Claim, Top, store
  <2>4. CASE Frame.p \notin mem.owned
    BY <1>4, <1>a, <1>b, <2>2, <2>4, CommitAwaited DEF Claim, Top
  <2>5. QED BY <2>3, <2>4
<1>5. CASE Alive
  <2>1. CASE status = "live"
    BY <1>5, <2>1, <1>c DEF Alive, Top, store, Done
  <2>2. CASE status # "live"
    BY <1>5, <2>2 DEF Alive, store, Awaited
  <2>3. QED BY <2>1, <2>2
<1>6. CASE Apply
  <2> DEFINE f == Frame
             decided == [mem EXCEPT !.seq[f.p] = f.seq, !.owned = @ \cup {f.p}]
             landed == [decided EXCEPT !.log = Append(@, <<f.p, f.seq>>)]
  <2>1. f \in Calls /\ f.p \in Peers /\ f.seq \in Nat /\ f.ackTo \in Nat /\ Head(stack).k # "drain"
    BY <1>0, <1>6, <1>a, FrameTypes DEF Apply, Top, Frame
  <2>2. Applied(f) \in Seq(Calls) /\ (Draining(stack) => Draining(Applied(f)))
    <3>1. [k |-> "ack", n |-> f.ackTo, p |-> f.p, seq |-> f.seq] \in Calls
      BY <2>1 DEF Calls
    <3>2. <<[k |-> "ack", n |-> f.ackTo, p |-> f.p, seq |-> f.seq]>> \in Seq(Calls)
      BY <3>1
    <3>3. CASE f.ackTo = 0
      <4>1. Applied(f) = Tail(stack)
        BY <1>a, <3>3, ConcatProperties DEF Applied
      <4>2. QED BY <4>1, <1>a, <1>b, <2>1
    <3>4. CASE f.ackTo # 0
      <4>1. Applied(f) = <<[k |-> "ack", n |-> f.ackTo, p |-> f.p, seq |-> f.seq]>> \o Tail(stack)
        BY <3>4 DEF Applied
      <4>2. Applied(f) \in Seq(Calls)
        BY <1>a, <3>2, <4>1, ConcatProperties
      <4>3. QED BY <1>a, <1>b, <2>1, <3>2, <4>1, <4>2, DrainsUnder
    <3>5. QED BY <3>3, <3>4
  <2>3. decided \in Image
    BY <2>1 DEF Image, TypeOK
  <2>4. landed \in Image
    <3>1. Append(mem.log, <<f.p, f.seq>>) \in Seq(Ops)
      BY <2>1, AppendProperties DEF Image, Ops, TypeOK
    <3>2. QED BY <2>3, <3>1 DEF Image, TypeOK
  <2>5. CASE Decided(f)
    BY <1>6, <2>2, <2>5, QuietAwaited DEF Apply, store
  <2>6. CASE ~Decided(f) /\ f.lands
    <3>1. Landed(landed, Applied(f))
      BY <1>6, <2>6 DEF Apply
    <3>2. QED BY <2>2, <2>4, <3>1, LandedAwaited
  <2>7. CASE ~Decided(f) /\ ~f.lands
    <3>1. [k |-> "observe"] \in Calls
      BY DEF Calls
    <3>2. Observers \in Seq(Calls)
      BY <3>1 DEF Observers
    <3>3. /\ Observers \o Applied(f) \in Seq(Calls)
          /\ Draining(Applied(f)) => Draining(Observers \o Applied(f))
      BY <2>2, <3>2, ConcatProperties, DrainsUnder
    <3>4. Commit(decided, Observers \o Applied(f))
      BY <1>6, <2>7 DEF Apply
    <3>5. QED BY <2>2, <2>3, <3>3, <3>4, CommitAwaited
  <2>8. QED BY <2>5, <2>6, <2>7
<1>7. CASE Broadcast
  <2>1. effects' = effects \/ pending
    BY <1>7 DEF Broadcast, Send
  <2>2. QED BY <1>7, <2>1, <1>c DEF Broadcast, Top, store
<1>8. CASE Observe
  <2>1. CASE pending
    BY <1>8, <2>1, <1>c DEF Observe, Top, store
  <2>2. CASE ~pending
    BY <1>8, <2>2, <1>0, DrainingIs DEF Observe, store, Awaited, pending
  <2>3. QED BY <2>1, <2>2
<1>9. CASE HookReturns
  BY <1>9, <1>c DEF HookReturns, Top, store
<1>10. CASE Ack
  BY <1>10, <1>c DEF Ack, Top, store, Send
<1>11. CASE Answer
  BY <1>11, <1>c DEF Answer, Top, store, Send
<1>12. CASE Open
  BY <1>12, <1>c DEF Open, Top, store
<1>13. CASE Evict
  BY <1>13, <1>c DEF Evict, Top, store, End
<1>14. CASE Reject
  BY <1>14, <1>c DEF Reject, Top, store, End
<1>15. CASE Dispose
  <2>1. status' # "live"
    BY <1>15 DEF Dispose
  <2>2. QED BY <2>1 DEF Awaited
<1>16. CASE Fetch
  BY <1>16, <1>c DEF Fetch, Top, store
<1>17. QED
  BY <1>1, <1>2, <1>3, <1>4, <1>5, <1>6, <1>7, <1>8, <1>9, <1>10, <1>11, <1>12,
     <1>13, <1>14, <1>15, <1>16 DEF Running

LEMMA CallingAwaited ==
  ASSUME TypeOK, Awaited, Calling
  PROVE  Awaited'
<1>0. stack \in Seq(Calls)
  BY DEF TypeOK
<1>1. ASSUME NEW f \in Calls, CommitNow(<<f>> \o stack) PROVE Awaited'
  <2>1. <<f>> \in Seq(Calls)
    OBVIOUS
  <2>2. <<f>> \o stack \in Seq(Calls) /\ (Draining(stack) => Draining(<<f>> \o stack))
    BY <1>0, <2>1, ConcatProperties, DrainsUnder
  <2>3. QED BY <1>1, <2>2, CommitNowAwaited
<1>2. ASSUME NEW f \in Calls, stack = <<>>, CommitNow(<<f>>) PROVE Awaited'
  <2>1. ~Draining(stack) /\ <<f>> \in Seq(Calls)
    BY <1>2 DEF Draining
  <2>2. QED BY <1>2, <2>1, CommitNowAwaited
<1>3. ASSUME NEW calls, stack = <<>>, Begin(calls) PROVE Awaited'
  <2>1. ~Draining(stack)
    BY <1>3 DEF Draining
  <2>2. QED BY <1>3, <2>1, QuietAwaited DEF Begin, store
<1>4. ASSUME NEW n \in open PROVE n \in Nat
  BY <1>4, LenProperties DEF TypeOK
<1>5. ASSUME NEW p \in Peers, Connect(p) PROVE Awaited'
  <2>1. [k |-> "open", p |-> p] \in Calls
    BY DEF Calls
  <2>2. QED BY <1>2, <1>5, <2>1 DEF Connect, Task
<1>6. ASSUME NEW n \in open, Leave(n) \/ Hello(n) \/ HelloRejected(n) \/ LiveOp(n) \/ CallEvict(n)
      PROVE  Awaited'
  <2>1. CASE Leave(n)
    BY <2>1, QuietAwaited DEF Leave, store
  <2>2. CASE Hello(n) \/ LiveOp(n)
    BY <2>2, <1>3 DEF Hello, LiveOp, Task
  <2>3. CASE HelloRejected(n)
    <3>1. [k |-> "reject", n |-> n] \in Calls
      BY <1>4, <1>6 DEF Calls
    <3>2. QED BY <1>2, <2>3, <3>1 DEF HelloRejected, Task
  <2>4. CASE CallEvict(n)
    <3>1. [k |-> "evict", n |-> n] \in Calls
      BY <1>4, <1>6 DEF Calls
    <3>2. QED BY <1>1, <2>4, <3>1 DEF CallEvict
  <2>5. QED BY <1>6, <2>1, <2>2, <2>3, <2>4
<1>7. CASE ServerWrite
  <2> DEFINE m == [mem EXCEPT !.log = Append(@, <<Server, version + 1>>)]
  <2>1. m \in Image
    <3>1. mem.log \in Seq(Ops) /\ version + 1 \in Nat
      BY LenProperties DEF TypeOK, Image, version
    <3>2. <<Server, version + 1>> \in Ops
      BY <3>1 DEF Ops
    <3>3. Append(mem.log, <<Server, version + 1>>) \in Seq(Ops)
      BY <3>1, <3>2, AppendProperties
    <3>4. QED BY <3>3 DEF TypeOK, Image
  <2>2. Landed(m, stack)
    BY <1>7 DEF ServerWrite
  <2>3. QED BY <1>0, <2>1, <2>2, LandedAwaited
<1>8. CASE CallFlush
  BY <1>0, <1>8, CommitNowAwaited DEF CallFlush
<1>9. CASE CallDispose
  <2>1. [k |-> "dispose"] \in Calls
    BY DEF Calls
  <2>2. QED BY <1>1, <1>9, <2>1 DEF CallDispose
<1>10. CASE CallFetch
  <2>1. [k |-> "fetch"] \in Calls
    BY DEF Calls
  <2>2. QED BY <1>2, <1>10, <2>1 DEF CallFetch, Task
<1>11. QED BY <1>5, <1>6, <1>7, <1>8, <1>9, <1>10 DEF Calling

LEMMA AwaitedStep ==
  ASSUME TypeOK, Awaited, [Next]_vars
  PROVE  Awaited'
<1>1. CASE Turn
  <2>1. ~Draining(stack) /\ <<>> \in Seq(Calls)
    BY <1>1, EmptySeq DEF Turn, Draining
  <2>2. QED BY <1>1, <2>1, CommitNowAwaited DEF Turn
<1>2. CASE Crash
  BY <1>2 DEF Crash, Awaited
<1>3. CASE Load
  BY <1>3 DEF Load, Awaited
<1>4. CASE UNCHANGED vars
  BY <1>4 DEF vars, store, Awaited
<1>5. QED BY <1>1, <1>2, <1>3, <1>4, RunningAwaited, CallingAwaited DEF Next

\* For any observers, failures and crashes: what the store holds back once a task
\* has ended, or has not stored, is stored and sent by a commit already scheduled
\* (store.js:229-300); nothing waits for a change that need not come.
THEOREM Scheduling == Spec => []HeldIsScheduled
<1>1. Init => TypeOK /\ Awaited
  BY TypeInit DEF Init, Awaited
<1>2. TypeOK /\ Awaited /\ [Next]_vars => (TypeOK /\ Awaited)'
  BY TypeStep, AwaitedStep
<1>3. TypeOK /\ Awaited => HeldIsScheduled
  BY DEF Awaited, Draining, HeldIsScheduled
<1>4. QED BY <1>1, <1>2, <1>3, PTL DEF Spec

-----------------------------------------------------------------------------
(* With no observer to call back, every call runs on a stack of its own:   *)
(* the loop of commitNow runs before what the call left to do, and a call  *)
(* that ends or makes a session finds nothing pending.                     *)

\* Calls that go on once commitNow is through: they find it with nothing pending.
Waiting == {f \in Calls : f.k \in {"open", "evict", "reject", "dispose", "fetch"}}
Plain == {f \in Calls : f.k \in {"claim", "alive", "apply", "broadcast", "ack", "answer"}}
Tidings == {e \in Message : Tells(e)}

\* What the thread goes on with once the loop ended.
Rest(s) == IF s # <<>> /\ Head(s).k = "drain" THEN Tail(s) ELSE s

Waits(s) == s # <<>> /\ Head(s) \in Waiting /\ Tail(s) = <<>>

Calm ==
  /\ untold = {}
  /\ effects \in Seq(Tidings) /\ run \in Seq(Tidings)
  /\ run # <<>> => Top("drain")
  /\ Rest(stack) \in Seq(Plain) \/ Waits(Rest(stack))
  /\ Waits(Rest(stack)) => changes = <<>> /\ (effects = <<>> \/ Top("drain"))
  /\ (changes # <<>> \/ (Rest(stack) # <<>> /\ ~Waits(Rest(stack)))) => status = "live"

LEMMA RestIs ==
  ASSUME NEW s \in Seq(Calls)
  PROVE  /\ Rest(<<[k |-> "drain"]>> \o s) = s
         /\ s \in Seq(Plain) => Rest(s) = s
         /\ Waits(s) => Rest(s) = s
<1>1. Rest(<<[k |-> "drain"]>> \o s) = s
  <2> DEFINE d == [k |-> "drain"]
  <2>1. d \in Calls /\ <<d>> \in Seq(Calls) /\ Len(<<d>>) = 1
    BY DEF Calls
  <2>2. /\ <<d>> \o s \in Seq(Calls) /\ Len(<<d>> \o s) = 1 + Len(s) /\ Len(s) \in Nat
        /\ (<<d>> \o s)[1] = d
        /\ \A i \in 1 .. Len(s) : (<<d>> \o s)[i + 1] = s[i]
    BY <2>1, ConcatProperties, LenProperties
  <2>3. /\ <<d>> \o s # <<>> /\ Head(<<d>> \o s) = d
        /\ Tail(<<d>> \o s) \in Seq(Calls) /\ Len(Tail(<<d>> \o s)) = Len(s)
        /\ \A i \in 1 .. Len(s) : Tail(<<d>> \o s)[i] = s[i]
    BY <2>2, HeadTailProperties, EmptySeq
  <2>4. Tail(<<d>> \o s) = s
    BY <2>3, SeqEqual
  <2>5. Head(<<d>> \o s).k = "drain"
    BY <2>3
  <2>6. QED BY <2>3, <2>4, <2>5 DEF Rest
<1>2. ASSUME s \in Seq(Plain) PROVE Rest(s) = s
  <2>1. s # <<>> => Head(s) \in Plain
    BY <1>2, InTail
  <2>2. s # <<>> => Head(s).k # "drain"
    BY <2>1 DEF Plain
  <2>3. QED BY <2>2 DEF Rest
<1>3. ASSUME Waits(s) PROVE Rest(s) = s
  BY <1>3 DEF Rest, Waits, Waiting
<1>4. QED BY <1>1, <1>2, <1>3

\* With the loop not first, there is none, and what is left of a call that waited
\* finds nothing pending.
LEMMA Alone ==
  ASSUME TypeOK, Calm, ~Top("drain")
  PROVE  /\ Rest(stack) = stack /\ run = <<>> /\ ~draining
         /\ stack \in Seq(Plain) \/ (Waits(stack) /\ ~pending)
<1>1. Rest(stack) = stack /\ run = <<>>
  BY DEF Calm, Top, Rest
<1>2. CASE stack \in Seq(Plain)
  <2>1. \A i \in 1 .. Len(stack) : stack[i].k # "drain"
    BY <1>2, ElementOfSeq DEF Plain
  <2>2. ~Draining(stack)
    BY <2>1 DEF Draining
  <2>3. QED BY <1>1, <1>2, <2>2, DrainingIs
<1>3. CASE Waits(stack)
  <2>1. Len(stack) = 1 /\ stack[1].k # "drain"
    <3>1. stack \in Seq(Calls) /\ stack # <<>> /\ Tail(stack) = <<>> /\ Head(stack).k # "drain"
      BY <1>3 DEF Waits, Waiting, TypeOK
    <3>2. Len(stack) \in Nat /\ Len(Tail(stack)) = Len(stack) - 1 /\ Len(<<>>) = 0
      BY <3>1, HeadTailProperties, LenProperties
    <3>3. Head(stack) = stack[1]
      BY <3>1, InTail
    <3>4. Len(Tail(stack)) = 0
      BY <3>1, EmptySeq, HeadTailProperties
    <3>5. Len(stack) = 1
      BY <3>2, <3>4
    <3>6. QED BY <3>1, <3>3, <3>5
  <2>2. ~Draining(stack)
    BY <2>1 DEF Draining
  <2>3. changes = <<>> /\ effects = <<>>
    BY <1>1, <1>3 DEF Calm
  <2>4. QED BY <1>1, <1>3, <2>2, <2>3, DrainingIs DEF pending
<1>4. QED BY <1>1, <1>2, <1>3 DEF Calm

\* A call that is not one that waits finds itself in a stack of such calls, and goes
\* on with such a stack.
LEMMA PlainCall ==
  ASSUME TypeOK, Calm, stack # <<>>, Frame \in Plain
  PROVE  /\ Rest(stack) = stack /\ run = <<>> /\ ~draining /\ status = "live"
         /\ stack \in Seq(Plain) /\ Tail(stack) \in Seq(Plain) /\ ~Waits(stack)
<1>1. ~Top("drain") /\ ~Waits(stack)
  BY DEF Top, Waits, Frame, Plain, Waiting
<1>2. Rest(stack) = stack /\ run = <<>> /\ ~draining /\ stack \in Seq(Plain)
  BY <1>1, Alone
<1>3. QED BY <1>1, <1>2, InTail DEF Calm

LEMMA WaitingCall ==
  ASSUME TypeOK, Calm, stack # <<>>, Frame \in Waiting
  PROVE  /\ changes = <<>> /\ effects = <<>> /\ run = <<>> /\ ~pending
         /\ ~draining /\ Tail(stack) = <<>> /\ Rest(stack) = stack
<1>1. ~Top("drain")
  BY DEF Top, Frame, Waiting
<1>2. stack \notin Seq(Plain)
  <2>1. Head(stack) \notin Plain
    BY DEF Frame, Waiting, Plain
  <2>2. QED BY <2>1, InTail
<1>3. Waits(stack) /\ ~pending /\ Rest(stack) = stack /\ run = <<>> /\ ~draining
  BY <1>1, <1>2, Alone
<1>4. QED BY <1>3 DEF pending, Waits

\* What storing, or failing to, leaves with the calls to go on with.
LEMMA StoredCalm ==
  ASSUME TypeOK, Calm, ~Top("drain"), NEW pend, NEW calls \in Seq(Calls), NEW undone,
         Store(pend, calls) \/ StoreFails(pend, undone)
  PROVE  /\ untold' = {} /\ changes' = <<>>
         /\ \/ /\ Rest(stack') = calls /\ Top("drain")'
               /\ UNCHANGED <<effects, status, open, outside>>
            \/ /\ pend # <<>> /\ stack' = undone /\ effects' = <<>>
               /\ status = "live" => open' = {} /\ status' = "disposed"
               /\ UNCHANGED <<copy, heard, acked>>
<1>0. ~draining /\ untold = {}
  BY Alone DEF Calm
<1>1. CASE Store(pend, calls)
  <2>1. stack' = <<[k |-> "drain"]>> \o calls
    BY <1>0, <1>1 DEF Store
  <2>2. Rest(stack') = calls
    BY <2>1, RestIs
  <2>3. stack' # <<>> /\ Head(stack') = [k |-> "drain"]
    <3>1. [k |-> "drain"] \in Calls /\ <<[k |-> "drain"]>> \in Seq(Calls)
      BY DEF Calls
    <3>2. Len(stack') = 1 + Len(calls) /\ Len(calls) \in Nat /\ stack' \in Seq(Calls)
          /\ stack'[1] = [k |-> "drain"]
      BY <2>1, <3>1, ConcatProperties, LenProperties
    <3>3. QED BY <3>2, HeadTailProperties, EmptySeq
  <2>4. QED BY <1>0, <1>1, <2>2, <2>3 DEF Store, Top, outside
<1>2. CASE StoreFails(pend, undone)
  BY <1>0, <1>2 DEF StoreFails
<1>3. QED BY <1>1, <1>2

\* commitNow called with a call that waits, or by nobody.
LEMMA CommitNowCalm ==
  ASSUME TypeOK, Calm, stack = <<>>, NEW calls \in Seq(Calls), calls = <<>> \/ Waits(calls),
         CommitNow(calls)
  PROVE  Calm'
<1>1. ~Top("drain") /\ run' = run /\ run = <<>>
  BY DEF Top, CommitNow, Calm
<1>2. <<>> \in Seq(Plain) /\ ~Waits(<<>>)
  BY EmptySeq DEF Waits
<1>3. Rest(calls) = calls
  BY <1>2, RestIs
<1>4. /\ untold' = {} /\ changes' = <<>>
      /\ \/ Rest(stack') = calls /\ Top("drain")' /\ effects' = effects
         \/ stack' = calls /\ effects' = <<>>
  BY <1>1, StoredCalm DEF CommitNow
<1>5. Rest(stack') = calls /\ effects' \in Seq(Tidings) /\ (effects' = <<>> \/ Top("drain")')
  BY <1>3, <1>4, EmptySeq DEF Calm
<1>6. run' \in Seq(Tidings)
  BY <1>1, EmptySeq
<1>7. QED BY <1>1, <1>2, <1>4, <1>5, <1>6 DEF Calm

\* commit() on the way, with more of the call to come.
LEMMA CommitCalm ==
  ASSUME TypeOK, Calm, ~Top("drain"), ~Waits(stack), NEW m \in Image,
         NEW calls \in Seq(Plain), status = "live", Commit(m, calls)
  PROVE  /\ Calm'
         /\ \/ Rest(stack') = calls /\ UNCHANGED <<effects, open, outside>>
            \/ open' = {} /\ stack' = <<>> /\ effects' = <<>> /\ UNCHANGED <<copy, heard, acked>>
         /\ mem' = m /\ UNCHANGED <<run, conn>>
<1>1. calls \in Seq(Calls)
  BY SeqUp DEF Plain
<1>2. Rest(calls) = calls /\ ~Waits(calls)
  <2>1. ~Waits(calls)
    BY InTail DEF Waits, Waiting, Plain
  <2>2. QED BY <1>1, <2>1, RestIs
<1>3. run = <<>> /\ run' = run /\ untold = {} /\ effects \in Seq(Tidings) /\ <<>> \in Seq(Tidings)
  BY Alone, EmptySeq DEF Commit, Calm
<1>4. mem' = m /\ UNCHANGED <<run, conn>>
  BY DEF Commit
<1>5. CASE Len(Append(changes, m)) < GroupMax
  <2>1. stack' = calls /\ UNCHANGED <<effects, status, open, outside>>
    BY <1>5 DEF Commit
  <2>2. QED BY <1>2, <1>3, <1>4, <2>1 DEF Calm, outside
<1>6. CASE ~(Len(Append(changes, m)) < GroupMax)
  <2>1. Unwound(calls) = <<>>
    <3>1. \A i \in 1 .. Len(calls) : calls[i].k # "hook"
      BY ElementOfSeq DEF Plain
    <3>2. QED BY <3>1 DEF Unwound
  <2>2. /\ untold' = {} /\ changes' = <<>>
        /\ \/ Rest(stack') = calls /\ UNCHANGED <<effects, status, open, outside>>
           \/ stack' = <<>> /\ effects' = <<>> /\ open' = {} /\ UNCHANGED <<copy, heard, acked>>
    BY <1>1, <1>6, <2>1, StoredCalm DEF Commit
  <2>3. <<>> \in Seq(Plain) /\ Rest(<<>>) = <<>> /\ ~Waits(<<>>)
    BY EmptySeq DEF Rest, Waits
  <2>4. Calm'
    BY <1>2, <1>3, <2>2, <2>3 DEF Calm
  <2>5. QED BY <1>4, <2>2, <2>4
<1>7. QED BY <1>5, <1>6

\* A call that goes on, with nothing of it to store.
LEMMA DoneCalm ==
  ASSUME TypeOK, Calm, ~Waits(stack), ~Top("drain"), stack' \in Seq(Plain),
         stack' # <<>> => status = "live",
         UNCHANGED <<changes, status, run, untold>>, effects' \in Seq(Tidings)
  PROVE  Calm' /\ Rest(stack') = stack'
<1>1. Rest(stack') = stack' /\ ~Waits(stack')
  <2>1. ~Waits(stack')
    BY InTail DEF Waits, Waiting, Plain
  <2>2. stack' \in Seq(Calls)
    BY SeqUp DEF Plain
  <2>3. QED BY <2>1, <2>2, RestIs
<1>2. run = <<>>
  BY Alone
<1>3. QED BY <1>1, <1>2 DEF Calm

LEMMA NoObservers ==
  ASSUME "observe" \notin Uses, NEW s \in Seq(Plain), NEW f \in Plain
  PROVE  Observers \o s = s /\ <<f>> \o Observers \o s = <<f>> \o s /\ <<f>> \o s \in Seq(Plain)
<1>1. Observers = <<>> /\ <<f>> \in Seq(Plain)
  BY DEF Observers
<1>2. QED BY <1>1, ConcatProperties

\* An op on its way in has what follows it, and its ack when it came live.
LEMMA AppliedPlain ==
  ASSUME TypeOK, Calm, stack # <<>>, Frame \in Plain, Frame.k = "apply"
  PROVE  Applied(Frame) \in Seq(Plain)
<1> DEFINE f == Frame
           a == [k |-> "ack", n |-> f.ackTo, p |-> f.p, seq |-> f.seq]
<1>1. Tail(stack) \in Seq(Plain)
  BY PlainCall
<1>2. a \in Plain /\ <<a>> \in Seq(Plain) /\ <<>> \in Seq(Plain)
  <2>1. f.ackTo \in Nat /\ f.p \in Peers /\ f.seq \in Nat
    BY FrameIn, FrameTypes
  <2>2. a \in Plain
    BY <2>1 DEF Plain, Calls
  <2>3. QED BY <2>2, EmptySeq
<1>3. QED BY <1>1, <1>2, ConcatProperties DEF Applied

\* A message that waits, or is sent, at the end of the queue.
LEMMA SendCalm ==
  ASSUME effects \in Seq(Tidings), NEW e \in Tidings, Send(e)
  PROVE  effects' \in Seq(Tidings) /\ UNCHANGED untold
<1>1. Append(effects, e) \in Seq(Tidings) /\ e.t # "closed"
  BY AppendProperties DEF Tidings, Tells
<1>2. QED BY <1>1 DEF Send, Deliver, outside

LEMMA RunningCalm ==
  ASSUME TypeOK, Calm, "observe" \notin Uses, Running
  PROVE  Calm'
<1>0. stack # <<>> /\ stack \in Seq(Calls)
  BY DEF Running, Top, DrainTake, RunEffect, DrainEnd, Claim, Alive, Apply, Broadcast, Observe,
         HookReturns, Ack, Answer, Open, Evict, Reject, Dispose, Fetch, TypeOK
<1>a. Frame \in Calls
  BY <1>0, FrameIn
<1>b. /\ Frame.k \in {"claim", "alive", "apply", "broadcast", "ack", "answer"} => Frame \in Plain
      /\ Frame.k \in {"open", "evict", "reject", "dispose", "fetch"} => Frame \in Waiting
  BY <1>a DEF Plain, Waiting
<1>c. ASSUME Frame \in Plain, Done, UNCHANGED <<changes, status, run, untold>>,
             effects' \in Seq(Tidings)
      PROVE  Calm'
  <2>1. Tail(stack) \in Seq(Plain) /\ status = "live" /\ ~Waits(stack) /\ ~Top("drain")
    BY <1>0, <1>c, PlainCall DEF Top, Frame, Plain
  <2>2. QED BY <1>c, <2>1, DoneCalm DEF Done
<1>d. ASSUME Frame \in Waiting, Done, UNCHANGED <<changes, effects, run, untold>>
      PROVE  Calm'
  <2>1. stack' = <<>> /\ changes' = <<>> /\ effects' = <<>> /\ run' = <<>>
    BY <1>0, <1>d, WaitingCall DEF Done
  <2>2. Rest(stack') = <<>> /\ ~Waits(<<>>) /\ <<>> \in Seq(Plain) /\ <<>> \in Seq(Tidings)
    BY <2>1, EmptySeq DEF Rest, Waits
  <2>3. QED BY <1>d, <2>1, <2>2 DEF Calm
<1>e. Frame \in Plain => Tail(stack) \in Seq(Plain) /\ status = "live" /\ ~Waits(stack) /\ ~Top("drain")
  BY <1>0, PlainCall DEF Top, Frame, Plain
<1>1. CASE DrainTake
  BY <1>1, EmptySeq DEF DrainTake, Calm, store, outside, Top
<1>2. CASE RunEffect
  <2>1. Head(run) \in Tidings /\ Tail(run) \in Seq(Tidings)
    BY <1>2, InTail DEF RunEffect, Calm
  <2>2. Head(run).t # "op" /\ Head(run).t # "closed"
    BY <2>1 DEF Tidings, Tells
  <2>3. UNCHANGED <<changes, status, effects, untold, stack>> /\ run' = Tail(run) /\ Top("drain")
    BY <1>2, <2>2 DEF RunEffect, store, outside, Deliver
  <2>4. QED BY <2>1, <2>3 DEF Calm, Top
<1>3. CASE DrainEnd
  <2>1. Rest(stack) = stack' /\ UNCHANGED <<changes, status, effects, run, untold>> /\ run = <<>>
    BY <1>3 DEF DrainEnd, Top, Rest, outside
  <2>2. stack' \in Seq(Calls) /\ (stack' \in Seq(Plain) \/ Waits(stack'))
    BY <1>0, <2>1, InTail DEF Calm, DrainEnd, Rest
  <2>3. Rest(stack') = stack'
    BY <2>2, RestIs
  <2>4. Waits(stack') => effects = <<>>
    BY <1>3, <2>1 DEF DrainEnd, Calm
  <2>5. QED BY <2>1, <2>2, <2>3, <2>4 DEF Calm
<1>4. CASE Claim
  <2>1. Frame \in Plain /\ Frame.p \in Peers
    BY <1>4, <1>a, <1>b, FrameTypes DEF Claim, Top, Frame
  <2>2. [mem EXCEPT !.owned = @ \cup {Frame.p}] \in Image
    BY <2>1 DEF Image, TypeOK
  <2>3. CASE Frame.p \in mem.owned
    BY <1>4, <2>1, <2>3, <1>c DEF Claim, store, outside, Calm
  <2>4. CASE Frame.p \notin mem.owned
    BY <1>4, <1>e, <2>1, <2>2, <2>4, CommitCalm DEF Claim
  <2>5. QED BY <2>3, <2>4
<1>5. CASE Alive
  <2>1. Frame \in Plain
    BY <1>5, <1>b DEF Alive, Top, Frame
  <2>2. Done
    BY <1>5, <1>e, <2>1 DEF Alive, Done
  <2>3. QED BY <1>5, <1>c, <2>1, <2>2 DEF Alive, store, outside, Calm
<1>6. CASE Apply
  <2> DEFINE f == Frame
             decided == [mem EXCEPT !.seq[f.p] = f.seq, !.owned = @ \cup {f.p}]
             landed == [decided EXCEPT !.log = Append(@, <<f.p, f.seq>>)]
             b == [k |-> "broadcast", log |-> landed.log]
  <2>1. f \in Plain /\ f.k = "apply" /\ f.p \in Peers /\ f.seq \in Nat
    BY <1>6, <1>a, <1>b, FrameTypes DEF Apply, Top, Frame
  <2>2. Applied(f) \in Seq(Plain)
    BY <1>0, <2>1, AppliedPlain
  <2>3. decided \in Image
    BY <2>1 DEF Image, TypeOK
  <2>4. landed \in Image /\ b \in Plain
    <3>1. Append(mem.log, <<f.p, f.seq>>) \in Seq(Ops)
      BY <2>1, AppendProperties DEF Image, Ops, TypeOK
    <3>2. landed \in Image
      BY <2>3, <3>1 DEF Image, TypeOK
    <3>3. landed.log \in Seq(Ops)
      BY <3>2 DEF Image
    <3>4. QED BY <3>2, <3>3 DEF Plain, Calls
  <2>5. CASE Decided(f)
    <3>1. stack' = Applied(f) /\ UNCHANGED <<changes, status, run, untold, effects>>
      BY <1>6, <2>5 DEF Apply, store, outside
    <3>2. QED BY <3>1, <1>e, <2>1, <2>2, DoneCalm DEF Calm
  <2>6. CASE ~Decided(f) /\ f.lands
    <3>1. Commit(landed, <<b>> \o Observers \o Applied(f))
      BY <1>6, <2>6 DEF Apply, Landed
    <3>2. QED BY <3>1, <1>e, <2>1, <2>2, <2>4, NoObservers, CommitCalm
  <2>7. CASE ~Decided(f) /\ ~f.lands
    <3>1. Commit(decided, Observers \o Applied(f))
      BY <1>6, <2>7 DEF Apply
    <3>2. QED BY <3>1, <1>e, <2>1, <2>2, <2>3, NoObservers, CommitCalm
  <2>8. QED BY <2>5, <2>6, <2>7
<1>7. CASE Broadcast
  <2> DEFINE e == [t |-> "patch", log |-> Frame.log, upTo |-> Len(conn)]
  <2>1. Frame \in Plain /\ e \in Tidings
    <3>1. Frame.log \in Seq(Ops) /\ Len(conn) \in Nat
      BY <1>7, <1>a, FrameTypes, LenProperties DEF Broadcast, Top, Frame, TypeOK
    <3>2. QED BY <1>7, <1>b, <3>1 DEF Broadcast, Top, Frame, Tidings, Message, Tells
  <2>2. effects' \in Seq(Tidings) /\ UNCHANGED untold
    <3>1. CASE open = {}
      BY <1>7, <3>1 DEF Broadcast, outside, Calm
    <3>2. CASE open # {}
      BY <1>7, <2>1, <3>2, SendCalm DEF Broadcast, Calm
    <3>3. QED BY <3>1, <3>2
  <2>3. QED BY <1>7, <1>c, <2>1, <2>2 DEF Broadcast, store
<1>8. CASE Observe \/ HookReturns
  <2>1. Frame \notin Plain /\ Frame \notin Waiting /\ ~Top("drain")
    BY <1>8 DEF Observe, HookReturns, Top, Frame, Plain, Waiting
  <2>2. stack \in Seq(Plain) \/ Waits(stack)
    BY <2>1, Alone
  <2>3. QED BY <1>0, <2>1, <2>2, InTail DEF Waits, Frame
<1>9. CASE Ack
  <2> DEFINE e == [t |-> "ack", n |-> Frame.n, p |-> Frame.p, seq |-> Frame.seq, log |-> mem.log]
  <2>1. Frame \in Plain /\ e \in Tidings
    <3>1. Frame.n \in Nat /\ Frame.p \in Peers /\ Frame.seq \in Nat /\ mem.log \in Seq(Ops)
      BY <1>9, <1>a, FrameTypes DEF Ack, Top, Frame, TypeOK, Image
    <3>2. QED BY <1>9, <1>b, <3>1 DEF Ack, Top, Frame, Tidings, Message, Tells
  <2>2. effects' \in Seq(Tidings) /\ UNCHANGED untold
    BY <1>9, <2>1, SendCalm DEF Ack, Calm
  <2>3. QED BY <1>9, <1>c, <2>1, <2>2 DEF Ack, store
<1>10. CASE Answer
  <2> DEFINE e == [t |-> "answer", n |-> Frame.n, p |-> Frame.p, seq |-> mem.seq[Frame.p], log |-> mem.log]
  <2>1. Frame \in Plain /\ e \in Tidings
    <3>1. Frame.n \in Nat /\ Frame.p \in Peers /\ mem.log \in Seq(Ops)
      BY <1>10, <1>a, FrameTypes DEF Answer, Top, Frame, TypeOK, Image
    <3>2. mem.seq[Frame.p] \in Nat
      BY <3>1 DEF TypeOK, Image
    <3>3. QED BY <1>10, <1>b, <3>1, <3>2 DEF Answer, Top, Frame, Tidings, Message, Tells
  <2>2. effects' \in Seq(Tidings) /\ UNCHANGED untold
    BY <1>10, <2>1, SendCalm DEF Answer, Calm
  <2>3. QED BY <1>10, <1>c, <2>1, <2>2 DEF Answer, store
<1>11. CASE Open
  BY <1>11, <1>b, <1>d DEF Open, Top, Frame, store, outside
<1>12. ASSUME NEW n, NEW sure, ~pending, End(n, sure) PROVE UNCHANGED <<effects, untold>>
  BY <1>12 DEF End
<1>13. CASE Evict \/ Reject
  <2>1. Frame \in Waiting
    BY <1>13, <1>b DEF Evict, Reject, Top, Frame
  <2>2. ~pending
    BY <1>0, <2>1, WaitingCall
  <2>3. UNCHANGED <<effects, untold>>
    BY <1>13, <1>12, <2>2 DEF Evict, Reject, outside
  <2>4. QED BY <1>13, <1>d, <2>1, <2>3 DEF Evict, Reject, store
<1>14. CASE Dispose
  <2>1. Frame \in Waiting
    BY <1>14, <1>b DEF Dispose, Top, Frame
  <2>2. ~pending
    BY <1>0, <2>1, WaitingCall
  <2>3. QED BY <1>14, <1>d, <2>1, <2>2 DEF Dispose
<1>15. CASE Fetch
  BY <1>15, <1>b, <1>d DEF Fetch, Top, Frame, store, outside
<1>16. QED
  BY <1>1, <1>2, <1>3, <1>4, <1>5, <1>6, <1>7, <1>8, <1>9, <1>10, <1>11, <1>13, <1>14, <1>15
  DEF Running

\* What a task begins, on an empty stack.
LEMMA BeginCalm ==
  ASSUME TypeOK, Calm, stack = <<>>, status = "live", NEW calls \in Seq(Plain), Begin(calls)
  PROVE  Calm' /\ Rest(stack') = calls
<1>1. ~Waits(stack) /\ ~Top("drain")
  BY DEF Waits, Top
<1>2. QED BY <1>1, DoneCalm DEF Begin, store, outside, Calm

\* A hello goes on with its claim, the op resent in it, and its answer.
LEMMA HelloBegins ==
  ASSUME TypeOK, NEW n \in open, Hello(n)
  PROVE  \E calls \in Seq(Plain) :
           /\ Begin(calls)
           /\ \A i \in 1 .. Len(calls) : /\ calls[i].k \notin {"ack", "broadcast"}
                                         /\ calls[i].k = "answer" => calls[i].n = n
                                         /\ calls[i].k = "apply" => calls[i].ackTo = 0
<1> DEFINE Ours == {f \in Plain : /\ f.k \notin {"ack", "broadcast"}
                                  /\ f.k = "answer" => f.n = n
                                  /\ f.k = "apply" => f.ackTo = 0}
<1>1. n \in Nat /\ conn[n] \in Peers
  BY ElementOfSeq, LenProperties DEF TypeOK
<1>2. PICK ops \in {<<>>} \cup {<<f>> : f \in ApplyCalls(conn[n], 0)} :
        Begin(<<[k |-> "claim", p |-> conn[n]], [k |-> "alive"]>> \o ops
              \o <<[k |-> "answer", n |-> n, p |-> conn[n]]>>)
  BY DEF Hello
<1>3. ops \in Seq(Ours)
  <2>1. ASSUME NEW f \in ApplyCalls(conn[n], 0) PROVE <<f>> \in Seq(Ours)
    <3>1. PICK s \in 1 .. MaxSeq, b \in Fates :
            f = [k |-> "apply", p |-> conn[n], seq |-> s, ackTo |-> 0, lands |-> b]
      BY DEF ApplyCalls
    <3>2. s \in Nat
      BY StoreAssumption
    <3>3. b \in BOOLEAN
      BY DEF Fates
    <3>4. f \in Ours
      BY <1>1, <3>1, <3>2, <3>3 DEF Plain, Calls
    <3>5. QED BY <3>4
  <2>2. QED BY <2>1, EmptySeq
<1>4. /\ <<[k |-> "claim", p |-> conn[n]], [k |-> "alive"]>> \in Seq(Ours)
      /\ <<[k |-> "answer", n |-> n, p |-> conn[n]]>> \in Seq(Ours)
  <2>1. [k |-> "claim", p |-> conn[n]] \in Ours /\ [k |-> "alive"] \in Ours
        /\ [k |-> "answer", n |-> n, p |-> conn[n]] \in Ours
    BY <1>1 DEF Plain, Calls
  <2>2. QED BY <2>1
<1>5. PICK calls \in Seq(Ours) : Begin(calls)
  BY <1>2, <1>3, <1>4, ConcatProperties
<1>6. calls \in Seq(Plain)
  BY SeqUp
<1>7. ASSUME NEW i \in 1 .. Len(calls)
      PROVE  /\ calls[i].k \notin {"ack", "broadcast"}
             /\ calls[i].k = "answer" => calls[i].n = n
             /\ calls[i].k = "apply" => calls[i].ackTo = 0
  <2>1. calls[i] \in Ours
    BY ElementOfSeq
  <2>2. QED BY <2>1
<1>8. QED BY <1>5, <1>6, <1>7

LEMMA LiveOpBegins ==
  ASSUME TypeOK, NEW n \in open, LiveOp(n)
  PROVE  \E f \in Plain : Begin(<<f>>) /\ <<f>> \in Seq(Plain) /\ f.k = "apply" /\ f.ackTo = n
<1>1. n \in Nat /\ conn[n] \in Peers
  BY ElementOfSeq, LenProperties DEF TypeOK
<1>2. PICK f \in ApplyCalls(conn[n], n) : Begin(<<f>>)
  BY DEF LiveOp
<1>3. PICK s \in 1 .. MaxSeq, b \in Fates :
        f = [k |-> "apply", p |-> conn[n], seq |-> s, ackTo |-> n, lands |-> b]
  BY DEF ApplyCalls
<1>4. s \in Nat
  BY StoreAssumption
<1>5. b \in BOOLEAN
  BY DEF Fates
<1>6. f \in Plain
  BY <1>1, <1>3, <1>4, <1>5 DEF Plain, Calls
<1>7. QED BY <1>2, <1>3, <1>6

LEMMA CallingCalm ==
  ASSUME TypeOK, Calm, "observe" \notin Uses, Calling
  PROVE  Calm'
<1>0. ~Top("hook")
  <2>1. CASE Top("drain")
    BY <2>1 DEF Top
  <2>2. CASE ~Top("drain")
    <3>1. stack \in Seq(Plain) \/ Waits(stack)
      BY <2>2, Alone
    <3>2. stack # <<>> => Head(stack) \in Plain \cup Waiting
      BY <3>1, InTail DEF Waits
    <3>3. QED BY <3>2 DEF Top, Plain, Waiting
  <2>3. QED BY <2>1, <2>2
<1>1. Call => stack = <<>>
  BY <1>0 DEF Call
<1>2. ASSUME NEW f \in Waiting, stack = <<>>, CommitNow(<<f>>) PROVE Calm'
  <2>1. f \in Calls
    BY DEF Waiting
  <2>2. <<f>> \in Seq(Calls) /\ Waits(<<f>>)
    BY <2>1 DEF Waits
  <2>3. QED BY <1>2, <2>2, CommitNowCalm
<1>3. \A f \in Calls : <<f>> \o <<>> = <<f>>
  BY ConcatProperties, EmptySeq
<1>4. ASSUME NEW n \in open PROVE n \in Nat
  BY <1>4, LenProperties DEF TypeOK
<1>5. ASSUME NEW p \in Peers, Connect(p) PROVE Calm'
  <2>1. [k |-> "open", p |-> p] \in Waiting
    BY DEF Waiting, Calls
  <2>2. QED BY <1>2, <1>5, <2>1 DEF Connect, Task
<1>6. ASSUME NEW n \in open, Leave(n) \/ Hello(n) \/ HelloRejected(n) \/ LiveOp(n) \/ CallEvict(n)
      PROVE  Calm'
  <2>1. CASE Leave(n)
    BY <2>1 DEF Leave, store, outside, Calm, Top
  <2>2. CASE Hello(n)
    BY <2>2, HelloBegins, BeginCalm DEF Hello, Task
  <2>3. CASE LiveOp(n)
    BY <2>3, LiveOpBegins, BeginCalm DEF LiveOp, Task
  <2>4. CASE HelloRejected(n)
    <3>1. [k |-> "reject", n |-> n] \in Waiting
      BY <1>4, <1>6 DEF Waiting, Calls
    <3>2. QED BY <1>2, <2>4, <3>1 DEF HelloRejected, Task
  <2>5. CASE CallEvict(n)
    <3>1. [k |-> "evict", n |-> n] \in Waiting
      BY <1>4, <1>6 DEF Waiting, Calls
    <3>2. stack = <<>> /\ CommitNow(<<[k |-> "evict", n |-> n]>> \o stack)
      BY <1>1, <2>5 DEF CallEvict
    <3>3. CommitNow(<<[k |-> "evict", n |-> n]>>)
      BY <1>3, <3>1, <3>2 DEF Waiting
    <3>4. QED BY <1>2, <3>1, <3>2, <3>3
  <2>6. QED BY <1>6, <2>1, <2>2, <2>3, <2>4, <2>5
<1>7. CASE ServerWrite
  <2> DEFINE m == [mem EXCEPT !.log = Append(@, <<Server, version + 1>>)]
             b == [k |-> "broadcast", log |-> m.log]
  <2>1. m \in Image /\ m.log \in Seq(Ops)
    <3>1. mem.log \in Seq(Ops) /\ version + 1 \in Nat
      BY LenProperties DEF TypeOK, Image, version
    <3>2. <<Server, version + 1>> \in Ops
      BY <3>1 DEF Ops
    <3>3. Append(mem.log, <<Server, version + 1>>) \in Seq(Ops)
      BY <3>1, <3>2, AppendProperties
    <3>4. QED BY <3>3 DEF TypeOK, Image
  <2>2. b \in Plain /\ <<>> \in Seq(Plain) /\ stack = <<>> /\ status = "live"
    BY <1>1, <1>7, <2>1, EmptySeq DEF Plain, Calls, ServerWrite
  <2>3. Commit(m, <<b>> \o Observers \o <<>>)
    BY <1>7, <2>2 DEF ServerWrite, Landed
  <2>4. ~Waits(stack) /\ ~Top("drain")
    BY <2>2 DEF Waits, Top
  <2>5. QED BY <2>1, <2>2, <2>3, <2>4, NoObservers, CommitCalm
<1>8. CASE CallFlush
  BY <1>1, <1>8, EmptySeq, CommitNowCalm DEF CallFlush
<1>9. CASE CallDispose
  <2>1. [k |-> "dispose"] \in Waiting
    BY DEF Waiting, Calls
  <2>2. CommitNow(<<[k |-> "dispose"]>>) /\ stack = <<>>
    <3>1. stack = <<>> /\ CommitNow(<<[k |-> "dispose"]>> \o stack)
      BY <1>1, <1>9 DEF CallDispose
    <3>2. QED BY <1>3, <2>1, <3>1 DEF Waiting
  <2>3. QED BY <1>2, <2>1, <2>2
<1>10. CASE CallFetch
  <2>1. [k |-> "fetch"] \in Waiting
    BY DEF Waiting, Calls
  <2>2. QED BY <1>2, <1>10, <2>1 DEF CallFetch, Task
<1>11. QED BY <1>5, <1>6, <1>7, <1>8, <1>9, <1>10 DEF Calling

LEMMA CalmStep ==
  ASSUME TypeOK, Calm, "observe" \notin Uses, [Next]_vars
  PROVE  Calm'
<1>1. CASE Turn
  BY <1>1, EmptySeq, CommitNowCalm DEF Turn
<1>2. CASE Crash \/ Load
  <2>1. /\ untold' = {} /\ changes' = <<>> /\ effects' = <<>> /\ stack' = <<>>
        /\ run' = <<>>
    BY <1>2 DEF Crash, Load, Calm, Top, outside
  <2>2. Rest(<<>>) = <<>> /\ ~Waits(<<>>) /\ <<>> \in Seq(Plain) /\ <<>> \in Seq(Tidings)
    BY EmptySeq DEF Rest, Waits
  <2>3. QED BY <2>1, <2>2 DEF Calm
<1>3. CASE UNCHANGED vars
  BY <1>3 DEF vars, store, outside, Calm, Top
<1>4. QED BY <1>1, <1>2, <1>3, RunningCalm, CallingCalm DEF Next

LEMMA CalmInit == Init => Calm
<1>1. Rest(<<>>) = <<>> /\ ~Waits(<<>>) /\ <<>> \in Seq(Plain) /\ <<>> \in Seq(Tidings)
  BY EmptySeq DEF Rest, Waits
<1>2. QED BY <1>1 DEF Init, Calm

\* With no observer to call back, and whatever fails: a session that the store ends
\* is told at once, for the call that ends it finds nothing pending
\* (store.js:1049-1070, 845-850, 1179-1204).
THEOREM Goodbyes == ASSUME "observe" \notin Uses PROVE Spec => []EndedAreTold
<1>1. Init => TypeOK /\ Calm
  BY TypeInit, CalmInit
<1>2. TypeOK /\ Calm /\ [Next]_vars => (TypeOK /\ Calm)'
  BY TypeStep, CalmStep
<1>3. Calm => EndedAreTold
  BY DEF Calm, EndedAreTold
<1>4. QED BY <1>1, <1>2, <1>3, PTL DEF Spec

-----------------------------------------------------------------------------
(* Each client hears of the versions one by one.  What is held back is a   *)
(* stream that starts where the copies of the open sessions are and ends   *)
(* at the store's version.                                                 *)

Step(e) == IF e.t = "patch" THEN 1 ELSE 0

\* The messages s take a client from version a to version b, one at a time.
Carries(s, a, b) ==
  IF s = <<>> THEN a = b
  ELSE /\ Len(s[1].log) = a + Step(s[1])
       /\ \A i \in 1 .. Len(s) - 1 : Len(s[i + 1].log) = Len(s[i].log) + Step(s[i + 1])
       /\ Len(s[Len(s)].log) = b

Known(n) == n <= Len(conn)
Answered(n) == Known(n) /\ (n \in Sessions => copy[n].synced)

\* What a message, or what is left of a call, may be about.
Notes ==
  {e \in Tidings : /\ e.t = "ack" => Answered(e.n)
                   /\ e.t = "answer" => Known(e.n)
                   /\ e.t = "patch" => \A n \in open : n <= e.upTo}
Parts ==
  {f \in Calls : /\ f.k # "broadcast"
                 /\ f.k = "ack" => f.n \in open /\ Answered(f.n)
                 /\ f.k = "answer" => Known(f.n)
                 /\ f.k = "apply" => f.ackTo = 0 \/ (f.ackTo \in open /\ Answered(f.ackTo))}

\* A version was made and its patch is still to be.
Announcing(s) ==
  /\ s # <<>> /\ Head(s).k = "broadcast" /\ Head(s).log = mem.log /\ version # 0
  /\ Tail(s) \in Seq(Parts)
Placed == Rest(stack) \in Seq(Parts) \/ Announcing(Rest(stack))

\* The version that what is held back leads to: the store's, or the one before while
\* its patch is still to be made.
Announced ==
  IF Rest(stack) # <<>> /\ Head(Rest(stack)).k = "broadcast" THEN version - 1 ELSE version

CopiesAt(a) == \A n \in open \cap Sessions : copy[n].synced => copy[n].v = a
Stream(to) ==
  \E a, b \in Nat : Carries(run, a, b) /\ Carries(effects, b, to) /\ CopiesAt(a)

InStep ==
  /\ CopiesAreWhole
  /\ \A n \in Sessions : copy[n].synced => Known(n)
  /\ effects \in Seq(Notes) /\ run \in Seq(Notes)
  /\ Placed
  /\ open # {} => Stream(Announced)

LEMMA CarriesTail ==
  ASSUME NEW s \in Seq(Tidings), s # <<>>, NEW a \in Nat, NEW b \in Nat, Carries(s, a, b)
  PROVE  /\ Len(s[1].log) = a + Step(s[1])
         /\ Carries(Tail(s), Len(s[1].log), b)
<1>0. Len(s) \in Nat /\ Len(Tail(s)) = Len(s) - 1
  BY HeadTailProperties, LenProperties
<1>1. /\ Len(s) \in Nat \ {0} /\ Tail(s) \in Seq(Tidings) /\ Len(Tail(s)) = Len(s) - 1
      /\ \A i \in 1 .. Len(Tail(s)) : Tail(s)[i] = s[i + 1]
  BY HeadTailProperties, EmptySeq, LenProperties
<1>2. CASE Tail(s) = <<>>
  <2>1. Len(Tail(s)) = 0
    BY <1>1, <1>2, EmptySeq
  <2>2. Len(s) = 1
    <3>1. \A k \in Nat : k - 1 = 0 => k = 1
      OBVIOUS
    <3>2. QED BY <1>0, <2>1, <3>1, Zenon
  <2>3. QED BY <1>2, <2>2 DEF Carries
<1>3. CASE Tail(s) # <<>>
  <2>1. Len(Tail(s)) \in Nat \ {0}
    BY <1>1, <1>3, EmptySeq
  <2>2. Tail(s)[1] = s[2] /\ Tail(s)[Len(Tail(s))] = s[Len(s)]
    BY <1>1, <2>1
  <2>3. Len(s[2].log) = Len(s[1].log) + Step(s[2])
    BY <1>1, <2>1 DEF Carries
  <2>4. ASSUME NEW i \in 1 .. Len(Tail(s)) - 1
        PROVE  Len(Tail(s)[i + 1].log) = Len(Tail(s)[i].log) + Step(Tail(s)[i + 1])
    <3>1. i + 1 \in 1 .. Len(s) - 1 /\ i \in 1 .. Len(Tail(s)) /\ i + 1 \in 1 .. Len(Tail(s))
      BY <1>1, <2>1
    <3>2. Len(s[(i + 1) + 1].log) = Len(s[i + 1].log) + Step(s[(i + 1) + 1])
      BY <3>1 DEF Carries
    <3>3. QED BY <1>1, <3>1, <3>2
  <2>5. Len(s[Len(s)].log) = b /\ Len(s[1].log) = a + Step(s[1])
    BY DEF Carries
  <2>6. QED BY <1>3, <2>2, <2>3, <2>4, <2>5 DEF Carries
<1>4. QED BY <1>2, <1>3 DEF Carries

LEMMA CarriesAppend ==
  ASSUME NEW s \in Seq(Tidings), NEW e \in Tidings, NEW a \in Nat, NEW b \in Nat,
         Carries(s, a, b), Len(e.log) = b + Step(e)
  PROVE  Carries(Append(s, e), a, Len(e.log))
<1> DEFINE t == Append(s, e)
<1>1. /\ t \in Seq(Tidings) /\ Len(t) = Len(s) + 1 /\ t[Len(s) + 1] = e /\ t # <<>>
      /\ \A i \in 1 .. Len(s) : t[i] = s[i]
  BY AppendProperties
<1>2. CASE s = <<>>
  <2>1. Len(s) = 0 /\ a = b
    BY <1>2 DEF Carries
  <2>2. QED BY <1>1, <2>1 DEF Carries
<1>3. CASE s # <<>>
  <2>1. Len(s) \in Nat \ {0}
    BY <1>3, EmptySeq
  <2>2. /\ Len(s[1].log) = a + Step(s[1]) /\ Len(s[Len(s)].log) = b
        /\ \A i \in 1 .. Len(s) - 1 : Len(s[i + 1].log) = Len(s[i].log) + Step(s[i + 1])
    BY <1>3 DEF Carries
  <2>3. ASSUME NEW i \in 1 .. Len(t) - 1 PROVE Len(t[i + 1].log) = Len(t[i].log) + Step(t[i + 1])
    <3>1. CASE i = Len(s)
      BY <1>1, <2>1, <2>2, <3>1
    <3>2. CASE i # Len(s)
      <4>1. i \in 1 .. Len(s) - 1 /\ i \in 1 .. Len(s) /\ i + 1 \in 1 .. Len(s)
        BY <1>1, <2>1, <3>2
      <4>2. t[i] = s[i] /\ t[i + 1] = s[i + 1]
        BY <1>1, <4>1
      <4>3. QED BY <2>2, <4>1, <4>2
    <3>3. QED BY <3>1, <3>2
  <2>4. t[1] = s[1] /\ t[Len(t)] = e
    <3>1. 1 \in 1 .. Len(s)
      BY <2>1
    <3>2. QED BY <1>1, <3>1
  <2>5. QED BY <1>1, <2>2, <2>3, <2>4 DEF Carries
<1>4. QED BY <1>2, <1>3

LEMMA VersionIs == ASSUME TypeOK PROVE version \in Nat /\ mem.log \in Seq(Ops) /\ Len(conn) \in Nat
BY LenProperties DEF TypeOK, Image, version

LEMMA AnnouncedIs ==
  ASSUME TypeOK, InStep
  PROVE  /\ Announced \in Nat
         /\ Rest(stack) \in Seq(Parts) => Announced = version
         /\ Rest(stack) \notin Seq(Parts) => Announced = version - 1 /\ Announcing(Rest(stack))
<1>1. CASE Rest(stack) \in Seq(Parts)
  <2>1. Rest(stack) # <<>> => Head(Rest(stack)) \in Parts
    BY <1>1, InTail
  <2>2. Announced = version
    BY <2>1 DEF Announced, Parts
  <2>3. QED BY <1>1, <2>2, VersionIs
<1>2. CASE Rest(stack) \notin Seq(Parts)
  <2>1. Announcing(Rest(stack))
    BY <1>2 DEF InStep, Placed
  <2>2. Announced = version - 1 /\ version # 0
    BY <2>1 DEF Announcing, Announced
  <2>3. QED BY <1>2, <2>1, <2>2, VersionIs
<1>3. QED BY <1>1, <1>2

\* A message that goes on from where the copies of the open sessions are.
LEMMA HeardInStep ==
  ASSUME TypeOK, CopiesAreWhole, \A n \in Sessions : copy[n].synced => Known(n),
         NEW e \in Notes, e.t = "ack" => e.n \in open,
         NEW a \in Nat, open # {} => CopiesAt(a) /\ Len(e.log) = a + Step(e),
         Deliver(e)
  PROVE  /\ CopiesAreWhole'
         /\ \A n \in Sessions : /\ copy'[n].synced => Known(n)
                                /\ copy[n].synced => copy'[n].synced
         /\ \A n \in open \cap Sessions : copy'[n].synced => copy'[n].v = Len(e.log)
<1>1. ASSUME NEW n \in Sessions
      PROVE  /\ copy'[n].whole
             /\ copy'[n].synced => Known(n)
             /\ copy[n].synced => copy'[n].synced
             /\ (n \in open /\ copy'[n].synced) => copy'[n].v = Len(e.log)
  <2>0. copy'[n] = Hears(n, e)
    BY DEF Deliver
  <2>1. /\ copy[n] \in [synced : BOOLEAN, v : Nat, whole : BOOLEAN]
        /\ copy[n].whole /\ (copy[n].synced => Known(n))
    BY DEF TypeOK, CopiesAreWhole
  <2>2. Len(e.log) \in Nat /\ e.t \in {"patch", "ack", "answer"}
    BY MessageTypes, LenProperties DEF Notes, Tidings, Tells
  <2>3. n \in open => (copy[n].synced => copy[n].v = a) /\ Len(e.log) = a + Step(e)
    BY DEF CopiesAt
  <2>4. CASE e.t = "patch"
    <3>1. n \in open => n <= e.upTo /\ Len(e.log) = a + 1
      BY <2>3, <2>4 DEF Notes, Step
    <3>2. CASE n \in open /\ copy[n].synced
      <4>1. copy'[n] = [copy[n] EXCEPT !.v = Len(e.log), !.whole = @ /\ Len(e.log) = copy[n].v + 1]
        BY <2>0, <2>4, <3>1, <3>2 DEF Hears
      <4>2. Len(e.log) = copy[n].v + 1
        BY <2>3, <3>1, <3>2
      <4>3. QED BY <2>1, <4>1, <4>2
    <3>3. CASE ~(n \in open /\ copy[n].synced)
      BY <2>0, <2>1, <2>4, <3>3 DEF Hears
    <3>4. QED BY <3>2, <3>3
  <2>5. CASE e.t = "ack"
    <3>1. Answered(e.n) /\ Step(e) = 0
      BY <2>5 DEF Notes, Step
    <3>2. CASE e.n = n
      <4>1. n \in open /\ copy[n].synced /\ Len(e.log) = copy[n].v
        BY <2>2, <2>3, <2>5, <3>1, <3>2 DEF Answered
      <4>2. copy'[n] = [copy[n] EXCEPT !.v = Larger(@, Len(e.log)), !.whole = @ /\ Len(e.log) <= copy[n].v]
        BY <2>0, <2>5, <3>2 DEF Hears
      <4>3. QED BY <2>1, <2>2, <4>1, <4>2 DEF Larger
    <3>3. CASE e.n # n
      BY <2>0, <2>1, <2>2, <2>3, <2>5, <3>1, <3>3 DEF Hears
    <3>4. QED BY <3>2, <3>3
  <2>6. CASE e.t = "answer"
    <3>1. Known(e.n) /\ Step(e) = 0
      BY <2>6 DEF Notes, Step
    <3>2. CASE e.n = n
      <4>1. copy'[n] = [copy[n] EXCEPT !.v = Len(e.log), !.synced = TRUE]
        BY <2>0, <2>6, <3>2 DEF Hears
      <4>2. QED BY <2>1, <3>1, <3>2, <4>1
    <3>3. CASE e.n # n
      BY <2>0, <2>1, <2>2, <2>3, <2>6, <3>1, <3>3 DEF Hears
    <3>4. QED BY <3>2, <3>3
  <2>7. QED BY <2>2, <2>4, <2>5, <2>6
<1>2. QED BY <1>1 DEF CopiesAreWhole

\* What may be told stays so as copies are answered and sessions close.
LEMMA NotesUp ==
  ASSUME TypeOK, open' \subseteq open, conn' = conn,
         \A n \in Sessions : copy[n].synced => copy'[n].synced
  PROVE  /\ Notes \subseteq Notes'
         /\ open' = open => Parts \subseteq Parts'
<1>1. \A n : Answered(n) => Answered(n)'
  BY DEF Answered, Known
<1>2. \A n : Known(n) => Known(n)'
  BY DEF Known
<1>3. QED BY <1>1, <1>2 DEF Notes, Parts

\* A stack with no patch to come leaves nothing but what is held back.
LEMMA NowAnnounced ==
  ASSUME TypeOK', Rest(stack)' \in Seq(Parts')
  PROVE  Placed' /\ Announced' = version'
<1>1. (Rest(stack) # <<>>)' => Head(Rest(stack))' \in Parts'
  BY InTail
<1>2. (Rest(stack) # <<>>)' => Head(Rest(stack)').k # "broadcast"
  BY <1>1 DEF Parts
<1>3. QED BY <1>2 DEF Placed, Announced

\* A message that is sent, or put last in the queue.
LEMMA SendInStep ==
  ASSUME TypeOK, TypeOK', Calm, InStep, ~Top("drain"),
         NEW e \in Notes, e.t = "ack" => e.n \in open, e.log = mem.log,
         open # {} => version = Announced + Step(e),
         Send(e), UNCHANGED <<mem, run, conn, open>>, Rest(stack)' \in Seq(Parts)
  PROVE  InStep'
<1>0. run = <<>> /\ run' = <<>> /\ e \in Tidings /\ version' = version /\ Len(e.log) = version
  BY Alone DEF Notes, version
<1>1. CASE pending
  <2>1. effects' = Append(effects, e) /\ copy' = copy
    BY <1>1 DEF Send, outside
  <2>2. effects' \in Seq(Notes)
    BY <2>1, AppendProperties DEF InStep
  <2>3. Notes' = Notes /\ Parts' = Parts
    BY <2>1 DEF Notes, Parts, Answered, Known
  <2>4. ASSUME open # {} PROVE Stream(version)'
    <3>1. PICK a, b \in Nat : Carries(run, a, b) /\ Carries(effects, b, Announced) /\ CopiesAt(a)
      BY <2>4 DEF InStep, Stream
    <3>2. Announced \in Nat /\ effects \in Seq(Tidings)
      BY AnnouncedIs DEF Calm
    <3>3. Carries(effects', b, version)
      BY <1>0, <2>1, <2>4, <3>1, <3>2, CarriesAppend
    <3>4. CopiesAt(a)' /\ Carries(run', a, b)
      BY <1>0, <2>1, <3>1 DEF CopiesAt
    <3>5. QED BY <1>0, <3>3, <3>4 DEF Stream
  <2>5. CopiesAreWhole' /\ (\A n \in Sessions : copy[n].synced => Known(n))'
    BY <2>1 DEF InStep, CopiesAreWhole, Known
  <2>6. run' \in Seq(Notes') /\ effects' \in Seq(Notes')
    BY <1>0, <2>2, <2>3, EmptySeq
  <2>7. Placed' /\ Announced' = version'
    BY <2>3, NowAnnounced
  <2>8. QED BY <2>4, <2>5, <2>6, <2>7 DEF InStep
<1>2. CASE ~pending
  <2>1. Deliver(e) /\ effects = <<>> /\ effects' = <<>>
    BY <1>2 DEF Send, pending
  <2>2. ASSUME open # {} PROVE Announced \in Nat /\ CopiesAt(Announced)
    <3>1. PICK a, b \in Nat : Carries(run, a, b) /\ Carries(effects, b, Announced) /\ CopiesAt(a)
      BY <2>2 DEF InStep, Stream
    <3>2. a = b /\ b = Announced
      BY <1>0, <2>1, <3>1 DEF Carries
    <3>3. QED BY <3>1, <3>2
  <2>3. Announced \in Nat
    BY AnnouncedIs
  <2>4. CopiesAreWhole /\ \A n \in Sessions : copy[n].synced => Known(n)
    BY DEF InStep
  <2>5. /\ CopiesAreWhole'
        /\ \A n \in Sessions : /\ copy'[n].synced => Known(n)
                               /\ copy[n].synced => copy'[n].synced
        /\ \A n \in open \cap Sessions : copy'[n].synced => copy'[n].v = version
    BY <1>0, <2>1, <2>2, <2>3, <2>4, HeardInStep
  <2>6. Parts \subseteq Parts'
    BY <2>5, NotesUp
  <2>7. Placed' /\ Announced' = version'
    BY <2>6, SeqUp, NowAnnounced
  <2>8. Stream(version)'
    <3>1. Carries(<<>>, version, version) /\ version \in Nat
      BY VersionIs DEF Carries
    <3>2. CopiesAt(version)'
      BY <1>0, <2>5 DEF CopiesAt
    <3>3. QED BY <1>0, <2>1, <3>1, <3>2 DEF Stream
  <2>9. run' \in Seq(Notes') /\ effects' \in Seq(Notes')
    BY <1>0, <2>1, EmptySeq
  <2>10. (\A n \in Sessions : copy[n].synced => Known(n))'
    BY <2>5 DEF Known
  <2>11. QED BY <2>5, <2>7, <2>8, <2>9, <2>10 DEF InStep
<1>3. QED BY <1>1, <1>2

\* A step that tells nothing and stores nothing, with the sessions as they are.
LEMMA QuietInStep ==
  ASSUME TypeOK, InStep, UNCHANGED <<effects, run, conn, open, copy>>,
         Placed', Announced' = Announced
  PROVE  InStep'
<1>1. Notes' = Notes
  BY DEF Notes, Answered, Known
<1>2. Stream(Announced) => Stream(Announced)'
  BY DEF Stream, CopiesAt
<1>3. QED BY <1>1, <1>2 DEF InStep, CopiesAreWhole, Known

\* A call that goes on to what tells no new version.
LEMMA DoneInStep ==
  ASSUME TypeOK, TypeOK', InStep, Rest(stack) \in Seq(Parts), Rest(stack)' \in Seq(Parts),
         UNCHANGED <<effects, run, conn, open, copy>>, version' = version
  PROVE  InStep'
<1>1. Parts' = Parts
  BY DEF Parts, Answered, Known
<1>2. Placed' /\ Announced' = version'
  BY <1>1, NowAnnounced
<1>3. Announced = version
  BY AnnouncedIs
<1>4. QED BY <1>2, <1>3, QuietInStep

\* With no session open, nobody is left to find a version missing.
LEMMA ClosedInStep ==
  ASSUME TypeOK, TypeOK', InStep, open' = {}, effects' = <<>>, run' = <<>>, UNCHANGED <<conn, copy>>,
         stack' = <<>> \/ Waits(stack')
  PROVE  InStep'
<1>1. Rest(stack)' \in Seq(Parts')
  <2>1. CASE stack' = <<>>
    BY <2>1, EmptySeq DEF Rest
  <2>2. CASE Waits(stack')
    <3>1. stack' \in Seq(Calls) /\ stack' # <<>> /\ Head(stack') \in Waiting /\ Tail(stack') = <<>>
      BY <2>2 DEF Waits, TypeOK
    <3>2. Rest(stack') = stack'
      BY <2>2, <3>1, RestIs
    <3>3. Head(stack') \in Parts' /\ <<>> \in Seq(Parts')
      BY <3>1, EmptySeq DEF Waiting, Parts
    <3>4. stack' = <<Head(stack')>> \o Tail(stack')
      BY <3>1, HeadTailProperties
    <3>5. <<Head(stack')>> \in Seq(Parts')
      BY <3>3
    <3>6. stack' \in Seq(Parts')
      BY <3>1, <3>3, <3>4, <3>5, ConcatProperties
    <3>7. QED BY <3>2, <3>6
  <2>3. QED BY <2>1, <2>2
<1>2. Placed'
  BY <1>1 DEF Placed
<1>3. effects' \in Seq(Notes') /\ run' \in Seq(Notes')
  BY EmptySeq
<1>4. QED BY <1>2, <1>3 DEF InStep, CopiesAreWhole, Known

\* A call that waited ends: nothing is held back, and sessions may have closed.
LEMMA WaitedInStep ==
  ASSUME TypeOK, TypeOK', Calm, InStep, stack # <<>>, Frame \in Waiting, Done,
         UNCHANGED <<mem, effects, run, conn, copy>>, open' \subseteq open
  PROVE  InStep'
<1>1. effects = <<>> /\ run = <<>> /\ stack' = <<>> /\ Rest(stack) = stack
  BY WaitingCall DEF Done
<1>2. Head(stack) \notin {f \in Calls : f.k = "broadcast"}
  BY DEF Frame, Waiting
<1>3. Announced = version /\ version' = version
  BY <1>1, <1>2 DEF Announced, version, Frame, Waiting
<1>4. Rest(stack)' \in Seq(Parts')
  BY <1>1, EmptySeq DEF Rest
<1>5. Placed' /\ Announced' = version'
  BY <1>4, NowAnnounced
<1>6. ASSUME open' # {} PROVE Stream(version)'
  <2>1. PICK a, b \in Nat : Carries(run, a, b) /\ Carries(effects, b, Announced) /\ CopiesAt(a)
    BY <1>6 DEF InStep, Stream
  <2>2. CopiesAt(a)'
    BY <2>1 DEF CopiesAt
  <2>3. QED BY <1>3, <2>1, <2>2 DEF Stream
<1>7. effects' \in Seq(Notes') /\ run' \in Seq(Notes')
  BY <1>1, EmptySeq
<1>8. QED BY <1>5, <1>6, <1>7 DEF InStep, CopiesAreWhole, Known

\* A commit on the way, with nothing new to tell or with the patch of what it made.
LEMMA CommitInStep ==
  ASSUME TypeOK, TypeOK', Calm, InStep, ~Top("drain"), ~Waits(stack), status = "live",
         Rest(stack) \in Seq(Parts),
         NEW m \in Image, NEW calls \in Seq(Plain), Commit(m, calls),
         \/ Len(m.log) = version /\ calls \in Seq(Parts)
         \/ /\ Len(m.log) = version + 1
            /\ calls # <<>> /\ Head(calls).k = "broadcast" /\ Head(calls).log = m.log
            /\ Tail(calls) \in Seq(Parts)
  PROVE  InStep'
<1>1. /\ mem' = m /\ UNCHANGED <<run, conn>> /\ run = <<>>
      /\ \/ Rest(stack') = calls /\ UNCHANGED <<effects, open, copy>>
         \/ open' = {} /\ stack' = <<>> /\ effects' = <<>> /\ UNCHANGED copy
  BY CommitCalm, Alone DEF outside
<1>2. version' = Len(m.log) /\ version \in Nat
  BY <1>1, VersionIs DEF version
<1>3. CASE open' = {} /\ stack' = <<>> /\ effects' = <<>> /\ UNCHANGED copy
  BY <1>1, <1>3, ClosedInStep
<1>4. CASE Rest(stack') = calls /\ UNCHANGED <<effects, open, copy>>
  <2>1. CASE Len(m.log) = version /\ calls \in Seq(Parts)
    BY <1>1, <1>2, <1>4, <2>1, DoneInStep
  <2>2. CASE /\ Len(m.log) = version + 1
             /\ calls # <<>> /\ Head(calls).k = "broadcast" /\ Head(calls).log = m.log
             /\ Tail(calls) \in Seq(Parts)
    <3>1. Parts' = Parts
      BY <1>1, <1>4 DEF Parts, Answered, Known
    <3>2. version' # 0 /\ version' - 1 = version
      BY <1>2, <2>2
    <3>3. Placed'
      BY <1>1, <1>4, <2>2, <3>1, <3>2 DEF Placed, Announcing
    <3>4. Announced' = version
      BY <1>4, <2>2, <3>2 DEF Announced
    <3>5. Announced = version
      BY AnnouncedIs
    <3>6. QED BY <1>1, <1>4, <3>3, <3>4, <3>5, QuietInStep
  <2>3. QED BY <2>1, <2>2
<1>5. QED BY <1>1, <1>3, <1>4

\* commitNow called with a call that waits, or by nobody.
LEMMA CommitNowInStep ==
  ASSUME TypeOK, TypeOK', Calm, InStep, stack = <<>>, NEW calls \in Seq(Calls),
         calls = <<>> \/ Waits(calls), CommitNow(calls)
  PROVE  InStep'
<1>1. ~Top("drain") /\ UNCHANGED <<mem, run, conn>> /\ run = <<>>
  BY DEF Top, CommitNow, Calm
<1>2. \/ Rest(stack') = calls /\ UNCHANGED <<effects, open, copy>>
      \/ /\ changes # <<>> /\ stack' = calls /\ effects' = <<>> /\ copy' = copy
         /\ status = "live" => open' = {}
  BY <1>1, StoredCalm DEF CommitNow, outside
<1>3. CASE changes # <<>> /\ stack' = calls /\ effects' = <<>> /\ copy' = copy
           /\ (status = "live" => open' = {})
  BY <1>1, <1>3, ClosedInStep DEF Calm
<1>4. CASE Rest(stack') = calls /\ UNCHANGED <<effects, open, copy>>
  <2>1. calls \in Seq(Parts)
    <3>1. CASE calls = <<>>
      BY <3>1, EmptySeq
    <3>2. CASE Waits(calls)
      <4>1. Head(calls) \in Parts /\ <<>> \in Seq(Parts) /\ calls # <<>> /\ Tail(calls) = <<>>
        BY <3>2, EmptySeq DEF Waits, Waiting, Parts
      <4>2. calls = <<Head(calls)>> \o Tail(calls) /\ <<Head(calls)>> \in Seq(Parts)
        BY <4>1, HeadTailProperties
      <4>3. QED BY <4>1, <4>2, ConcatProperties
    <3>3. QED BY <3>1, <3>2
  <2>2. Rest(stack) \in Seq(Parts)
    BY EmptySeq DEF Rest
  <2>3. version' = version
    BY <1>1 DEF version
  <2>4. QED BY <1>1, <1>4, <2>1, <2>2, <2>3, DoneInStep
<1>5. QED BY <1>2, <1>3, <1>4

LEMMA Put ==
  ASSUME NEW S, NEW f \in S, NEW s \in Seq(S)
  PROVE  /\ <<f>> \o s # <<>> /\ <<f>> \o s \in Seq(S)
         /\ Head(<<f>> \o s) = f /\ Tail(<<f>> \o s) = s
<1>1. <<f>> \in Seq(S) /\ Len(<<f>>) = 1 /\ <<f>>[1] = f
  OBVIOUS
<1>2. /\ <<f>> \o s \in Seq(S) /\ Len(<<f>> \o s) = 1 + Len(s) /\ Len(s) \in Nat
      /\ (<<f>> \o s)[1] = f
      /\ \A i \in 1 .. Len(s) : (<<f>> \o s)[i + 1] = s[i]
  BY <1>1, ConcatProperties, LenProperties
<1>3. /\ <<f>> \o s # <<>> /\ Head(<<f>> \o s) = f
      /\ Tail(<<f>> \o s) \in Seq(S) /\ Len(Tail(<<f>> \o s)) = Len(s)
      /\ \A i \in 1 .. Len(s) : Tail(<<f>> \o s)[i] = s[i]
  BY <1>2, HeadTailProperties, EmptySeq
<1>4. Tail(<<f>> \o s) = s
  BY <1>3, SeqEqual
<1>5. QED BY <1>2, <1>3, <1>4

LEMMA RunEffectInStep ==
  ASSUME TypeOK, TypeOK', Calm, InStep, RunEffect
  PROVE  InStep'
<1> DEFINE e == Head(run)
<1>1. /\ run # <<>> /\ run' = Tail(run) /\ e = run[1]
      /\ e \in Notes /\ Tail(run) \in Seq(Notes) /\ e \in Tidings /\ e.t \notin {"op", "closed"}
  BY InTail DEF RunEffect, InStep, Notes, Tidings, Tells
<1>2. UNCHANGED <<mem, effects, conn, open, stack>> /\ (IF Sent(e) THEN Deliver(e) ELSE UNCHANGED outside)
  BY <1>1 DEF RunEffect, store, people
<1>3. ASSUME open # {}
      PROVE  \E a, b \in Nat : /\ Len(e.log) = a + Step(e) /\ CopiesAt(a)
                               /\ Carries(Tail(run), Len(e.log), b) /\ Carries(effects, b, Announced)
  <2>1. PICK a, b \in Nat : Carries(run, a, b) /\ Carries(effects, b, Announced) /\ CopiesAt(a)
    BY <1>3 DEF InStep, Stream
  <2>2. run \in Seq(Tidings)
    BY DEF Calm
  <2>3. Len(e.log) = a + Step(e) /\ Carries(Tail(run), Len(e.log), b)
    BY <1>1, <2>1, <2>2, CarriesTail
  <2>4. QED BY <2>1, <2>3
<1>4. Len(e.log) \in Nat
  BY <1>1, MessageTypes, LenProperties DEF Tidings
<1>5. /\ CopiesAreWhole'
      /\ \A n \in Sessions : /\ copy'[n].synced => Known(n)
                             /\ copy[n].synced => copy'[n].synced
      /\ \A n \in open \cap Sessions : copy'[n].synced => copy'[n].v = Len(e.log)
  <2>1. CASE Sent(e)
    <3>1. Deliver(e) /\ (e.t = "ack" => e.n \in open)
      BY <1>1, <1>2, <2>1 DEF Sent
    <3>2. PICK a \in Nat : open # {} => CopiesAt(a) /\ Len(e.log) = a + Step(e)
      BY <1>3
    <3>3. CopiesAreWhole /\ \A n \in Sessions : copy[n].synced => Known(n)
      BY DEF InStep
    <3>4. QED BY <1>1, <3>1, <3>2, <3>3, HeardInStep
  <2>2. CASE ~Sent(e)
    <3>1. copy' = copy /\ e.t # "patch" /\ e.n \notin open
      BY <1>2, <2>2 DEF Sent, outside
    <3>2. Step(e) = 0
      BY <3>1 DEF Step
    <3>3. \A n \in open \cap Sessions : copy[n].synced => copy[n].v = Len(e.log)
      BY <1>3, <3>2 DEF CopiesAt
    <3>4. QED BY <3>1, <3>3 DEF InStep, CopiesAreWhole
  <2>3. QED BY <2>1, <2>2
<1>6. Notes \subseteq Notes' /\ Parts \subseteq Parts'
  BY <1>2, <1>5, NotesUp
<1>7. run' \in Seq(Notes') /\ effects' \in Seq(Notes')
  BY <1>1, <1>2, <1>6, SeqUp DEF InStep
<1>8. Placed' /\ Announced' = Announced
  <2>1. Rest(stack)' = Rest(stack) /\ version' = version /\ mem' = mem
    BY <1>2 DEF version
  <2>2. Rest(stack) \in Seq(Parts) => Rest(stack) \in Seq(Parts')
    BY <1>6, SeqUp
  <2>3. Tail(Rest(stack)) \in Seq(Parts) => Tail(Rest(stack)) \in Seq(Parts')
    BY <1>6, SeqUp
  <2>4. QED BY <2>1, <2>2, <2>3 DEF InStep, Placed, Announcing, Announced
<1>9. ASSUME open' # {} PROVE Stream(Announced)'
  <2>1. PICK a, b \in Nat : Carries(Tail(run), Len(e.log), b) /\ Carries(effects, b, Announced)
    BY <1>2, <1>3, <1>9
  <2>2. PICK at \in Nat : at = Len(e.log)
    BY <1>4
  <2>3. CopiesAt(at)'
    BY <1>2, <1>5, <2>2 DEF CopiesAt
  <2>4. Carries(run', at, b) /\ Carries(effects', b, Announced')
    BY <1>1, <1>2, <1>8, <2>1, <2>2
  <2>5. QED BY <2>3, <2>4 DEF Stream
<1>10. (\A n \in Sessions : copy[n].synced => Known(n))'
  BY <1>2, <1>5 DEF Known
<1>11. QED BY <1>5, <1>7, <1>8, <1>9, <1>10 DEF InStep

LEMMA ApplyInStep ==
  ASSUME TypeOK, TypeOK', Calm, InStep, "observe" \notin Uses, Apply
  PROVE  InStep'
<1> DEFINE f == Frame
           decided == [mem EXCEPT !.seq[f.p] = f.seq, !.owned = @ \cup {f.p}]
           landed == [decided EXCEPT !.log = Append(@, <<f.p, f.seq>>)]
           b == [k |-> "broadcast", log |-> landed.log]
           a == [k |-> "ack", n |-> f.ackTo, p |-> f.p, seq |-> f.seq]
<1>1. /\ stack # <<>> /\ f \in Calls /\ f.k = "apply" /\ f \in Plain
      /\ f.p \in Peers /\ f.seq \in Nat /\ f.ackTo \in Nat
  <2>1. stack # <<>> /\ f.k = "apply"
    BY DEF Apply, Top, Frame
  <2>2. f \in Calls
    BY <2>1, FrameIn
  <2>3. QED BY <2>1, <2>2, FrameTypes DEF Plain
<1>2. /\ Rest(stack) = stack /\ Tail(stack) \in Seq(Plain) /\ status = "live"
      /\ ~Waits(stack) /\ ~Top("drain")
  BY <1>1, PlainCall DEF Top, Frame
<1>3. stack \in Seq(Parts) /\ f \in Parts /\ Tail(stack) \in Seq(Parts)
  <2>1. ~Announcing(Rest(stack))
    BY <1>1, <1>2 DEF Announcing, Frame
  <2>2. stack \in Seq(Parts)
    BY <1>2, <2>1 DEF InStep, Placed
  <2>3. QED BY <1>1, <2>2, InTail DEF Frame
<1>4. Applied(f) \in Seq(Plain) /\ Applied(f) \in Seq(Parts)
  <2>1. Applied(f) \in Seq(Plain)
    BY <1>1, AppliedPlain
  <2>2. f.ackTo # 0 => a \in Parts
    BY <1>1, <1>3 DEF Parts, Calls
  <2>3. Applied(f) \in Seq(Parts)
    <3>1. CASE f.ackTo = 0
      BY <1>3, <3>1, ConcatProperties, EmptySeq DEF Applied
    <3>2. CASE f.ackTo # 0
      <4>1. <<a>> \in Seq(Parts)
        BY <2>2, <3>2
      <4>2. QED BY <1>3, <3>2, <4>1, ConcatProperties DEF Applied
    <3>3. QED BY <3>1, <3>2
  <2>4. QED BY <2>1, <2>3
<1>5. decided \in Image /\ decided.log = mem.log
  BY <1>1 DEF Image, TypeOK
<1>6. landed \in Image /\ landed.log \in Seq(Ops) /\ Len(landed.log) = version + 1
  <2>1. <<f.p, f.seq>> \in Ops /\ mem.log \in Seq(Ops)
    BY <1>1, VersionIs DEF Ops
  <2>2. Append(mem.log, <<f.p, f.seq>>) \in Seq(Ops) /\ Len(Append(mem.log, <<f.p, f.seq>>)) = version + 1
    BY <2>1, AppendProperties DEF version
  <2>3. landed.log = Append(mem.log, <<f.p, f.seq>>)
    BY <1>5 DEF Image
  <2>4. QED BY <1>5, <2>2, <2>3 DEF Image
<1>7. CASE Decided(f)
  <2>1. stack' = Applied(f) /\ UNCHANGED <<mem, effects, run, conn, open, copy>>
    BY <1>7 DEF Apply, store, people, outside
  <2>2. Rest(stack') = stack'
    BY <1>4, <2>1, RestIs, SeqUp DEF Plain
  <2>3. QED BY <1>2, <1>3, <1>4, <2>1, <2>2, DoneInStep DEF version
<1>8. CASE ~Decided(f) /\ f.lands
  <2>1. Commit(landed, <<b>> \o Observers \o Applied(f))
    BY <1>8 DEF Apply, Landed
  <2>2. b \in Plain
    BY <1>6 DEF Plain, Calls
  <2>3. <<b>> \o Observers \o Applied(f) = <<b>> \o Applied(f) /\ <<b>> \o Applied(f) \in Seq(Plain)
    BY <1>4, <2>2, NoObservers
  <2>4. <<b>> \o Applied(f) # <<>> /\ Head(<<b>> \o Applied(f)) = b /\ Tail(<<b>> \o Applied(f)) = Applied(f)
    BY <1>4, <2>2, Put
  <2>5. PICK calls \in Seq(Plain) :
          /\ Commit(landed, calls) /\ calls # <<>> /\ Head(calls).k = "broadcast"
          /\ Head(calls).log = landed.log /\ Tail(calls) \in Seq(Parts)
    <3>1. b.k = "broadcast" /\ b.log = landed.log
      OBVIOUS
    <3>2. Commit(landed, <<b>> \o Applied(f))
      BY <2>1, <2>3
    <3> HIDE DEF b, landed
    <3>3. QED BY <1>4, <2>3, <2>4, <3>1, <3>2
  <2>6. Rest(stack) \in Seq(Parts) /\ ~Top("drain") /\ ~Waits(stack) /\ status = "live"
    BY <1>2, <1>3
  <2>7. PICK m \in Image : /\ Commit(m, calls) /\ Head(calls).log = m.log
                           /\ Len(m.log) = version + 1
    BY <1>6, <2>5
  <2>8. QED BY <2>5, <2>6, <2>7, CommitInStep
<1>9. CASE ~Decided(f) /\ ~f.lands
  <2>1. Commit(decided, Applied(f))
    BY <1>4, <1>9, NoObservers, <1>1 DEF Apply
  <2>2. QED BY <1>2, <1>3, <1>4, <1>5, <2>1, CommitInStep DEF version
<1>10. QED BY <1>7, <1>8, <1>9

LEMMA SeqOf ==
  ASSUME NEW S, NEW T, NEW s \in Seq(S), \A i \in 1 .. Len(s) : s[i] \in T
  PROVE  s \in Seq(T)
<1>1. s = [i \in 1 .. Len(s) |-> s[i]] /\ Len(s) \in Nat
  BY SeqDef, LenProperties
<1>2. QED BY <1>1, SeqDef

LEMMA RunningInStep ==
  ASSUME TypeOK, TypeOK', Calm, InStep, "observe" \notin Uses, Running
  PROVE  InStep'
<1>0. stack # <<>> /\ stack \in Seq(Calls)
  BY DEF Running, Top, DrainTake, RunEffect, DrainEnd, Claim, Alive, Apply, Broadcast, Observe,
         HookReturns, Ack, Answer, Open, Evict, Reject, Dispose, Fetch, TypeOK
<1>a. Frame \in Calls
  BY <1>0, FrameIn
<1>b. /\ Frame.k \in {"claim", "alive", "apply", "broadcast", "ack", "answer"} => Frame \in Plain
      /\ Frame.k \in {"open", "evict", "reject", "dispose", "fetch"} => Frame \in Waiting
  BY <1>a DEF Plain, Waiting
<1>c. Frame \in Plain =>
        /\ Rest(stack) = stack /\ Tail(stack) \in Seq(Plain) /\ Rest(Tail(stack)) = Tail(stack)
        /\ status = "live" /\ ~Waits(stack) /\ ~Top("drain")
  <2>1. Tail(stack) \in Seq(Plain) => Tail(stack) \in Seq(Calls)
    BY SeqUp DEF Plain
  <2>2. QED BY <1>0, <2>1, PlainCall, RestIs DEF Top, Frame, Plain
<1>d. Frame \in Plain /\ Frame.k # "broadcast" =>
        stack \in Seq(Parts) /\ Frame \in Parts /\ Tail(stack) \in Seq(Parts)
  BY <1>0, <1>c, InTail DEF InStep, Placed, Announcing, Frame
<1>e. ASSUME Frame \in Plain, Frame.k # "broadcast", Done,
             UNCHANGED <<mem, effects, run, conn, open, copy>>
      PROVE  InStep'
  <2>1. Rest(stack)' = Tail(stack) /\ version' = version
    BY <1>c, <1>e DEF Done, version
  <2>2. QED BY <1>c, <1>d, <1>e, <2>1, DoneInStep
<1>f. mem.log \in Seq(Ops) /\ Len(mem.log) = version /\ version \in Nat /\ Len(conn) \in Nat
  BY VersionIs DEF version
<1>1. CASE DrainTake
  <2>1. /\ run = <<>> /\ run' = effects /\ effects' = <<>>
        /\ UNCHANGED <<mem, stack, conn, open, copy>>
    BY <1>1 DEF DrainTake, store, people, outside
  <2>2. Notes' = Notes /\ Parts' = Parts /\ Announced' = Announced
    BY <2>1 DEF Notes, Parts, Answered, Known, Announced, version
  <2>3. ASSUME open # {} PROVE Stream(Announced)'
    <3>1. PICK a, b \in Nat : Carries(run, a, b) /\ Carries(effects, b, Announced) /\ CopiesAt(a)
      BY <2>3 DEF InStep, Stream
    <3>2. a = b /\ Announced \in Nat
      BY <2>1, <3>1, AnnouncedIs DEF Carries
    <3>3. Carries(<<>>, Announced, Announced)
      BY DEF Carries
    <3>4. CopiesAt(a)'
      BY <2>1, <3>1 DEF CopiesAt
    <3>5. QED BY <2>1, <2>2, <3>1, <3>2, <3>3, <3>4 DEF Stream
  <2>4. Placed'
    BY <2>1, <2>2 DEF InStep, Placed, Announcing, version
  <2>5. run' \in Seq(Notes') /\ effects' \in Seq(Notes')
    BY <2>1, <2>2, EmptySeq DEF InStep
  <2>6. QED BY <2>1, <2>3, <2>4, <2>5 DEF InStep, CopiesAreWhole, Known
<1>2. CASE RunEffect
  BY <1>2, RunEffectInStep
<1>3. CASE DrainEnd
  <2>1. /\ Rest(stack) = Tail(stack) /\ stack' = Tail(stack)
        /\ UNCHANGED <<mem, effects, run, conn, open, copy>>
    BY <1>3 DEF DrainEnd, Top, Rest, people, outside
  <2>2. Tail(stack) \in Seq(Plain) \/ Waits(Tail(stack))
    BY <2>1 DEF Calm
  <2>3. Rest(stack') = Rest(stack)
    BY <1>0, <2>1, <2>2, FrameIn, RestIs
  <2>4. Parts' = Parts /\ version' = version
    BY <2>1 DEF Parts, Answered, Known, version
  <2>5. Placed' /\ Announced' = Announced
    BY <2>1, <2>3, <2>4 DEF InStep, Placed, Announcing, Announced
  <2>6. QED BY <2>1, <2>5, QuietInStep
<1>4. CASE Claim
  <2>1. Frame \in Plain /\ Frame.k # "broadcast" /\ Frame.p \in Peers
    BY <1>4, <1>a, <1>b, FrameTypes DEF Claim, Top, Frame
  <2>2. CASE Frame.p \in mem.owned
    BY <1>4, <1>e, <2>1, <2>2 DEF Claim, store, people, outside
  <2>3. CASE Frame.p \notin mem.owned
    <3>1. PICK m \in Image : Commit(m, Tail(stack)) /\ m.log = mem.log
      <4> DEFINE claimed == [mem EXCEPT !.owned = @ \cup {Frame.p}]
      <4>1. claimed \in Image /\ claimed.log = mem.log
        BY <2>1 DEF Image, TypeOK
      <4>2. Commit(claimed, Tail(stack))
        BY <1>4, <2>3 DEF Claim
      <4> HIDE DEF claimed
      <4>3. QED BY <4>1, <4>2
    <3>2. QED BY <1>c, <1>d, <1>f, <2>1, <3>1, CommitInStep
  <2>4. QED BY <2>2, <2>3
<1>5. CASE Alive
  <2>1. Frame \in Plain /\ Frame.k # "broadcast"
    BY <1>5, <1>b DEF Alive, Top, Frame
  <2>2. QED BY <1>5, <1>c, <1>e, <2>1 DEF Alive, Done, store, people, outside
<1>6. CASE Apply
  BY <1>6, ApplyInStep
<1>7. CASE Broadcast
  <2> DEFINE e == [t |-> "patch", log |-> Frame.log, upTo |-> Len(conn)]
  <2>1. Frame \in Plain /\ Frame.k = "broadcast"
    BY <1>7, <1>b DEF Broadcast, Top, Frame
  <2>2. /\ Rest(stack) = stack /\ stack \notin Seq(Parts)
        /\ stack' = Tail(stack) /\ Rest(stack)' = Tail(stack)
    <3>1. Frame \notin Parts
      BY <2>1 DEF Parts
    <3>2. QED BY <1>0, <1>7, <1>c, <2>1, <3>1, InTail DEF Frame, Broadcast, Done
  <2>3. Announced = version - 1 /\ Frame.log = mem.log /\ Tail(stack) \in Seq(Parts)
    BY <2>2, AnnouncedIs DEF Announcing, Frame
  <2>4. UNCHANGED <<mem, run, conn, open>>
    BY <1>7 DEF Broadcast, store, people
  <2>5. e \in Notes
    <3>1. \A n \in open : n <= Len(conn)
      BY <1>f DEF TypeOK
    <3>2. e \in Message
      BY <1>f, <2>3 DEF Message
    <3>3. QED BY <3>1, <3>2 DEF Notes, Tidings, Tells
  <2>6. CASE open = {}
    <3>1. UNCHANGED <<effects, copy>>
      BY <1>7, <2>6 DEF Broadcast, outside
    <3>2. Notes' = Notes /\ Parts' = Parts
      BY <2>4, <3>1 DEF Notes, Parts, Answered, Known
    <3>3. QED BY <2>2, <2>3, <2>4, <2>6, <3>1, <3>2 DEF InStep, Placed, CopiesAreWhole, Known
  <2>7. CASE open # {}
    <3>1. Send(e)
      BY <1>7, <2>7 DEF Broadcast
    <3>2. version = Announced + Step(e) /\ e.log = mem.log /\ e.t # "ack"
      BY <1>f, <2>3 DEF Step
    <3>3. QED BY <1>c, <2>1, <2>2, <2>3, <2>4, <2>5, <3>1, <3>2, SendInStep
  <2>8. QED BY <2>6, <2>7
<1>8. CASE Observe \/ HookReturns
  <2>1. Frame \notin Plain /\ Frame \notin Waiting /\ ~Top("drain")
    BY <1>8 DEF Observe, HookReturns, Top, Frame, Plain, Waiting
  <2>2. stack \in Seq(Plain) \/ Waits(stack)
    BY <2>1, Alone
  <2>3. QED BY <1>0, <2>1, <2>2, InTail DEF Waits, Frame
<1>9. ASSUME Frame \in Plain, Frame.k # "broadcast", NEW e \in Notes, Step(e) = 0,
             e.t = "ack" => e.n \in open, e.log = mem.log, Send(e), Done,
             UNCHANGED <<mem, run, conn, open>>
      PROVE  InStep'
  <2>1. Rest(stack)' = Tail(stack) /\ Tail(stack) \in Seq(Parts)
    BY <1>9, <1>c, <1>d DEF Done
  <2>2. version = Announced + Step(e)
    BY <1>9, <1>c, <1>d, <1>f, AnnouncedIs
  <2>3. QED BY <1>9, <1>c, <2>1, <2>2, SendInStep
<1>10. CASE Ack
  <2> DEFINE e == [t |-> "ack", n |-> Frame.n, p |-> Frame.p, seq |-> Frame.seq, log |-> mem.log]
  <2>1. Frame \in Plain /\ Frame.k = "ack" /\ Frame.n \in Nat /\ Frame.p \in Peers /\ Frame.seq \in Nat
    BY <1>10, <1>a, <1>b, FrameTypes DEF Ack, Top, Frame
  <2>2. Frame.n \in open /\ Answered(Frame.n)
    BY <1>d, <2>1 DEF Parts
  <2>3. e \in Notes
    BY <1>f, <2>1, <2>2 DEF Notes, Tidings, Tells, Message
  <2>4. Send(e) /\ Done /\ UNCHANGED <<mem, run, conn, open>>
    BY <1>10 DEF Ack, store, people
  <2>5. QED BY <1>9, <2>1, <2>2, <2>3, <2>4 DEF Step
<1>11. CASE Answer
  <2> DEFINE e == [t |-> "answer", n |-> Frame.n, p |-> Frame.p, seq |-> mem.seq[Frame.p], log |-> mem.log]
  <2>1. Frame \in Plain /\ Frame.k = "answer" /\ Frame.n \in Nat /\ Frame.p \in Peers
    BY <1>11, <1>a, <1>b, FrameTypes DEF Answer, Top, Frame
  <2>2. Known(Frame.n) /\ mem.seq[Frame.p] \in Nat
    BY <1>d, <2>1 DEF Parts, TypeOK, Image
  <2>3. e \in Notes
    BY <1>f, <2>1, <2>2 DEF Notes, Tidings, Tells, Message
  <2>4. Send(e) /\ Done /\ UNCHANGED <<mem, run, conn, open>>
    BY <1>11 DEF Answer, store, people
  <2>5. QED BY <1>9, <2>1, <2>2, <2>3, <2>4 DEF Step
<1>12. CASE Open
  <2>1. /\ Frame \in Waiting /\ UNCHANGED <<mem, effects, run, copy>>
        /\ conn' = Append(conn, Frame.p) /\ open' = open \cup {Len(conn) + 1}
    BY <1>12, <1>b DEF Open, Top, Frame, store, outside
  <2>2. effects = <<>> /\ run = <<>> /\ stack' = <<>> /\ Rest(stack) = stack
    BY <1>0, <1>12, <2>1, WaitingCall DEF Open, Done
  <2>3. Len(conn') = Len(conn) + 1 /\ version' = version
    BY <2>1, AppendProperties, <1>a, FrameTypes, <1>12 DEF version, Open, Top, Frame, TypeOK
  <2>4. (\A n \in Sessions : copy[n].synced => Known(n))'
    BY <1>f, <2>1, <2>3, LenProperties DEF InStep, Known, Sessions
  <2>5. open # {} => CopiesAt(version)
    <3>1. Announced = version
      BY <2>1, <2>2 DEF Announced, Frame, Waiting
    <3>2. QED BY <2>2, <3>1 DEF InStep, Stream, Carries
  <2>6. CopiesAt(version)'
    <3>1. ASSUME NEW n \in open' \cap Sessions, copy'[n].synced PROVE copy'[n].v = version'
      <4>1. Known(n)
        BY <2>1, <3>1 DEF InStep
      <4>2. n \in open
        BY <1>f, <2>1, <3>1, <4>1 DEF Known
      <4>3. QED BY <2>1, <2>3, <2>5, <3>1, <4>2 DEF CopiesAt
    <3>2. QED BY <3>1 DEF CopiesAt
  <2>7. Rest(stack)' \in Seq(Parts')
    BY <2>2, EmptySeq DEF Rest
  <2>8. Placed' /\ Announced' = version'
    BY <2>7, NowAnnounced
  <2>9. Stream(version)'
    <3>1. Carries(<<>>, version, version)
      BY DEF Carries
    <3>2. QED BY <1>f, <2>1, <2>2, <2>3, <2>6, <3>1 DEF Stream
  <2>10. effects' \in Seq(Notes') /\ run' \in Seq(Notes')
    BY <2>1, <2>2, EmptySeq
  <2>11. QED BY <2>1, <2>4, <2>8, <2>9, <2>10 DEF InStep, CopiesAreWhole
<1>13. CASE Evict \/ Reject
  <2>1. Frame \in Waiting /\ ~pending
    BY <1>0, <1>13, <1>b, WaitingCall DEF Evict, Reject, Top, Frame
  <2>2. open' \subseteq open /\ UNCHANGED <<mem, effects, run, conn, copy>> /\ Done
    BY <1>13, <2>1 DEF Evict, Reject, End, store, outside
  <2>3. QED BY <1>0, <2>1, <2>2, WaitedInStep
<1>14. CASE Dispose \/ Fetch
  <2>1. Frame \in Waiting
    BY <1>14, <1>b DEF Dispose, Fetch, Top, Frame
  <2>2. open' \subseteq open /\ UNCHANGED <<mem, effects, run, conn, copy>> /\ Done
    BY <1>14 DEF Dispose, Fetch, store, people, outside
  <2>3. QED BY <1>0, <2>1, <2>2, WaitedInStep
<1>15. QED
  BY <1>1, <1>2, <1>3, <1>4, <1>5, <1>6, <1>7, <1>8, <1>10, <1>11, <1>12, <1>13, <1>14
  DEF Running

\* What a task begins, on an empty stack.
LEMMA BeginInStep ==
  ASSUME TypeOK, TypeOK', InStep, stack = <<>>, NEW calls \in Seq(Plain),
         calls \in Seq(Parts), Begin(calls)
  PROVE  InStep'
<1>1. calls \in Seq(Calls)
  BY SeqUp DEF Plain
<1>2. Rest(stack)' = calls /\ Rest(stack) \in Seq(Parts)
  BY <1>1, RestIs, EmptySeq DEF Begin, Rest
<1>3. QED BY <1>2, DoneInStep DEF Begin, store, people, outside, version

LEMMA CallingInStep ==
  ASSUME TypeOK, TypeOK', Calm, InStep, "observe" \notin Uses, Calling
  PROVE  InStep'
<1>0. ~Top("hook")
  <2>1. CASE Top("drain")
    BY <2>1 DEF Top
  <2>2. CASE ~Top("drain")
    <3>1. stack \in Seq(Plain) \/ Waits(stack)
      BY <2>2, Alone
    <3>2. stack # <<>> => Head(stack) \in Plain \cup Waiting
      BY <3>1, InTail DEF Waits
    <3>3. QED BY <3>2 DEF Top, Plain, Waiting
  <2>3. QED BY <2>1, <2>2
<1>1. Call => stack = <<>>
  BY <1>0 DEF Call
<1>2. ASSUME NEW f \in Waiting, stack = <<>>, CommitNow(<<f>>) PROVE InStep'
  <2>1. f \in Calls
    BY DEF Waiting
  <2>2. <<f>> \in Seq(Calls) /\ Waits(<<f>>)
    BY <2>1 DEF Waits
  <2>3. QED BY <1>2, <2>2, CommitNowInStep
<1>3. \A f \in Calls : <<f>> \o <<>> = <<f>>
  BY ConcatProperties, EmptySeq
<1>4. ASSUME NEW n \in open PROVE n \in Nat /\ Known(n)
  BY <1>4, LenProperties DEF TypeOK, Known
<1>5. ASSUME NEW p \in Peers, Connect(p) PROVE InStep'
  <2>1. [k |-> "open", p |-> p] \in Waiting
    BY DEF Waiting, Calls
  <2>2. QED BY <1>2, <1>5, <2>1 DEF Connect, Task
<1>6. ASSUME NEW n \in open, Leave(n) \/ Hello(n) \/ HelloRejected(n) \/ LiveOp(n) \/ CallEvict(n)
      PROVE  InStep'
  <2>1. CASE Leave(n)
    <3>1. /\ stack = <<>> /\ stack' = <<>> /\ open' \subseteq open
          /\ UNCHANGED <<mem, effects, run, conn, copy>>
      BY <2>1 DEF Leave, Task, store, outside
    <3>2. Notes \subseteq Notes'
      BY <3>1, NotesUp
    <3>3. Rest(stack)' \in Seq(Parts') /\ Rest(stack) \in Seq(Parts)
      BY <3>1, EmptySeq DEF Rest
    <3>4. Placed' /\ Announced' = version' /\ Announced = version /\ version' = version
      BY <3>1, <3>3, NowAnnounced, AnnouncedIs DEF version
    <3>5. ASSUME open' # {} PROVE Stream(version)'
      <4>1. PICK a, b \in Nat : Carries(run, a, b) /\ Carries(effects, b, version) /\ CopiesAt(a)
        BY <3>1, <3>4, <3>5 DEF InStep, Stream
      <4>2. CopiesAt(a)'
        BY <3>1, <4>1 DEF CopiesAt
      <4>3. QED BY <3>1, <3>4, <4>1, <4>2 DEF Stream
    <3>6. effects' \in Seq(Notes') /\ run' \in Seq(Notes')
      BY <3>1, <3>2, SeqUp DEF InStep
    <3>7. QED BY <3>1, <3>4, <3>5, <3>6 DEF InStep, CopiesAreWhole, Known
  <2>2. CASE Hello(n)
    <3>1. PICK calls \in Seq(Plain) :
            /\ Begin(calls)
            /\ \A i \in 1 .. Len(calls) : /\ calls[i].k \notin {"ack", "broadcast"}
                                          /\ calls[i].k = "answer" => calls[i].n = n
                                          /\ calls[i].k = "apply" => calls[i].ackTo = 0
      BY <2>2, HelloBegins
    <3>2. \A i \in 1 .. Len(calls) : calls[i] \in Parts
      <4>1. ASSUME NEW i \in 1 .. Len(calls) PROVE calls[i] \in Parts
        <5>1. calls[i] \in Calls
          BY ElementOfSeq DEF Plain
        <5>2. QED BY <1>4, <3>1, <5>1 DEF Parts
      <4>2. QED BY <4>1
    <3>3. calls \in Seq(Parts)
      BY <3>2, SeqOf
    <3>4. QED BY <2>2, <3>1, <3>3, BeginInStep DEF Hello, Task
  <2>3. CASE LiveOp(n)
    <3>1. PICK f \in Plain : Begin(<<f>>) /\ <<f>> \in Seq(Plain) /\ f.k = "apply" /\ f.ackTo = n
      BY <2>3, LiveOpBegins
    <3>2. f \in Parts
      BY <1>4, <2>3, <3>1 DEF Parts, Plain, LiveOp, Answered
    <3>3. <<f>> \in Seq(Parts)
      BY <3>2
    <3>4. QED BY <2>3, <3>1, <3>3, BeginInStep DEF LiveOp, Task
  <2>4. CASE HelloRejected(n)
    <3>1. [k |-> "reject", n |-> n] \in Waiting
      BY <1>4, <1>6 DEF Waiting, Calls
    <3>2. QED BY <1>2, <2>4, <3>1 DEF HelloRejected, Task
  <2>5. CASE CallEvict(n)
    <3>1. [k |-> "evict", n |-> n] \in Waiting
      BY <1>4, <1>6 DEF Waiting, Calls
    <3>2. stack = <<>> /\ CommitNow(<<[k |-> "evict", n |-> n]>> \o stack)
      BY <1>1, <2>5 DEF CallEvict
    <3>3. CommitNow(<<[k |-> "evict", n |-> n]>>)
      BY <1>3, <3>1, <3>2 DEF Waiting
    <3>4. QED BY <1>2, <3>1, <3>2, <3>3
  <2>6. QED BY <1>6, <2>1, <2>2, <2>3, <2>4, <2>5
<1>7. CASE ServerWrite
  <2> DEFINE m == [mem EXCEPT !.log = Append(@, <<Server, version + 1>>)]
             b == [k |-> "broadcast", log |-> m.log]
  <2>1. m \in Image /\ m.log \in Seq(Ops) /\ Len(m.log) = version + 1
    <3>1. mem.log \in Seq(Ops) /\ version + 1 \in Nat
      BY VersionIs
    <3>2. <<Server, version + 1>> \in Ops
      BY <3>1 DEF Ops
    <3>3. /\ Append(mem.log, <<Server, version + 1>>) \in Seq(Ops)
          /\ Len(Append(mem.log, <<Server, version + 1>>)) = version + 1
      BY <3>1, <3>2, AppendProperties DEF version
    <3>4. QED BY <3>3 DEF TypeOK, Image
  <2>2. b \in Plain /\ <<>> \in Seq(Plain) /\ stack = <<>> /\ status = "live"
    BY <1>1, <1>7, <2>1, EmptySeq DEF Plain, Calls, ServerWrite
  <2>3. Commit(m, <<b>> \o Observers \o <<>>)
    BY <1>7, <2>2 DEF ServerWrite, Landed
  <2>4. ~Waits(stack) /\ ~Top("drain") /\ Rest(stack) \in Seq(Parts) /\ <<>> \in Seq(Parts)
    BY <2>2, EmptySeq DEF Waits, Top, Rest
  <2>5. b.k = "broadcast" /\ b.log = m.log
    OBVIOUS
  <2> HIDE DEF b, m
  <2>6. PICK calls \in Seq(Plain) : /\ Commit(m, calls) /\ calls # <<>> /\ Head(calls) = b
                                    /\ Tail(calls) = <<>>
    <3>1. <<b>> \o Observers \o <<>> = <<b>> \o <<>> /\ <<b>> \o <<>> \in Seq(Plain)
      BY <2>2, NoObservers
    <3>2. <<b>> \o <<>> # <<>> /\ Head(<<b>> \o <<>>) = b /\ Tail(<<b>> \o <<>>) = <<>>
      BY <2>2, Put
    <3>3. QED BY <2>3, <3>1, <3>2
  <2>7. QED BY <2>1, <2>2, <2>4, <2>5, <2>6, CommitInStep
<1>8. CASE CallFlush
  BY <1>1, <1>8, EmptySeq, CommitNowInStep DEF CallFlush
<1>9. CASE CallDispose
  <2>1. [k |-> "dispose"] \in Waiting
    BY DEF Waiting, Calls
  <2>2. CommitNow(<<[k |-> "dispose"]>>) /\ stack = <<>>
    <3>1. stack = <<>> /\ CommitNow(<<[k |-> "dispose"]>> \o stack)
      BY <1>1, <1>9 DEF CallDispose
    <3>2. QED BY <1>3, <2>1, <3>1 DEF Waiting
  <2>3. QED BY <1>2, <2>1, <2>2
<1>10. CASE CallFetch
  <2>1. [k |-> "fetch"] \in Waiting
    BY DEF Waiting, Calls
  <2>2. QED BY <1>2, <1>10, <2>1 DEF CallFetch, Task
<1>11. QED BY <1>5, <1>6, <1>7, <1>8, <1>9, <1>10 DEF Calling

LEMMA InStepStep ==
  ASSUME TypeOK, Calm, InStep, "observe" \notin Uses, [Next]_vars
  PROVE  InStep'
<1>0. TypeOK'
  BY TypeStep
<1>1. CASE Turn
  BY <1>0, <1>1, EmptySeq, CommitNowInStep DEF Turn
<1>2. CASE Crash \/ Load
  <2>1. effects' = <<>> /\ stack' = <<>> /\ open' = {} /\ run' = <<>> /\ UNCHANGED <<conn, copy>>
    BY <1>2 DEF Crash, Load, Calm, Top, outside
  <2>2. QED BY <1>0, <2>1, ClosedInStep
<1>3. CASE UNCHANGED vars
  <2>1. UNCHANGED <<mem, effects, run, conn, open, copy, stack>>
    BY <1>3 DEF vars, store, people, outside
  <2>2. Parts' = Parts /\ version' = version
    BY <2>1 DEF Parts, Answered, Known, version
  <2>3. Placed' /\ Announced' = Announced
    BY <2>1, <2>2 DEF InStep, Placed, Announcing, Announced
  <2>4. QED BY <2>1, <2>3, QuietInStep
<1>4. QED BY <1>0, <1>1, <1>2, <1>3, RunningInStep, CallingInStep DEF Next

LEMMA InStepInit == Init => InStep
<1> SUFFICES ASSUME Init PROVE InStep
  OBVIOUS
<1>1. effects = <<>> /\ run = <<>> /\ stack = <<>> /\ open = {}
  BY DEF Init
<1>2. effects \in Seq(Notes) /\ run \in Seq(Notes) /\ Rest(stack) \in Seq(Parts)
  BY <1>1, EmptySeq DEF Rest
<1>3. \A n \in Sessions : copy[n] = [synced |-> FALSE, v |-> 0, whole |-> TRUE]
  BY DEF Init
<1>4. QED BY <1>1, <1>2, <1>3 DEF InStep, Placed, CopiesAreWhole

\* With no observer to call back, any size of group and every failure and crash: the
\* patches, acks and answers that are held back reach each client in the order of
\* the versions they name, so that its copy never misses one
\* (store.js:282-321, 842-844; client/index.js:551-562).
THEOREM Whole == ASSUME "observe" \notin Uses PROVE Spec => []CopiesAreWhole
<1>1. Init => TypeOK /\ Calm /\ InStep
  BY TypeInit, CalmInit, InStepInit
<1>2. TypeOK /\ Calm /\ InStep /\ [Next]_vars => (TypeOK /\ Calm /\ InStep)'
  BY TypeStep, CalmStep, InStepStep
<1>3. InStep => CopiesAreWhole
  BY DEF InStep
<1>4. QED BY <1>1, <1>2, <1>3, PTL DEF Spec
================================================================================
