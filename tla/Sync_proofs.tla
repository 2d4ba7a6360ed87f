---------------------------- MODULE Sync_proofs ----------------------------
(***************************************************************************)
(* Proofs about Sync.tla, for any number of ops, sockets, writes and turns *)
(* of each kind: the state keeps its types, and no op of the client lands  *)
(* in the log twice, however often it is sent.  Then, while the store      *)
(* neither unloads itself nor fails a commit: the base of a client is      *)
(* whole, and an op that landed leaves the outbox only for a base that has *)
(* it.                                                                     *)
(***************************************************************************)
EXTENDS Sync, FiniteSetTheorems, SequenceTheorems, TLAPS

UpQueues == [Sockets -> Seq(UpMessage)]
Jobs == [c : Sockets, ops : SUBSET OpNumbers, since : Nat]

-----------------------------------------------------------------------------
(* What the client sends.                                                  *)

\* link.send puts messages at the end of the socket's queue, or nowhere.
LEMMA UpwardTypes ==
  ASSUME WireOK, cur' \in Sockets \cup {0}, NEW msgs \in Seq(UpMessage), Upward(msgs)
  PROVE  up' \in UpQueues
  <1>1. CASE cur' = 0 \/ sess[cur'] = "gone"
    BY <1>1 DEF Upward, WireOK, UpQueues
  <1>2. CASE ~(cur' = 0 \/ sess[cur'] = "gone")
    <2>1. up[cur'] \in Seq(UpMessage) /\ cur' \in Sockets
      BY <1>2 DEF WireOK
    <2>2. up[cur'] \o msgs \in Seq(UpMessage)
      BY <2>1
    <2> QED BY <1>2, <2>1, <2>2 DEF Upward, WireOK, UpQueues
  <1> QED BY <1>1, <1>2

\* A set of ops is finite, and its size a number.
LEMMA OpsFinite ==
  ASSUME NEW S, S \subseteq OpNumbers
  PROVE  IsFiniteSet(S) /\ Cardinality(S) \in Nat
  <1>1. IsFiniteSet(1 .. MaxOps)
    BY FS_Interval, SyncAssumption
  <1>2. IsFiniteSet(S)
    BY <1>1, FS_Subset DEF OpNumbers
  <1> QED BY <1>2, FS_CardinalityType

\* What is sent live is ops.
LEMMA UpwardLiveTypes ==
  ASSUME WireOK, cur' \in Sockets \cup {0},
         NEW S, S \subseteq OpNumbers, UpwardLive(S)
  PROVE  up' \in UpQueues
  <1>1. PICK f \in [1 .. Cardinality(S) -> S] :
          Upward([i \in DOMAIN f |-> [t |-> "op", s |-> f[i]]])
    BY DEF UpwardLive
  <1> DEFINE msgs == [i \in DOMAIN f |-> [t |-> "op", s |-> f[i]]]
  <1>2. Cardinality(S) \in Nat
    BY OpsFinite
  <1>3. ASSUME NEW i \in 1 .. Cardinality(S)
        PROVE  [t |-> "op", s |-> f[i]] \in UpMessage
    BY <1>3 DEF UpMessage
  <1>4. msgs \in [1 .. Cardinality(S) -> UpMessage]
    BY <1>3
  <1>5. msgs \in Seq(UpMessage)
    BY <1>2, <1>4
  <1> HIDE DEF msgs
  <1>6. Upward(msgs)
    BY <1>1 DEF msgs
  <1> QED BY <1>5, <1>6, UpwardTypes

\* A hello carries ops of the outbox, and a version.
LEMMA SayHelloTypes ==
  ASSUME WireOK, cur' \in Sockets \cup {0}, outbox' \subseteq OpNumbers,
         known' \in Nat, SayHello
  PROVE  up' \in UpQueues /\ answered' \in Nat /\ throttled' \in BOOLEAN
  <1> DEFINE carried == Lowest(outbox', HelloLimit)
             hello == [t |-> "hello", ops |-> carried, since |-> known']
  <1>1. carried \subseteq outbox'
    BY DEF Lowest
  <1>2. hello \in UpMessage
    BY <1>1 DEF UpMessage
  <1>3. <<hello>> \in Seq(UpMessage)
    BY <1>2
  <1>4. Upward(<<hello>>) /\ throttled' = FALSE
    BY DEF SayHello
  <1>5. answered' \in Nat
    <2>1. \/ answered' = 0
          \/ \E a \in carried : answered' = a
      BY DEF SayHello
    <2> HIDE DEF carried
    <2>2. \A a \in carried : a \in Nat
      BY <1>1 DEF OpNumbers
    <2> QED BY <2>1, <2>2
  <1> HIDE DEF hello
  <1> QED BY <1>3, <1>4, <1>5, UpwardTypes

-----------------------------------------------------------------------------
(* What the store sends and decides.                                       *)

LogOK == log \in Seq(0 .. MaxOps) /\ last \in 0 .. MaxOps /\ void \subseteq OpNumbers

\* Messages go at the end of what the client has to read.
LEMMA DownwardTypes ==
  ASSUME WireOK, NEW c, NEW patch \in Seq(DownMessage), NEW told \in Seq(DownMessage),
         Downward(c, patch, told)
  PROVE  down' \in Seq(DownMessage)
  <1>1. Broadcast(patch) \in Seq(DownMessage)
    BY DEF Broadcast
  <1>2. Toward(c, told) \in Seq(DownMessage)
    BY DEF Toward
  <1>3. down' = down \o Broadcast(patch) \o Toward(c, told)
    BY DEF Downward
  <1> QED BY <1>1, <1>2, <1>3 DEF WireOK

\* Nothing at all is a fine thing to send.
LEMMA NothingTypes == <<>> \in Seq(DownMessage)
  OBVIOUS

\* An ack is told of an op that came live, with the version the store is at.
LEMMA AckTypes ==
  ASSUME log' \in Seq(0 .. MaxOps), NEW s \in OpNumbers, NEW isLive
  PROVE  AckOf(s, isLive) \in Seq(DownMessage)
  <1>1. Len(log') \in Nat
    OBVIOUS
  <1>2. [t |-> "ack", s |-> s, v |-> Len(log')] \in DownMessage
    BY <1>1 DEF DownMessage
  <1> QED BY <1>2 DEF AckOf

\* A patch carries a version.
LEMMA PatchTypes ==
  ASSUME NEW v \in Nat
  PROVE  PatchOf(v) \in Seq(DownMessage)
  <1>1. [t |-> "patch", v |-> v] \in DownMessage
    BY DEF DownMessage
  <1> QED BY <1>1 DEF PatchOf

\* apply() leaves the log, the last op decided and the ops lost as they should be.
LEMMA ApplyTypes ==
  ASSUME TypeOK, NEW c, NEW s \in OpNumbers, NEW isLive, Apply(c, s, isLive)
  PROVE  LogOK' /\ down' \in Seq(DownMessage)
  <1> USE DEF TypeOK
  <1>1. s \in 0 .. MaxOps
    BY DEF OpNumbers
  <1>2. CASE UNCHANGED store /\ Downward(c, <<>>, AckOf(s, isLive))
    <2>1. LogOK'
      BY <1>2 DEF StoreOK, LogOK, store
    <2>2. AckOf(s, isLive) \in Seq(DownMessage)
      BY <2>1, AckTypes DEF LogOK
    <2> QED BY <1>2, <2>1, <2>2, NothingTypes, DownwardTypes
  <1>3. CASE /\ log' = Append(log, s) /\ last' = s /\ UNCHANGED void
             /\ Downward(c, PatchOf(Len(log')), AckOf(s, isLive))
    <2>1. log' \in Seq(0 .. MaxOps)
      BY <1>1, <1>3 DEF StoreOK
    <2>2. LogOK'
      BY <1>1, <1>3, <2>1 DEF StoreOK, LogOK
    <2>3. AckOf(s, isLive) \in Seq(DownMessage)
      BY <2>1, AckTypes
    <2>4. Len(log') \in Nat
      BY <2>1
    <2>5. PatchOf(Len(log')) \in Seq(DownMessage)
      BY <2>4, PatchTypes
    <2> QED BY <1>3, <2>2, <2>3, <2>5, DownwardTypes
  <1>4. CASE /\ void' = void \cup {s} /\ last' = s /\ UNCHANGED log
             /\ Downward(c, <<>>, AckOf(s, isLive))
    <2>1. LogOK'
      BY <1>1, <1>4 DEF StoreOK, LogOK
    <2>2. AckOf(s, isLive) \in Seq(DownMessage)
      BY <2>1, AckTypes DEF LogOK
    <2> QED BY <1>4, <2>1, <2>2, NothingTypes, DownwardTypes
  <1>5. CASE UNCHANGED store /\ Downward(c, <<>>, <<[t |-> "refused", s |-> s]>>)
    <2>1. LogOK'
      BY <1>5 DEF StoreOK, LogOK, store
    <2>2. [t |-> "refused", s |-> s] \in DownMessage
      BY DEF DownMessage
    <2>3. <<[t |-> "refused", s |-> s]>> \in Seq(DownMessage)
      BY <2>2
    <2> QED BY <1>5, <2>1, <2>3, NothingTypes, DownwardTypes
  <1> QED BY <1>2, <1>3, <1>4, <1>5 DEF Apply

\* A refusal for the rate decides nothing.
LEMMA LimitedTypes ==
  ASSUME TypeOK, NEW c, NEW s \in Nat, Limited(c, s)
  PROVE  LogOK' /\ down' \in Seq(DownMessage)
  <1>1. LogOK'
    BY DEF TypeOK, StoreOK, LogOK, Limited, store
  <1>2. [t |-> "limited", s |-> s] \in DownMessage
    BY DEF DownMessage
  <1>3. <<[t |-> "limited", s |-> s]>> \in Seq(DownMessage)
    BY <1>2
  <1>4. Downward(c, <<>>, <<[t |-> "limited", s |-> s]>>)
    BY DEF Limited
  <1> QED BY <1>1, <1>3, <1>4, NothingTypes, DownwardTypes DEF TypeOK

SessOK == sess \in [Sockets -> {"new", "none", "open", "held", "gone"}]
TurnsOK == turns \in 0 .. MaxTurns
JobOK == job \in Seq(Jobs) /\ Len(job) <= 1

\* A bounded thing counts as a turn.
LEMMA BoundedTypes == TypeOK /\ Bounded => TurnsOK'
  BY SyncAssumption DEF TypeOK, StoreOK, Bounded, TurnsOK

\* Any of the five states is a state of a session.
LEMMA SessTypes ==
  ASSUME TypeOK, NEW c, NEW x \in {"new", "none", "open", "held", "gone"},
         sess' = [sess EXCEPT ![c] = x]
  PROVE  SessOK'
  BY DEF TypeOK, WireOK, SessOK

\* What is read from a socket is a message, and messages are left behind it.
LEMMA ReadTypes ==
  ASSUME TypeOK, NEW c \in Sockets, up[c] # <<>>
  PROVE  Head(up[c]) \in UpMessage /\ Tail(up[c]) \in Seq(UpMessage)
  <1>1. up[c] \in Seq(UpMessage)
    BY DEF TypeOK, WireOK
  <1> QED BY <1>1

\* An op that came live is decided, refused for the rate, or turned away.
LEMMA LiveOpTypes ==
  ASSUME TypeOK, NEW c \in Sockets, NEW s \in OpNumbers, LiveOp(c, s)
  PROVE  LogOK' /\ down' \in Seq(DownMessage) /\ SessOK' /\ TurnsOK'
  <1>1. s \in Nat
    BY DEF OpNumbers
  <1>2. CASE UNCHANGED <<sess, turns>> /\ Limited(c, s)
    BY <1>1, <1>2, LimitedTypes DEF TypeOK, WireOK, StoreOK, SessOK, TurnsOK
  <1>3. CASE /\ sess' = [sess EXCEPT ![c] = "open"]
             /\ Apply(c, s, TRUE)
             /\ UNCHANGED turns
    <2>1. LogOK' /\ down' \in Seq(DownMessage)
      BY <1>3, ApplyTypes
    <2>2. SessOK' /\ TurnsOK'
      BY <1>3, SessTypes DEF TypeOK, StoreOK, TurnsOK
    <2> QED BY <2>1, <2>2
  <1>4. CASE Bounded /\ sess' = [sess EXCEPT ![c] = "held"] /\ Limited(c, s)
    <2>1. LogOK' /\ down' \in Seq(DownMessage)
      BY <1>1, <1>4, LimitedTypes
    <2>2. SessOK' /\ TurnsOK'
      BY <1>4, SessTypes, BoundedTypes
    <2> QED BY <2>1, <2>2
  <1> QED BY <1>2, <1>3, <1>4 DEF LiveOp

\* A hello becomes a job, or is turned away for the rate.
LEMMA HelloTypes ==
  ASSUME TypeOK, NEW c \in Sockets, NEW m \in UpMessage, m.t = "hello", Hello(c, m)
  PROVE  LogOK' /\ down' \in Seq(DownMessage) /\ SessOK' /\ TurnsOK' /\ JobOK'
  <1>1. CASE /\ sess' = [sess EXCEPT ![c] = "open"]
             /\ job' = <<[c |-> c, ops |-> m.ops, since |-> m.since]>>
             /\ UNCHANGED <<store, down, turns>>
    <2>1. m.ops \in SUBSET OpNumbers /\ m.since \in Nat
      BY DEF UpMessage
    <2>2. [c |-> c, ops |-> m.ops, since |-> m.since] \in Jobs
      BY <2>1 DEF Jobs
    <2>3. JobOK'
      BY <1>1, <2>2 DEF JobOK
    <2>4. SessOK'
      BY <1>1, SessTypes
    <2>5. LogOK' /\ down' \in Seq(DownMessage) /\ TurnsOK'
      BY <1>1 DEF TypeOK, WireOK, StoreOK, LogOK, TurnsOK, store
    <2> QED BY <2>3, <2>4, <2>5
  <1>2. CASE /\ Bounded
             /\ sess' = [sess EXCEPT ![c] = Admitted(c)]
             /\ Limited(c, 0)
             /\ UNCHANGED job
    <2>1. LogOK' /\ down' \in Seq(DownMessage)
      BY <1>2, LimitedTypes
    <2>2. Admitted(c) \in {"new", "none", "open", "held", "gone"}
      BY DEF TypeOK, WireOK, Admitted
    <2>3. SessOK' /\ TurnsOK'
      BY <1>2, <2>2, SessTypes, BoundedTypes
    <2>4. JobOK'
      BY <1>2 DEF TypeOK, StoreOK, JobOK, Jobs
    <2> QED BY <2>1, <2>3, <2>4
  <1> QED BY <1>1, <1>2 DEF Hello

\* The server's side of a message read.
LEMMA ReceiveTypes ==
  ASSUME TypeOK, NEW c \in Sockets, Receive(c)
  PROVE  TypeOK'
  <1> DEFINE m == Head(up[c])
  <1>1. m \in UpMessage /\ Tail(up[c]) \in Seq(UpMessage)
    BY ReadTypes DEF Receive
  <1>2. up' \in UpQueues
    BY <1>1 DEF Receive, TypeOK, WireOK, UpQueues
  <1>3. ClientOK' /\ cur' \in Sockets \cup {0}
    BY DEF Receive, TypeOK, ClientOK, WireOK, client, state
  <1>4. LogOK' /\ down' \in Seq(DownMessage) /\ SessOK' /\ TurnsOK' /\ JobOK'
    <2>1. CASE m.t = "op" /\ LiveOp(c, m.s) /\ UNCHANGED job
      <3>1. m.s \in OpNumbers
        BY <1>1, <2>1 DEF UpMessage
      <3>2. JobOK'
        BY <2>1 DEF TypeOK, StoreOK, JobOK, Jobs
      <3> QED BY <2>1, <3>1, <3>2, LiveOpTypes
    <2>2. CASE m.t = "hello" /\ Hello(c, m)
      BY <1>1, <2>2, HelloTypes
    <2> QED BY <2>1, <2>2 DEF Receive
  <1> QED BY <1>2, <1>3, <1>4
          DEF TypeOK, WireOK, StoreOK, UpQueues, LogOK, SessOK, TurnsOK, JobOK, Jobs

\* A hello's op is decided as a live one is, and leaves the job.
LEMMA HelloOpTypes == TypeOK /\ HelloOp => TypeOK'
  <1> SUFFICES ASSUME TypeOK, HelloOp PROVE TypeOK'
    OBVIOUS
  <1>1. job \in Seq(Jobs) /\ job # <<>>
    BY DEF TypeOK, StoreOK, HelloOp, Jobs
  <1>2. job[1] \in Jobs
    BY <1>1
  <1>3. PICK s \in job[1].ops : /\ job' = <<[job[1] EXCEPT !.ops = @ \ {s}]>>
                                /\ Apply(job[1].c, s, FALSE)
    BY DEF HelloOp
  <1>4. s \in OpNumbers
    BY <1>2, <1>3 DEF Jobs
  <1>5. LogOK' /\ down' \in Seq(DownMessage)
    BY <1>3, <1>4, ApplyTypes
  <1>6. [job[1] EXCEPT !.ops = @ \ {s}] \in Jobs
    BY <1>2 DEF Jobs
  <1>7. JobOK'
    BY <1>3, <1>6 DEF JobOK
  <1>8. ClientOK' /\ cur' \in Sockets \cup {0} /\ up' \in UpQueues /\ SessOK' /\ TurnsOK'
    BY DEF HelloOp, TypeOK, ClientOK, WireOK, StoreOK, client, state, UpQueues, SessOK, TurnsOK
  <1> QED BY <1>5, <1>7, <1>8
          DEF TypeOK, WireOK, StoreOK, UpQueues, LogOK, SessOK, TurnsOK, JobOK, Jobs

\* The answer to a hello is a delta or a snapshot of numbers.
LEMMA HelloAnsweredTypes == TypeOK /\ HelloAnswered => TypeOK'
  <1> SUFFICES ASSUME TypeOK, HelloAnswered PROVE TypeOK'
    OBVIOUS
  <1>1. job \in Seq(Jobs) /\ job # <<>>
    BY DEF TypeOK, StoreOK, HelloAnswered, Jobs
  <1>2. job[1] \in Jobs
    BY <1>1
  <1>3. PICK whole \in BOOLEAN :
          Downward(job[1].c, <<>>, <<[t |-> "answer", whole |-> whole,
                                      since |-> job[1].since, v |-> version, s |-> last]>>)
    BY DEF HelloAnswered
  <1> DEFINE answer == [t |-> "answer", whole |-> whole,
                        since |-> job[1].since, v |-> version, s |-> last]
  <1>4. version \in Nat /\ last \in Nat
    BY DEF TypeOK, StoreOK, version
  <1>5. answer \in DownMessage
    BY <1>2, <1>4 DEF DownMessage, Jobs
  <1>6. <<answer>> \in Seq(DownMessage)
    BY <1>5
  <1>7. down' \in Seq(DownMessage)
    BY <1>3, <1>6, NothingTypes, DownwardTypes DEF TypeOK
  <1>8. ClientOK' /\ cur' \in Sockets \cup {0} /\ up' \in UpQueues /\ SessOK' /\ LogOK' /\ TurnsOK'
    BY DEF HelloAnswered, TypeOK, ClientOK, WireOK, StoreOK, client, state, store,
           UpQueues, SessOK, LogOK, TurnsOK
  <1>9. JobOK'
    BY DEF HelloAnswered, JobOK
  <1> QED BY <1>7, <1>8, <1>9
          DEF TypeOK, WireOK, StoreOK, UpQueues, LogOK, SessOK, TurnsOK, JobOK, Jobs

\* Others' writes land under no op's number.
LEMMA OthersWriteTypes == TypeOK /\ OthersWrite => TypeOK'
  <1> SUFFICES ASSUME TypeOK, OthersWrite PROVE TypeOK'
    OBVIOUS
  <1>1. LogOK'
    BY SyncAssumption DEF OthersWrite, TypeOK, StoreOK, LogOK
  <1>2. version + 1 \in Nat
    BY DEF TypeOK, StoreOK, version
  <1>3. Downward(0, PatchOf(version + 1), <<>>)
    BY DEF OthersWrite
  <1>4. down' \in Seq(DownMessage)
    BY <1>2, <1>3, PatchTypes, NothingTypes, DownwardTypes DEF TypeOK
  <1>5. ClientOK' /\ cur' \in Sockets \cup {0} /\ up' \in UpQueues /\ SessOK' /\ JobOK' /\ TurnsOK'
    BY DEF OthersWrite, TypeOK, ClientOK, WireOK, StoreOK, client, state,
           UpQueues, SessOK, JobOK, Jobs, TurnsOK
  <1> QED BY <1>1, <1>4, <1>5
          DEF TypeOK, WireOK, StoreOK, UpQueues, LogOK, SessOK, TurnsOK, JobOK, Jobs

\* The server gives up what a socket had sent.
LEMMA ServerDropTypes ==
  ASSUME TypeOK, NEW c \in Sockets, ServerDrop(c)
  PROVE  TypeOK'
  <1>1. SessOK'
    BY SessTypes DEF ServerDrop
  <1>2. <<>> \in Seq(UpMessage)
    OBVIOUS
  <1>3. up' \in UpQueues
    BY <1>2 DEF ServerDrop, TypeOK, WireOK, UpQueues
  <1>4. ClientOK' /\ cur' \in Sockets \cup {0} /\ down' \in Seq(DownMessage) /\ StoreOK'
    BY DEF ServerDrop, TypeOK, ClientOK, WireOK, StoreOK, client, state, store
  <1> QED BY <1>1, <1>3, <1>4 DEF TypeOK, WireOK, UpQueues, SessOK

\* What a client is told when the store goes is a message.
LEMMA ClosedTypes ==
  TypeOK => Append(down, [t |-> "closed"]) \in Seq(DownMessage)
  <1>1. [t |-> "closed"] \in DownMessage
    BY DEF DownMessage
  <1> QED BY <1>1 DEF TypeOK, WireOK

\* Sessions are told of the unloading, and end.
LEMMA UnloadTypes == TypeOK /\ Unload => TypeOK'
  <1> SUFFICES ASSUME TypeOK, Unload PROVE TypeOK'
    OBVIOUS
  <1>1. SessOK'
    BY DEF Unload, Disposed, TypeOK, WireOK, SessOK
  <1>2. down' \in Seq(DownMessage)
    BY ClosedTypes DEF Unload, Disposed, TypeOK, WireOK
  <1>3. TurnsOK'
    BY BoundedTypes DEF Unload
  <1>4. ClientOK' /\ cur' \in Sockets \cup {0} /\ up' \in UpQueues /\ LogOK' /\ JobOK'
    BY DEF Unload, TypeOK, ClientOK, WireOK, StoreOK, client, state, store,
           UpQueues, LogOK, JobOK, Jobs
  <1> QED BY <1>1, <1>2, <1>3, <1>4
          DEF TypeOK, WireOK, StoreOK, UpQueues, LogOK, SessOK, TurnsOK, JobOK, Jobs

\* A failed turn takes the messages it read with it.
LEMMA CommitFailsTypes == TypeOK /\ CommitFails => TypeOK'
  <1> SUFFICES ASSUME TypeOK, CommitFails PROVE TypeOK'
    OBVIOUS
  <1>1. PICK c \in Sockets : \E n \in 0 .. Len(up[c]) :
          /\ up' = [up EXCEPT ![c] = SubSeq(@, n + 1, Len(@))]
          /\ sess' = [d \in Sockets |-> IF sess[d] \in Opened THEN "none" ELSE sess[d]]
          /\ down' = IF cur # 0 /\ (sess[cur] \in Opened \/ (c = cur /\ n > 0))
                       THEN Append(down, [t |-> "closed"]) ELSE down
    BY DEF CommitFails
  <1>2. up[c] \in Seq(UpMessage)
    BY DEF TypeOK, WireOK
  <1>3. PICK n \in 0 .. Len(up[c]) :
          /\ up' = [up EXCEPT ![c] = SubSeq(@, n + 1, Len(@))]
          /\ down' = IF cur # 0 /\ (sess[cur] \in Opened \/ (c = cur /\ n > 0))
                       THEN Append(down, [t |-> "closed"]) ELSE down
    BY <1>1
  <1>4. SubSeq(up[c], n + 1, Len(up[c])) \in Seq(UpMessage)
    BY <1>2, SubSeqProperties
  <1>5. up' \in UpQueues
    BY <1>3, <1>4 DEF TypeOK, WireOK, UpQueues
  <1>6. down' \in Seq(DownMessage)
    BY <1>3, ClosedTypes DEF TypeOK, WireOK
  <1>7. SessOK'
    BY <1>1 DEF TypeOK, WireOK, SessOK
  <1>8. TurnsOK'
    BY BoundedTypes DEF CommitFails
  <1>9. ClientOK' /\ cur' \in Sockets \cup {0} /\ LogOK' /\ JobOK'
    BY SMTT(60) DEF CommitFails, TypeOK, ClientOK, WireOK, StoreOK, client, state, store, LogOK, JobOK
  <1> QED BY <1>5, <1>6, <1>7, <1>8, <1>9
          DEF TypeOK, WireOK, StoreOK, UpQueues, LogOK, SessOK, TurnsOK, JobOK, Jobs

-----------------------------------------------------------------------------
(* The client's actions.                                                   *)

\* Ops of the outbox are op numbers.
LEMMA OutboxOps == ClientOK => outbox \subseteq OpNumbers
  BY SyncAssumption DEF ClientOK, OpNumbers

\* A new socket, and a hello on it.
LEMMA OpenTypes == TypeOK /\ Open => TypeOK'
  <1> SUFFICES ASSUME TypeOK, Open PROVE TypeOK'
    OBVIOUS
  <1>1. PICK c \in Sockets : cur' = c /\ sess' = [sess EXCEPT ![c] = "none"]
    BY DEF Open
  <1>2. SessOK' /\ cur' \in Sockets \cup {0}
    BY <1>1, SessTypes
  <1>3. outbox' \subseteq OpNumbers /\ known' \in Nat
    BY OutboxOps DEF Open, client, TypeOK, ClientOK
  <1>4. up' \in UpQueues /\ answered' \in Nat /\ throttled' \in BOOLEAN
    BY <1>2, <1>3, SayHelloTypes DEF Open, TypeOK
  <1>5. ClientOK' /\ down' \in Seq(DownMessage) /\ StoreOK'
    BY <1>4 DEF Open, TypeOK, ClientOK, WireOK, StoreOK, client, store
  <1> QED BY <1>2, <1>4, <1>5 DEF TypeOK, WireOK, UpQueues, SessOK

\* A new op, above all others, in place of any of the outbox.
LEMMA EditTypes == TypeOK /\ Edit => TypeOK'
  <1> SUFFICES ASSUME TypeOK, Edit PROVE TypeOK'
    OBVIOUS
  <1>1. seq' \in 0 .. MaxOps /\ seq' = seq + 1 /\ seq' \in OpNumbers
    BY SyncAssumption DEF Edit, TypeOK, ClientOK, OpNumbers
  <1>2. PICK old \in IF "replace" \in Uses THEN SUBSET outbox ELSE {{}} :
          /\ outbox' = (outbox \ old) \cup {seq'}
          /\ moot' = [moot EXCEPT ![seq'] = old]
    BY DEF Edit
  <1>3. old \subseteq outbox
    BY <1>2
  <1>4. outbox' \subseteq 1 .. seq'
    BY <1>1, <1>2 DEF TypeOK, ClientOK
  <1>5. moot' \in [OpNumbers -> SUBSET OpNumbers]
    BY <1>1, <1>2, <1>3, OutboxOps DEF TypeOK, ClientOK
  <1>6. ClientOK' /\ cur' = cur /\ down' \in Seq(DownMessage) /\ SessOK' /\ StoreOK'
    BY <1>1, <1>4, <1>5 DEF Edit, TypeOK, ClientOK, WireOK, StoreOK, SessOK, state, store
  <1>7. up' \in UpQueues
    <2>1. CASE UpwardLive({seq'})
      BY <1>1, <1>6, <2>1, UpwardLiveTypes DEF TypeOK, WireOK
    <2>2. CASE up' = up
      BY <2>2 DEF TypeOK, WireOK, UpQueues
    <2> QED BY <2>1, <2>2 DEF Edit
  <1> QED BY <1>6, <1>7 DEF TypeOK, WireOK, UpQueues, SessOK

\* Closing the socket leaves the wires as they should be.
LEMMA ClosingTypes ==
  ASSUME TypeOK, Closed, UNCHANGED <<up, sess>>
  PROVE  WireOK'
  BY DEF TypeOK, WireOK, Closed

\* A dropped socket changes nothing the client keeps.
LEMMA DropTypes == TypeOK /\ Drop => TypeOK'
  <1> SUFFICES ASSUME TypeOK, Drop PROVE TypeOK'
    OBVIOUS
  <1>1. WireOK'
    BY ClosingTypes DEF Drop
  <1>2. ClientOK' /\ StoreOK'
    BY DEF Drop, Closed, TypeOK, ClientOK, StoreOK, client, store
  <1> QED BY <1>1, <1>2 DEF TypeOK

\* What a reload finds was saved from the base and its version.
LEMMA RestartTypes == TypeOK /\ Restart => TypeOK'
  <1> SUFFICES ASSUME TypeOK, Restart PROVE TypeOK'
    OBVIOUS
  <1>1. WireOK'
    BY ClosingTypes DEF Restart
  <1>2. TurnsOK'
    BY BoundedTypes DEF Restart
  <1>3. ClientOK' /\ StoreOK'
    BY <1>2 DEF Restart, Closed, TypeOK, ClientOK, StoreOK, store, TurnsOK
  <1> QED BY <1>1, <1>3 DEF TypeOK

\* The base and its version are saved together.
LEMMA SaveTypes == TypeOK /\ Save => TypeOK'
  BY DEF Save, TypeOK, ClientOK, WireOK, StoreOK, state, store

\* The timer says hello when there is a socket.
LEMMA RetryTypes == TypeOK /\ Retry => TypeOK'
  <1> SUFFICES ASSUME TypeOK, Retry PROVE TypeOK'
    OBVIOUS
  <1>1. /\ outbox' \subseteq OpNumbers /\ known' \in Nat
        /\ cur' \in Sockets \cup {0}
    BY OutboxOps DEF Retry, TypeOK, ClientOK, WireOK
  <1>2. up' \in UpQueues /\ answered' \in Nat /\ throttled' \in BOOLEAN
    <2>1. CASE SayHello
      BY <1>1, <2>1, SayHelloTypes DEF TypeOK
    <2>2. CASE UNCHANGED <<throttled, answered, up>>
      BY <2>2 DEF TypeOK, ClientOK, WireOK, UpQueues
    <2> QED BY <2>1, <2>2 DEF Retry
  <1>3. ClientOK' /\ StoreOK'
    BY <1>2 DEF Retry, TypeOK, ClientOK, StoreOK, store
  <1> QED BY <1>1, <1>2, <1>3 DEF Retry, TypeOK, WireOK, UpQueues

\* Another hello, on the same socket.
LEMMA HelloAgainTypes == TypeOK /\ HelloAgain => TypeOK'
  <1> SUFFICES ASSUME TypeOK, HelloAgain PROVE TypeOK'
    OBVIOUS
  <1>1. /\ outbox' \subseteq OpNumbers /\ known' \in Nat
        /\ cur' \in Sockets \cup {0}
    BY OutboxOps DEF HelloAgain, TypeOK, ClientOK, WireOK, client
  <1>2. up' \in UpQueues /\ answered' \in Nat /\ throttled' \in BOOLEAN
    BY <1>1, SayHelloTypes DEF HelloAgain, TypeOK
  <1>3. TurnsOK'
    BY BoundedTypes DEF HelloAgain
  <1>4. ClientOK' /\ StoreOK'
    BY <1>2, <1>3 DEF HelloAgain, TypeOK, ClientOK, StoreOK, client, store, TurnsOK
  <1> QED BY <1>1, <1>2, <1>4 DEF HelloAgain, TypeOK, WireOK, UpQueues

\* What hearing a message changes.
HeardOK ==
  /\ outbox \subseteq 1 .. seq /\ base \subseteq Nat /\ known \in Nat
  /\ synced \in BOOLEAN /\ throttled \in BOOLEAN /\ retry \in BOOLEAN
  /\ answered \in Nat /\ up \in UpQueues

\* HeardOK is what TypeOK says of those variables.
LEMMA HeardNow == TypeOK => HeardOK
  BY DEF TypeOK, ClientOK, WireOK, HeardOK, UpQueues

\* A patch is passed over, merged, or asks for a catch-up.
LEMMA HearPatchTypes ==
  ASSUME TypeOK, NEW m \in DownMessage, m.t = "patch", HearPatch(m),
         UNCHANGED <<seq, cur>>
  PROVE  HeardOK'
  <1>1. m.v \in Nat
    BY DEF DownMessage
  <1> USE HeardNow DEF HeardOK
  <1>2. CASE ~synced
    BY <1>2 DEF HearPatch, state
  <1>3. CASE synced /\ m.v > known + 1
    <2>1. synced' = FALSE /\ SayHello /\ UNCHANGED <<base, known, outbox, retry>>
      BY <1>3 DEF HearPatch
    <2>2. outbox' \subseteq OpNumbers /\ known' \in Nat /\ cur' \in Sockets \cup {0}
      BY <2>1, OutboxOps DEF TypeOK, ClientOK, WireOK
    <2>3. up' \in UpQueues /\ answered' \in Nat /\ throttled' \in BOOLEAN
      BY <2>1, <2>2, SayHelloTypes DEF TypeOK
    <2> QED BY <2>1, <2>3
  <1>4. CASE synced /\ ~(m.v > known + 1)
    <2>1. known' = m.v /\ base' = base \cup {m.v} /\ UNCHANGED <<state, up, outbox, retry>>
      BY <1>4 DEF HearPatch
    <2> QED BY <1>1, <2>1 DEF state
  <1> QED BY <1>2, <1>3, <1>4

\* An ack moves the version and shortens the outbox.
LEMMA HearAckTypes ==
  ASSUME TypeOK, NEW m \in DownMessage, m.t = "ack", HearAck(m), UNCHANGED <<seq, cur>>
  PROVE  HeardOK'
  <1>1. m.v \in Nat
    BY DEF DownMessage
  <1>2. known' \in Nat
    BY <1>1 DEF HearAck, Larger, TypeOK, ClientOK
  <1>3. outbox' \subseteq outbox
    BY DEF HearAck, Acknowledge
  <1> QED BY <1>2, <1>3, HeardNow DEF HearAck, HeardOK, state

\* An answer moves the base and the version, and sends what is still pending.
LEMMA HearAnswerTypes ==
  ASSUME TypeOK, NEW m \in DownMessage, m.t = "answer", HearAnswer(m),
         UNCHANGED <<seq, cur>>
  PROVE  HeardOK'
  <1>1. m.v \in Nat /\ m.since \in Nat
    BY DEF DownMessage
  <1>2. outbox' \subseteq outbox
    BY DEF HearAnswer, Acknowledge
  <1>3. base' \subseteq Nat
    <2>1. 1 .. m.v \subseteq Nat /\ m.since + 1 .. m.v \subseteq Nat
      BY <1>1
    <2>2. base' = 1 .. m.v \/ base' = base \cup (m.since + 1 .. m.v)
      BY DEF HearAnswer
    <2>3. base \subseteq Nat
      BY DEF TypeOK, ClientOK
    <2> QED BY <2>1, <2>2, <2>3
  <1>4. up' \in UpQueues
    <2>1. CASE up' = up
      BY <2>1 DEF TypeOK, WireOK, UpQueues
    <2>2. CASE UpwardLive({s \in outbox' : s > answered})
      <3>1. {s \in outbox' : s > answered} \subseteq OpNumbers
        BY <1>2, OutboxOps DEF TypeOK
      <3> QED BY <2>2, <3>1, UpwardLiveTypes DEF TypeOK, WireOK
    <2> QED BY <2>1, <2>2 DEF HearAnswer
  <1>5. known' \in Nat /\ synced' \in BOOLEAN
    BY <1>1 DEF HearAnswer
  <1> QED BY <1>2, <1>3, <1>4, <1>5, HeardNow DEF HearAnswer, HeardOK

\* handle(): whatever the message, what it changes stays as it should be.
LEMMA HearTypes == TypeOK /\ Hear => TypeOK'
  <1> SUFFICES ASSUME TypeOK, Hear PROVE TypeOK'
    OBVIOUS
  <1> DEFINE m == Head(down)
  <1>1. m \in DownMessage /\ down' \in Seq(DownMessage)
    BY DEF Hear, TypeOK, WireOK
  <1>2. UNCHANGED <<seq, cur, moot, cache, sess, log, last, void, job, turns>>
    BY DEF Hear, store
  <1>3. HeardOK'
    <2>1. CASE m.t = "patch" /\ HearPatch(m)
      BY <1>1, <1>2, <2>1, HearPatchTypes
    <2>2. CASE m.t = "ack" /\ HearAck(m)
      BY <1>1, <1>2, <2>2, HearAckTypes
    <2>3. CASE m.t = "answer" /\ HearAnswer(m)
      BY <1>1, <1>2, <2>3, HearAnswerTypes
    <2>4. CASE m.t = "limited" /\ HearLimited(m)
      BY <1>2, <2>4, HeardNow DEF HearLimited, HeardOK
    <2>5. CASE m.t = "refused" /\ HearRefused(m)
      BY <1>2, <2>5, HeardNow DEF HearRefused, HeardOK, state
    <2>6. CASE m.t = "closed" /\ HearUnavailable
      BY <1>2, <2>6, HeardNow DEF HearUnavailable, HeardOK
    <2> QED BY <2>1, <2>2, <2>3, <2>4, <2>5, <2>6 DEF Hear
  <1> QED BY <1>1, <1>2, <1>3
          DEF TypeOK, ClientOK, WireOK, StoreOK, HeardOK, UpQueues

-----------------------------------------------------------------------------
(* The state keeps its types.                                              *)

\* Nothing was said or written yet.
LEMMA InitTypes == Init => TypeOK
  <1> SUFFICES ASSUME Init PROVE TypeOK
    OBVIOUS
  <1>1. ClientOK
    <2>1. 0 \in 0 .. MaxOps
      BY SyncAssumption
    <2>2. cache \in [v : Nat, base : SUBSET Nat]
      BY DEF Init
    <2> QED BY <2>1, <2>2 DEF Init, ClientOK, OpNumbers
  <1>2. WireOK
    <2>1. <<>> \in Seq(UpMessage) /\ <<>> \in Seq(DownMessage)
      OBVIOUS
    <2> QED BY <2>1 DEF Init, WireOK
  <1>3. StoreOK
    <2>1. <<>> \in Seq(0 .. MaxOps) /\ <<>> \in Seq(Jobs) /\ Len(<<>>) <= 1
      OBVIOUS
    <2>2. 0 \in 0 .. MaxOps /\ 0 \in 0 .. MaxTurns
      BY SyncAssumption
    <2> QED BY <2>1, <2>2 DEF Init, StoreOK, Jobs
  <1> QED BY <1>1, <1>2, <1>3 DEF TypeOK

\* Every step keeps the types.
LEMMA StepTypes == TypeOK /\ [Next]_vars => TypeOK'
  <1>1. TypeOK /\ UNCHANGED vars => TypeOK'
    BY DEF vars, client, state, store, TypeOK, ClientOK, WireOK, StoreOK
  <1>2. TypeOK /\ Serving => TypeOK'
    BY HelloOpTypes, HelloAnsweredTypes, ReceiveTypes DEF Serving
  <1>3. TypeOK /\ Next => TypeOK'
    BY <1>2, EditTypes, OpenTypes, DropTypes, RestartTypes, SaveTypes, RetryTypes,
       HelloAgainTypes, HearTypes, OthersWriteTypes, UnloadTypes, CommitFailsTypes,
       ServerDropTypes DEF Next
  <1> QED BY <1>1, <1>3

\* The state of the client, the sockets and the store stays within its types.
THEOREM TypeCorrect == Spec => []TypeOK
  <1>1. Init => TypeOK
    BY InitTypes
  <1>2. TypeOK /\ [Next]_vars => TypeOK'
    BY StepTypes
  <1> QED BY <1>1, <1>2, PTL DEF Spec

-----------------------------------------------------------------------------
(* No op lands twice.                                                      *)

\* Why: the log has no op above the last one decided, and its ops stand in the order
\* of their numbers.
InLine ==
  /\ \A v \in 1 .. Len(log) : log[v] <= last
  /\ \A v, w \in 1 .. Len(log) :
       v < w /\ log[v] # 0 /\ log[w] # 0 => log[v] < log[w]

\* What a step may do to the log and the last op decided: nothing, decide an op above
\* it, or take in a write of others.
Decides == \E s \in OpNumbers :
  /\ s > last /\ last' = s
  /\ log' = Append(log, s) \/ log' = log
TakesIn == log' = Append(log, 0) /\ last' = last
StoreStep == (log' = log /\ last' = last) \/ Decides \/ TakesIn

\* apply() decides an op above the last decided, or changes nothing.
LEMMA ApplySteps ==
  ASSUME TypeOK, NEW c, NEW s \in OpNumbers, NEW isLive, Apply(c, s, isLive)
  PROVE  StoreStep
  <1>1. CASE UNCHANGED store
    BY <1>1 DEF store, StoreStep
  <1>2. CASE ~Decided(s) /\ last' = s /\ (log' = Append(log, s) \/ log' = log)
    <2>1. s > last
      BY <1>2 DEF Decided, TypeOK, StoreOK, OpNumbers
    <2> QED BY <1>2, <2>1 DEF StoreStep, Decides
  <1> QED BY <1>1, <1>2 DEF Apply

\* A live op may be decided; a hello as such decides nothing.
LEMMA ReceiveSteps ==
  ASSUME TypeOK, NEW c \in Sockets, Receive(c)
  PROVE  StoreStep
  <1> DEFINE m == Head(up[c])
  <1>1. m \in UpMessage
    BY ReadTypes DEF Receive
  <1>2. CASE m.t = "op" /\ LiveOp(c, m.s)
    <2>1. m.s \in OpNumbers
      BY <1>1, <1>2 DEF UpMessage
    <2>2. CASE Limited(c, m.s)
      BY <2>2 DEF Limited, store, StoreStep
    <2>3. CASE Apply(c, m.s, TRUE)
      BY <2>1, <2>3, ApplySteps
    <2> QED BY <1>2, <2>2, <2>3 DEF LiveOp
  <1>3. CASE Hello(c, m)
    BY <1>3 DEF Hello, Limited, store, StoreStep
  <1> QED BY <1>2, <1>3 DEF Receive

\* Nor may a hello's op do more than be decided.
LEMMA HelloOpSteps == TypeOK /\ HelloOp => StoreStep
  <1> SUFFICES ASSUME TypeOK, HelloOp PROVE StoreStep
    OBVIOUS
  <1>1. job[1] \in Jobs
    <2>1. job \in Seq(Jobs) /\ job # <<>>
      BY DEF TypeOK, StoreOK, HelloOp, Jobs
    <2> QED BY <2>1
  <1>2. PICK s \in job[1].ops : Apply(job[1].c, s, FALSE)
    BY DEF HelloOp
  <1>3. s \in OpNumbers
    BY <1>1, <1>2 DEF Jobs
  <1> QED BY <1>2, <1>3, ApplySteps

\* Only ops handled and others' writes touch the log.
LEMMA StoreSteps == TypeOK /\ [Next]_vars => StoreStep
  <1> SUFFICES ASSUME TypeOK, [Next]_vars PROVE StoreStep
    OBVIOUS
  <1>1. CASE Edit \/ Open \/ Drop \/ Restart \/ Save \/ Retry \/ HelloAgain \/ Hear
    <2>1. UNCHANGED store
      BY <1>1 DEF Edit, Open, Drop, Restart, Save, Retry, HelloAgain, Hear
    <2> QED BY <2>1 DEF store, StoreStep
  <1>2. CASE Serving
    BY <1>2, ReceiveSteps, HelloOpSteps DEF Serving, HelloAnswered, store, StoreStep
  <1>3. CASE OthersWrite
    BY <1>3 DEF OthersWrite, StoreStep, TakesIn
  <1>4. CASE Unload \/ CommitFails \/ \E c \in Sockets : ServerDrop(c)
    BY <1>4 DEF Unload, CommitFails, ServerDrop, store, StoreStep
  <1>5. CASE UNCHANGED vars
    BY <1>5 DEF vars, store, StoreStep
  <1> QED BY <1>1, <1>2, <1>3, <1>4, <1>5 DEF Next

\* What is added at the end of the log: what was there stays where it was.
LEMMA Appended ==
  ASSUME NEW S, NEW q \in Seq(S), NEW x \in S
  PROVE  /\ Len(Append(q, x)) = Len(q) + 1
         /\ \A v \in 1 .. Len(q) : Append(q, x)[v] = q[v]
         /\ Append(q, x)[Len(q) + 1] = x
  OBVIOUS

\* Every step keeps the log in line.
LEMMA InLineStep == TypeOK /\ InLine /\ [Next]_vars => InLine'
  <1> SUFFICES ASSUME TypeOK, InLine, StoreStep PROVE InLine'
    BY StoreSteps
  <1> DEFINE n == Len(log)
  <1>1. /\ log \in Seq(0 .. MaxOps) /\ last \in 0 .. MaxOps /\ n \in Nat
        /\ \A v \in 1 .. n : log[v] \in 0 .. MaxOps
    BY SyncAssumption DEF TypeOK, StoreOK
  <1>2. CASE log' = log /\ last' = last
    BY <1>2 DEF InLine
  <1>3. CASE Decides
    <2>1. PICK s \in OpNumbers : /\ s > last /\ last' = s
                                 /\ log' = Append(log, s) \/ log' = log
      BY <1>3 DEF Decides
    <2>2. s \in 0 .. MaxOps
      BY DEF OpNumbers
    <2>3. \A v \in 1 .. n : log[v] < s
      BY <1>1, <2>1, <2>2 DEF InLine
    <2>4. CASE log' = log
      BY <2>1, <2>2, <2>3, <2>4, <1>1 DEF InLine
    <2>5. CASE log' = Append(log, s)
      <3>1. /\ Len(log') = n + 1 /\ log'[n + 1] = s
            /\ \A v \in 1 .. n : log'[v] = log[v]
        BY <1>1, <2>2, <2>5, Appended
      <3>2. \A v \in 1 .. n + 1 : v \in 1 .. n \/ v = n + 1
        BY <1>1
      <3> HIDE DEF n
      <3>3. \A v \in 1 .. Len(log') : log'[v] <= last'
        BY <1>1, <2>1, <2>2, <2>3, <3>1, <3>2
      <3>4. ASSUME NEW v \in 1 .. Len(log'), NEW w \in 1 .. Len(log'),
                   v < w, log'[v] # 0, log'[w] # 0
            PROVE  log'[v] < log'[w]
        <4>1. v \in 1 .. n
          BY <1>1, <3>1, <3>4
        <4>2. CASE w \in 1 .. n
          BY <3>1, <3>4, <4>1, <4>2 DEF InLine, n
        <4>3. CASE w = n + 1
          BY <2>3, <3>1, <4>1, <4>3
        <4> QED BY <3>1, <3>2, <4>2, <4>3
      <3> QED BY <3>3, <3>4 DEF InLine
    <2> QED BY <2>1, <2>4, <2>5
  <1>4. CASE TakesIn
    <2>1. 0 \in 0 .. MaxOps
      BY SyncAssumption
    <2>2. /\ Len(log') = n + 1 /\ log'[n + 1] = 0
          /\ \A v \in 1 .. n : log'[v] = log[v]
      BY <1>1, <1>4, <2>1, Appended DEF TakesIn
    <2>3. \A v \in 1 .. n + 1 : v \in 1 .. n \/ v = n + 1
      BY <1>1
    <2>4. last' = last
      BY <1>4 DEF TakesIn
    <2> HIDE DEF n
    <2>5. \A v \in 1 .. Len(log') : log'[v] <= last'
      BY <1>1, <2>2, <2>3, <2>4 DEF InLine, n
    <2>6. ASSUME NEW v \in 1 .. Len(log'), NEW w \in 1 .. Len(log'),
                 v < w, log'[v] # 0, log'[w] # 0
          PROVE  log'[v] < log'[w]
      <3>1. v \in 1 .. n /\ w \in 1 .. n
        BY <2>2, <2>3, <2>6
      <3> QED BY <2>2, <2>6, <3>1 DEF InLine, n
    <2> QED BY <2>5, <2>6 DEF InLine
  <1> QED BY <1>2, <1>3, <1>4 DEF StoreStep

\* An order with no two equal ops.
LEMMA InLineOnce == TypeOK /\ InLine => LandsOnce
  <1> SUFFICES ASSUME TypeOK, InLine,
                      NEW v \in 1 .. version, NEW w \in 1 .. version,
                      log[v] = log[w], log[v] # 0
               PROVE  v = w
    BY DEF LandsOnce
  <1>1. /\ version \in Nat
        /\ log[v] \in 0 .. MaxOps /\ log[w] \in 0 .. MaxOps
    BY SyncAssumption DEF TypeOK, StoreOK, version
  <1>2. ~(v < w)
    BY <1>1 DEF InLine, version
  <1>3. ~(w < v)
    BY <1>1 DEF InLine, version
  <1> QED BY <1>1, <1>2, <1>3

\* However often an op is sent, over how many sockets, hellos and restarts, and whatever
\* the store refuses, fails or loses, it is in the log at most once.
THEOREM OpsLandOnce == Spec => []LandsOnce
  <1>1. Init => InLine
    BY DEF Init, InLine
  <1>2. TypeOK /\ InLine /\ [Next]_vars => InLine'
    BY InLineStep
  <1>3. TypeOK /\ InLine => LandsOnce
    BY InLineOnce
  <1> QED BY <1>1, <1>2, <1>3, TypeCorrect, PTL DEF Spec

-----------------------------------------------------------------------------
(* The base of a client, and the edits in it, while the store neither      *)
(* unloads itself nor fails a commit.  Sockets may drop, rates may limit,  *)
(* rules may refuse, ops may lose, the page may reload.                    *)
(* First, what is on its way to the client: d, by a store at version n, to *)
(* a client at version kn, which is synced or not (sy).                    *)

HasAnswer(d) == \E i \in 1 .. Len(d) : d[i].t = "answer"

\* The messages that will move the client's version: answers, and patches after one.
Moves(d, sy, i) ==
  \/ d[i].t = "answer"
  \/ d[i].t = "patch" /\ (sy \/ \E j \in 1 .. i - 1 : d[j].t = "answer")

\* One of the versions the client is at before it reads the i-th message is k.
Passes(d, sy, kn, i, k) ==
  (sy /\ kn = k) \/ \E j \in 1 .. i - 1 : Moves(d, sy, j) /\ d[j].v = k

Upwards(d, sy, kn, n) ==
  /\ \A i \in 1 .. Len(d) : Moves(d, sy, i) => kn <= d[i].v /\ d[i].v <= n
  /\ \A i, j \in 1 .. Len(d) : i < j /\ Moves(d, sy, i) /\ Moves(d, sy, j) =>
       d[i].v <= d[j].v /\ (d[j].t = "patch" => d[i].v < d[j].v)

\* A patch comes right after the version before it.
OneByOne(d, sy, kn) == \A i \in 1 .. Len(d) :
  d[i].t = "patch" /\ Moves(d, sy, i) => Passes(d, sy, kn, i, d[i].v - 1)

\* An ack comes to a client that is synced, and has what the ack says is stored.
AcksBehind(d, sy, kn) == \A i \in 1 .. Len(d) :
  d[i].t = "ack" => sy /\ \E k \in Nat : d[i].v <= k /\ Passes(d, sy, kn, i, k)

\* A delta starts no later than at the client's version, and no store was unloaded.
Answers(d, kn) == \A i \in 1 .. Len(d) :
  /\ d[i].t = "answer" => d[i].since <= kn
  /\ d[i].t # "closed"

Follows(d, sy, kn, n) ==
  Upwards(d, sy, kn, n) /\ OneByOne(d, sy, kn) /\ AcksBehind(d, sy, kn) /\ Answers(d, kn)

\* With a session that is open, whoever heard an answer, or is about to, ends up at n.
Reaches(d, sy, kn, n, s) ==
  sy \/ HasAnswer(d) =>
    /\ s \in Opened \cup {"gone"}
    /\ s \in Opened => Passes(d, sy, kn, Len(d) + 1, n)

Caught(d, sy, kn, n, s) == Follows(d, sy, kn, n) /\ Reaches(d, sy, kn, n, s)

\* What the messages that carry a version carry.
LEMMA Versions ==
  ASSUME NEW m \in DownMessage
  PROVE  /\ m.t \in {"patch", "ack", "answer"} => m.v \in Nat
         /\ m.t = "answer" => m.since \in Nat
  BY DEF DownMessage

\* A message at the end changes nothing of those before it.
LEMMA Longer ==
  ASSUME NEW d \in Seq(DownMessage), NEW x \in DownMessage, NEW sy, NEW kn
  PROVE  LET e == Append(d, x) IN
         /\ Len(e) = Len(d) + 1 /\ e[Len(d) + 1] = x /\ e \in Seq(DownMessage)
         /\ \A i \in 1 .. Len(d) : e[i] = d[i]
         /\ \A i \in 1 .. Len(d) : Moves(e, sy, i) <=> Moves(d, sy, i)
         /\ \A i \in 1 .. Len(d) + 1 : \A k : Passes(e, sy, kn, i, k) <=> Passes(d, sy, kn, i, k)
         /\ Moves(e, sy, Len(d) + 1) <=> (x.t = "answer" \/ (x.t = "patch" /\ (sy \/ HasAnswer(d))))
  <1> DEFINE e == Append(d, x)
  <1> DEFINE n == Len(d)
  <1>1. Len(e) = n + 1 /\ e[n + 1] = x /\ e \in Seq(DownMessage) /\ n \in Nat
        /\ \A i \in 1 .. n : e[i] = d[i]
    OBVIOUS
  <1> HIDE DEF e
  <1>2. ASSUME NEW i \in 1 .. n
        PROVE  Moves(e, sy, i) <=> Moves(d, sy, i)
    <2>1. \A j \in 1 .. i - 1 : e[j] = d[j]
      BY <1>1
    <2> QED BY <1>1, <2>1 DEF Moves
  <1>3. ASSUME NEW i \in 1 .. n + 1, NEW k
        PROVE  Passes(e, sy, kn, i, k) <=> Passes(d, sy, kn, i, k)
    <2>1. \A j \in 1 .. i - 1 : e[j] = d[j] /\ (Moves(e, sy, j) <=> Moves(d, sy, j))
      BY <1>1, <1>2
    <2> QED BY <2>1 DEF Passes
  <1>4. Moves(e, sy, n + 1) <=> (x.t = "answer" \/ (x.t = "patch" /\ (sy \/ HasAnswer(d))))
    <2>1. (n + 1) - 1 = n
      BY <1>1
    <2>2. (\E j \in 1 .. n : e[j].t = "answer") <=> HasAnswer(d)
      BY <1>1 DEF HasAnswer
    <2> QED BY <1>1, <2>1, <2>2 DEF Moves
  <1> QED BY <1>1, <1>2, <1>3, <1>4 DEF e

\* A place in a sequence one longer.
LEMMA Place ==
  ASSUME NEW n \in Nat
  PROVE  /\ \A i \in 1 .. n + 1 : i \in 1 .. n \/ i = n + 1
         /\ \A i \in 1 .. n : i \in 1 .. n + 1 /\ i < n + 1
         /\ n + 1 \in 1 .. n + 1
  OBVIOUS

\* How a message at the end keeps what follows in order.
LEMMA LongerFollows ==
  ASSUME NEW d \in Seq(DownMessage), NEW x \in DownMessage, NEW sy \in BOOLEAN, NEW kn \in Nat,
         NEW n \in Nat, NEW m \in Nat, Follows(d, sy, kn, n), n <= m, x.t # "closed",
         Moves(Append(d, x), sy, Len(d) + 1) => /\ kn <= x.v /\ x.v <= m /\ n <= x.v
                                                /\ x.t = "patch" => n < x.v,
         x.t = "patch" /\ Moves(Append(d, x), sy, Len(d) + 1) => Passes(d, sy, kn, Len(d) + 1, x.v - 1),
         x.t = "ack" => sy /\ \E k \in Nat : x.v <= k /\ Passes(d, sy, kn, Len(d) + 1, k),
         x.t = "answer" => x.since <= kn
  PROVE  Follows(Append(d, x), sy, kn, m)
  <1> DEFINE e == Append(d, x)
  <1> DEFINE l == Len(d)
  <1>1. /\ Len(e) = l + 1 /\ e[l + 1] = x /\ e \in Seq(DownMessage)
        /\ \A i \in 1 .. l : e[i] = d[i]
        /\ \A i \in 1 .. l : Moves(e, sy, i) <=> Moves(d, sy, i)
        /\ \A i \in 1 .. l + 1 : \A k : Passes(e, sy, kn, i, k) <=> Passes(d, sy, kn, i, k)
    BY Longer
  <1>2. l \in Nat /\ \A i \in 1 .. l : d[i] \in DownMessage
    OBVIOUS
  <1>3. Moves(e, sy, l + 1) => /\ kn <= x.v /\ x.v <= m /\ n <= x.v
                               /\ x.t = "patch" => n < x.v
    OBVIOUS
  <1>4. x.t = "patch" /\ Moves(e, sy, l + 1) => Passes(d, sy, kn, l + 1, x.v - 1)
    OBVIOUS
  <1>5. x.t = "ack" => sy /\ \E k \in Nat : x.v <= k /\ Passes(d, sy, kn, l + 1, k)
    OBVIOUS
  <1>6. \A i \in 1 .. l : Moves(d, sy, i) => d[i].v \in Nat
    BY <1>2, Versions DEF Moves
  <1>7. Moves(e, sy, l + 1) => x.v \in Nat
    BY <1>1, Versions DEF Moves
  <1>8. Upwards(d, sy, kn, n) /\ OneByOne(d, sy, kn) /\ AcksBehind(d, sy, kn) /\ Answers(d, kn)
    BY DEF Follows
  <1>9. \A i \in 1 .. l : \A k : Passes(e, sy, kn, i, k) <=> Passes(d, sy, kn, i, k)
    BY <1>1, <1>2
  <1>10. \A k : Passes(e, sy, kn, l + 1, k) <=> Passes(d, sy, kn, l + 1, k)
    BY <1>1, <1>2
  <1>11. \A i \in 1 .. l + 1 : i \in 1 .. l \/ i = l + 1
    BY <1>2, Place
  <1> HIDE DEF e, l
  <1>12. \A i \in 1 .. Len(e) : Moves(e, sy, i) => kn <= e[i].v /\ e[i].v <= m
    <2> SUFFICES ASSUME NEW i \in 1 .. Len(e), Moves(e, sy, i) PROVE kn <= e[i].v /\ e[i].v <= m
      OBVIOUS
    <2>1. CASE i = l + 1
      BY <1>1, <1>3, <2>1
    <2>2. CASE i \in 1 .. l
      <3>1. Moves(d, sy, i) /\ e[i] = d[i] /\ d[i].v \in Nat
        BY <1>1, <1>6, <2>2
      <3>2. kn <= d[i].v /\ d[i].v <= n
        BY <1>8, <2>2, <3>1 DEF Upwards, l
      <3> QED BY <3>1, <3>2
    <2> QED BY <1>1, <1>11, <2>1, <2>2
  <1>13. \A i, j \in 1 .. Len(e) : i < j /\ Moves(e, sy, i) /\ Moves(e, sy, j) =>
            e[i].v <= e[j].v /\ (e[j].t = "patch" => e[i].v < e[j].v)
    <2> SUFFICES ASSUME NEW i \in 1 .. Len(e), NEW j \in 1 .. Len(e), i < j,
                        Moves(e, sy, i), Moves(e, sy, j)
                 PROVE  e[i].v <= e[j].v /\ (e[j].t = "patch" => e[i].v < e[j].v)
      OBVIOUS
    <2>1. i \in 1 .. l
      BY <1>1, <1>2
    <2>2. Moves(d, sy, i) /\ e[i] = d[i] /\ d[i].v \in Nat
      BY <1>1, <1>6, <2>1
    <2>3. CASE j = l + 1
      <3>1. d[i].v <= n
        BY <1>8, <2>1, <2>2 DEF Upwards, l
      <3>2. x.v \in Nat /\ n <= x.v /\ (x.t = "patch" => n < x.v) /\ e[j] = x
        BY <1>1, <1>3, <1>7, <2>3
      <3> QED BY <2>2, <3>1, <3>2
    <2>4. CASE j \in 1 .. l
      <3>1. Moves(d, sy, j) /\ e[j] = d[j]
        BY <1>1, <2>4
      <3> QED BY <1>8, <2>1, <2>2, <2>4, <3>1 DEF Upwards, l
    <2> QED BY <1>1, <1>11, <2>3, <2>4
  <1>14. OneByOne(e, sy, kn)
    <2> SUFFICES ASSUME NEW i \in 1 .. Len(e), e[i].t = "patch", Moves(e, sy, i)
                 PROVE  Passes(e, sy, kn, i, e[i].v - 1)
      BY DEF OneByOne
    <2>1. CASE i = l + 1
      BY <1>1, <1>4, <1>10, <2>1
    <2>2. CASE i \in 1 .. l
      <3>1. Moves(d, sy, i) /\ e[i] = d[i]
        BY <1>1, <2>2
      <3>2. Passes(d, sy, kn, i, d[i].v - 1)
        BY <1>8, <2>2, <3>1 DEF OneByOne, l
      <3> QED BY <1>9, <2>2, <3>1, <3>2
    <2> QED BY <1>1, <1>11, <2>1, <2>2
  <1>15. AcksBehind(e, sy, kn)
    <2> SUFFICES ASSUME NEW i \in 1 .. Len(e), e[i].t = "ack"
                 PROVE  sy /\ \E k \in Nat : e[i].v <= k /\ Passes(e, sy, kn, i, k)
      BY DEF AcksBehind
    <2>1. CASE i = l + 1
      BY <1>1, <1>5, <1>10, <2>1
    <2>2. CASE i \in 1 .. l
      <3>1. sy /\ \E k \in Nat : d[i].v <= k /\ Passes(d, sy, kn, i, k)
        BY <1>1, <1>8, <2>2 DEF AcksBehind, l
      <3> QED BY <1>1, <1>9, <2>2, <3>1
    <2> QED BY <1>1, <1>11, <2>1, <2>2
  <1>16. Answers(e, kn)
    <2> SUFFICES ASSUME NEW i \in 1 .. Len(e)
                 PROVE  (e[i].t = "answer" => e[i].since <= kn) /\ e[i].t # "closed"
      BY DEF Answers
    <2>1. CASE i = l + 1
      BY <1>1, <2>1
    <2>2. CASE i \in 1 .. l
      BY <1>1, <1>8, <2>2 DEF Answers, l
    <2> QED BY <1>1, <1>11, <2>1, <2>2
  <1>17. Upwards(e, sy, kn, m)
    BY <1>12, <1>13 DEF Upwards
  <1> QED BY <1>14, <1>15, <1>16, <1>17 DEF Follows, e

\* A client that passes a version passes it with one more message behind.
LEMMA LongerPasses ==
  ASSUME NEW d \in Seq(DownMessage), NEW x \in DownMessage, NEW sy, NEW kn, NEW k,
         Passes(d, sy, kn, Len(d) + 1, k)
  PROVE  Passes(Append(d, x), sy, kn, Len(Append(d, x)) + 1, k)
  <1> DEFINE l == Len(d)
  <1> DEFINE e == Append(d, x)
  <1>1. /\ Len(e) = l + 1 /\ (\A i \in 1 .. l : e[i] = d[i]) /\ l \in Nat
        /\ \A i \in 1 .. l : Moves(e, sy, i) <=> Moves(d, sy, i)
    BY Longer
  <1> HIDE DEF e
  <1>2. CASE sy /\ kn = k
    BY <1>2 DEF Passes, e
  <1>3. CASE \E j \in 1 .. (l + 1) - 1 : Moves(d, sy, j) /\ d[j].v = k
    <2>1. (l + 1) - 1 = l
      BY <1>1
    <2>2. PICK j \in 1 .. l : Moves(d, sy, j) /\ d[j].v = k
      BY <1>3, <2>1
    <2>3. j \in 1 .. (Len(e) + 1) - 1 /\ Moves(e, sy, j) /\ e[j].v = k
      BY <1>1, <2>2
    <2> QED BY <2>3 DEF Passes, e
  <1> QED BY <1>2, <1>3 DEF Passes

\* The patch of what landed, told to a session that is open.
LEMMA CaughtPatch ==
  ASSUME NEW d \in Seq(DownMessage), NEW sy \in BOOLEAN, NEW kn \in Nat, NEW n \in Nat, NEW s \in Opened,
         Caught(d, sy, kn, n, s), kn <= n
  PROVE  Caught(Append(d, [t |-> "patch", v |-> n + 1]), sy, kn, n + 1, s)
  <1> DEFINE x == [t |-> "patch", v |-> n + 1]
  <1> DEFINE l == Len(d)
  <1>1. x \in DownMessage /\ x.t = "patch" /\ x.v = n + 1 /\ x.t # "closed" /\ x.t # "ack" /\ x.t # "answer"
    BY DEF DownMessage
  <1>2. l \in Nat
    OBVIOUS
  <1> HIDE DEF x
  <1> DEFINE e == Append(d, x)
  <1>3. /\ Len(e) = l + 1 /\ e[l + 1] = x /\ \A i \in 1 .. l : e[i] = d[i]
        /\ \A i \in 1 .. l + 1 : \A k : Passes(e, sy, kn, i, k) <=> Passes(d, sy, kn, i, k)
        /\ Moves(e, sy, l + 1) <=> (x.t = "answer" \/ (x.t = "patch" /\ (sy \/ HasAnswer(d))))
    BY <1>1, Longer
  <1> HIDE DEF e
  <1>4. Moves(e, sy, l + 1) => Passes(d, sy, kn, l + 1, x.v - 1)
    <2>1. x.v - 1 = n
      BY <1>1
    <2>2. Moves(e, sy, l + 1) => sy \/ HasAnswer(d)
      BY <1>1, <1>3
    <2> QED BY <2>1, <2>2 DEF Caught, Reaches
  <1>5. kn <= x.v /\ x.v <= n + 1 /\ n <= x.v /\ n < x.v /\ n <= n + 1 /\ n + 1 \in Nat
    BY <1>1
  <1>6. Follows(e, sy, kn, n + 1)
    BY <1>1, <1>4, <1>5, LongerFollows DEF Caught, e
  <1>7. Reaches(e, sy, kn, n + 1, s)
    <2> SUFFICES ASSUME sy \/ HasAnswer(e) PROVE Passes(e, sy, kn, Len(e) + 1, n + 1)
      BY DEF Reaches
    <2>1. sy \/ HasAnswer(d)
      BY <1>1, <1>2, <1>3, Place DEF HasAnswer
    <2>2. Moves(e, sy, l + 1) /\ e[l + 1].v = n + 1
      BY <1>1, <1>3, <2>1
    <2>3. l + 1 \in 1 .. (Len(e) + 1) - 1
      BY <1>2, <1>3
    <2> QED BY <2>2, <2>3 DEF Passes
  <1> QED BY <1>6, <1>7 DEF Caught, e, x

\* With none open, a version lands unheard.
LEMMA CaughtAged ==
  ASSUME NEW d \in Seq(DownMessage), NEW sy \in BOOLEAN, NEW kn \in Nat, NEW n \in Nat, NEW s, s \notin Opened,
         Caught(d, sy, kn, n, s)
  PROVE  Caught(d, sy, kn, n + 1, s)
  <1>1. \A i \in 1 .. Len(d) : d[i] \in DownMessage
    OBVIOUS
  <1>2. Upwards(d, sy, kn, n + 1)
    <2>1. \A i \in 1 .. Len(d) : Moves(d, sy, i) => d[i].v \in Nat
      BY <1>1, Versions DEF Moves
    <2>2. \A i \in 1 .. Len(d) : Moves(d, sy, i) => kn <= d[i].v /\ d[i].v <= n + 1
      BY <2>1 DEF Caught, Follows, Upwards
    <2> QED BY <2>2 DEF Caught, Follows, Upwards
  <1> QED BY <1>2 DEF Caught, Follows, Reaches

\* A refusal says nothing of versions.
LEMMA CaughtRefusal ==
  ASSUME NEW d \in Seq(DownMessage), NEW sy \in BOOLEAN, NEW kn \in Nat, NEW n \in Nat, NEW s,
         Caught(d, sy, kn, n, s), NEW x \in DownMessage, x.t \in {"limited", "refused"}
  PROVE  Caught(Append(d, x), sy, kn, n, s)
  <1> DEFINE l == Len(d)
  <1> DEFINE e == Append(d, x)
  <1>1. /\ Len(e) = l + 1 /\ e[l + 1] = x /\ (\A i \in 1 .. l : e[i] = d[i]) /\ l \in Nat
        /\ \A i \in 1 .. l : Moves(e, sy, i) <=> Moves(d, sy, i)
        /\ \A i \in 1 .. l + 1 : \A k : Passes(e, sy, kn, i, k) <=> Passes(d, sy, kn, i, k)
        /\ Moves(e, sy, l + 1) <=> (x.t = "answer" \/ (x.t = "patch" /\ (sy \/ HasAnswer(d))))
    BY Longer
  <1> HIDE DEF e
  <1>2. ~Moves(e, sy, l + 1)
    BY <1>1
  <1>3. Follows(e, sy, kn, n)
    BY <1>2, LongerFollows DEF Caught, e
  <1>4. Reaches(e, sy, kn, n, s)
    <2> SUFFICES ASSUME sy \/ HasAnswer(e)
                 PROVE  /\ s \in Opened \cup {"gone"}
                        /\ s \in Opened => Passes(e, sy, kn, Len(e) + 1, n)
      BY DEF Reaches
    <2>1. sy \/ HasAnswer(d)
      BY <1>1, Place DEF HasAnswer
    <2>2. s \in Opened \cup {"gone"} /\ (s \in Opened => Passes(d, sy, kn, l + 1, n))
      BY <2>1 DEF Caught, Reaches
    <2>3. Passes(d, sy, kn, l + 1, n) => Passes(e, sy, kn, Len(e) + 1, n)
      BY LongerPasses DEF e
    <2> QED BY <2>2, <2>3
  <1> QED BY <1>3, <1>4 DEF Caught, e

\* An ack to a client that is synced says what is stored by then.
LEMMA CaughtAck ==
  ASSUME NEW d \in Seq(DownMessage), NEW sy \in BOOLEAN, NEW kn \in Nat, NEW n \in Nat,
         NEW s \in Opened, sy, Caught(d, sy, kn, n, s), NEW x \in DownMessage, x.t = "ack", x.v <= n
  PROVE  Caught(Append(d, x), sy, kn, n, s)
  <1> DEFINE l == Len(d)
  <1> DEFINE e == Append(d, x)
  <1>1. Moves(e, sy, l + 1) <=> (x.t = "answer" \/ (x.t = "patch" /\ (sy \/ HasAnswer(d))))
    BY Longer
  <1> HIDE DEF e
  <1>2. ~Moves(e, sy, l + 1)
    BY <1>1
  <1>3. Passes(d, sy, kn, l + 1, n)
    BY DEF Caught, Reaches
  <1>4. \E k \in Nat : x.v <= k /\ Passes(d, sy, kn, l + 1, k)
    BY <1>3
  <1>5. Follows(e, sy, kn, n)
    <2>1. n <= n /\ x.t # "closed" /\ x.t # "patch" /\ x.t # "answer" /\ Follows(d, sy, kn, n)
      <3>1. Follows(d, sy, kn, n)
        BY DEF Caught
      <3>2. x.t # "closed" /\ x.t # "patch" /\ x.t # "answer"
        OBVIOUS
      <3>3. n <= n
        OBVIOUS
      <3> QED BY <3>1, <3>2, <3>3
    <2>2. x.t = "ack" => sy /\ \E k \in Nat : x.v <= k /\ Passes(d, sy, kn, Len(d) + 1, k)
      BY <1>4
    <2>3. /\ x.t = "patch" /\ Moves(Append(d, x), sy, Len(d) + 1) => Passes(d, sy, kn, Len(d) + 1, x.v - 1)
          /\ x.t = "answer" => x.since <= kn
      BY <2>1
    <2>4. ~Moves(Append(d, x), sy, Len(d) + 1)
      BY <1>2 DEF e
    <2> QED BY <2>1, <2>2, <2>3, <2>4, LongerFollows DEF e
  <1>6. Passes(e, sy, kn, Len(e) + 1, n)
    BY <1>3, LongerPasses DEF e
  <1> QED BY <1>5, <1>6 DEF Caught, Reaches, e

\* An answer takes the client to the version of the store.
LEMMA CaughtAnswer ==
  ASSUME NEW d \in Seq(DownMessage), NEW sy \in BOOLEAN, NEW kn \in Nat, NEW n \in Nat, NEW s \in Opened,
         Caught(d, sy, kn, n, s), kn <= n,
         NEW x \in DownMessage, x.t = "answer", x.v = n, x.since <= kn
  PROVE  Caught(Append(d, x), sy, kn, n, s)
  <1> DEFINE l == Len(d)
  <1> DEFINE e == Append(d, x)
  <1>1. /\ Len(e) = l + 1 /\ e[l + 1] = x /\ l \in Nat
        /\ Moves(e, sy, l + 1)
    <2>1. Len(e) = l + 1 /\ e[l + 1] = x /\ l \in Nat
      OBVIOUS
    <2> HIDE DEF e
    <2>2. Moves(e, sy, l + 1)
      BY <2>1 DEF Moves
    <2> QED BY <2>1, <2>2
  <1> HIDE DEF e
  <1>2. kn <= x.v /\ x.v <= n /\ n <= x.v /\ n <= n
    OBVIOUS
  <1>3. Follows(e, sy, kn, n)
    BY <1>2, LongerFollows DEF Caught, e
  <1>4. Passes(e, sy, kn, Len(e) + 1, n)
    <2>1. l + 1 \in 1 .. (Len(e) + 1) - 1 /\ Moves(e, sy, l + 1) /\ e[l + 1].v = n
      BY <1>1
    <2> QED BY <2>1 DEF Passes
  <1> QED BY <1>3, <1>4 DEF Caught, Reaches, e

\* A session may open, be held, or go with its socket.
LEMMA CaughtSession ==
  ASSUME NEW d, NEW sy, NEW kn, NEW n, NEW s, NEW r, Caught(d, sy, kn, n, s),
         s \in Opened => r \in Opened \cup {"gone"},
         s = "gone" => r = "gone"
  PROVE  Caught(d, sy, kn, n, r)
  BY DEF Caught, Reaches, Opened

\* Nothing is on its way over a socket that is not.
LEMMA CaughtNothing ==
  ASSUME NEW kn, NEW n, NEW s
  PROVE  Caught(<<>>, FALSE, kn, n, s)
  <1>1. Len(<<>>) = 0
    OBVIOUS
  <1>2. \A i : i \notin 1 .. 0
    OBVIOUS
  <1>3. \A i : i \notin 1 .. Len(<<>>)
    BY <1>1, <1>2
  <1> QED BY <1>3 DEF Caught, Reaches, Follows, Upwards, OneByOne, AcksBehind, Answers, HasAnswer

-----------------------------------------------------------------------------
(* The client reads the first of the messages.                             *)

\* Where the client gets by its first message.
Heard(d, sy, kn) == IF Moves(d, sy, 1) THEN d[1].v ELSE kn
Synced(d, sy) == sy \/ d[1].t = "answer"

\* The messages behind the first stay what they were to the client.
LEMMA Shorter ==
  ASSUME NEW d \in Seq(DownMessage), d # <<>>, NEW sy \in BOOLEAN
  PROVE  LET e == Tail(d) IN
         /\ e \in Seq(DownMessage) /\ Len(d) = Len(e) + 1 /\ Head(d) = d[1] /\ d[1] \in DownMessage
         /\ Len(e) \in Nat
         /\ \A i \in 1 .. Len(e) : e[i] = d[i + 1] /\ e[i] \in DownMessage /\ i + 1 \in 1 .. Len(d)
         /\ \A i \in 1 .. Len(e) : Moves(e, Synced(d, sy), i) <=> Moves(d, sy, i + 1)
         /\ Synced(d, sy) \/ HasAnswer(e) <=> sy \/ HasAnswer(d)
  <1> DEFINE e == Tail(d)
  <1> DEFINE n == Len(e)
  <1>1. /\ e \in Seq(DownMessage) /\ Len(d) = n + 1 /\ Head(d) = d[1] /\ d[1] \in DownMessage /\ n \in Nat
        /\ \A i \in 1 .. n : e[i] = d[i + 1]
    BY HeadTailProperties
  <1>2. \A i \in 1 .. n : e[i] \in DownMessage
    BY <1>1
  <1> HIDE DEF e
  <1>3. \A i \in 1 .. n : i + 1 \in 1 .. Len(d)
    BY <1>1
  <1>4. ASSUME NEW i \in 1 .. n
        PROVE  Moves(e, Synced(d, sy), i) <=> Moves(d, sy, i + 1)
    <2>1. e[i] = d[i + 1]
      BY <1>1
    <2>2. (Synced(d, sy) \/ \E j \in 1 .. i - 1 : e[j].t = "answer")
            <=> (sy \/ \E j \in 1 .. (i + 1) - 1 : d[j].t = "answer")
      <3>1. ASSUME NEW j \in 1 .. i - 1, e[j].t = "answer"
            PROVE  j + 1 \in 1 .. (i + 1) - 1 /\ d[j + 1].t = "answer"
        BY <1>1, <3>1
      <3>2. 1 \in 1 .. (i + 1) - 1
        BY <1>1
      <3>3. ASSUME NEW j \in 1 .. (i + 1) - 1, d[j].t = "answer", j # 1
            PROVE  j - 1 \in 1 .. i - 1 /\ e[j - 1].t = "answer"
        <4>1. j - 1 \in 1 .. i - 1 /\ j - 1 \in 1 .. n /\ (j - 1) + 1 = j
          BY <1>1, <3>3
        <4> QED BY <1>1, <3>3, <4>1
      <3> QED BY <3>1, <3>2, <3>3 DEF Synced
    <2> QED BY <2>1, <2>2 DEF Moves
  <1>5. Synced(d, sy) \/ HasAnswer(e) <=> sy \/ HasAnswer(d)
    <2>1. ASSUME NEW j \in 1 .. n, e[j].t = "answer"
          PROVE  j + 1 \in 1 .. Len(d) /\ d[j + 1].t = "answer"
      BY <1>1, <2>1
    <2>2. 1 \in 1 .. Len(d)
      BY <1>1
    <2>3. ASSUME NEW j \in 1 .. Len(d), d[j].t = "answer", j # 1
          PROVE  j - 1 \in 1 .. n /\ e[j - 1].t = "answer"
      <3>1. j - 1 \in 1 .. n /\ (j - 1) + 1 = j
        BY <1>1, <2>3
      <3> QED BY <1>1, <2>3, <3>1
    <2> QED BY <2>1, <2>2, <2>3 DEF Synced, HasAnswer
  <1> QED BY <1>1, <1>2, <1>3, <1>4, <1>5 DEF e

\* A version still to pass after the first message, or the first message passed it.
LEMMA ShorterPasses ==
  ASSUME NEW d \in Seq(DownMessage), d # <<>>, NEW sy \in BOOLEAN, NEW kn \in Nat,
         NEW i \in 1 .. Len(Tail(d)) + 1, NEW k, Passes(d, sy, kn, i + 1, k)
  PROVE  \/ Passes(Tail(d), Synced(d, sy), Heard(d, sy, kn), i, k)
         \/ sy /\ kn = k /\ Moves(d, sy, 1)
  <1> DEFINE e == Tail(d)
  <1>1. /\ Len(d) = Len(e) + 1 /\ Len(e) \in Nat
        /\ \A j \in 1 .. Len(e) : e[j] = d[j + 1]
        /\ \A j \in 1 .. Len(e) : Moves(e, Synced(d, sy), j) <=> Moves(d, sy, j + 1)
    BY Shorter
  <1> HIDE DEF e
  <1>2. CASE sy /\ kn = k
    <2>1. CASE Moves(d, sy, 1)
      BY <1>2, <2>1
    <2>2. CASE ~Moves(d, sy, 1)
      BY <1>2, <2>2 DEF Heard, Synced, Passes
    <2> QED BY <2>1, <2>2
  <1>3. CASE \E j \in 1 .. (i + 1) - 1 : Moves(d, sy, j) /\ d[j].v = k
    <2>1. PICK j \in 1 .. (i + 1) - 1 : Moves(d, sy, j) /\ d[j].v = k
      BY <1>3
    <2>2. CASE j = 1
      <3>1. Heard(d, sy, kn) = k
        BY <2>1, <2>2 DEF Heard
      <3>2. Synced(d, sy)
        <4>1. \A q : q \notin 1 .. 1 - 1
          OBVIOUS
        <4> QED BY <2>1, <2>2, <4>1 DEF Moves, Synced
      <3> QED BY <3>1, <3>2 DEF Passes
    <2>3. CASE j # 1
      <3>1. j - 1 \in 1 .. i - 1 /\ j - 1 \in 1 .. Len(e) /\ (j - 1) + 1 = j
        BY <1>1, <2>1, <2>3 DEF e
      <3>2. Moves(e, Synced(d, sy), j - 1) /\ e[j - 1].v = k
        BY <1>1, <2>1, <3>1
      <3> QED BY <3>1, <3>2 DEF Passes, e
    <2> QED BY <2>2, <2>3
  <1> QED BY <1>2, <1>3 DEF Passes

\* Reading the first message leaves the rest in order.
LEMMA CaughtHeard ==
  ASSUME NEW d \in Seq(DownMessage), d # <<>>, NEW sy \in BOOLEAN, NEW kn \in Nat, NEW n \in Nat, NEW s,
         kn <= n, Caught(d, sy, kn, n, s)
  PROVE  /\ Caught(Tail(d), Synced(d, sy), Heard(d, sy, kn), n, s)
         /\ Heard(d, sy, kn) \in Nat /\ kn <= Heard(d, sy, kn) /\ Heard(d, sy, kn) <= n
  <1> DEFINE e == Tail(d)
  <1> DEFINE k1 == Heard(d, sy, kn)
  <1> DEFINE s1 == Synced(d, sy)
  <1>1. /\ e \in Seq(DownMessage) /\ Len(d) = Len(e) + 1 /\ Head(d) = d[1] /\ d[1] \in DownMessage
        /\ Len(e) \in Nat
        /\ \A i \in 1 .. Len(e) : e[i] = d[i + 1] /\ e[i] \in DownMessage /\ i + 1 \in 1 .. Len(d)
        /\ \A i \in 1 .. Len(e) : Moves(e, s1, i) <=> Moves(d, sy, i + 1)
        /\ s1 \/ HasAnswer(e) <=> sy \/ HasAnswer(d)
    BY Shorter
  <1>2. Upwards(d, sy, kn, n) /\ OneByOne(d, sy, kn) /\ AcksBehind(d, sy, kn) /\ Answers(d, kn)
    BY DEF Caught, Follows
  <1>3. 1 \in 1 .. Len(d) /\ \A i \in 1 .. Len(e) : 1 < i + 1
    BY <1>1
  <1>4. Moves(d, sy, 1) => d[1].v \in Nat /\ kn <= d[1].v /\ d[1].v <= n
    <2>1. Moves(d, sy, 1) => d[1].v \in Nat
      BY <1>1, Versions DEF Moves
    <2> QED BY <1>2, <1>3, <2>1 DEF Upwards
  <1>5. k1 \in Nat /\ kn <= k1 /\ k1 <= n
    BY <1>4 DEF Heard
  <1>6. \A i \in 1 .. Len(e) + 1 : \A k : Passes(d, sy, kn, i + 1, k) =>
          Passes(e, s1, k1, i, k) \/ (sy /\ kn = k /\ Moves(d, sy, 1))
    BY ShorterPasses
  <1>7. sy => s1
    BY DEF Synced
  <1>8. sy /\ Moves(d, sy, 1) => \A i : Passes(e, s1, k1, i, k1)
    BY <1>7 DEF Passes
  <1>9. Moves(d, sy, 1) => k1 = d[1].v
    BY DEF Heard
  <1> HIDE DEF e, k1, s1
  <1>10. \A i \in 1 .. Len(e) : Moves(e, s1, i) =>
           /\ e[i].v \in Nat /\ k1 <= e[i].v /\ e[i].v <= n
           /\ Moves(d, sy, 1) /\ e[i].t = "patch" => k1 < e[i].v
    <2> SUFFICES ASSUME NEW i \in 1 .. Len(e), Moves(e, s1, i)
                 PROVE  /\ e[i].v \in Nat /\ k1 <= e[i].v /\ e[i].v <= n
                        /\ Moves(d, sy, 1) /\ e[i].t = "patch" => k1 < e[i].v
      OBVIOUS
    <2>1. Moves(d, sy, i + 1) /\ e[i] = d[i + 1] /\ e[i] \in DownMessage /\ i + 1 \in 1 .. Len(d)
      BY <1>1
    <2>2. e[i].v \in Nat
      BY <2>1, Versions DEF Moves
    <2>3. kn <= d[i + 1].v /\ d[i + 1].v <= n
      BY <1>2, <2>1 DEF Upwards
    <2>4. CASE Moves(d, sy, 1)
      <3>1. d[1].v <= d[i + 1].v /\ (d[i + 1].t = "patch" => d[1].v < d[i + 1].v)
        BY <1>2, <1>3, <2>1, <2>4 DEF Upwards
      <3> QED BY <1>9, <2>1, <2>2, <2>3, <2>4, <3>1
    <2>5. CASE ~Moves(d, sy, 1)
      <3>1. k1 = kn
        BY <2>5 DEF Heard, k1
      <3> QED BY <2>1, <2>2, <2>3, <2>5, <3>1
    <2> QED BY <2>4, <2>5
  <1>11. Upwards(e, s1, k1, n)
    <2>1. ASSUME NEW i \in 1 .. Len(e), NEW j \in 1 .. Len(e), i < j, Moves(e, s1, i), Moves(e, s1, j)
          PROVE  e[i].v <= e[j].v /\ (e[j].t = "patch" => e[i].v < e[j].v)
      <3>1. i + 1 \in 1 .. Len(d) /\ j + 1 \in 1 .. Len(d) /\ i + 1 < j + 1 /\ Moves(d, sy, i + 1)
            /\ Moves(d, sy, j + 1) /\ e[i] = d[i + 1] /\ e[j] = d[j + 1]
        BY <1>1, <2>1
      <3> QED BY <1>2, <3>1 DEF Upwards
    <2> QED BY <1>10, <2>1 DEF Upwards
  <1>12. OneByOne(e, s1, k1)
    <2> SUFFICES ASSUME NEW i \in 1 .. Len(e), e[i].t = "patch", Moves(e, s1, i)
                 PROVE  Passes(e, s1, k1, i, e[i].v - 1)
      BY DEF OneByOne
    <2>1. Moves(d, sy, i + 1) /\ e[i] = d[i + 1] /\ i + 1 \in 1 .. Len(d) /\ i \in 1 .. Len(e) + 1
      BY <1>1
    <2>2. Passes(d, sy, kn, i + 1, e[i].v - 1)
      BY <1>2, <2>1 DEF OneByOne
    <2>3. CASE Passes(e, s1, k1, i, e[i].v - 1)
      BY <2>3
    <2>4. CASE sy /\ kn = e[i].v - 1 /\ Moves(d, sy, 1)
      <3>1. k1 < e[i].v /\ kn <= k1 /\ e[i].v \in Nat /\ k1 \in Nat
        BY <1>5, <1>10, <2>4
      <3>2. k1 = e[i].v - 1
        BY <2>4, <3>1
      <3> QED BY <1>8, <2>4, <3>2
    <2> QED BY <1>6, <2>1, <2>2, <2>3, <2>4
  <1>13. AcksBehind(e, s1, k1)
    <2> SUFFICES ASSUME NEW i \in 1 .. Len(e), e[i].t = "ack"
                 PROVE  s1 /\ \E k \in Nat : e[i].v <= k /\ Passes(e, s1, k1, i, k)
      BY DEF AcksBehind
    <2>1. e[i] = d[i + 1] /\ i + 1 \in 1 .. Len(d) /\ i \in 1 .. Len(e) + 1 /\ e[i].v \in Nat
      BY <1>1, Versions
    <2>2. sy /\ \E k \in Nat : e[i].v <= k /\ Passes(d, sy, kn, i + 1, k)
      BY <1>2, <2>1 DEF AcksBehind
    <2>3. PICK k \in Nat : e[i].v <= k /\ Passes(d, sy, kn, i + 1, k)
      BY <2>2
    <2>4. CASE Passes(e, s1, k1, i, k)
      BY <1>7, <2>2, <2>3, <2>4
    <2>5. CASE sy /\ kn = k /\ Moves(d, sy, 1)
      <3>1. e[i].v <= k1
        BY <1>5, <2>1, <2>3, <2>5
      <3> QED BY <1>5, <1>7, <1>8, <2>5, <3>1
    <2> QED BY <1>6, <2>1, <2>3, <2>4, <2>5
  <1>14. Answers(e, k1)
    <2> SUFFICES ASSUME NEW i \in 1 .. Len(e)
                 PROVE  (e[i].t = "answer" => e[i].since <= k1) /\ e[i].t # "closed"
      BY DEF Answers
    <2>1. e[i] = d[i + 1] /\ i + 1 \in 1 .. Len(d) /\ (e[i].t = "answer" => e[i].since \in Nat)
      BY <1>1, Versions
    <2> QED BY <1>2, <1>5, <2>1 DEF Answers
  <1>15. Reaches(e, s1, k1, n, s)
    <2> SUFFICES ASSUME s1 \/ HasAnswer(e)
                 PROVE  /\ s \in Opened \cup {"gone"}
                        /\ s \in Opened => Passes(e, s1, k1, Len(e) + 1, n)
      BY DEF Reaches
    <2>1. s \in Opened \cup {"gone"} /\ (s \in Opened => Passes(d, sy, kn, Len(d) + 1, n))
      BY <1>1 DEF Caught, Reaches
    <2>2. ASSUME Passes(d, sy, kn, Len(d) + 1, n)
          PROVE  Passes(e, s1, k1, Len(e) + 1, n)
      <3>1. Len(e) + 1 \in 1 .. Len(e) + 1
        BY <1>1
      <3>2. CASE Passes(e, s1, k1, Len(e) + 1, n)
        BY <3>2
      <3>3. CASE sy /\ kn = n /\ Moves(d, sy, 1)
        <4>1. k1 = n
          BY <1>5, <3>3
        <4> QED BY <1>8, <3>3, <4>1
      <3> QED BY <1>1, <1>6, <2>2, <3>1, <3>2, <3>3
    <2> QED BY <2>1, <2>2
  <1> QED BY <1>5, <1>11, <1>12, <1>13, <1>14, <1>15 DEF Caught, Follows, e, k1, s1

\* What the first message is, to a client that reads it.
LEMMA FirstIs ==
  ASSUME NEW d \in Seq(DownMessage), d # <<>>, NEW sy \in BOOLEAN, NEW kn \in Nat, NEW n \in Nat, NEW s,
         Caught(d, sy, kn, n, s)
  PROVE  LET m == Head(d) IN
         /\ m.t # "closed" /\ m.t = d[1].t
         /\ m.t = "patch" => (Moves(d, sy, 1) <=> sy) /\ (sy => m.v = kn + 1)
         /\ m.t = "ack" => sy /\ m.v <= kn /\ ~Moves(d, sy, 1)
         /\ m.t = "answer" => Moves(d, sy, 1) /\ m.since <= kn /\ kn <= m.v /\ m.v <= n
         /\ m.t \in {"limited", "refused"} => ~Moves(d, sy, 1)
         /\ Moves(d, sy, 1) => d[1].v = m.v
  <1> DEFINE m == Head(d)
  <1>1. m = d[1] /\ 1 \in 1 .. Len(d) /\ m \in DownMessage
    BY HeadTailProperties, EmptySeq
  <1>2. \A j : j \notin 1 .. 1 - 1
    OBVIOUS
  <1>3. \A k : Passes(d, sy, kn, 1, k) <=> sy /\ kn = k
    BY <1>2 DEF Passes
  <1>4. Moves(d, sy, 1) <=> m.t = "answer" \/ (m.t = "patch" /\ sy)
    BY <1>1, <1>2 DEF Moves
  <1>5. Upwards(d, sy, kn, n) /\ OneByOne(d, sy, kn) /\ AcksBehind(d, sy, kn) /\ Answers(d, kn)
    BY DEF Caught, Follows
  <1> HIDE DEF m
  <1>6. m.t # "closed" /\ (m.t = "answer" => m.since <= kn)
    BY <1>1, <1>5 DEF Answers
  <1>7. m.t = "answer" => kn <= m.v /\ m.v <= n
    BY <1>1, <1>4, <1>5 DEF Upwards
  <1>8. m.t = "patch" /\ sy => m.v = kn + 1
    <2> SUFFICES ASSUME m.t = "patch", sy PROVE m.v = kn + 1
      OBVIOUS
    <2>1. kn = m.v - 1
      BY <1>1, <1>3, <1>4, <1>5 DEF OneByOne
    <2>2. m.v \in Nat
      BY <1>1, Versions
    <2> QED BY <2>1, <2>2
  <1>9. m.t = "ack" => sy /\ m.v <= kn
    BY <1>1, <1>3, <1>5 DEF AcksBehind
  <1> QED BY <1>1, <1>4, <1>6, <1>7, <1>8, <1>9 DEF m

-----------------------------------------------------------------------------
(* The invariant.                                                          *)

\* The base, and the one saved, are whole, and no version is ahead of the store's.
Whole ==
  /\ base = 1 .. known /\ known <= version
  /\ cache.base = 1 .. cache.v /\ cache.v <= version

\* What is on its way to the client is in order.
Flow == Caught(down, synced, known, version, sess[cur])

\* Ops go live only once an answer was heard, and hellos ask from where the client was.
Asked(m, sy, kn) == (m.t = "op" => sy) /\ (m.t = "hello" => m.since <= kn)
Asking ==
  /\ cur # 0 => \A i \in 1 .. Len(up[cur]) : Asked(up[cur][i], synced, known)
  /\ \A c \in Sockets : sess[c] \in {"new", "gone"} => up[c] = <<>>

\* No socket, no messages; and the hello being handled has a session.
Session ==
  /\ cur = 0 => down = <<>> /\ ~synced
  /\ cur # 0 => sess[cur] # "new"
  /\ job # <<>> => /\ sess[job[1].c] \in Opened
                   /\ job[1].c = cur => job[1].since <= known

BaseInv == Whole /\ Flow /\ Asking /\ Session

\* A job is a hello of some socket.
LEMMA JobTypes ==
  ASSUME TypeOK, job # <<>>
  PROVE  job[1] \in Jobs /\ job[1].c \in Sockets /\ job[1].ops \subseteq OpNumbers /\ job[1].since \in Nat
  <1>1. job \in Seq(Jobs)
    BY DEF TypeOK, StoreOK, Jobs
  <1>2. job[1] \in Jobs
    BY <1>1
  <1> QED BY <1>2 DEF Jobs

\* Numbers are numbers.
LEMMA Numbers ==
  TypeOK => /\ known \in Nat /\ version \in Nat /\ synced \in BOOLEAN /\ down \in Seq(DownMessage)
            /\ cache.v \in Nat /\ cur \in Sockets \cup {0} /\ up \in UpQueues /\ 0 \notin Sockets
            /\ sess \in [Sockets -> {"new", "none", "open", "held", "gone"}]
            /\ log \in Seq(0 .. MaxOps) /\ last \in 0 .. MaxOps
  BY DEF TypeOK, ClientOK, WireOK, StoreOK, version, UpQueues, Sockets

\* What the client sends on its socket.
LEMMA AskingSent ==
  ASSUME TypeOK, NEW msgs \in Seq(UpMessage), Upward(msgs), cur' \in Sockets \cup {0},
         \A i \in 1 .. Len(msgs) : Asked(msgs[i], synced', known'),
         cur' # 0 => \A i \in 1 .. Len(up[cur']) : Asked(up[cur'][i], synced', known'),
         \A c \in Sockets : sess'[c] \in {"new", "gone"} => up[c] = <<>>,
         cur' # 0 => sess'[cur'] # "new" /\ (sess'[cur'] = "gone" => sess[cur'] = "gone")
  PROVE  Asking'
  <1>1. CASE cur' = 0 \/ sess[cur'] = "gone"
    <2>1. up' = up
      BY <1>1 DEF Upward
    <2> QED BY <2>1 DEF Asking
  <1>2. CASE ~(cur' = 0 \/ sess[cur'] = "gone")
    <2> DEFINE c == cur'
    <2>1. c \in Sockets /\ up[c] \in Seq(UpMessage) /\ up \in UpQueues
      BY <1>2, Numbers DEF UpQueues
    <2>2. up' = [up EXCEPT ![c] = up[c] \o msgs]
      BY <1>2 DEF Upward
    <2>3. up'[c] = up[c] \o msgs /\ \A d \in Sockets \ {c} : up'[d] = up[d]
      BY <2>1, <2>2 DEF UpQueues
    <2>4. ASSUME NEW i \in 1 .. Len(up'[c])
          PROVE  Asked(up'[c][i], synced', known')
      <3>1. /\ Len(up'[c]) = Len(up[c]) + Len(msgs)
            /\ up'[c][i] = IF i <= Len(up[c]) THEN up[c][i] ELSE msgs[i - Len(up[c])]
            /\ Len(up[c]) \in Nat /\ Len(msgs) \in Nat
        BY <2>1, <2>3, ConcatProperties
      <3>2. CASE i <= Len(up[c])
        <4>1. i \in 1 .. Len(up[c])
          BY <3>1, <3>2
        <4> QED BY <1>2, <3>1, <3>2, <4>1
      <3>3. CASE ~(i <= Len(up[c]))
        <4>1. i - Len(up[c]) \in 1 .. Len(msgs)
          BY <3>1, <3>3
        <4> QED BY <3>1, <3>3, <4>1
      <3> QED BY <3>2, <3>3
    <2>5. \A d \in Sockets : sess'[d] \in {"new", "gone"} => up'[d] = <<>>
      BY <1>2, <2>3
    <2> QED BY <2>4, <2>5 DEF Asking
  <1> QED BY <1>1, <1>2

\* What is sent live is asked of a client that is synced.
LEMMA AskingLive ==
  ASSUME TypeOK, NEW S, S \subseteq OpNumbers, UpwardLive(S), cur' \in Sockets \cup {0}, synced',
         cur' # 0 => \A i \in 1 .. Len(up[cur']) : Asked(up[cur'][i], synced', known'),
         \A c \in Sockets : sess'[c] \in {"new", "gone"} => up[c] = <<>>,
         cur' # 0 => sess'[cur'] # "new" /\ (sess'[cur'] = "gone" => sess[cur'] = "gone")
  PROVE  Asking'
  <1>1. PICK f \in [1 .. Cardinality(S) -> S] :
          Upward([i \in DOMAIN f |-> [t |-> "op", s |-> f[i]]])
    BY DEF UpwardLive
  <1> DEFINE msgs == [i \in DOMAIN f |-> [t |-> "op", s |-> f[i]]]
  <1>2. Cardinality(S) \in Nat
    BY OpsFinite
  <1>3. ASSUME NEW i \in 1 .. Cardinality(S)
        PROVE  [t |-> "op", s |-> f[i]] \in UpMessage
    BY <1>3 DEF UpMessage
  <1>4. msgs \in Seq(UpMessage) /\ Len(msgs) = Cardinality(S)
    BY <1>2, <1>3
  <1>5. \A i \in 1 .. Len(msgs) : Asked(msgs[i], synced', known')
    BY <1>4 DEF Asked
  <1>6. Upward(msgs)
    BY <1>1
  <1> HIDE DEF msgs
  <1> QED BY <1>4, <1>5, <1>6, AskingSent

\* A hello asks from where the client is.
LEMMA AskingHello ==
  ASSUME TypeOK, SayHello, outbox' \subseteq OpNumbers, known' \in Nat, cur' \in Sockets \cup {0},
         cur' # 0 => \A i \in 1 .. Len(up[cur']) : Asked(up[cur'][i], synced', known'),
         \A c \in Sockets : sess'[c] \in {"new", "gone"} => up[c] = <<>>,
         cur' # 0 => sess'[cur'] # "new" /\ (sess'[cur'] = "gone" => sess[cur'] = "gone")
  PROVE  Asking'
  <1> DEFINE carried == Lowest(outbox', HelloLimit)
             hello == [t |-> "hello", ops |-> carried, since |-> known']
  <1>1. carried \subseteq outbox'
    BY DEF Lowest
  <1>2. hello \in UpMessage
    BY <1>1 DEF UpMessage
  <1>3. Asked(hello, synced', known')
    BY DEF Asked
  <1>4. Upward(<<hello>>)
    BY DEF SayHello
  <1> HIDE DEF hello
  <1>5. <<hello>> \in Seq(UpMessage) /\ Len(<<hello>>) = 1 /\ <<hello>>[1] = hello
    BY <1>2
  <1>6. \A i \in 1 .. Len(<<hello>>) : Asked(<<hello>>[i], synced', known')
    BY <1>3, <1>5
  <1> QED BY <1>4, <1>5, <1>6, AskingSent

\* What a step leaves of the invariant when it touches neither store nor client.
Still == UNCHANGED <<base, known, synced, cur, down, sess, log, job>>
LEMMA StillBase ==
  ASSUME TypeOK, BaseInv, Still, cache' = cache \/ cache' = [v |-> known, base |-> base]
  PROVE  Whole' /\ Flow' /\ Session'
  <1>1. Whole'
    BY DEF BaseInv, Still, Whole, version
  <1>2. Flow'
    BY DEF BaseInv, Still, Flow, version
  <1>3. Session'
    BY DEF BaseInv, Still, Session
  <1> QED BY <1>1, <1>2, <1>3

\* And what stays as it was is asked as it was.
LEMMA StillAsking ==
  ASSUME TypeOK, BaseInv, Still
  PROVE  /\ cur' \in Sockets \cup {0} /\ known' \in Nat
         /\ cur' # 0 => \A i \in 1 .. Len(up[cur']) : Asked(up[cur'][i], synced', known')
         /\ \A c \in Sockets : sess'[c] \in {"new", "gone"} => up[c] = <<>>
         /\ cur' # 0 => sess'[cur'] # "new" /\ (sess'[cur'] = "gone" => sess[cur'] = "gone")
         /\ up' = up => Asking'
  BY Numbers DEF BaseInv, Still, Asking, Session

-----------------------------------------------------------------------------
(* The client's actions.                                                   *)

\* An edit is sent live by a client that is synced.
LEMMA EditBase == TypeOK /\ BaseInv /\ Edit => BaseInv'
  <1> SUFFICES ASSUME TypeOK, BaseInv, Edit PROVE BaseInv'
    OBVIOUS
  <1>1. Still /\ cache' = cache
    BY DEF Edit, Still, state, store
  <1>2. Asking'
    <2>1. CASE live /\ UpwardLive({seq'})
      <3>1. synced' /\ {seq'} \subseteq OpNumbers
        <4>1. seq' \in OpNumbers
          BY SyncAssumption DEF Edit, TypeOK, ClientOK, OpNumbers
        <4> QED BY <1>1, <2>1, <4>1 DEF live, Still
      <3> QED BY <1>1, <2>1, <3>1, StillAsking, AskingLive
    <2>2. CASE up' = up
      BY <1>1, <2>2, StillAsking
    <2> QED BY <2>1, <2>2 DEF Edit
  <1> QED BY <1>1, <1>2, StillBase DEF BaseInv

\* Saving the base saves it whole.
LEMMA SaveBase == TypeOK /\ BaseInv /\ Save => BaseInv'
  <1> SUFFICES ASSUME TypeOK, BaseInv, Save PROVE BaseInv'
    OBVIOUS
  <1>1. Still /\ cache' = [v |-> known, base |-> base] /\ up' = up
    BY DEF Save, Still, state, store
  <1> QED BY <1>1, StillBase, StillAsking DEF BaseInv

\* A hello said again asks from where the client is.
LEMMA AgainBase == TypeOK /\ BaseInv /\ (Retry \/ HelloAgain) => BaseInv'
  <1> SUFFICES ASSUME TypeOK, BaseInv, Retry \/ HelloAgain PROVE BaseInv'
    OBVIOUS
  <1>1. Still /\ cache' = cache /\ outbox' = outbox
    BY DEF Retry, HelloAgain, Still, client, store
  <1>2. outbox' \subseteq OpNumbers
    BY <1>1, OutboxOps DEF TypeOK
  <1>3. SayHello \/ up' = up
    BY DEF Retry, HelloAgain
  <1>4. Asking'
    BY <1>1, <1>2, <1>3, StillAsking, AskingHello
  <1> QED BY <1>1, <1>4, StillBase DEF BaseInv

\* A socket that goes takes what was on it, and the page may come back with an older base.
LEMMA ClosedBase == TypeOK /\ BaseInv /\ (Drop \/ Restart) => BaseInv'
  <1> SUFFICES ASSUME TypeOK, BaseInv, Drop \/ Restart PROVE BaseInv'
    OBVIOUS
  <1>1. /\ cur' = 0 /\ down' = <<>> /\ synced' = FALSE
        /\ UNCHANGED <<up, sess, log, job, cache>>
        /\ \/ base' = base /\ known' = known
           \/ base' = cache.base /\ known' = cache.v
    BY DEF Drop, Restart, Closed, client, store
  <1>2. Whole'
    BY <1>1 DEF BaseInv, Whole, version
  <1>3. Flow'
    <2>1. Caught(down', synced', known', version', sess'[cur'])
      BY <1>1, CaughtNothing
    <2> QED BY <2>1 DEF Flow
  <1>4. Asking'
    BY <1>1 DEF BaseInv, Asking
  <1>5. Session'
    <2>1. job # <<>> => job[1].c # 0
      BY JobTypes, Numbers
    <2> QED BY <1>1, <2>1 DEF BaseInv, Session
  <1> QED BY <1>2, <1>3, <1>4, <1>5 DEF BaseInv

\* A new socket: nothing is on it but the hello.
LEMMA OpenBase == TypeOK /\ BaseInv /\ Open => BaseInv'
  <1> SUFFICES ASSUME TypeOK, BaseInv, Open PROVE BaseInv'
    OBVIOUS
  <1>1. PICK c \in Sockets : sess[c] = "new" /\ cur' = c /\ sess' = [sess EXCEPT ![c] = "none"]
    BY DEF Open
  <1>2. /\ cur = 0 /\ synced' = FALSE /\ SayHello
        /\ UNCHANGED <<base, known, cache, outbox, down, log, job>>
    BY DEF Open, client, store
  <1>3. down = <<>> /\ up[c] = <<>>
    BY <1>1, <1>2 DEF BaseInv, Session, Asking
  <1>4. sess'[c] = "none" /\ \A d \in Sockets \ {c} : sess'[d] = sess[d]
    BY <1>1, Numbers
  <1>5. Whole'
    BY <1>2 DEF BaseInv, Whole, version
  <1>6. Flow'
    <2>1. Caught(down', synced', known', version', sess'[cur'])
      BY <1>2, <1>3, CaughtNothing
    <2> QED BY <2>1 DEF Flow
  <1>7. Asking'
    <2>1. outbox' \subseteq OpNumbers /\ known' \in Nat /\ cur' \in Sockets \cup {0}
      BY <1>1, <1>2, OutboxOps, Numbers DEF TypeOK
    <2>2. \A i \in 1 .. Len(up[cur']) : Asked(up[cur'][i], synced', known')
      <3>1. Len(up[cur']) = 0
        BY <1>1, <1>3
      <3>2. \A i : i \notin 1 .. 0
        OBVIOUS
      <3> QED BY <3>1, <3>2
    <2>3. \A d \in Sockets : sess'[d] \in {"new", "gone"} => up[d] = <<>>
      BY <1>4 DEF BaseInv, Asking
    <2>4. sess'[cur'] # "new" /\ sess'[cur'] # "gone"
      BY <1>1, <1>4
    <2> QED BY <1>2, <2>1, <2>2, <2>3, <2>4, AskingHello
  <1>8. Session'
    <2>1. job # <<>> => job[1].c \in Sockets /\ job[1].c # c
      BY <1>1, JobTypes DEF BaseInv, Session, Opened
    <2> QED BY <1>1, <1>2, <1>4, <2>1, Numbers DEF BaseInv, Session
  <1> QED BY <1>5, <1>6, <1>7, <1>8 DEF BaseInv

\* What reading a message does to the client's version, its base and what it sends.
LEMMA HearMoves ==
  ASSUME TypeOK, BaseInv, Hear
  PROVE  /\ synced' = Synced(down, synced) /\ known' = Heard(down, synced, known)
         /\ base' = 1 .. known' /\ known' \in Nat /\ known <= known' /\ known' <= version
         /\ Caught(down', synced', known', version, sess[cur])
         /\ up' = up \/ (synced' /\ UpwardLive({s \in outbox' : s > answered}) /\ outbox' \subseteq outbox)
  <1> DEFINE m == Head(down)
  <1>1. /\ down # <<>> /\ down' = Tail(down) /\ down \in Seq(DownMessage) /\ synced \in BOOLEAN
        /\ known \in Nat /\ version \in Nat /\ m \in DownMessage
    BY Numbers DEF Hear
  <1>2. Caught(down, synced, known, version, sess[cur]) /\ base = 1 .. known /\ known <= version
    BY DEF BaseInv, Flow, Whole
  <1>3. /\ Caught(Tail(down), Synced(down, synced), Heard(down, synced, known), version, sess[cur])
        /\ Heard(down, synced, known) \in Nat /\ known <= Heard(down, synced, known)
        /\ Heard(down, synced, known) <= version
    BY <1>1, <1>2, CaughtHeard
  <1>4. /\ m.t # "closed" /\ m.t = down[1].t
        /\ m.t = "patch" => (Moves(down, synced, 1) <=> synced) /\ (synced => m.v = known + 1)
        /\ m.t = "ack" => synced /\ m.v <= known /\ ~Moves(down, synced, 1)
        /\ m.t = "answer" => Moves(down, synced, 1) /\ m.since <= known /\ known <= m.v /\ m.v <= version
        /\ m.t \in {"limited", "refused"} => ~Moves(down, synced, 1)
        /\ Moves(down, synced, 1) => down[1].v = m.v
    BY <1>1, <1>2, FirstIs
  <1>5. /\ m.t \in {"patch", "ack", "answer"} => m.v \in Nat
        /\ m.t = "answer" => m.since \in Nat
    BY <1>1, Versions
  <1> HIDE DEF m
  <1>6. /\ synced' = Synced(down, synced) /\ known' = Heard(down, synced, known)
        /\ base' = 1 .. known'
        /\ up' = up \/ (synced' /\ UpwardLive({s \in outbox' : s > answered})
                                /\ outbox' \subseteq outbox)
    <2>1. CASE m.t = "patch" /\ HearPatch(m) /\ ~synced
      <3>1. UNCHANGED <<base, known, synced, up>>
        BY <2>1 DEF HearPatch, state
      <3>2. Synced(down, synced) = synced /\ Heard(down, synced, known) = known
        BY <1>1, <1>4, <2>1 DEF Synced, Heard
      <3> QED BY <1>2, <3>1, <3>2
    <2>2. CASE m.t = "patch" /\ HearPatch(m) /\ synced
      <3>1. m.v = known + 1 /\ Moves(down, synced, 1)
        BY <1>4, <2>2
      <3>2. ~(m.v > known + 1)
        BY <1>1, <3>1
      <3>3. known' = m.v /\ base' = base \cup {m.v} /\ synced' = synced /\ up' = up
        BY <2>2, <3>2 DEF HearPatch, state
      <3>4. base' = 1 .. known + 1
        BY <1>1, <1>2, <3>1, <3>3
      <3>5. Synced(down, synced) = synced /\ Heard(down, synced, known) = m.v
        BY <1>1, <1>4, <2>2, <3>1 DEF Synced, Heard
      <3> QED BY <3>1, <3>3, <3>4, <3>5
    <2>3. CASE m.t = "ack" /\ HearAck(m)
      <3>1. known' = known
        BY <1>1, <1>4, <1>5, <2>3 DEF HearAck, Larger
      <3>2. UNCHANGED <<base, synced, up>>
        BY <2>3 DEF HearAck, state
      <3>3. Synced(down, synced) = synced /\ Heard(down, synced, known) = known
        BY <1>1, <1>4, <2>3 DEF Synced, Heard
      <3> QED BY <1>2, <3>1, <3>2, <3>3
    <2>4. CASE m.t = "answer" /\ HearAnswer(m)
      <3>1. known' = m.v /\ synced' = TRUE
        BY <2>4 DEF HearAnswer
      <3>2. base \cup (m.since + 1 .. m.v) = 1 .. m.v
        BY <1>1, <1>2, <1>4, <1>5, <2>4
      <3>3. base' = 1 .. m.v
        BY <2>4, <3>2 DEF HearAnswer
      <3>4. outbox' \subseteq outbox /\ (up' = up \/ UpwardLive({s \in outbox' : s > answered}))
        BY <2>4 DEF HearAnswer, Acknowledge
      <3>5. Synced(down, synced) = TRUE /\ Heard(down, synced, known) = m.v
        BY <1>1, <1>4, <2>4 DEF Synced, Heard
      <3> QED BY <3>1, <3>3, <3>4, <3>5
    <2>5. CASE (m.t = "limited" /\ HearLimited(m)) \/ (m.t = "refused" /\ HearRefused(m))
      <3>1. UNCHANGED <<base, known, synced, up>>
        BY <2>5 DEF HearLimited, HearRefused, state
      <3>2. Synced(down, synced) = synced /\ Heard(down, synced, known) = known
        BY <1>1, <1>4, <2>5 DEF Synced, Heard
      <3> QED BY <1>2, <3>1, <3>2
    <2> QED BY <1>4, <2>1, <2>2, <2>3, <2>4, <2>5 DEF Hear, m
  <1> QED BY <1>1, <1>3, <1>6

\* Reading a message keeps the invariant.
LEMMA HearBase == TypeOK /\ BaseInv /\ Hear => BaseInv'
  <1> SUFFICES ASSUME TypeOK, BaseInv, Hear PROVE BaseInv'
    OBVIOUS
  <1>1. UNCHANGED <<cache, cur, sess, log, job>> /\ cur # 0
    BY DEF Hear, store
  <1>2. /\ synced' = Synced(down, synced) /\ base' = 1 .. known' /\ known' \in Nat /\ known <= known'
        /\ known' <= version /\ Caught(down', synced', known', version, sess[cur])
        /\ up' = up \/ (synced' /\ UpwardLive({s \in outbox' : s > answered}) /\ outbox' \subseteq outbox)
    BY HearMoves
  <1>3. Whole'
    BY <1>1, <1>2 DEF BaseInv, Whole, version
  <1>4. Flow'
    BY <1>1, <1>2 DEF Flow, version
  <1>5. Session'
    <2>1. job # <<>> => job[1].since \in Nat
      BY JobTypes
    <2> QED BY <1>1, <1>2, <2>1, Numbers DEF BaseInv, Session
  <1>6. Asking'
    <2>1. cur' \in Sockets /\ cur' \in Sockets \cup {0} /\ up[cur'] \in Seq(UpMessage)
      BY <1>1, Numbers DEF UpQueues
    <2>2. ASSUME NEW i \in 1 .. Len(up[cur'])
          PROVE  Asked(up[cur'][i], synced', known')
      <3>1. Asked(up[cur'][i], synced, known)
        BY <1>1, <2>2 DEF BaseInv, Asking
      <3>2. synced => synced'
        BY <1>2 DEF Synced
      <3>3. up[cur'][i] \in UpMessage
        BY <2>1, <2>2
      <3>4. up[cur'][i].t = "hello" => up[cur'][i].since \in Nat
        BY <3>3 DEF UpMessage
      <3> QED BY <1>2, <3>1, <3>2, <3>4, Numbers DEF Asked
    <2>3. \A c \in Sockets : sess'[c] \in {"new", "gone"} => up[c] = <<>>
      BY <1>1 DEF BaseInv, Asking
    <2>4. sess'[cur'] # "new" /\ (sess'[cur'] = "gone" => sess[cur'] = "gone")
      BY <1>1 DEF BaseInv, Session
    <2>5. CASE up' = up
      BY <2>2, <2>3, <2>5 DEF Asking
    <2>6. CASE synced' /\ UpwardLive({s \in outbox' : s > answered}) /\ outbox' \subseteq outbox
      <3>1. {s \in outbox' : s > answered} \subseteq OpNumbers
        BY <2>6, OutboxOps DEF TypeOK
      <3> QED BY <2>1, <2>2, <2>3, <2>4, <2>6, <3>1, AskingLive
    <2> QED BY <1>2, <2>5, <2>6
  <1> QED BY <1>3, <1>4, <1>5, <1>6 DEF BaseInv

-----------------------------------------------------------------------------
(* The store's actions.                                                    *)

\* What the store sends: the patch of a version that landed, if one did, and at most
\* one message to the socket it answers.
LEMMA FlowSent ==
  ASSUME TypeOK, Flow, known <= version, UNCHANGED <<synced, known, cur>>, cur = 0 => down = <<>> /\ ~synced,
         NEW c, NEW patch, NEW told, Downward(c, patch, told),
         \/ patch = <<>> /\ log' = log
         \/ patch = PatchOf(Len(log')) /\ Len(log') = Len(log) + 1,
         \/ told = <<>> \/ c # cur
         \/ \E x \in DownMessage :
              /\ told = <<x>>
              /\ \/ x.t \in {"limited", "refused"}
                 \/ x.t = "ack" /\ synced /\ x.v <= Len(log') /\ sess'[cur] \in Opened
                 \/ /\ x.t = "answer" /\ x.v = Len(log') /\ x.since <= known /\ sess'[cur] \in Opened
                    /\ log' = log,
         cur # 0 => /\ sess[cur] \in Opened => sess'[cur] \in Opened \cup {"gone"}
                    /\ sess[cur] = "gone" => sess'[cur] = "gone"
  PROVE  Flow'
  <1> DEFINE s == sess'[cur]
  <1>1. /\ down \in Seq(DownMessage) /\ synced \in BOOLEAN /\ known \in Nat /\ version \in Nat
        /\ cur' = cur /\ synced' = synced /\ known' = known
    BY Numbers
  <1>2. Caught(down, synced, known, version, s)
    <2>1. CASE cur = 0
      <3>1. down = <<>> /\ synced = FALSE
        BY <1>1, <2>1
      <3> QED BY <3>1, CaughtNothing
    <2>2. CASE cur # 0
      BY <2>2, CaughtSession DEF Flow
    <2> QED BY <2>1, <2>2
  <1> HIDE DEF s
  <1> DEFINE mid == down \o Broadcast(patch)
  <1>3. mid \in Seq(DownMessage) /\ Caught(mid, synced, known, version', s) /\ version' \in Nat
        /\ known <= version'
    <2>1. CASE patch = <<>> /\ log' = log
      <3>1. Broadcast(patch) = <<>> /\ version' = version
        BY <2>1 DEF Broadcast, version
      <3>2. mid = down
        BY <1>1, <3>1, ConcatEmptySeq
      <3>3. known <= version
        OBVIOUS
      <3> QED BY <1>1, <1>2, <3>1, <3>2, <3>3
    <2>2. CASE patch = PatchOf(Len(log')) /\ Len(log') = Len(log) + 1
      <3>1. version' = version + 1 /\ patch = <<[t |-> "patch", v |-> version + 1]>>
        BY <2>2 DEF version, PatchOf
      <3>2. CASE cur # 0 /\ s \in Opened
        <4> DEFINE x == [t |-> "patch", v |-> version + 1]
        <4>1. Broadcast(patch) = <<x>>
          BY <3>1, <3>2 DEF Broadcast, s
        <4>2. x \in DownMessage
          BY <1>1 DEF DownMessage
        <4>3. mid = Append(down, x)
          BY <1>1, <4>1, <4>2
        <4>4. Caught(Append(down, x), synced, known, version + 1, s)
          BY <1>1, <1>2, <3>2, CaughtPatch
        <4> HIDE DEF x
        <4>5. Append(down, x) \in Seq(DownMessage)
          BY <1>1, <4>2
        <4>6. version' = version + 1 /\ version + 1 \in Nat /\ known <= version + 1
          BY <1>1, <3>1
        <4> QED BY <4>3, <4>4, <4>5, <4>6
      <3>3. CASE ~(cur # 0 /\ s \in Opened)
        <4>1. Broadcast(patch) = <<>>
          BY <3>3 DEF Broadcast, s
        <4>2. mid = down
          BY <1>1, <4>1, ConcatEmptySeq
        <4>3. Caught(down, synced, known, version + 1, s)
          <5>1. CASE cur = 0
            <6>1. down = <<>> /\ synced = FALSE
              BY <1>1, <5>1
            <6> QED BY <6>1, CaughtNothing
          <5>2. CASE s \notin Opened
            BY <1>1, <1>2, <5>2, CaughtAged
          <5> QED BY <3>3, <5>1, <5>2
        <4>4. version' = version + 1 /\ version + 1 \in Nat /\ known <= version + 1
          BY <1>1, <3>1
        <4> QED BY <1>1, <4>2, <4>3, <4>4
      <3> QED BY <3>2, <3>3
    <2> QED BY <2>1, <2>2
  <1> HIDE DEF mid
  <1>4. down' = mid \o Toward(c, told)
    BY DEF Downward, mid
  <1>5. Caught(down', synced, known, version', s)
    <2>1. CASE told = <<>> \/ c # cur
      <3>1. Toward(c, told) = <<>>
        BY <2>1 DEF Toward
      <3>2. down' = mid
        BY <1>3, <1>4, <3>1, ConcatEmptySeq
      <3> QED BY <1>3, <3>2
    <2>2. CASE ~(told = <<>> \/ c # cur)
      <3>1. PICK x \in DownMessage :
              /\ told = <<x>>
              /\ \/ x.t \in {"limited", "refused"}
                 \/ x.t = "ack" /\ synced /\ x.v <= Len(log') /\ sess'[cur] \in Opened
                 \/ /\ x.t = "answer" /\ x.v = Len(log') /\ x.since <= known /\ sess'[cur] \in Opened
                    /\ log' = log
        BY <2>2
      <3>2. Toward(c, told) = <<x>>
        BY <2>2, <3>1 DEF Toward
      <3>3. down' = Append(mid, x)
        BY <1>3, <1>4, <3>2
      <3>4. Caught(Append(mid, x), synced, known, version', s)
        <4>1. CASE x.t \in {"limited", "refused"}
          BY <1>1, <1>3, <4>1, CaughtRefusal
        <4>2. CASE x.t = "ack" /\ synced /\ x.v <= Len(log') /\ sess'[cur] \in Opened
          <5>1. x.v <= version' /\ s \in Opened
            BY <4>2 DEF version, s
          <5> QED BY <1>1, <1>3, <4>2, <5>1, CaughtAck
        <4>3. CASE x.t = "answer" /\ x.v = Len(log') /\ x.since <= known /\ sess'[cur] \in Opened
          <5>1. x.v = version' /\ s \in Opened
            BY <4>3 DEF version, s
          <5> QED BY <1>1, <1>3, <4>3, <5>1, CaughtAnswer
        <4> QED BY <3>1, <4>1, <4>2, <4>3
      <3> QED BY <3>3, <3>4
    <2> QED BY <2>1, <2>2
  <1>6. s = sess'[cur']
    BY <1>1 DEF s
  <1> QED BY <1>1, <1>5, <1>6 DEF Flow

\* What apply() says, and to whom, keeps what is on its way in order.
LEMMA ApplyFlow ==
  ASSUME TypeOK, Flow, known <= version, UNCHANGED <<synced, known, cur>>, cur = 0 => down = <<>> /\ ~synced,
         NEW c, NEW s \in OpNumbers, NEW isLive \in BOOLEAN, Apply(c, s, isLive),
         isLive /\ c = cur => synced /\ sess'[cur] \in Opened,
         cur # 0 => /\ sess[cur] \in Opened => sess'[cur] \in Opened \cup {"gone"}
                    /\ sess[cur] = "gone" => sess'[cur] = "gone"
  PROVE  Flow' /\ (log' = log \/ Len(log') = Len(log) + 1)
  <1>1. log \in Seq(0 .. MaxOps) /\ s \in 0 .. MaxOps
    BY Numbers DEF OpNumbers
  <1> DEFINE ack == [t |-> "ack", s |-> s, v |-> Len(log')]
  <1>2. ASSUME Len(log') \in Nat
        PROVE  \/ AckOf(s, isLive) = <<>> \/ c # cur
               \/ \E x \in DownMessage : /\ AckOf(s, isLive) = <<x>>
                                         /\ x.t = "ack" /\ synced /\ x.v <= Len(log') /\ sess'[cur] \in Opened
    <2>1. CASE isLive /\ c = cur
      <3>1. AckOf(s, isLive) = <<ack>>
        BY <2>1 DEF AckOf
      <3>2. ack \in DownMessage
        BY <1>2 DEF DownMessage
      <3>3. ack.t = "ack" /\ ack.v <= Len(log')
        BY <1>2
      <3> QED BY <2>1, <3>1, <3>2, <3>3
    <2>2. CASE ~isLive
      BY <2>2 DEF AckOf
    <2> QED BY <2>1, <2>2
  <1> HIDE DEF ack
  <1>3. CASE UNCHANGED store /\ Downward(c, <<>>, AckOf(s, isLive))
    <2>1. log' = log /\ Len(log') \in Nat
      BY <1>1, <1>3 DEF store
    <2> QED BY <1>2, <1>3, <2>1, FlowSent
  <1>4. CASE log' = Append(log, s) /\ Downward(c, PatchOf(Len(log')), AckOf(s, isLive))
    <2>1. Len(log') = Len(log) + 1 /\ Len(log') \in Nat
      BY <1>1, <1>4
    <2> QED BY <1>2, <1>4, <2>1, FlowSent
  <1>5. CASE UNCHANGED log /\ Downward(c, <<>>, AckOf(s, isLive))
    <2>1. log' = log /\ Len(log') \in Nat
      BY <1>1, <1>5
    <2> QED BY <1>2, <1>5, <2>1, FlowSent
  <1>6. CASE UNCHANGED store /\ Downward(c, <<>>, <<[t |-> "refused", s |-> s]>>)
    <2> DEFINE x == [t |-> "refused", s |-> s]
    <2>1. x \in DownMessage /\ x.t \in {"limited", "refused"}
      BY DEF DownMessage
    <2>2. log' = log
      BY <1>6 DEF store
    <2>3. Downward(c, <<>>, <<x>>)
      BY <1>6
    <2> HIDE DEF x
    <2> QED BY <2>1, <2>2, <2>3, FlowSent
  <1> QED BY <1>3, <1>4, <1>5, <1>6 DEF Apply

\* A refusal for the rate keeps it in order too.
LEMMA LimitedFlow ==
  ASSUME TypeOK, Flow, known <= version, UNCHANGED <<synced, known, cur>>, cur = 0 => down = <<>> /\ ~synced,
         NEW c, NEW s \in Nat, Limited(c, s),
         cur # 0 => /\ sess[cur] \in Opened => sess'[cur] \in Opened \cup {"gone"}
                    /\ sess[cur] = "gone" => sess'[cur] = "gone"
  PROVE  Flow' /\ log' = log
  <1> DEFINE x == [t |-> "limited", s |-> s]
  <1>1. x \in DownMessage /\ x.t \in {"limited", "refused"}
    BY DEF DownMessage
  <1>2. Downward(c, <<>>, <<x>>) /\ log' = log
    BY DEF Limited, store
  <1> HIDE DEF x
  <1> QED BY <1>1, <1>2, FlowSent

\* No version is ahead of the store's, whatever lands.
LEMMA WholeStays ==
  ASSUME TypeOK, Whole, UNCHANGED <<base, known, cache>>, log' = log \/ Len(log') = Len(log) + 1
  PROVE  Whole'
  <1>1. version' \in Nat /\ version <= version'
    BY Numbers DEF version
  <1>2. known <= version' /\ cache.v <= version'
    BY <1>1, Numbers DEF Whole
  <1> QED BY <1>2 DEF Whole

\* A message read leaves those behind it, and an op comes live to an open session only.
LEMMA ReceiveBase ==
  ASSUME TypeOK, BaseInv, NEW c \in Sockets, Receive(c)
  PROVE  BaseInv'
  <1> DEFINE m == Head(up[c])
  <1>1. /\ UNCHANGED <<base, known, cache, synced, cur>> /\ job = <<>> /\ sess[c] # "gone" /\ up[c] # <<>>
        /\ up' = [up EXCEPT ![c] = Tail(up[c])]
    BY DEF Receive, client, state
  <1>2. /\ m \in UpMessage /\ Tail(up[c]) \in Seq(UpMessage) /\ Len(Tail(up[c])) = Len(up[c]) - 1
        /\ \A i \in 1 .. Len(Tail(up[c])) : Tail(up[c])[i] = up[c][i + 1]
        /\ m = up[c][1] /\ Len(up[c]) \in Nat \ {0} /\ up \in UpQueues
    <2>1. up[c] \in Seq(UpMessage) /\ up \in UpQueues
      BY Numbers DEF UpQueues
    <2> QED BY <1>1, <2>1, HeadTailProperties, EmptySeq
  <1>3. sess[c] # "new" /\ (c = cur => Asked(m, synced, known))
    <2>1. 1 \in 1 .. Len(up[c])
      BY <1>2
    <2> QED BY <1>1, <1>2, <2>1, Numbers DEF BaseInv, Asking
  <1>4. Flow /\ known <= version /\ (cur = 0 => down = <<>> /\ ~synced) /\ Whole /\ Asking /\ Session
    BY DEF BaseInv, Whole, Session
  <1>5. synced => sess[cur] \in Opened \cup {"gone"}
    BY <1>4 DEF Flow, Caught, Reaches
  <1> HIDE DEF m
  <1>6. ASSUME \A d \in Sockets \ {c} : sess'[d] = sess[d], sess'[c] \notin {"new", "gone"}
        PROVE  Asking'
    <2>1. \A d \in Sockets \ {c} : up'[d] = up[d]
      BY <1>1, <1>2 DEF UpQueues
    <2>2. up'[c] = Tail(up[c])
      BY <1>1, <1>2 DEF UpQueues
    <2>3. ASSUME cur # 0, NEW i \in 1 .. Len(up'[cur])
          PROVE  Asked(up'[cur][i], synced, known)
      <3>1. CASE cur = c
        <4>1. i + 1 \in 1 .. Len(up[c]) /\ up'[cur][i] = up[c][i + 1]
          <5>1. up'[cur] = Tail(up[c])
            BY <2>2, <3>1
          <5>2. i \in 1 .. Len(Tail(up[c]))
            BY <2>3, <5>1
          <5>3. i + 1 \in 1 .. Len(up[c])
            BY <1>2, <5>2
          <5> QED BY <1>2, <5>1, <5>2, <5>3
        <4> QED BY <1>4, <2>3, <3>1, <4>1 DEF Asking
      <3>2. CASE cur # c
        <4>1. up'[cur] = up[cur]
          BY <2>1, <2>3, <3>2, Numbers
        <4> QED BY <1>4, <2>3, <4>1 DEF Asking
      <3> QED BY <3>1, <3>2
    <2>4. \A d \in Sockets : sess'[d] \in {"new", "gone"} => up'[d] = <<>>
      BY <1>4, <1>6, <2>1 DEF Asking
    <2> QED BY <1>1, <2>3, <2>4 DEF Asking
  <1>7. CASE m.t = "op" /\ LiveOp(c, m.s) /\ UNCHANGED job
    <2>1. m.s \in OpNumbers /\ m.s \in Nat
      BY <1>2, <1>7 DEF UpMessage, OpNumbers
    <2>2. c = cur => synced /\ sess[cur] \in Opened
      BY <1>1, <1>3, <1>5, <1>7 DEF Asked
    <2>3. /\ \A d \in Sockets \ {c} : sess'[d] = sess[d]
          /\ sess'[c] \in Opened
          /\ cur # 0 => /\ sess[cur] \in Opened => sess'[cur] \in Opened \cup {"gone"}
                        /\ sess[cur] = "gone" => sess'[cur] = "gone"
      BY <1>1, <1>7, Numbers DEF LiveOp, Opened
    <2>4. Flow' /\ (log' = log \/ Len(log') = Len(log) + 1)
      <3>1. CASE Limited(c, m.s)
        BY <1>1, <1>4, <2>1, <2>3, <3>1, LimitedFlow
      <3>2. CASE Apply(c, m.s, TRUE)
        BY <1>1, <1>4, <2>1, <2>2, <2>3, <3>2, ApplyFlow
      <3> QED BY <1>7, <3>1, <3>2 DEF LiveOp
    <2>5. Whole'
      BY <1>1, <1>4, <2>4, WholeStays
    <2>6. Asking'
      BY <1>6, <2>3 DEF Opened
    <2>7. down' = <<>> \/ cur # 0
      <3> SUFFICES ASSUME cur = 0 PROVE down' = <<>>
        OBVIOUS
      <3>1. c # cur /\ down = <<>>
        BY <1>4, Numbers
      <3>2. \A patch, told : Downward(c, patch, told) => down' = <<>>
        BY <3>1 DEF Downward, Broadcast, Toward
      <3> QED BY <1>7, <3>2 DEF LiveOp, Limited, Apply
    <2>8. Session'
      BY <1>1, <1>4, <1>7, <2>3, <2>7, Numbers DEF Session, Opened
    <2> QED BY <2>4, <2>5, <2>6, <2>8 DEF BaseInv
  <1>8. CASE m.t = "hello" /\ Hello(c, m)
    <2>1. /\ \A d \in Sockets \ {c} : sess'[d] = sess[d]
          /\ sess'[c] \notin {"new", "gone"}
          /\ cur # 0 => /\ sess[cur] \in Opened => sess'[cur] \in Opened \cup {"gone"}
                        /\ sess[cur] = "gone" => sess'[cur] = "gone"
      BY <1>1, <1>3, <1>8, Numbers DEF Hello, Admitted, Opened
    <2>2. CASE /\ sess' = [sess EXCEPT ![c] = "open"]
               /\ job' = <<[c |-> c, ops |-> m.ops, since |-> m.since]>>
               /\ UNCHANGED <<store, down, turns>>
      <3>1. log' = log /\ down' = down
        BY <2>2 DEF store
      <3>2. Flow'
        <4>1. CASE cur = 0
          <5>1. down' = <<>> /\ synced' = FALSE
            BY <1>1, <1>4, <3>1, <4>1, Numbers
          <5>2. Caught(down', synced', known', version', sess'[cur'])
            BY <5>1, CaughtNothing
          <5> QED BY <5>2 DEF Flow
        <4>2. CASE cur # 0
          <5>1. Caught(down, synced, known, version, sess'[cur])
            BY <1>4, <2>1, <4>2, CaughtSession DEF Flow
          <5> QED BY <1>1, <3>1, <5>1 DEF Flow, version
        <4> QED BY <4>1, <4>2
      <3>3. Whole'
        BY <1>1, <1>4, <3>1, WholeStays
      <3>4. Asking'
        BY <1>6, <2>1
      <3>5. job'[1].c = c /\ job'[1].since = m.since /\ sess'[c] = "open"
        BY <2>2, Numbers
      <3>6. Session'
        BY <1>1, <1>3, <1>4, <1>8, <2>1, <3>1, <3>5, Numbers DEF Session, Opened, Asked
      <3> QED BY <3>2, <3>3, <3>4, <3>6 DEF BaseInv
    <2>3. CASE Limited(c, 0) /\ UNCHANGED job
      <3>1. Flow' /\ log' = log
        BY <1>1, <1>4, <2>1, <2>3, LimitedFlow
      <3>2. Whole'
        BY <1>1, <1>4, <3>1, WholeStays
      <3>3. Asking'
        BY <1>6, <2>1
      <3>4. down' = <<>> \/ cur # 0
        <4> SUFFICES ASSUME cur = 0 PROVE down' = <<>>
          OBVIOUS
        <4>1. c # cur /\ down = <<>>
          BY <1>4, Numbers
        <4> QED BY <2>3, <4>1 DEF Limited, Downward, Broadcast, Toward
      <3>5. Session'
        BY <1>1, <1>4, <2>1, <2>3, <3>4, Numbers DEF Session
      <3> QED BY <3>1, <3>2, <3>3, <3>5 DEF BaseInv
    <2> QED BY <1>8, <2>2, <2>3 DEF Hello
  <1> QED BY <1>7, <1>8 DEF Receive, m

\* An op of the hello is decided: no more is told than the patch of what landed.
LEMMA HelloOpBase == TypeOK /\ BaseInv /\ HelloOp => BaseInv'
  <1> SUFFICES ASSUME TypeOK, BaseInv, HelloOp PROVE BaseInv'
    OBVIOUS
  <1>1. UNCHANGED <<base, known, cache, synced, cur, up, sess>> /\ job # <<>>
    BY DEF HelloOp, client, state
  <1>2. PICK s \in job[1].ops : /\ job' = <<[job[1] EXCEPT !.ops = @ \ {s}]>>
                                /\ Apply(job[1].c, s, FALSE)
    BY DEF HelloOp
  <1>3. s \in OpNumbers /\ job[1] \in Jobs
    BY <1>1, <1>2, JobTypes
  <1>4. Flow /\ known <= version /\ (cur = 0 => down = <<>> /\ ~synced) /\ Whole /\ Asking /\ Session
    BY DEF BaseInv, Whole, Session
  <1>5. Flow' /\ (log' = log \/ Len(log') = Len(log) + 1)
    BY <1>1, <1>2, <1>3, <1>4, ApplyFlow
  <1>6. Whole'
    BY <1>1, <1>4, <1>5, WholeStays
  <1>7. Asking'
    BY <1>1, <1>4 DEF Asking
  <1>8. down' = <<>> \/ cur # 0
    <2> SUFFICES ASSUME cur = 0 PROVE down' = <<>>
      OBVIOUS
    <2>1. job[1].c # cur /\ down = <<>>
      BY <1>1, <1>4, JobTypes, Numbers
    <2>2. \A patch, told : Downward(job[1].c, patch, told) => down' = <<>>
      BY <1>1, <2>1 DEF Downward, Broadcast, Toward
    <2> QED BY <1>2, <2>2 DEF Apply
  <1>9. job'[1].c = job[1].c /\ job'[1].since = job[1].since
    BY <1>2, <1>3 DEF Jobs
  <1>10. Session'
    BY <1>1, <1>4, <1>8, <1>9 DEF Session
  <1> QED BY <1>5, <1>6, <1>7, <1>10 DEF BaseInv

\* The answer takes the client from where it asked, or before, to where the store is.
LEMMA HelloAnsweredBase == TypeOK /\ BaseInv /\ HelloAnswered => BaseInv'
  <1> SUFFICES ASSUME TypeOK, BaseInv, HelloAnswered PROVE BaseInv'
    OBVIOUS
  <1>1. UNCHANGED <<base, known, cache, synced, cur, up, sess, log>> /\ job # <<>> /\ job' = <<>>
    BY DEF HelloAnswered, client, state, store
  <1> DEFINE c == job[1].c
  <1>2. PICK whole \in BOOLEAN :
          Downward(c, <<>>, <<[t |-> "answer", whole |-> whole, since |-> job[1].since,
                               v |-> version, s |-> last]>>)
    BY DEF HelloAnswered
  <1> DEFINE x == [t |-> "answer", whole |-> whole, since |-> job[1].since, v |-> version, s |-> last]
  <1>3. /\ x \in DownMessage /\ x.t = "answer" /\ x.v = version /\ x.since = job[1].since
        /\ c \in Sockets
    BY <1>1, JobTypes, Numbers DEF DownMessage
  <1>4. Flow /\ known <= version /\ (cur = 0 => down = <<>> /\ ~synced) /\ Whole /\ Asking /\ Session
    BY DEF BaseInv, Whole, Session
  <1>5. c = cur => x.since <= known /\ sess'[cur] \in Opened
    BY <1>1, <1>3, <1>4 DEF Session
  <1>6. Downward(c, <<>>, <<x>>)
    BY <1>2
  <1>7. x.v = Len(log')
    BY <1>1, <1>3 DEF version
  <1> HIDE DEF x, c
  <1>8. Flow'
    BY <1>1, <1>3, <1>4, <1>5, <1>6, <1>7, FlowSent
  <1>9. down' = <<>> \/ cur # 0
    <2> SUFFICES ASSUME cur = 0 PROVE down' = <<>>
      OBVIOUS
    <2>1. c # cur /\ down = <<>>
      BY <1>3, <1>4, Numbers
    <2> QED BY <1>6, <2>1 DEF Downward, Broadcast, Toward
  <1>10. Whole' /\ Asking' /\ Session'
    BY <1>1, <1>4, <1>9 DEF Whole, Asking, Session, version
  <1> QED BY <1>8, <1>10 DEF BaseInv

\* A write of others is told in a patch, to the sessions open.
LEMMA OthersWriteBase == TypeOK /\ BaseInv /\ OthersWrite => BaseInv'
  <1> SUFFICES ASSUME TypeOK, BaseInv, OthersWrite PROVE BaseInv'
    OBVIOUS
  <1>1. /\ UNCHANGED <<base, known, cache, synced, cur, up, sess, job>> /\ log' = Append(log, 0)
        /\ Downward(0, PatchOf(version + 1), <<>>)
    BY DEF OthersWrite, client, state
  <1>2. Len(log') = Len(log) + 1 /\ version + 1 = Len(log')
    <2>1. 0 \in 0 .. MaxOps
      BY SyncAssumption
    <2> QED BY <1>1, <2>1, Numbers, Appended DEF version
  <1>3. Flow /\ known <= version /\ (cur = 0 => down = <<>> /\ ~synced) /\ Whole /\ Asking /\ Session
    BY DEF BaseInv, Whole, Session
  <1>4. Downward(0, PatchOf(Len(log')), <<>>)
    BY <1>1, <1>2
  <1>5. Flow'
    BY <1>1, <1>2, <1>3, <1>4, FlowSent
  <1>6. Whole'
    BY <1>1, <1>2, <1>3, WholeStays
  <1>7. down' = <<>> \/ cur # 0
    BY <1>1, <1>3 DEF Downward, Broadcast, Toward
  <1>8. Asking' /\ Session'
    BY <1>1, <1>3, <1>7 DEF Asking, Session
  <1> QED BY <1>5, <1>6, <1>8 DEF BaseInv

\* A socket the server closed says nothing more.
LEMMA ServerDropBase ==
  ASSUME TypeOK, BaseInv, NEW c \in Sockets, ServerDrop(c)
  PROVE  BaseInv'
  <1>1. /\ UNCHANGED <<base, known, cache, synced, cur, down, log, job>> /\ job = <<>>
        /\ sess' = [sess EXCEPT ![c] = "gone"] /\ up' = [up EXCEPT ![c] = <<>>]
        /\ sess[c] # "new"
    BY DEF ServerDrop, client, state, store
  <1>2. /\ sess'[c] = "gone" /\ up'[c] = <<>>
        /\ \A d \in Sockets \ {c} : sess'[d] = sess[d] /\ up'[d] = up[d]
    BY <1>1, Numbers DEF UpQueues
  <1>3. Whole'
    BY <1>1 DEF BaseInv, Whole, version
  <1>4. Flow'
    <2>1. CASE cur = 0
      <3>1. down' = <<>> /\ synced' = FALSE
        BY <1>1, <2>1, Numbers DEF BaseInv, Session
      <3>2. Caught(down', synced', known', version', sess'[cur'])
        BY <3>1, CaughtNothing
      <3> QED BY <3>2 DEF Flow
    <2>2. CASE cur # 0
      <3>1. /\ sess[cur] \in Opened => sess'[cur] \in Opened \cup {"gone"}
            /\ sess[cur] = "gone" => sess'[cur] = "gone"
        BY <1>2, <2>2, Numbers
      <3>2. Caught(down, synced, known, version, sess'[cur])
        BY <3>1, CaughtSession DEF BaseInv, Flow
      <3> QED BY <1>1, <3>2 DEF Flow, version
    <2> QED BY <2>1, <2>2
  <1>5. Asking'
    <2>1. \A i : i \notin 1 .. Len(<<>>)
      <3>1. Len(<<>>) = 0
        OBVIOUS
      <3>2. \A i : i \notin 1 .. 0
        OBVIOUS
      <3> QED BY <3>1, <3>2
    <2>2. cur # 0 => up'[cur] = <<>> \/ up'[cur] = up[cur]
      BY <1>2, Numbers
    <2>3. ASSUME cur # 0, NEW i \in 1 .. Len(up'[cur])
          PROVE  Asked(up'[cur][i], synced, known)
      <3>1. up'[cur] = up[cur]
        BY <2>1, <2>2, <2>3
      <3> QED BY <2>3, <3>1 DEF BaseInv, Asking
    <2>4. \A d \in Sockets : sess'[d] \in {"new", "gone"} => up'[d] = <<>>
      BY <1>2 DEF BaseInv, Asking
    <2> QED BY <1>1, <2>3, <2>4 DEF Asking
  <1>6. Session'
    BY <1>1, <1>2, Numbers DEF BaseInv, Session
  <1> QED BY <1>3, <1>4, <1>5, <1>6 DEF BaseInv

\* Nothing was sent, and everything is empty.
LEMMA InitBase == Init => BaseInv
  <1> SUFFICES ASSUME Init PROVE BaseInv
    OBVIOUS
  <1>1. 1 .. 0 = {} /\ Len(<<>>) = 0
    OBVIOUS
  <1>2. Whole
    BY <1>1 DEF Init, Whole, version
  <1>3. Flow
    <2>1. down = <<>> /\ synced = FALSE
      BY DEF Init
    <2> QED BY <2>1, CaughtNothing DEF Flow
  <1>4. Asking /\ Session
    BY DEF Init, Asking, Session
  <1> QED BY <1>2, <1>3, <1>4 DEF BaseInv

\* Every step keeps the invariant, with a store that neither unloads nor fails.
LEMMA StepBase ==
  ASSUME "unload" \notin Uses, "fail" \notin Uses, TypeOK, BaseInv, [Next]_vars
  PROVE  BaseInv'
  <1>1. CASE UNCHANGED vars
    <2>1. UNCHANGED <<base, known, cache, synced, cur, down, sess, log, job, up>>
      BY <1>1 DEF vars, client, state, store
    <2> QED BY <2>1 DEF BaseInv, Whole, Flow, Asking, Session, version
  <1>2. ~Unload /\ ~CommitFails
    BY DEF Unload, CommitFails
  <1>3. CASE Serving
    BY <1>3, HelloOpBase, HelloAnsweredBase, ReceiveBase DEF Serving
  <1>4. CASE Edit \/ Open \/ Drop \/ Restart \/ Save \/ Retry \/ HelloAgain \/ Hear
    BY <1>4, EditBase, OpenBase, ClosedBase, SaveBase, AgainBase, HearBase
  <1>5. CASE OthersWrite \/ \E c \in Sockets : ServerDrop(c)
    BY <1>5, OthersWriteBase, ServerDropBase
  <1> QED BY <1>1, <1>2, <1>3, <1>4, <1>5 DEF Next

\* The base is everything up to the version the client asks from, with no gap and
\* nothing beyond (docs/protocol.md:50), whatever drops, is limited, refused or lost,
\* and whichever base a reload finds.
THEOREM Contiguous ==
  ASSUME "unload" \notin Uses, "fail" \notin Uses
  PROVE  Spec => []BaseIsWhole
  <1>1. Init => BaseInv
    BY InitBase
  <1>2. TypeOK /\ BaseInv /\ [Next]_vars => BaseInv'
    BY StepBase
  <1>3. BaseInv => BaseIsWhole
    BY DEF BaseInv, Whole, BaseIsWhole
  <1> QED BY <1>1, <1>2, <1>3, TypeCorrect, PTL DEF Spec

-----------------------------------------------------------------------------
(* An op that landed leaves the outbox for a base that has it.             *)

\* What an ack or an answer settles was decided, and landed no later than it says.
Owns(m, lg, la) ==
  m.t \in {"ack", "answer"} =>
    /\ m.s <= la
    /\ \A w \in 1 .. Len(lg) : m.v < w => lg[w] = 0 \/ lg[w] > m.s

Owned == \A i \in 1 .. Len(down) : Owns(down[i], log, last)

\* What an ack or an answer settles is a number.
LEMMA Settles ==
  ASSUME NEW m \in DownMessage
  PROVE  m.t \in {"ack", "answer"} => m.s \in Nat /\ m.v \in Nat
  BY DEF DownMessage, OpNumbers

\* What was settled stays settled: whatever lands is another's, or a later op.
LEMMA OwnsStays ==
  ASSUME TypeOK, StoreStep, NEW m \in DownMessage, Owns(m, log, last)
  PROVE  Owns(m, log', last')
  <1> SUFFICES ASSUME m.t \in {"ack", "answer"}
               PROVE  /\ m.s <= last'
                      /\ \A w \in 1 .. Len(log') : m.v < w => log'[w] = 0 \/ log'[w] > m.s
    BY DEF Owns
  <1>1. m.s \in Nat /\ m.v \in Nat
    BY Settles
  <1>2. m.s <= last /\ \A w \in 1 .. Len(log) : m.v < w => log[w] = 0 \/ log[w] > m.s
    BY DEF Owns
  <1>3. log \in Seq(0 .. MaxOps) /\ last \in 0 .. MaxOps /\ Len(log) \in Nat /\ last \in Nat
    BY Numbers, SyncAssumption
  <1>4. CASE log' = log /\ last' = last
    BY <1>2, <1>4
  <1>5. CASE Decides
    <2>1. PICK s \in OpNumbers : s > last /\ last' = s /\ (log' = Append(log, s) \/ log' = log)
      BY <1>5 DEF Decides
    <2>2. s \in Nat /\ s \in 0 .. MaxOps /\ m.s < s
      BY <1>1, <1>2, <1>3, <2>1 DEF OpNumbers
    <2>3. CASE log' = log
      BY <1>1, <1>2, <2>1, <2>2, <2>3
    <2>4. CASE log' = Append(log, s)
      <3>1. /\ Len(log') = Len(log) + 1 /\ log'[Len(log) + 1] = s
            /\ \A w \in 1 .. Len(log) : log'[w] = log[w]
        BY <1>3, <2>2, <2>4, Appended
      <3>2. \A w \in 1 .. Len(log') : w \in 1 .. Len(log) \/ w = Len(log) + 1
        BY <1>3, <3>1
      <3>3. m.s <= last'
        BY <1>1, <2>1, <2>2
      <3>4. \A w \in 1 .. Len(log') : m.v < w => log'[w] = 0 \/ log'[w] > m.s
        BY <1>1, <1>2, <2>2, <3>1, <3>2
      <3> QED BY <3>3, <3>4
    <2> QED BY <2>1, <2>3, <2>4
  <1>6. CASE TakesIn
    <2>1. 0 \in 0 .. MaxOps /\ log' = Append(log, 0) /\ last' = last
      BY <1>6, SyncAssumption DEF TakesIn
    <2>2. /\ Len(log') = Len(log) + 1 /\ log'[Len(log) + 1] = 0
          /\ \A w \in 1 .. Len(log) : log'[w] = log[w]
      BY <1>3, <2>1, Appended
    <2>3. \A w \in 1 .. Len(log') : w \in 1 .. Len(log) \/ w = Len(log) + 1
      BY <1>3, <2>2
    <2> QED BY <1>2, <2>1, <2>2, <2>3
  <1> QED BY <1>4, <1>5, <1>6 DEF StoreStep

\* What is to be read is what was, and what was just said.
LEMMA Said ==
  ASSUME TypeOK, NEW c, NEW patch \in Seq(DownMessage), NEW told \in Seq(DownMessage),
         Downward(c, patch, told)
  PROVE  \A i \in 1 .. Len(down') :
           \/ \E j \in 1 .. Len(down) : down'[i] = down[j]
           \/ \E j \in 1 .. Len(patch) : down'[i] = patch[j]
           \/ \E j \in 1 .. Len(told) : down'[i] = told[j]
  <1> DEFINE b == Broadcast(patch)
  <1> DEFINE t == Toward(c, told)
  <1>1. down \in Seq(DownMessage) /\ <<>> \in Seq(DownMessage)
    BY Numbers
  <1>2. b \in Seq(DownMessage) /\ (b = patch \/ b = <<>>)
    BY <1>1 DEF Broadcast
  <1>3. t \in Seq(DownMessage) /\ (t = told \/ t = <<>>)
    BY <1>1 DEF Toward
  <1>4. down' = (down \o b) \o t
    BY DEF Downward
  <1>5. Len(<<>>) = 0 /\ \A i : i \notin 1 .. 0
    OBVIOUS
  <1> HIDE DEF b, t
  <1> DEFINE mid == down \o b
  <1>6. /\ mid \in Seq(DownMessage) /\ Len(mid) = Len(down) + Len(b)
        /\ \A i \in 1 .. Len(down) + Len(b) : mid[i] = IF i <= Len(down) THEN down[i] ELSE b[i - Len(down)]
    BY <1>1, <1>2, ConcatProperties
  <1> HIDE DEF mid
  <1>7. /\ Len(down') = Len(mid) + Len(t)
        /\ \A i \in 1 .. Len(mid) + Len(t) : down'[i] = IF i <= Len(mid) THEN mid[i] ELSE t[i - Len(mid)]
    BY <1>3, <1>4, <1>6, ConcatProperties DEF mid
  <1>8. Len(down) \in Nat /\ Len(b) \in Nat /\ Len(t) \in Nat /\ Len(mid) \in Nat
    BY <1>1, <1>2, <1>3, <1>6
  <1>9. ASSUME NEW i \in 1 .. Len(down')
        PROVE  \/ \E j \in 1 .. Len(down) : down'[i] = down[j]
               \/ \E j \in 1 .. Len(b) : down'[i] = b[j]
               \/ \E j \in 1 .. Len(t) : down'[i] = t[j]
    <2>1. CASE i <= Len(mid)
      <3>1. i \in 1 .. Len(mid) /\ down'[i] = mid[i]
        BY <1>7, <1>8, <2>1
      <3>2. CASE i <= Len(down)
        <4>1. i \in 1 .. Len(down) /\ mid[i] = down[i]
          BY <1>6, <1>8, <3>1, <3>2
        <4> QED BY <3>1, <4>1
      <3>3. CASE ~(i <= Len(down))
        <4>1. i - Len(down) \in 1 .. Len(b) /\ mid[i] = b[i - Len(down)]
          BY <1>6, <1>8, <3>1, <3>3
        <4> QED BY <3>1, <4>1
      <3> QED BY <3>2, <3>3
    <2>2. CASE ~(i <= Len(mid))
      <3>1. i - Len(mid) \in 1 .. Len(t) /\ down'[i] = t[i - Len(mid)]
        BY <1>7, <1>8, <2>2
      <3> QED BY <3>1
    <2> QED BY <2>1, <2>2
  <1> QED BY <1>2, <1>3, <1>5, <1>9

\* Whatever is said settles no more than was decided, and nothing that landed later.
SaysOwned == \A i \in 1 .. Len(down') :
  (\E j \in 1 .. Len(down) : down'[i] = down[j]) \/ Owns(down'[i], log', last')

\* A message that settles nothing.
LEMMA SaidOwned ==
  ASSUME TypeOK, NEW c, NEW patch \in Seq(DownMessage), NEW told \in Seq(DownMessage),
         Downward(c, patch, told),
         \A j \in 1 .. Len(patch) : Owns(patch[j], log', last'),
         \A j \in 1 .. Len(told) : Owns(told[j], log', last')
  PROVE  SaysOwned
  BY Said DEF SaysOwned

\* An ack says what was decided, by the version the store is at.
LEMMA ApplyOwned ==
  ASSUME TypeOK, NEW c, NEW s \in OpNumbers, NEW isLive, Apply(c, s, isLive)
  PROVE  SaysOwned
  <1>1. LogOK'
    BY ApplyTypes
  <1>2. Len(log') \in Nat /\ log' \in Seq(0 .. MaxOps) /\ s \in Nat /\ last \in Nat
    BY <1>1, Numbers, SyncAssumption DEF LogOK, OpNumbers
  <1>3. AckOf(s, isLive) \in Seq(DownMessage) /\ <<>> \in Seq(DownMessage)
        /\ PatchOf(Len(log')) \in Seq(DownMessage)
    BY <1>2, AckTypes, PatchTypes
  <1>4. \A j \in 1 .. Len(<<>>) : Owns(<<>>[j], log', last')
    <2>1. Len(<<>>) = 0 /\ \A i : i \notin 1 .. 0
      OBVIOUS
    <2> QED BY <2>1
  <1>5. \A j \in 1 .. Len(PatchOf(Len(log'))) : Owns(PatchOf(Len(log'))[j], log', last')
    <2> DEFINE x == [t |-> "patch", v |-> Len(log')]
    <2>1. Owns(x, log', last')
      BY DEF Owns
    <2>2. PatchOf(Len(log')) = <<x>>
      BY DEF PatchOf
    <2> HIDE DEF x
    <2> QED BY <2>1, <2>2
  <1>6. ASSUME s <= last'
        PROVE  \A j \in 1 .. Len(AckOf(s, isLive)) : Owns(AckOf(s, isLive)[j], log', last')
    <2> DEFINE x == [t |-> "ack", s |-> s, v |-> Len(log')]
    <2>1. Owns(x, log', last')
      <3>1. \A w \in 1 .. Len(log') : ~(Len(log') < w)
        BY <1>2
      <3> QED BY <1>6, <3>1 DEF Owns
    <2>2. AckOf(s, isLive) = <<x>> \/ AckOf(s, isLive) = <<>>
      BY DEF AckOf
    <2> HIDE DEF x
    <2>3. \A j \in 1 .. Len(<<x>>) : Owns(<<x>>[j], log', last')
      BY <2>1
    <2> QED BY <1>4, <2>2, <2>3
  <1>7. CASE UNCHANGED store /\ Downward(c, <<>>, AckOf(s, isLive)) /\ Decided(s)
    <2>1. s <= last'
      BY <1>7 DEF Decided, store
    <2> QED BY <1>3, <1>4, <1>6, <1>7, <2>1, SaidOwned
  <1>8. CASE last' = s /\ Downward(c, PatchOf(Len(log')), AckOf(s, isLive))
    <2>1. s <= last'
      BY <1>2, <1>8
    <2> QED BY <1>3, <1>5, <1>6, <1>8, <2>1, SaidOwned
  <1>9. CASE last' = s /\ Downward(c, <<>>, AckOf(s, isLive))
    <2>1. s <= last'
      BY <1>2, <1>9
    <2> QED BY <1>3, <1>4, <1>6, <1>9, <2>1, SaidOwned
  <1>10. CASE Downward(c, <<>>, <<[t |-> "refused", s |-> s]>>)
    <2> DEFINE x == [t |-> "refused", s |-> s]
    <2>1. Owns(x, log', last') /\ x \in DownMessage
      BY DEF Owns, DownMessage
    <2>2. Downward(c, <<>>, <<x>>)
      BY <1>10
    <2> HIDE DEF x
    <2>3. <<x>> \in Seq(DownMessage) /\ \A j \in 1 .. Len(<<x>>) : Owns(<<x>>[j], log', last')
      BY <2>1
    <2> QED BY <1>3, <1>4, <2>2, <2>3, SaidOwned
  <1> QED BY <1>7, <1>8, <1>9, <1>10 DEF Apply

\* A refusal for the rate settles nothing.
LEMMA LimitedOwned ==
  ASSUME TypeOK, NEW c, NEW s \in Nat, Limited(c, s)
  PROVE  SaysOwned
  <1> DEFINE x == [t |-> "limited", s |-> s]
  <1>1. Owns(x, log', last') /\ x \in DownMessage
    BY DEF Owns, DownMessage
  <1>2. Downward(c, <<>>, <<x>>)
    BY DEF Limited
  <1> HIDE DEF x
  <1>3. <<x>> \in Seq(DownMessage) /\ \A j \in 1 .. Len(<<x>>) : Owns(<<x>>[j], log', last')
    BY <1>1
  <1>4. <<>> \in Seq(DownMessage) /\ \A j \in 1 .. Len(<<>>) : Owns(<<>>[j], log', last')
    <2>1. Len(<<>>) = 0 /\ \A i : i \notin 1 .. 0
      OBVIOUS
    <2> QED BY <2>1
  <1> QED BY <1>2, <1>3, <1>4, SaidOwned

\* What was said stays settled as the store goes on.
LEMMA SaidStays ==
  ASSUME TypeOK, Owned, StoreStep, SaysOwned, down' \in Seq(DownMessage)
  PROVE  Owned'
  <1>1. down \in Seq(DownMessage) /\ \A j \in 1 .. Len(down) : down[j] \in DownMessage
    BY Numbers
  <1>2. ASSUME NEW i \in 1 .. Len(down')
        PROVE  Owns(down'[i], log', last')
    <2>1. CASE \E j \in 1 .. Len(down) : down'[i] = down[j]
      <3>1. PICK j \in 1 .. Len(down) : down'[i] = down[j]
        BY <2>1
      <3>2. Owns(down[j], log, last) /\ down[j] \in DownMessage
        BY <1>1 DEF Owned
      <3>3. Owns(down[j], log', last')
        BY <3>2, OwnsStays
      <3> QED BY <3>1, <3>3
    <2> QED BY <2>1 DEF SaysOwned
  <1> QED BY <1>2 DEF Owned

\* A step that says nothing, or reads a message, says nothing new.
LEMMA Unsaid ==
  ASSUME TypeOK, \/ down' = down \/ down' = <<>>
                 \/ down # <<>> /\ down' = Tail(down)
                 \/ down' = Append(down, [t |-> "closed"])
  PROVE  SaysOwned
  <1>1. down \in Seq(DownMessage) /\ Len(down) \in Nat
    BY Numbers
  <1>2. CASE down' = down
    BY <1>2 DEF SaysOwned
  <1>3. CASE down' = <<>>
    <2>1. Len(<<>>) = 0 /\ \A i : i \notin 1 .. 0
      OBVIOUS
    <2> QED BY <1>3, <2>1 DEF SaysOwned
  <1>4. CASE down # <<>> /\ down' = Tail(down)
    <2>1. /\ Len(down') = Len(down) - 1
          /\ \A i \in 1 .. Len(down') : down'[i] = down[i + 1]
      BY <1>1, <1>4, HeadTailProperties, EmptySeq
    <2>2. \A i \in 1 .. Len(down') : i + 1 \in 1 .. Len(down)
      BY <1>1, <2>1
    <2> QED BY <2>1, <2>2 DEF SaysOwned
  <1>5. CASE down' = Append(down, [t |-> "closed"])
    <2> DEFINE x == [t |-> "closed"]
    <2>1. x \in DownMessage /\ Owns(x, log', last')
      BY DEF DownMessage, Owns
    <2>2. down' = Append(down, x)
      BY <1>5
    <2> HIDE DEF x
    <2>3. /\ Len(down') = Len(down) + 1 /\ down'[Len(down) + 1] = x
          /\ \A i \in 1 .. Len(down) : down'[i] = down[i]
      BY <1>1, <2>1, <2>2, Appended
    <2>4. \A i \in 1 .. Len(down') : i \in 1 .. Len(down) \/ i = Len(down) + 1
      BY <1>1, <2>3
    <2> QED BY <2>1, <2>3, <2>4 DEF SaysOwned
  <1> QED BY <1>2, <1>3, <1>4, <1>5

\* What the server does with a message, or with an op of a hello.
LEMMA ServingOwned == TypeOK /\ Serving => SaysOwned
  <1> SUFFICES ASSUME TypeOK, Serving PROVE SaysOwned
    OBVIOUS
  <1>1. CASE HelloOp
    <2>1. PICK s \in job[1].ops : Apply(job[1].c, s, FALSE)
      BY <1>1 DEF HelloOp
    <2>2. s \in OpNumbers
      BY <1>1, <2>1, JobTypes DEF HelloOp
    <2> QED BY <2>1, <2>2, ApplyOwned
  <1>2. CASE HelloAnswered
    <2>1. PICK whole \in BOOLEAN :
            Downward(job[1].c, <<>>, <<[t |-> "answer", whole |-> whole, since |-> job[1].since,
                                        v |-> version, s |-> last]>>)
      BY <1>2 DEF HelloAnswered
    <2> DEFINE x == [t |-> "answer", whole |-> whole, since |-> job[1].since,
                     v |-> version, s |-> last]
    <2>2. version \in Nat /\ last \in Nat /\ job[1].since \in Nat /\ log' = log /\ last' = last
      BY <1>2, JobTypes, Numbers, SyncAssumption DEF HelloAnswered, store
    <2>3. x \in DownMessage
      BY <2>2 DEF DownMessage
    <2>4. Owns(x, log', last')
      <3>1. last <= last /\ \A w \in 1 .. Len(log) : ~(Len(log) < w)
        BY <2>2 DEF version
      <3> QED BY <2>2, <3>1 DEF Owns, version
    <2>5. Downward(job[1].c, <<>>, <<x>>)
      BY <2>1
    <2> HIDE DEF x
    <2>6. <<x>> \in Seq(DownMessage) /\ \A j \in 1 .. Len(<<x>>) : Owns(<<x>>[j], log', last')
      BY <2>3, <2>4
    <2>7. <<>> \in Seq(DownMessage) /\ \A j \in 1 .. Len(<<>>) : Owns(<<>>[j], log', last')
      <3>1. Len(<<>>) = 0 /\ \A i : i \notin 1 .. 0
        OBVIOUS
      <3> QED BY <3>1
    <2> QED BY <2>5, <2>6, <2>7, SaidOwned
  <1>3. ASSUME NEW c \in Sockets, Receive(c)
        PROVE  SaysOwned
    <2> DEFINE m == Head(up[c])
    <2>1. m \in UpMessage
      BY <1>3, ReadTypes DEF Receive
    <2>2. CASE m.t = "op" /\ LiveOp(c, m.s)
      <3>1. m.s \in OpNumbers /\ m.s \in Nat
        BY <2>1, <2>2 DEF UpMessage, OpNumbers
      <3>2. Limited(c, m.s) \/ Apply(c, m.s, TRUE)
        BY <2>2 DEF LiveOp
      <3> HIDE DEF m
      <3> QED BY <3>1, <3>2, ApplyOwned, LimitedOwned
    <2>3. CASE m.t = "hello" /\ Hello(c, m)
      <3>1. down' = down \/ Limited(c, 0)
        BY <2>3 DEF Hello
      <3> QED BY <3>1, Unsaid, LimitedOwned
    <2> QED BY <1>3, <2>2, <2>3 DEF Receive
  <1> QED BY <1>1, <1>2, <1>3 DEF Serving

\* Whatever happens, what is on its way settles no more than it may.
LEMMA OwnedStep == TypeOK /\ Owned /\ [Next]_vars => Owned'
  <1> SUFFICES ASSUME TypeOK, Owned, [Next]_vars PROVE Owned'
    OBVIOUS
  <1>1. StoreStep /\ down' \in Seq(DownMessage)
    BY StoreSteps, StepTypes, Numbers DEF TypeOK, WireOK
  <1>2. SaysOwned
    <2>1. CASE UNCHANGED vars
      BY <2>1, Unsaid DEF vars
    <2>2. CASE Edit \/ Open \/ Drop \/ Restart \/ Save \/ Retry \/ HelloAgain
      <3>1. down' = down \/ down' = <<>>
        BY <2>2 DEF Edit, Open, Drop, Restart, Closed, Save, Retry, HelloAgain
      <3> QED BY <3>1, Unsaid
    <2>3. CASE Hear
      BY <2>3, Unsaid DEF Hear
    <2>4. CASE Serving
      BY <2>4, ServingOwned
    <2>5. CASE OthersWrite
      <3> DEFINE x == [t |-> "patch", v |-> version + 1]
      <3>1. Downward(0, PatchOf(version + 1), <<>>)
        BY <2>5 DEF OthersWrite
      <3>2. x \in DownMessage /\ Owns(x, log', last')
        BY Numbers DEF DownMessage, Owns
      <3>3. Downward(0, <<x>>, <<>>)
        BY <3>1 DEF PatchOf
      <3> HIDE DEF x
      <3>4. <<x>> \in Seq(DownMessage) /\ \A j \in 1 .. Len(<<x>>) : Owns(<<x>>[j], log', last')
        BY <3>2
      <3>5. <<>> \in Seq(DownMessage) /\ \A j \in 1 .. Len(<<>>) : Owns(<<>>[j], log', last')
        <4>1. Len(<<>>) = 0 /\ \A i : i \notin 1 .. 0
          OBVIOUS
        <4> QED BY <4>1
      <3> QED BY <3>3, <3>4, <3>5, SaidOwned
    <2>6. CASE Unload \/ CommitFails \/ \E c \in Sockets : ServerDrop(c)
      <3>1. down' = down \/ down' = Append(down, [t |-> "closed"])
        BY <2>6 DEF Unload, Disposed, CommitFails, ServerDrop
      <3> QED BY <3>1, Unsaid
    <2> QED BY <2>1, <2>2, <2>3, <2>4, <2>5, <2>6 DEF Next
  <1> QED BY <1>1, <1>2, SaidStays

\* Reading a message: an op that landed is dropped only for a base that has it.
LEMMA HearKeeps ==
  ASSUME TypeOK, BaseInv, Owned, Hear, NEW s \in Settled, NEW v \in 1 .. version, log[v] = s
  PROVE  v \in base'
  <1> DEFINE m == Head(down)
  <1>1. /\ down # <<>> /\ down \in Seq(DownMessage) /\ synced \in BOOLEAN /\ known \in Nat
        /\ version \in Nat /\ m \in DownMessage
    BY Numbers DEF Hear
  <1>2. seq' = seq
    BY DEF Hear
  <1>3. s \in outbox /\ s \notin outbox' /\ ~(m.t = "refused" /\ m.s = s)
    BY <1>2 DEF Settled
  <1>4. s \in Nat /\ s # 0 /\ v \in Nat /\ v > 0
    <2>1. s \in OpNumbers
      BY <1>3, OutboxOps DEF TypeOK
    <2> QED BY <1>1, <2>1 DEF OpNumbers
  <1>5. base' = 1 .. known' /\ known' \in Nat /\ known <= known'
    BY HearMoves
  <1>6. /\ m.t = "ack" => m.v <= known
        /\ m.t # "closed"
    BY <1>1, FirstIs DEF BaseInv, Flow
  <1>7. m.t \in {"ack", "answer"} => m.s \in Nat /\ m.v \in Nat /\ Owns(m, log, last)
    <2>1. m = down[1] /\ 1 \in 1 .. Len(down)
      BY <1>1, HeadTailProperties, EmptySeq
    <2> QED BY <1>1, <2>1, Settles DEF Owned
  <1> HIDE DEF m
  <1>8. ASSUME m.t \in {"ack", "answer"}, Acknowledge(m.s)
        PROVE  v <= m.v
    <2>1. s <= m.s
      BY <1>3, <1>4, <1>7, <1>8 DEF Acknowledge
    <2>2. m.v < v => log[v] = 0 \/ log[v] > m.s
      BY <1>7, <1>8 DEF Owns, version
    <2>3. ~(log[v] = 0 \/ log[v] > m.s)
      BY <1>4, <1>7, <1>8, <2>1
    <2> QED BY <1>4, <1>7, <1>8, <2>2, <2>3
  <1>9. CASE m.t = "ack" /\ HearAck(m)
    <2>1. v <= m.v
      BY <1>8, <1>9 DEF HearAck
    <2> QED BY <1>1, <1>4, <1>5, <1>6, <1>7, <1>9, <2>1
  <1>10. CASE m.t = "answer" /\ HearAnswer(m)
    <2>1. v <= m.v /\ known' = m.v
      BY <1>8, <1>10 DEF HearAnswer
    <2> QED BY <1>4, <1>5, <2>1
  <1>11. CASE m.t = "patch" /\ HearPatch(m)
    BY <1>3, <1>11 DEF HearPatch
  <1>12. CASE m.t = "limited" /\ HearLimited(m)
    BY <1>3, <1>12 DEF HearLimited
  <1>13. CASE m.t = "refused" /\ HearRefused(m)
    BY <1>3, <1>13 DEF HearRefused
  <1> QED BY <1>6, <1>9, <1>10, <1>11, <1>12, <1>13 DEF Hear, m

\* Nothing but reading a message settles an op.
LEMMA OnlyHeard ==
  ASSUME TypeOK, [Next]_vars, Settled # {}
  PROVE  Hear
  <1>1. PICK s \in Settled : TRUE
    OBVIOUS
  <1>2. seq' = seq /\ s \in outbox /\ s \notin outbox'
    BY <1>1 DEF Settled
  <1>3. outbox' # outbox
    BY <1>2
  <1>4. CASE UNCHANGED vars
    BY <1>3, <1>4 DEF vars, client
  <1>5. CASE Open \/ Drop \/ Restart \/ Save \/ Retry \/ HelloAgain
    BY <1>3, <1>5 DEF Open, Drop, Restart, Save, Retry, HelloAgain, client
  <1>6. CASE Edit
    <2>1. seq' = seq + 1 /\ seq \in Nat
      BY <1>6, SyncAssumption DEF Edit, TypeOK, ClientOK
    <2> QED BY <1>2, <2>1
  <1>7. CASE Serving \/ OthersWrite \/ Unload \/ CommitFails \/ \E c \in Sockets : ServerDrop(c)
    BY <1>3, <1>7 DEF Serving, Receive, HelloOp, HelloAnswered, OthersWrite, Unload, CommitFails,
                      ServerDrop, client
  <1> QED BY <1>4, <1>5, <1>6, <1>7 DEF Next

\* What the user wrote stays in sight (docs/model.md): an op the store took in leaves the
\* outbox only once the client's base has the version it landed at, whatever drops, is
\* limited, refused or lost, and whichever base a reload finds.
THEOREM EditsStay ==
  ASSUME "unload" \notin Uses, "fail" \notin Uses
  PROVE  Spec => OwnEditsStay
  <1> DEFINE Kept == \A s \in Settled : \A v \in 1 .. version : log[v] = s => v \in base'
  <1>1. Init => BaseInv /\ Owned
    <2>1. Len(<<>>) = 0 /\ \A i : i \notin 1 .. 0
      OBVIOUS
    <2> QED BY <2>1, InitBase DEF Init, Owned
  <1>2. TypeOK /\ BaseInv /\ Owned /\ [Next]_vars => (BaseInv /\ Owned)'
    BY StepBase, OwnedStep
  <1>3. TypeOK /\ BaseInv /\ Owned /\ [Next]_vars => Kept
    BY OnlyHeard, HearKeeps
  <1>4. TypeOK /\ BaseInv /\ Owned /\ [Next]_vars => [Kept]_vars
    BY <1>3
  <1> QED BY <1>1, <1>2, <1>4, TypeCorrect, PTL DEF Spec, OwnEditsStay
=============================================================================
