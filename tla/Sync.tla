-------------------------------- MODULE Sync --------------------------------
(***************************************************************************)
(* A client and the store it is on (src/client/index.js, and the sessions  *)
(* of src/server/store.js behind src/server/hub.js): how an edit gets from *)
(* the outbox to the store and back into the client's base, over sockets   *)
(* that drop, past rate limits, refusals, restarts of the client, and a    *)
(* store that unloads itself under an open session.                        *)
(*                                                                         *)
(* An op is its number.  The store's log holds the author of each version: *)
(* the client's op, or 0 for anyone else's.  The base is the set of the    *)
(* versions merged into it.  A message is handled whole on either side,    *)
(* but for a hello's ops, which the store decides one by one (`job').  The *)
(* store here is what StoreCommit.tla shows it to be: what it tells is     *)
(* stored, so a crash or a failed commit loses only what was told nobody.  *)
(***************************************************************************)
EXTENDS Naturals, Sequences, FiniteSets

CONSTANTS
  HelloLimit,   \* the most ops a hello carries: HELLO_LIMIT and HELLO_OPS
  Uses,         \* what may happen, of AllUses below
  MaxOps,       \* bound: ops the client makes
  MaxWrites,    \* bound: versions others make
  MaxSockets,   \* bound: sockets opened
  MaxTurns      \* bound: rate limits hit, hellos said again, unloads, restarts

\* "drop": a socket closes; "limit", "limithello": the bucket is empty for a live op,
\* for a hello; "refuse": a rule refuses an op; "lose": an op loses whole; "replace":
\* an op takes over from pending ones; "again": the app asks for a hello; "restart":
\* the client reloads; "unload": the store is released; "fail": its commit fails.
AllUses == {"drop", "limit", "limithello", "refuse", "lose", "replace", "again",
            "restart", "unload", "fail"}

ASSUME SyncAssumption ==
  /\ HelloLimit \in Nat \ {0}
  /\ Uses \subseteq AllUses
  /\ MaxOps \in Nat
  /\ MaxWrites \in Nat
  /\ MaxSockets \in Nat \ {0}
  /\ MaxTurns \in Nat

VARIABLES
  seq,        \* the last op made
  outbox,     \* the ops not acknowledged
  moot,       \* for each op made, the pending ones it took over from
  base,       \* the versions merged into the base
  known,      \* known.v
  cache,      \* the base and its version as last saved
  cur,        \* the socket in use, 0 with none
  synced, throttled, answered, \* as the client has them
  retry,      \* the timer of retryHello is set
  up,         \* what was sent on each socket and not read by the server
  down,       \* what was sent to the client on its socket and not read
  sess,       \* the session of each socket: "new" (unused), "none", "open", "held"
              \* (heldUntil is set), "gone" (the socket closed)
  log,        \* the store's log: the author of each version
  last,       \* the last op decided for the replica
  void,       \* the ops decided that lost whole
  job,        \* the hello being handled, <<>> with none
  turns       \* how often what MaxTurns bounds came up

client == <<seq, outbox, moot, base, known, cache, retry>>
state == <<synced, throttled, answered>>
store == <<log, last, void>>
vars == <<client, state, cur, up, down, sess, store, job, turns>>

Sockets == 1 .. MaxSockets
version == Len(log)

Larger(a, b) == IF a > b THEN a ELSE b

\* The n lowest of S.
Lowest(S, n) == {s \in S : Cardinality({r \in S : r < s}) < n}

Bounded == turns < MaxTurns /\ turns' = turns + 1

-----------------------------------------------------------------------------
(* The client's side.                                                      *)

\* link.send: what is sent with no socket, or to one the server closed, is gone.
Upward(msgs) ==
  up' = IF cur' = 0 \/ sess[cur'] = "gone" THEN up ELSE [up EXCEPT ![cur'] = @ \o msgs]

\* Ops sent live one by one, in the order they were made.
UpwardLive(S) ==
  \E f \in [1 .. Cardinality(S) -> S] :
    /\ \A i, j \in DOMAIN f : i < j => f[i] < f[j]
    /\ Upward([i \in DOMAIN f |-> [t |-> "op", s |-> f[i]]])

\* hello() (416-429).
SayHello ==
  LET carried == Lowest(outbox', HelloLimit)
  IN  /\ \/ carried = {} /\ answered' = 0
         \/ \E a \in carried : (\A s \in carried : s <= a) /\ answered' = a
      /\ throttled' = FALSE
      /\ Upward(<<[t |-> "hello", ops |-> carried, since |-> known']>>)

\* live() (306): whether an op goes out as it is made.
live == cur # 0 /\ synced /\ ~throttled

\* A local batch (308-329): a new op, in place of pending ones it makes moot.
Edit ==
  /\ seq < MaxOps
  /\ seq' = seq + 1
  /\ \E old \in IF "replace" \in Uses THEN SUBSET outbox ELSE {{}} :
       /\ outbox' = (outbox \ old) \cup {seq'}
       /\ moot' = [moot EXCEPT ![seq'] = old]
  /\ UNCHANGED <<base, known, cache, retry, state, cur, down, sess, store, job, turns>>
  /\ IF live THEN UpwardLive({seq'}) ELSE UNCHANGED up

\* connection.js open() and onOpen: a new socket, and a hello on it.
Open ==
  /\ cur = 0
  /\ \E c \in Sockets :
       /\ sess[c] = "new" /\ \A d \in 1 .. c - 1 : sess[d] # "new"
       /\ cur' = c
       /\ sess' = [sess EXCEPT ![c] = "none"]
  /\ synced' = FALSE
  /\ UNCHANGED <<client, down, store, job, turns>>
  /\ SayHello

\* The client's side of a socket closes (onClose); what was on its way to it is gone.
Closed ==
  /\ cur' = 0
  /\ down' = <<>>
  /\ synced' = FALSE

\* There is another socket to open (a bound, not a guard of the code).
MoreSockets == \E c \in Sockets : sess[c] = "new"

\* The socket drops, or is given up after two silent intervals.
Drop ==
  /\ cur # 0
  /\ sess[cur] = "gone" \/ ("drop" \in Uses /\ MoreSockets)
  /\ Closed
  /\ UNCHANGED <<client, throttled, answered, up, sess, store, job, turns>>

\* mutant: the ops are numbered from 1 again.
RestartRenumbered ==
  /\ "restart" \in Uses /\ MoreSockets /\ Bounded
  /\ Closed
  /\ base' = cache.base /\ known' = cache.v
  /\ seq' = 0
  /\ retry' = FALSE /\ throttled' = FALSE /\ answered' = 0
  /\ UNCHANGED <<outbox, moot, cache, up, sess, store, job>>

\* The page reloads: the outbox is kept as it was, the base as last saved (persistence.js).
Restart ==
  /\ "restart" \in Uses /\ MoreSockets /\ Bounded
  /\ Closed
  /\ base' = cache.base /\ known' = cache.v
  /\ retry' = FALSE /\ throttled' = FALSE /\ answered' = 0
  /\ UNCHANGED <<seq, outbox, moot, cache, up, sess, store, job>>

\* The base is saved once changes have settled (persistence.js writeBase).
Save ==
  /\ "restart" \in Uses
  /\ cache' = [v |-> known, base |-> base]
  /\ UNCHANGED <<seq, outbox, moot, base, known, retry, state, cur, up, down, sess, store, job, turns>>

\* The timer of retryHello fires (523-530).
Retry ==
  /\ retry
  /\ retry' = FALSE
  /\ UNCHANGED <<seq, outbox, moot, base, known, cache, synced, cur, down, sess, store, job, turns>>
  /\ IF cur # 0 THEN SayHello ELSE UNCHANGED <<throttled, answered, up>>

\* The app asks for another hello (wantPresence).
HelloAgain ==
  /\ "again" \in Uses /\ Bounded
  /\ cur # 0 /\ ~retry
  /\ UNCHANGED <<client, synced, cur, down, sess, store, job>>
  /\ SayHello

\* acknowledge() (432-446).
Acknowledge(upTo) == outbox' = {s \in outbox : s > upTo}

\* A patch (544-558): passed over before the answer; one skipped asks for a catch-up.
HearPatch(m) ==
  /\ UNCHANGED <<outbox, retry>>
  /\ IF ~synced THEN UNCHANGED <<base, known, state, up>>
     ELSE IF m.v > known + 1
       THEN /\ synced' = FALSE
            /\ SayHello
            /\ UNCHANGED <<base, known>>
       ELSE /\ known' = m.v
            /\ base' = base \cup {m.v}
            /\ UNCHANGED <<state, up>>

\* An ack (559-568).
HearAck(m) ==
  /\ known' = Larger(known, m.v)
  /\ Acknowledge(m.s)
  /\ UNCHANGED <<base, retry, state, up>>

\* A snapshot or a delta (caughtUp, 460-487).
HearAnswer(m) ==
  /\ Acknowledge(m.s)
  /\ base' = IF m.whole THEN 1 .. m.v ELSE base \cup (m.since + 1 .. m.v)
  /\ known' = m.v
  /\ synced' = TRUE
  /\ IF throttled THEN UNCHANGED up ELSE UpwardLive({s \in outbox' : s > answered})
  /\ UNCHANGED <<retry, throttled, answered>>

\* A refusal for the rate (608-612).
HearLimited(m) ==
  /\ throttled' = (throttled \/ m.s # 0)
  /\ retry' = TRUE
  /\ UNCHANGED <<outbox, base, known, synced, answered, up>>

\* A refusal of the op (613-625).
HearRefused(m) ==
  /\ outbox' = outbox \ {m.s}
  /\ UNCHANGED <<base, known, retry, state, up>>

\* mutant: the client waits to be told more.
HearUnavailableIdle ==
  /\ synced' = FALSE
  /\ UNCHANGED <<outbox, base, known, retry, throttled, answered, up>>

\* The store was unloaded (582-591).
HearUnavailable ==
  /\ synced' = FALSE
  /\ retry' = TRUE
  /\ UNCHANGED <<outbox, base, known, throttled, answered, up>>

\* handle(): the next message on the socket.
Hear ==
  /\ cur # 0 /\ down # <<>>
  /\ down' = Tail(down)
  /\ UNCHANGED <<seq, moot, cache, cur, sess, store, job, turns>>
  /\ LET m == Head(down)
     IN  \/ m.t = "patch" /\ HearPatch(m)
         \/ m.t = "ack" /\ HearAck(m)
         \/ m.t = "answer" /\ HearAnswer(m)
         \/ m.t = "limited" /\ HearLimited(m)
         \/ m.t = "refused" /\ HearRefused(m)
         \/ m.t = "closed" /\ HearUnavailable

-----------------------------------------------------------------------------
(* The server's side.                                                      *)

Opened == {"open", "held"}

\* A patch is broadcast to the sessions open; anything else goes to socket c.
Broadcast(msgs) == IF cur # 0 /\ sess'[cur] \in Opened THEN msgs ELSE <<>>
Toward(c, msgs) == IF c = cur THEN msgs ELSE <<>>

\* What the store sends: the patch of what landed, then what it tells socket c.
Downward(c, patch, told) == down' = down \o Broadcast(patch) \o Toward(c, told)

\* A message for a store with no session opens one (hub.js admit, open).
Admitted(c) == IF sess[c] = "none" THEN "open" ELSE sess[c]

\* mutant: off by one, the last op decided is decided again.
DecidedBefore(s) == s < last

\* store.js:595.
Decided(s) == s <= last

\* What an op that came live is acked with.
AckOf(s, isLive) == IF isLive THEN <<[t |-> "ack", s |-> s, v |-> Len(log')]>> ELSE <<>>
PatchOf(v) == <<[t |-> "patch", v |-> v]>>

\* mutant: the ack goes ahead of the patch.
ApplyAckFirst(c, s, isLive) ==
  IF Decided(s)
    THEN UNCHANGED store /\ Downward(c, <<>>, AckOf(s, isLive))
    ELSE /\ log' = Append(log, s) /\ last' = s /\ UNCHANGED void
         /\ down' = down \o Toward(c, AckOf(s, isLive)) \o Broadcast(PatchOf(Len(log')))

\* apply() (588-645) of op s, which came on socket c: told of in an ack when it
\* came live, in the hello's answer otherwise.
Apply(c, s, isLive) ==
  \/ /\ Decided(s)
     /\ UNCHANGED store
     /\ Downward(c, <<>>, AckOf(s, isLive))
  \/ /\ ~Decided(s)
     /\ log' = Append(log, s) /\ last' = s /\ UNCHANGED void
     /\ Downward(c, PatchOf(Len(log')), AckOf(s, isLive))
  \/ /\ ~Decided(s) /\ "lose" \in Uses
     /\ void' = void \cup {s} /\ last' = s /\ UNCHANGED log
     /\ Downward(c, <<>>, AckOf(s, isLive))
  \/ /\ ~Decided(s) /\ "refuse" \in Uses
     /\ UNCHANGED store
     /\ Downward(c, <<>>, <<[t |-> "refused", s |-> s]>>)

\* The message is turned away for the rate: a live op holds the session until its
\* next hello (829-839); a hello turned away holds nothing (902-903).
Limited(c, s) ==
  /\ UNCHANGED store
  /\ Downward(c, <<>>, <<[t |-> "limited", s |-> s]>>)

\* liveOp (825-849).
LiveOp(c, s) ==
  \/ /\ sess[c] = "held"
     /\ UNCHANGED <<sess, turns>>
     /\ Limited(c, s)
  \/ /\ sess[c] # "held"
     /\ sess' = [sess EXCEPT ![c] = "open"]
     /\ Apply(c, s, TRUE)
     /\ UNCHANGED turns
  \/ /\ sess[c] # "held"
     /\ "limit" \in Uses /\ Bounded
     /\ sess' = [sess EXCEPT ![c] = "held"]
     /\ Limited(c, s)

\* A hello (894-907): turned away for the rate, or begun.
Hello(c, m) ==
  \/ /\ sess' = [sess EXCEPT ![c] = "open"]
     /\ job' = <<[c |-> c, ops |-> m.ops, since |-> m.since]>>
     /\ UNCHANGED <<store, down, turns>>
  \/ /\ "limithello" \in Uses /\ Bounded
     /\ sess' = [sess EXCEPT ![c] = Admitted(c)]
     /\ Limited(c, 0)
     /\ UNCHANGED job

\* The next message of a socket is read.
Receive(c) ==
  /\ job = <<>> /\ sess[c] # "gone" /\ up[c] # <<>>
  /\ LET m == Head(up[c])
     IN  \/ m.t = "op" /\ LiveOp(c, m.s) /\ UNCHANGED job
         \/ m.t = "hello" /\ Hello(c, m)
  /\ up' = [up EXCEPT ![c] = Tail(@)]
  /\ UNCHANGED <<client, state, cur>>

\* The next op of the hello (930-939).
HelloOp ==
  /\ job # <<>>
  /\ UNCHANGED <<client, state, cur, up, sess, turns>>
  /\ \E s \in job[1].ops :
       /\ \A r \in job[1].ops : s <= r
       /\ job' = <<[job[1] EXCEPT !.ops = @ \ {s}]>>
       /\ Apply(job[1].c, s, FALSE)

\* mutant: the answer counts from the version after the one asked for.
HelloAnsweredPast ==
  /\ job # <<>> /\ job[1].ops = {}
  /\ UNCHANGED <<sess, client, state, cur, up, store, turns>>
  /\ job' = <<>>
  /\ Downward(job[1].c, <<>>, <<[t |-> "answer", whole |-> FALSE, since |-> job[1].since + 1,
                                 v |-> version, s |-> last]>>)

\* The hello is answered (948, catchUp): a delta, or a snapshot once the log was trimmed.
HelloAnswered ==
  /\ job # <<>> /\ job[1].ops = {}
  /\ UNCHANGED <<sess, client, state, cur, up, store, turns>>
  /\ job' = <<>>
  /\ \E whole \in BOOLEAN :
       Downward(job[1].c, <<>>, <<[t |-> "answer", whole |-> whole, since |-> job[1].since,
                                   v |-> version, s |-> last]>>)

\* Another client's op, or the server's own write, lands.
OthersWrite ==
  /\ job = <<>>
  /\ Cardinality({v \in 1 .. version : log[v] = 0}) < MaxWrites
  /\ log' = Append(log, 0)
  /\ UNCHANGED <<client, state, cur, up, sess, last, void, job, turns>>
  /\ Downward(0, PatchOf(version + 1), <<>>)

\* The server's side of a socket closes: what was sent on it and not read is gone.
ServerDrop(c) ==
  /\ "drop" \in Uses /\ job = <<>>
  /\ sess[c] \notin {"new", "gone"}
  /\ c = cur => MoreSockets
  /\ sess' = [sess EXCEPT ![c] = "gone"]
  /\ up' = [up EXCEPT ![c] = <<>>]
  /\ UNCHANGED <<client, state, cur, down, store, job, turns>>

\* dispose() (1179-1204): every session is told and closed, and the socket stays.
Disposed ==
  /\ sess' = [c \in Sockets |-> IF sess[c] \in Opened THEN "none" ELSE sess[c]]
  /\ down' = IF cur # 0 /\ sess[cur] \in Opened THEN Append(down, [t |-> "closed"]) ELSE down

\* The store is released (registry.js release).
Unload ==
  /\ "unload" \in Uses /\ Bounded /\ job = <<>>
  /\ Disposed
  /\ UNCHANGED <<client, state, cur, up, store, job>>

\* The commit of a turn fails (270-282): the messages of socket c it read, or what
\* was left of the hello, come to nothing, and the store unloads itself.
CommitFails ==
  /\ "fail" \in Uses /\ Bounded
  /\ \E c \in Sockets : \E n \in 0 .. Len(up[c]) :
       /\ n > 0 => /\ sess[c] # "gone" /\ job = <<>>
       /\ up' = [up EXCEPT ![c] = SubSeq(@, n + 1, Len(@))]
       /\ sess' = [d \in Sockets |-> IF sess[d] \in Opened THEN "none" ELSE sess[d]]
       /\ down' = IF cur # 0 /\ (sess[cur] \in Opened \/ (c = cur /\ n > 0))
                    THEN Append(down, [t |-> "closed"]) ELSE down
  /\ job' = <<>>
  /\ UNCHANGED <<client, state, cur, store>>

-----------------------------------------------------------------------------
Init ==
  /\ seq = 0 /\ outbox = {} /\ moot = [s \in 1 .. MaxOps |-> {}]
  /\ base = {} /\ known = 0 /\ cache = [v |-> 0, base |-> {}]
  /\ cur = 0 /\ synced = FALSE /\ throttled = FALSE /\ answered = 0 /\ retry = FALSE
  /\ up = [c \in Sockets |-> <<>>] /\ down = <<>>
  /\ sess = [c \in Sockets |-> "new"]
  /\ log = <<>> /\ last = 0 /\ void = {}
  /\ job = <<>> /\ turns = 0

Serving == HelloOp \/ HelloAnswered \/ \E c \in Sockets : Receive(c)

Next ==
  \/ Edit \/ Open \/ Drop \/ Restart \/ Save \/ Retry \/ HelloAgain \/ Hear
  \/ Serving \/ OthersWrite \/ Unload \/ CommitFails
  \/ \E c \in Sockets : ServerDrop(c)

\* Either side reads what it is sent, timers fire, the connection opens a socket
\* again (scheduleRetry), and its keepalive notices one the server closed.
Fairness ==
  /\ WF_vars(Serving) /\ WF_vars(Hear)
  /\ WF_vars(Open) /\ WF_vars(Retry)
  /\ WF_vars(cur # 0 /\ sess[cur] = "gone" /\ Drop)

Spec == Init /\ [][Next]_vars
FairSpec == Spec /\ Fairness

-----------------------------------------------------------------------------
(* Properties.                                                             *)

OpNumbers == 1 .. MaxOps

UpMessage ==
  [t : {"op"}, s : OpNumbers] \cup [t : {"hello"}, ops : SUBSET OpNumbers, since : Nat]

DownMessage ==
  [t : {"patch"}, v : Nat]
    \cup [t : {"ack"}, s : OpNumbers, v : Nat]
    \cup [t : {"answer"}, whole : BOOLEAN, since : Nat, v : Nat, s : Nat]
    \cup [t : {"limited"}, s : Nat]
    \cup [t : {"refused"}, s : OpNumbers]
    \cup [t : {"closed"}]

ClientOK ==
  /\ seq \in 0 .. MaxOps
  /\ outbox \subseteq 1 .. seq /\ moot \in [OpNumbers -> SUBSET OpNumbers]
  /\ base \subseteq Nat /\ known \in Nat
  /\ cache \in [v : Nat, base : SUBSET Nat]
  /\ synced \in BOOLEAN /\ throttled \in BOOLEAN /\ retry \in BOOLEAN
  /\ answered \in Nat

WireOK ==
  /\ cur \in Sockets \cup {0}
  /\ up \in [Sockets -> Seq(UpMessage)] /\ down \in Seq(DownMessage)
  /\ sess \in [Sockets -> {"new", "none", "open", "held", "gone"}]

StoreOK ==
  /\ log \in Seq(0 .. MaxOps) /\ last \in 0 .. MaxOps /\ void \subseteq OpNumbers
  /\ job \in Seq([c : Sockets, ops : SUBSET OpNumbers, since : Nat]) /\ Len(job) <= 1
  /\ turns \in 0 .. MaxTurns

\* The state of the client, of the sockets and of the store stays within its types.
TypeOK == ClientOK /\ WireOK /\ StoreOK

Landed == {log[v] : v \in 1 .. version} \ {0}

\* docs/protocol.md:50: `since' is the version the client has everything up to.
BaseIsWhole == base = 1 .. known

\* What the client drops as decided: with no newer op made, nor this one refused.
Settled ==
  IF seq' # seq THEN {}
  ELSE {s \in outbox \ outbox' : ~(Head(down).t = "refused" /\ Head(down).s = s)}

\* docs/protocol.md:118-120, docs/limits.md:98-102, docs/offline.md:86-90: no pending
\* op is lost.  The client drops as decided only what the store did decide.
NothingLost == [][Settled \subseteq Landed \cup void]_vars

\* docs/model.md: what the user wrote stays in sight.  An op that landed is dropped
\* only when the base has it.
OwnEditsStay == [][\A s \in Settled : \A v \in 1 .. version : log[v] = s => v \in base']_vars

\* docs/offline.md:62-68: an op gives way only to one that decides in its place, "as
\* if every op had been sent".  None gave way, undecided, to one that is refused.
GaveWayForGood ==
  [][\A s \in outbox \ outbox' :
       (seq' = seq /\ Head(down).t = "refused")
         => moot[s] \subseteq Landed \cup void]_vars

\* No op of the client lands twice.
LandsOnce == \A v, w \in 1 .. version : log[v] = log[w] /\ log[v] # 0 => v = w

\* However sockets drop, and rates limit, the client gets there: nothing is pending,
\* and its base is the store's state.
Converges == <>[](outbox = {} /\ base = 1 .. version)

\* Nothing stays pending, whatever the store does.
Drains == <>[](outbox = {})

\* docs/protocol.md:12-18, docs/offline.md: an op leaves the outbox once the store
\* decided it or refused it, or a newer op took its place; each is decided at most
\* once, in order.
Delivery == INSTANCE OpDelivery WITH
  made <- seq, pending <- outbox, decided <- Landed \cup void
Delivers == Delivery!Spec
=============================================================================
