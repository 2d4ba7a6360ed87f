--------------------------------- MODULE Tabs ----------------------------------
(***************************************************************************)
(* The tabs of a browser on one connection (src/client/shared.js): the tab *)
(* that holds the lock leads, and runs the browser's replica, a relay in   *)
(* `local' mode (src/relay/follower.js) whose copy and outbox are kept in  *)
(* a storage adapter.  The client in every tab, the leader's included, is  *)
(* a client of that relay, over a BroadcastChannel or within the tab.      *)
(*                                                                         *)
(* An edit has a number, and a record of its own, so what a copy holds is  *)
(* a set of numbers, and the view of the relay is its base with its queue. *)
(* What a channel brings a tab, it brings in the order posted.  The        *)
(* server reads what the socket carries at once, or, the socket dead and   *)
(* nobody aware of it, never.  How a relay keeps its view and trims its    *)
(* log is in Relay.tla.                                                    *)
(*                                                                         *)
(* What IndexedDB is given it does later, in the order given: an ack goes  *)
(* while the op is on its way there.  As only a leader that loads reads    *)
(* what is stored, and a load waits for the writes before it, the writes   *)
(* of a leader are under way until it goes; how many landed is asked then. *)
(***************************************************************************)
EXTENDS Integers, Sequences, FiniteSets, TLC
LOCAL INSTANCE SequencesExt

CONSTANTS
  Tabs,       \* the tabs that are opened, once each
  Adapters,   \* the storage adapters tried, of AllAdapters
  Uses,       \* what may happen, of AllUses below
  MaxEdits,   \* bound: edits, in all the tabs
  MaxWrites,  \* bound: writes of others
  MaxTurns,   \* bound: how often something of Uses happens
  MaxAll      \* bound: all of these together

\* indexedDBStorage, read and written asynchronously; localStorageOutbox, at once, under a
\* lease; and memoryOutbox, the default, which is gone with its tab.
AllAdapters == {"rows", "leased", "memory"}

\* "drop": the socket is lost; "dispose": a tab is disposed of; "die": a tab goes without
\* a word; "kill": it goes and of the writes under way some are lost, none that puts an
\* op; "lose": such a one too; "refuse": the server refuses an edit; "sweep": the leader
\* looks for tabs gone; "stale": and learns of those there were before the last one
\* opened; "late": a tab leads with messages unread; "yield": the lease of a tab gone is
\* live.
AllUses == {"drop", "dispose", "die", "kill", "lose", "refuse", "sweep", "stale", "late", "yield"}

ASSUME TabsAssumption ==
  /\ Adapters \subseteq AllAdapters /\ Uses \subseteq AllUses
  /\ MaxEdits \in Nat /\ MaxWrites \in Nat /\ MaxTurns \in Nat /\ MaxAll \in Nat

VARIABLES
  adapter, \* the adapter of the browser's replica
  tabs,    \* each tab, with its client
  locks,   \* the tabs that hold or wait for the lock of the leader, in order
  inbox,   \* what the channel has for each tab
  relay,   \* the relay of the leader
  disk,    \* what the adapter's storage holds
  writes,  \* the transactions that the leader began, in order, any of the first of them landed
  srv,     \* the store at the server, and its end of the socket
  edits,   \* the edits made: the tab of each and its number there; `none' for others' writes
  turns    \* how many turns things took

kept == <<disk, writes>>
vars == <<adapter, tabs, locks, inbox, relay, kept, srv, edits, turns>>

none == "none"
OthersWritten == {i \in DOMAIN srv.hist : srv.hist[i] > MaxEdits}
Room == Len(edits) + Cardinality(OthersWritten) + turns < MaxAll
Turn == turns < MaxTurns /\ Room /\ turns' = turns + 1

\* A handler goes from situation to situation: the relay e, the tabs t, their inboxes in,
\* storage d with the writes w under way, and what goes to the server, q.
Now == [e |-> relay, t |-> tabs, in |-> inbox, d |-> disk, w |-> writes, q |-> <<>>]

InOrder == SetToSeq(Tabs)
IsOpen(S, u) == S.t[u].life = "open"

-----------------------------------------------------------------------------
(* The client of a tab (index.js): what it sends gathers in `out'.         *)

\* hello().
Hello(x) ==
  [x EXCEPT !.answered = IF x.outbox = <<>> THEN 0 ELSE Last(x.outbox).s,
            !.out = Append(@, [t |-> "hello", ops |-> x.outbox, since |-> x.v, fe |-> x.fe])]

\* Its connection starts over (close and reconnectSoon, then onOpen).
StartsOver(x) == Hello([x EXCEPT !.synced = FALSE])

Acknowledge(x, s) == [x EXCEPT !.outbox = SelectSeq(@, LAMBDA o : o.s > s)]

Changed(base, p) == (base \ p.del) \cup p.add

\* caughtUp(): the answer, and then what came after the hello.
HearAnswer(x, m) ==
  LET y == Acknowledge(x, m.seq)
  IN  [y EXCEPT !.base = IF m.whole THEN m.state ELSE FoldLeft(Changed, @, m.log),
                !.fe = m.fe, !.v = m.v, !.synced = TRUE, !.answered = 0,
                !.out = @ \o SelectSeq(y.outbox, LAMBDA o : o.s > y.answered)]

\* A patch: passed over before the answer; one skipped asks for a catch-up.
HearPatch(x, m) ==
  IF ~x.synced THEN x
  ELSE IF m.v > x.v + 1 /\ x.fe # 0 THEN StartsOver(x)
  ELSE [x EXCEPT !.base = Changed(@, m), !.v = m.v]

\* handle().
Handle(x, m) ==
  CASE m.t = "answer" -> HearAnswer(x, m)
    [] m.t = "patch" -> HearPatch(x, m)
    [] m.t = "ack" -> [Acknowledge(x, m.s) EXCEPT !.v = IF m.v > @ THEN m.v ELSE @]
    [] m.t = "limited" -> [x EXCEPT !.retry = TRUE]

\* control(): what the leader says of the socket, of the outbox, and of itself.
Control(x, m) ==
  CASE m.t = "status" -> [x EXCEPT !.says = m.status]
    [] m.t = "pending" -> [x EXCEPT !.counts = m.n]
    [] m.t = "leader" -> StartsOver([x EXCEPT !.says = "connecting"])

-----------------------------------------------------------------------------
(* The leader and its relay.                                               *)

\* toTab().
ToTab(S, u, m) ==
  IF u = S.e.at THEN [S EXCEPT !.t[u] = Handle(@, m)]
  ELSE IF IsOpen(S, u) THEN [S EXCEPT !.in[u] = Append(@, [k |-> "down", m |-> m])]
  ELSE S

\* tell(): to these tabs; in the leader's own the relay is asked instead.
Tell(S, U, m) ==
  [S EXCEPT !.in = [u \in Tabs |-> IF u \in U \ {S.e.at} /\ IsOpen(S, u)
                                     THEN Append(@[u], [k |-> "ctl", m |-> m]) ELSE @[u]]]

TellStatus(S) == Tell(S, Tabs, [t |-> "status", status |-> S.e.sock])

Queued(e) == {e.queue[i].n : i \in DOMAIN e.queue}
View(e) == e.base \cup Queued(e)
Unsent(e) == [e EXCEPT !.queue = [i \in DOMAIN @ |-> [@[i] EXCEPT !.sent = FALSE]]]

\* A transaction: what it takes out of the ops, what it puts in, and the rest it sets.
\* The meta goes with every one of IndexedDB's, and with those of the outbox alone else;
\* the version in it stays that of the records (`stored').
Meta(e) == [kept |-> TRUE, seq |-> e.ownSeq]
PutOp(e, o) == [drop |-> {}, put |-> <<o>>, sets |-> Meta(e)]
RemoveOp(e, s) == [drop |-> {s}, put |-> <<>>, sets |-> Meta(e)]
Replace(e) ==
  LET records == [have |-> TRUE, base |-> e.base, v |-> e.v, fe |-> e.fe, fv |-> e.fv]
  IN  [drop |-> {}, put |-> <<>>, sets |-> IF adapter = "rows" THEN Meta(e) @@ records ELSE records]

\* The storage after a write, and after all of these.
Landed(d, w) == [(w.sets @@ d) EXCEPT !.ops = SelectSeq(@, LAMBDA o : o.s \notin w.drop) \o w.put]
LandedAll(d, ws) == FoldLeft(Landed, d, ws)

\* write(): a transaction of IndexedDB is begun and nobody waits for it; localStorage is
\* written at once.
Write(S, ws) ==
  IF adapter = "rows" THEN [S EXCEPT !.w = @ \o ws] ELSE [S EXCEPT !.d = LandedAll(@, ws)]

\* save(): the ops that are new to the storage, and those that are to go (`written').
Save(S) ==
  LET ops == [i \in DOMAIN S.e.queue |->
                [s |-> S.e.queue[i].s, n |-> S.e.queue[i].n, bad |-> S.e.queue[i].bad]]
      written == LandedAll(S.d, S.w).ops
      new == SelectSeq(ops, LAMBDA o : o \notin ToSet(written))
      over == SelectSeq(written, LAMBDA o : o \notin ToSet(ops))
  IN  IF S.e.yields THEN S
      ELSE Write(S, [i \in DOMAIN new |-> PutOp(S.e, new[i])]
                    \o [i \in DOMAIN over |-> RemoveOp(S.e, over[i].s)])

\* writeBase(): the records, as they are now.
WriteBase(S) ==
  IF S.e.yields THEN [S EXCEPT !.e.dirty = FALSE]
  ELSE Write([S EXCEPT !.e.dirty = FALSE, !.e.lags = FALSE], <<Replace(S.e)>>)

\* persist(): the count told when it changed, the ops given to be written, the records to be.
Persist(S) ==
  LET n == Len(S.e.queue)
      told == IF S.e.counted = n THEN S ELSE Tell(S, Tabs, [t |-> "pending", n |-> n])
  IN  Save([told EXCEPT !.e.counted = n, !.e.dirty = TRUE])

\* emitPatch(): to the sessions answered.
EmitPatch(S, add, del) ==
  LET m == [t |-> "patch", v |-> S.e.fv + 1, add |-> add, del |-> del]
      counted == [S EXCEPT !.e.fv = m.v, !.e.log = Append(@, [v |-> m.v, add |-> add, del |-> del])]
  IN  FoldLeft(LAMBDA s, u : IF s.e.sess[u] = "synced" THEN ToTab(s, u, m) ELSE s, counted, InOrder)

\* recompute(): how the view changed, to the clients.
Recompute(S, before) ==
  LET add == View(S.e) \ before
      del == before \ View(S.e)
  IN  IF add \cup del = {} THEN S ELSE EmitPatch(S, add, del)

\* sendUp() of what was not sent.
SendUp(S) ==
  IF ~S.e.synced \/ S.e.sock # "online" THEN S
  ELSE [S EXCEPT
    !.q = @ \o [i \in 1 .. Len(SelectSeq(S.e.queue, LAMBDA o : ~o.sent)) |->
                  [t |-> "op", op |-> SelectSeq(S.e.queue, LAMBDA o : ~o.sent)[i]]],
    !.e.queue = [i \in DOMAIN @ |-> [@[i] EXCEPT !.sent = TRUE]]]

\* helloUp(): the ops queued go with it.
HelloUp(S) ==
  [S EXCEPT !.e.synced = FALSE,
            !.e.queue = [i \in DOMAIN @ |-> [@[i] EXCEPT !.sent = TRUE]],
            !.q = Append(@, [t |-> "hello", ops |-> S.e.queue,
                             since |-> IF S.e.have /\ S.e.known THEN S.e.v ELSE -1])]

Ack(S, u, s, answer) ==
  IF answer THEN ToTab(S, u, [t |-> "ack", s |-> s, v |-> S.e.fv]) ELSE S

\* take(): an op of a tab's becomes one of the browser's, and is acknowledged when its
\* write was begun.
Take(S, u, op, answer) ==
  IF S.e.seen[u] >= op.s THEN Ack(S, u, op.s, answer)
  ELSE LET entry == [s |-> S.e.ownSeq + 1, n |-> op.n, bad |-> op.bad, sent |-> FALSE]
           queued == [S EXCEPT !.e.seen[u] = op.s, !.e.ownSeq = @ + 1, !.e.queue = Append(@, entry)]
       IN  SendUp(Ack(Persist(Recompute(queued, View(S.e))), u, op.s, answer))

\* Whether a delta says what came since a version (777-778).
Reaches(e, h) == h.fe = e.fe /\ (h.since = e.fv \/ \E i \in DOMAIN e.log : e.log[i].v = h.since + 1)

\* Whether a tab may be answered: the copy has the store, from the server if it may come yet.
Answerable(e) == e.have /\ (e.synced \/ e.sock = "offline")

\* The answer to hello h of tab u.
AnswerTo(e, u, h) ==
  [t |-> "answer", seq |-> e.seen[u], v |-> e.fv, fe |-> e.fe, whole |-> ~Reaches(e, h),
   log |-> IF Reaches(e, h) THEN SelectSeq(e.log, LAMBDA p : p.v > h.since) ELSE <<>>,
   state |-> IF Reaches(e, h) THEN {} ELSE View(e)]

TakeAll(S, u, ops) == FoldLeft(LAMBDA s, o : Take(s, u, o, FALSE), S, ops)

\* What the leader's own client sends at the answer comes before its session counts as
\* answered, and is turned away.
Synced(S, u) ==
  LET own == u = S.e.at /\ S.t[u].out # <<>>
  IN  [S EXCEPT !.e.sess[u] = "synced", !.e.hellos[u] = none,
                !.t[u].out = IF own THEN <<>> ELSE @, !.t[u].retry = @ \/ own]

AnswerHello(S, u, h) == Synced(ToTab(S, u, AnswerTo(S.e, u, h)), u)

\* tryHello().
TryHello(S, u) ==
  IF S.e.sess[u] # "waits" \/ ~Answerable(S.e) THEN S
  ELSE AnswerHello(TakeAll(S, u, S.e.hellos[u].ops), u, S.e.hellos[u])

\* answerWaiting().
AnswerWaiting(S) == FoldLeft(TryHello, S, InOrder)

\* receive(), on the session of tab u.
Receive(S, u, m) ==
  IF m.t = "hello"
    THEN TryHello([S EXCEPT !.e.sess[u] = "waits", !.e.hellos[u] = m], u)
  ELSE IF S.e.sess[u] = "synced" THEN Take(S, u, m, TRUE)
  ELSE ToTab([S EXCEPT !.e.sess[u] = IF @ = "none" THEN "new" ELSE @], u, [t |-> "limited"])

Empty == [kept |-> FALSE, have |-> FALSE, base |-> {}, v |-> 0, fe |-> 0, fv |-> 0, seq |-> 0, ops |-> <<>>,
          lease |-> none]

\* Tabs that heard a leader go on from the copy it left behind (`lags': an older one).
Ahead(S, d) ==
  {u \in Tabs : S.e.lags /\ ~S.e.yields /\ IsOpen(S, u) /\ (S.t[u].fe = d.fe \/ S.in[u] # <<>>)}

\* mutant: ops are numbered from those found pending.
ToCopyRenumbered(d, life) ==
  LET written == d.kept /\ d.have
  IN  [have |-> IF adapter = "rows" THEN d.kept ELSE written, known |-> written,
       base |-> IF written THEN d.base ELSE {}, v |-> IF written THEN d.v ELSE 0,
       fe |-> IF written THEN d.fe ELSE life, fv |-> IF written THEN d.fv ELSE 0,
       ownSeq |-> IF d.ops # <<>> THEN Last(d.ops).s ELSE 0,
       queue |-> IF d.kept THEN [i \in DOMAIN d.ops |-> d.ops[i] @@ [sent |-> FALSE]] ELSE <<>>]

\* What load() makes of what is stored: the outbox, and the records if any were written.
ToCopy(d, life) ==
  LET written == d.kept /\ d.have
  IN  [have |-> IF adapter = "rows" THEN d.kept ELSE written, known |-> written,
       base |-> IF written THEN d.base ELSE {}, v |-> IF written THEN d.v ELSE 0,
       fe |-> IF written THEN d.fe ELSE life, fv |-> IF written THEN d.fv ELSE 0,
       ownSeq |-> IF d.kept THEN d.seq ELSE 0,
       queue |-> IF d.kept THEN [i \in DOMAIN d.ops |-> d.ops[i] @@ [sent |-> FALSE]] ELSE <<>>]

\* The relay over a copy that was read (makeEdge), and its socket to be opened.
MadeFrom(S, d) ==
  LET made == [on |-> "on", sock |-> "connecting", ahead |-> Ahead(S, d)] @@ ToCopy(d, S.e.life) @@ S.e
  IN  TellStatus([S EXCEPT !.e = made])

\* load() of localStorageOutbox: a key that another tab holds is not read, nor written.
Claimed(S) ==
  IF S.d.lease # none THEN MadeFrom([S EXCEPT !.e.yields = TRUE], Empty)
  ELSE MadeFrom([S EXCEPT !.d.lease = S.e.at], S.d)

\* edgeOf(): read at once, or meanwhile what comes waits.
Opened(S) ==
  CASE S.e.on # "new" -> S
    [] S.e.on = "new" /\ adapter = "rows" -> [S EXCEPT !.e.on = "loading"]
    [] S.e.on = "new" /\ adapter = "leased" -> Claimed(S)
    [] S.e.on = "new" /\ adapter = "memory" -> MadeFrom(S, S.d)

\* What comes while the copy is read waits for it.
Waits(S, u, m) ==
  [S EXCEPT !.e.waiting = Append(@, [from |-> u, m |-> m]), !.e.sess[u] = "new"]

\* Who says hello is told where the socket and the outbox stand.
Greeted(S, u) ==
  Tell(Tell(S, {u}, [t |-> "status", status |-> S.e.sock]), {u},
       [t |-> "pending", n |-> IF S.e.on = "loading" THEN 0 ELSE Len(S.e.queue)])

\* intoRelay(), its store there.
IntoEdge(S, u, m) == IF S.e.on = "loading" THEN Waits(S, u, m) ELSE Receive(S, u, m)

\* intoRelay().
IntoRelay(S, u, m) ==
  IF m.t = "hello" THEN Greeted(IntoEdge(Opened(S), u, m), u) ELSE IntoEdge(Opened(S), u, m)

-----------------------------------------------------------------------------
(* What a handler leaves behind.                                           *)

\* up(): what the client of tab u said: to the relay here, or to every other tab, as
\* any of them may be the one that leads.
Say(S, u) ==
  LET out == S.t[u].out
      quiet == [S EXCEPT !.t[u].out = <<>>]
      posts == [i \in DOMAIN out |-> [k |-> "up", from |-> u, m |-> out[i]]]
  IN  IF u = S.e.at THEN FoldLeft(LAMBDA s, m : IntoRelay(s, u, m), quiet, out)
      ELSE [quiet EXCEPT !.in = [v \in Tabs |-> IF v # u /\ IsOpen(S, v) THEN @[v] \o posts ELSE @[v]]]

\* The server reads a message of the relay's (store.js); a refusal is judged by the op.
Reads(v, m) ==
  LET Decides(w, op, live) ==
        IF op.s <= w.mark
          THEN IF live THEN [w EXCEPT !.down = Append(@, [t |-> "ack", s |-> op.s, v |-> Len(w.hist)])] ELSE w
        ELSE IF op.bad
          THEN [w EXCEPT !.refused = @ \cup {op.n}, !.down = Append(@, [t |-> "error", s |-> op.s])]
        ELSE LET n == Len(w.hist) + 1
             IN  [w EXCEPT
                   !.hist = Append(@, op.n), !.mark = op.s,
                   !.down = IF live THEN @ \o <<[t |-> "patch", v |-> n], [t |-> "ack", s |-> op.s, v |-> n]>> ELSE @]
      caught == FoldLeft(LAMBDA w, op : Decides(w, op, FALSE), v, m.ops)
  IN  CASE ~v.live -> v
        [] v.live /\ m.t = "op" -> Decides(v, m.op, TRUE)
        [] v.live /\ m.t = "hello" ->
             [caught EXCEPT !.down = Append(@, [t |-> "answer", since |-> m.since, v |-> Len(caught.hist), s |-> caught.mark])]

\* The situation after a handler, from end v of the socket; what the leader's own client
\* said meanwhile is handled within.
DoesAt(v, S) ==
  \E R \in {IF S.e.at = none THEN S ELSE FoldLeft(Say, S, <<S.e.at, S.e.at>>)} :
    /\ relay' = R.e /\ tabs' = R.t /\ inbox' = R.in /\ disk' = R.d /\ writes' = R.w
    /\ srv' = FoldLeft(Reads, v, R.q)

Does(S) == DoesAt(srv, S)

Off == [at |-> none, on |-> "off", life |-> 0, waiting |-> <<>>, have |-> FALSE, known |-> FALSE, base |-> {},
        v |-> 0, fe |-> 0, fv |-> 0, log |-> <<>>, queue |-> <<>>, ownSeq |-> 0,
        seen |-> [u \in Tabs |-> 0], sess |-> [u \in Tabs |-> "none"],
        hellos |-> [u \in Tabs |-> none], synced |-> FALSE, sock |-> "offline", dirty |-> FALSE,
        counted |-> -1, yields |-> FALSE, lags |-> FALSE, ahead |-> {}]

Unopened == [life |-> "none", seq |-> 0, outbox |-> <<>>, base |-> {}, fe |-> 0, v |-> 0, synced |-> FALSE,
             answered |-> 0, retry |-> FALSE, says |-> "connecting", counts |-> 0, out |-> <<>>]

-----------------------------------------------------------------------------
(* The tabs.                                                               *)

\* Bound: which tab is the next to open.
Opening == CHOOSE u \in Tabs : tabs[u].life = "none"

\* A tab opens, one after the other: it waits for the lock, and its client says hello to whoever leads.
OpenTab(u) ==
  /\ tabs[u].life = "none" /\ u = Opening
  /\ locks' = Append(locks, u)
  /\ Does(Say([Now EXCEPT !.t[u] = StartsOver([@ EXCEPT !.life = "open"])], u))
  /\ UNCHANGED <<adapter, edits, turns>>

\* lead(): the lock is tab u's; the others hear of it, and its own client starts over.
Leads ==
  /\ relay.at = none /\ locks # <<>>
  /\ LET u == Head(locks)
         e == [Off EXCEPT !.at = u, !.on = "new", !.life = relay.life + 1, !.lags = relay.lags]
     IN  /\ "late" \in Uses \/ inbox[u] = <<>>
         /\ Does([Tell([Now EXCEPT !.e = e], Tabs, [t |-> "leader"]) EXCEPT !.t[u] = StartsOver(@)])
  /\ UNCHANGED <<adapter, locks, edits, turns>>

\* The copy was read, the writes begun before all over, and what came meanwhile is taken in order.
Loaded ==
  /\ relay.on = "loading"
  /\ Does(FoldLeft(LAMBDA s, w : Receive(s, w.from, w.m),
                   MadeFrom([Now EXCEPT !.e.waiting = <<>>], disk), relay.waiting))
  /\ UNCHANGED <<adapter, locks, edits, turns>>

\* An edit in tab u, sent at once if its hello was answered; the server's rules may
\* refuse it.
Edit(u) ==
  /\ tabs[u].life = "open" /\ Len(edits) < MaxEdits /\ Room
  /\ \E bad \in {FALSE} \cup IF "refuse" \in Uses /\ turns < MaxTurns THEN {TRUE} ELSE {} :
       LET op == [t |-> "op", s |-> tabs[u].seq + 1, n |-> Len(edits) + 1, bad |-> bad]
           x == [tabs[u] EXCEPT !.seq = op.s, !.outbox = Append(@, op),
                                !.out = IF tabs[u].synced /\ ~tabs[u].retry
                                          THEN Append(@, op) ELSE @]
       IN  /\ edits' = Append(edits, [by |-> u, s |-> op.s])
           /\ turns' = IF bad THEN turns + 1 ELSE turns
           /\ Does(Say([Now EXCEPT !.t[u] = x], u))
  /\ UNCHANGED <<adapter, locks>>

\* A message on the channel in a tab that follows (bus.onmessage).
Follow(x, m) ==
  CASE m.k = "up" -> x
    [] m.k = "down" -> Handle(x, m.m)
    [] m.k = "ctl" -> Control(x, m.m)

\* A tab that follows hears all there is: nothing that others do depends on when it did.
Hear(u) ==
  /\ inbox[u] # <<>> /\ relay.at # u
  /\ Does(Say([Now EXCEPT !.in[u] = <<>>, !.t[u] = FoldLeft(Follow, @, inbox[u])], u))
  /\ UNCHANGED <<adapter, locks, edits, turns>>

\* The next message on the channel in the tab that leads.
HearHere ==
  /\ relay.at # none /\ inbox[relay.at] # <<>>
  /\ LET u == relay.at
         m == Head(inbox[u])
         S == [Now EXCEPT !.in[u] = Tail(@)]
     IN  Does(CASE m.k = "up" -> IntoRelay(S, m.from, m.m)
                [] m.k = "down" -> [S EXCEPT !.t[u] = Handle(@, m.m)]
                [] m.k = "ctl" -> S)
  /\ UNCHANGED <<adapter, locks, edits, turns>>

\* The timer of retryHello.
Retry(u) ==
  /\ tabs[u].life = "open" /\ tabs[u].retry
  /\ Does(Say([Now EXCEPT !.t[u] = Hello([@ EXCEPT !.retry = FALSE])], u))
  /\ UNCHANGED <<adapter, locks, edits, turns>>

\* The storage once tab u is gone.
Left(d, u) ==
  CASE adapter = "memory" /\ relay.at = u -> Empty
    [] adapter = "leased" /\ "yield" \notin Uses /\ d.lease = u -> [d EXCEPT !.lease = none]
    [] OTHER -> d

\* How many of the writes under way land, their tab gone: all of them, or the first.
Landing(ws) ==
  {k \in 0 .. Len(ws) : \/ k = Len(ws) \/ "lose" \in Uses
                        \/ "kill" \in Uses /\ \A i \in k + 1 .. Len(ws) : ws[i].put = <<>>}

\* What is left when tab u goes in situation S.
Goes(u, S) ==
  /\ locks' = SelectSeq(locks, LAMBDA w : w # u)
  /\ tabs' = [tabs EXCEPT ![u] = [Unopened EXCEPT !.life = "gone", !.seq = tabs[u].seq, !.outbox = tabs[u].outbox]]
  /\ inbox' = [inbox EXCEPT ![u] = <<>>]
  /\ IF relay.at # u THEN disk' = Left(disk, u) /\ UNCHANGED <<relay, srv, writes>>
     ELSE \E k \in Landing(S.w) :
            /\ disk' = Left(LandedAll(S.d, SubSeq(S.w, 1, k)), u) /\ writes' = <<>>
            /\ relay' = [Off EXCEPT !.life = relay.life, !.lags = S.e.lags \/ k < Len(S.w)]
            /\ srv' = [srv EXCEPT !.live = FALSE, !.down = <<>>]
  /\ UNCHANGED <<adapter, edits>>

\* A tab goes without a word: the storage has what it was given.
Die(u) ==
  /\ "die" \in Uses /\ tabs[u].life = "open" /\ Turn
  /\ Goes(u, [Now EXCEPT !.e.lags = @ \/ relay.dirty])

\* close(): the outbox and the copy given to the storage.
Closed(S) == IF S.e.on = "on" THEN WriteBase(Save(S)) ELSE S

\* dispose(): a leader writes its copy, and lets go of the key.
Dispose(u) ==
  /\ "dispose" \in Uses /\ tabs[u].life = "open" /\ Turn
  /\ Goes(u, IF relay.at = u THEN [Closed(Now) EXCEPT !.d.lease = none] ELSE Now)

\* The timer of writeBase(), 200 ms after what it is for.  Bound: while a tab may yet
\* die, as it matters to nothing else, and with no other under way.
BaseTimer ==
  /\ relay.dirty /\ ~\E w \in ToSet(writes) : "base" \in DOMAIN w.sets
  /\ "die" \in Uses /\ turns < MaxTurns /\ Room
  /\ Does(WriteBase(Now))
  /\ UNCHANGED <<adapter, locks, edits, turns>>

\* The relay e without the sessions of these tabs (close, leave).
Without(e, U) ==
  [e EXCEPT !.sess = [u \in Tabs |-> IF u \in U THEN "none" ELSE @[u]],
            !.hellos = [u \in Tabs |-> IF u \in U THEN none ELSE @[u]]]

\* The leader closes the sessions of tabs whose lock is not held (startSweeping).
Sweep ==
  /\ "sweep" \in Uses /\ relay.on = "on"
  /\ \E late \in {{}} \cup IF "stale" \in Uses THEN {{Last(locks)}} ELSE {} :
       LET gone == {u \in Tabs \ {relay.at} : relay.sess[u] # "none" /\ (tabs[u].life = "gone" \/ u \in late)}
       IN  gone # {} /\ relay' = Without(relay, gone)
  /\ UNCHANGED <<adapter, tabs, locks, inbox, kept, srv, edits, turns>>

-----------------------------------------------------------------------------
(* The socket.                                                             *)

\* It opens, and the relay says hello on it.
SockUp ==
  /\ relay.sock = "connecting"
  /\ DoesAt([srv EXCEPT !.live = TRUE, !.down = <<>>], HelloUp(TellStatus([Now EXCEPT !.e.sock = "online"])))
  /\ UNCHANGED <<adapter, locks, edits, turns>>

\* Its other end is gone, and nobody knows yet; what it had sent may still be heard.
Cut ==
  /\ "drop" \in Uses /\ srv.live /\ Turn
  /\ srv' = [srv EXCEPT !.live = FALSE]
  /\ UNCHANGED <<adapter, tabs, locks, inbox, relay, kept, edits>>

\* The status `offline', at which who waits is answered, and then onClose.
SockLost(S) ==
  LET off == AnswerWaiting(TellStatus([S EXCEPT !.e.sock = "offline"]))
  IN  [off EXCEPT !.e = [Unsent(@) EXCEPT !.synced = FALSE]]

\* It could not be opened, or is found dead (dropped).
SockDown ==
  /\ \/ relay.sock = "online" /\ ~srv.live /\ UNCHANGED turns
     \/ relay.sock = "connecting" /\ "drop" \in Uses /\ Turn
  /\ DoesAt([srv EXCEPT !.live = FALSE, !.down = <<>>], SockLost(Now))
  /\ UNCHANGED <<adapter, locks, edits>>

\* Another try (scheduleRetry, onWake, or the word of a tab).
SockTry ==
  /\ relay.on = "on" /\ relay.sock = "offline"
  /\ Does(TellStatus([Now EXCEPT !.e.sock = "connecting"]))
  /\ UNCHANGED <<adapter, locks, edits, turns>>

Items(from, to) == {srv.hist[i] : i \in from + 1 .. to}

\* mutant: what came in while the hello was away is not sent.
CaughtUpUnsent(S, m) ==
  LET e == [S.e EXCEPT
        !.queue = SelectSeq(@, LAMBDA o : o.s > m.s),
        !.base = IF m.since = -1 THEN Items(0, m.v) ELSE @ \cup Items(m.since, m.v),
        !.v = m.v, !.have = TRUE, !.known = TRUE, !.synced = TRUE]
  IN  AnswerWaiting(Persist(Recompute([S EXCEPT !.e = e], View(S.e))))

\* caughtUp(): a delta or a snapshot into the base, what waited sent, and who waited answered.
CaughtUp(S, m) ==
  LET e == [S.e EXCEPT
        !.queue = SelectSeq(@, LAMBDA o : o.s > m.s),
        !.base = IF m.since = -1 THEN Items(0, m.v) ELSE @ \cup Items(m.since, m.v),
        !.v = m.v, !.have = TRUE, !.known = TRUE, !.synced = TRUE]
  IN  AnswerWaiting(SendUp(Persist(Recompute([S EXCEPT !.e = e], View(S.e)))))

\* A patch; with nothing queued it is passed on as it is.
Patched(S, m) ==
  LET e == [S.e EXCEPT !.v = m.v, !.base = @ \cup {srv.hist[m.v]}]
      S1 == [S EXCEPT !.e = e]
  IN  IF ~S.e.synced THEN S
      ELSE Persist(IF e.queue = <<>> THEN EmitPatch(S1, {srv.hist[m.v]}, {}) ELSE Recompute(S1, View(S.e)))

\* mutant: the view is not worked out again.
TakenOutQuietly(S, s) ==
  LET S1 == [S EXCEPT !.e.queue = SelectSeq(@, LAMBDA o : o.s # s)]
  IN  IF S1.e.queue = S.e.queue THEN S ELSE Persist(S1)

\* An op decided or refused is taken out of the queue.
TakenOut(S, s) ==
  LET S1 == [S EXCEPT !.e.queue = SelectSeq(@, LAMBDA o : o.s # s)]
  IN  IF S1.e.queue = S.e.queue THEN S ELSE Persist(Recompute(S1, View(S.e)))

\* The next message on it (fromUpstream).
HearServer ==
  /\ srv.down # <<>>
  /\ LET m == Head(srv.down)
     IN  DoesAt([srv EXCEPT !.down = Tail(@)],
                CASE m.t = "answer" -> CaughtUp(Now, m)
                  [] m.t = "patch" -> Patched(Now, m)
                  [] m.t = "ack" -> TakenOut([Now EXCEPT !.e.v = IF m.v > @ THEN m.v ELSE @], m.s)
                  [] m.t = "error" -> TakenOut(Now, m.s))
  /\ UNCHANGED <<adapter, locks, edits, turns>>

\* Another's write lands.
OthersWrite ==
  /\ Cardinality(OthersWritten) < MaxWrites /\ Room
  /\ LET hist == Append(srv.hist, MaxEdits + 1 + Cardinality(OthersWritten))
     IN  srv' = [srv EXCEPT !.hist = hist,
                            !.down = IF srv.live THEN Append(@, [t |-> "patch", v |-> Len(hist)]) ELSE @]
  /\ UNCHANGED <<adapter, tabs, locks, inbox, relay, kept, edits, turns>>

-----------------------------------------------------------------------------
Init ==
  /\ adapter \in Adapters
  /\ tabs = [u \in Tabs |-> Unopened]
  /\ locks = <<>>
  /\ inbox = [u \in Tabs |-> <<>>]
  /\ relay = Off
  /\ disk = Empty /\ writes = <<>>
  /\ srv = [hist |-> <<>>, mark |-> 0, live |-> FALSE, down |-> <<>>, refused |-> {}]
  /\ edits = <<>>
  /\ turns = 0

Served ==
  \/ Leads \/ Loaded \/ SockUp \/ SockTry \/ HearServer \/ HearHere
  \/ \E u \in Tabs : Hear(u) \/ Retry(u)

Next ==
  \/ Served
  \/ \E u \in Tabs : OpenTab(u) \/ Edit(u) \/ Die(u) \/ Dispose(u)
  \/ BaseTimer \/ Sweep \/ Cut \/ SockDown \/ OthersWrite

Spec == Init /\ [][Next]_vars

\* Whether something may be served: the guards of Served.
MayServe ==
  \/ relay.at = none /\ locks # <<>> /\ ("late" \in Uses \/ inbox[Head(locks)] = <<>>)
  \/ relay.on = "loading" \/ relay.sock = "connecting" \/ srv.down # <<>>
  \/ relay.on = "on" /\ relay.sock = "offline"
  \/ \E u \in Tabs : inbox[u] # <<>> \/ (tabs[u].life = "open" /\ tabs[u].retry)

Noticed == SockDown /\ ~srv.live

\* The lock is granted, a load ends, a timer goes off, and what was sent arrives; a dead
\* socket is noticed by its keepalive.  All of it is bounded but for these.  This is
\* weak fairness of Served and of Noticed, ENABLED spelled out as the handlers always can.
FairSpec ==
  /\ Spec
  /\ []<>~MayServe \/ []<><<Served>>_vars
  /\ []<>~(relay.sock = "online" /\ ~srv.live) \/ []<><<Noticed>>_vars

-----------------------------------------------------------------------------
(* Properties.                                                             *)

Life == {"none", "open", "gone"}
Numbers == 1 .. MaxEdits + MaxWrites

\* Who leads holds the lock, and the queue is in the order of its numbers.
TypeOK ==
  /\ adapter \in Adapters /\ turns \in 0 .. MaxTurns
  /\ \A u \in Tabs :
       /\ tabs[u].life \in Life /\ tabs[u].base \subseteq Numbers /\ tabs[u].out = <<>>
       /\ tabs[u].says \in {"offline", "connecting", "online"}
  /\ relay.at \in Tabs \cup {none} /\ relay.on \in {"off", "loading", "on"}
  /\ relay.at # none => locks # <<>> /\ relay.at = Head(locks)
  /\ srv.live => relay.sock = "online"
  /\ \A i, j \in DOMAIN relay.queue : i < j => relay.queue[i].s < relay.queue[j].s

Decided == {srv.hist[i] : i \in DOMAIN srv.hist} \cup srv.refused
Pending(u) == {tabs[u].outbox[i].n : i \in DOMAIN tabs[u].outbox}
Stored == {o.n : o \in ToSet(LandedAll(disk, writes).ops)}

\* An edit is at the server, in the storage of the browser or on its way there, or with
\* the tab that made it: the leader acknowledges what is in its outbox (shared.js:11-12),
\* so that a tab may let go of it whoever leads next, though removals and records on
\* their way were lost ("kill").  An op acknowledged and lost on its way ("lose") is gone:
\* take() acks when the write was begun (follower.js:822-823, indexeddb.js:102-113).
EditsAreKept ==
  \A n \in DOMAIN edits : n \in Decided \cup Stored \cup Pending(edits[n].by)

\* The copy of a relay answered is what the server had at its version, though a leader
\* may have gone on from what another left in storage (makeEdge, caughtUp).
BaseIsWhole == relay.synced => relay.base = Items(0, relay.v)

\* Tabs open whose hello the relay had, and that have heard all it said.
UpToDate == {u \in Tabs : tabs[u].life = "open" /\ relay.sess[u] \in {"waits", "synced"} /\ inbox[u] = <<>>}

\* The tabs show one thing: who has heard all has the view of the relay, with every
\* other tab's edits, and its version (emitPatch, and tryHello for who comes from
\* another leader).
TabsAgree ==
  relay.on = "on" =>
    \A u \in UpToDate :
      relay.sess[u] = "synced" /\ tabs[u].synced /\ u \notin relay.ahead
        => tabs[u].base = View(relay) /\ tabs[u].v = relay.fv

\* A tab that has heard all says of the socket and of what is pending what is so
\* (tellStatus, onPending, and intoRelay for who comes late).
TabsAreTold ==
  relay.on = "on" =>
    \A u \in UpToDate \ {relay.at} :
      /\ tabs[u].says = relay.sock
      /\ relay.counted # -1 => tabs[u].counts = Len(relay.queue)

\* A tab opened offline is not kept waiting for the server: it is answered from the copy
\* of the browser, if there is one (tryHello, and answerWaiting as the socket goes).
OfflineIsServed ==
  relay.on = "on" /\ relay.sock = "offline" /\ relay.have => \A u \in Tabs : relay.sess[u] # "waits"

SomeoneIsOpen == \E u \in Tabs : tabs[u].life = "open"
LeftWithTab(n) == tabs[edits[n].by].life = "gone" /\ n \in Pending(edits[n].by)

\* An edit that a leader took reaches the server as long as a tab is open, whoever
\* leads by then (queue, outbox and helloUp); not with "lose", as above.
EditsArrive ==
  <>[](SomeoneIsOpen => \A n \in DOMAIN edits : n \in Decided \/ LeftWithTab(n))

\* In the end every tab open shows what the server has (retryHello, answerWaiting).
TabsConverge ==
  <>[](\A u \in Tabs : tabs[u].life = "open" /\ u \notin relay.ahead => tabs[u].base = Items(0, Len(srv.hist)))
================================================================================
