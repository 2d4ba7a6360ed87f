-------------------------------- MODULE Relay --------------------------------
(***************************************************************************)
(* One store behind a site's relay (src/relay/follower.js): the relay's    *)
(* copy of it, what it shows to the clients behind it, the queue of their  *)
(* ops, and its session at the server (src/server/store.js, the parts for  *)
(* followers), where each client is let in or not.                         *)
(*                                                                         *)
(* An op is an item <<replica, seq>> on records of its own.  `base' and    *)
(* `view' are the sets of items in them, and a patch between relay and     *)
(* client is a difference between views.  The link to the server is two    *)
(* queues.  What passes between a client and the relay arrives at once:    *)
(* that socket is the subject of Sync.tla, and what matters here is which  *)
(* session of the relay's it belongs to.                                   *)
(***************************************************************************)
EXTENDS Integers, Sequences, FiniteSets

CONSTANTS
  Clients,     \* the replicas of the clients behind the relay
  Writers,     \* bound: those that make ops
  Movers,      \* bound: those whose sockets close
  Own,         \* the relay's replica
  Others,      \* whoever writes at the server directly
  DeltaLog,    \* how much of its own log the relay keeps: DELTA_LOG
  Uses,        \* what may happen, of AllUses below
  MaxOps,      \* bound: ops a client makes
  MaxOwn,      \* bound: the relay's own writes
  MaxWrites,   \* bound: versions others make
  MaxSessions, \* bound: sessions of a client at the relay
  MaxTurns     \* bound: faults

\* "drop": the link drops; "leave": a client's socket closes; "halfopen": and the relay
\* notices later; "crash": the relay dies; "limit", "limitown": the bucket is empty for
\* a client's op, for the relay's own; "limithello": for its hello; "limitvouch": too
\* many vouches were turned away; "refuse": a rule refuses an op; "lose": an op loses
\* whole; "revoke": the server takes a client back; "unload": the store unloads itself;
\* "hold": the host says that the server is away.
AllUses == {"drop", "leave", "halfopen", "crash", "limit", "limitown", "limithello",
            "limitvouch", "refuse", "lose", "revoke", "unload", "hold"}

ASSUME RelayAssumption ==
  /\ IsFiniteSet(Clients) /\ Own \notin Clients /\ Others \notin Clients /\ Own # Others
  /\ Writers \subseteq Clients /\ Movers \subseteq Clients
  /\ DeltaLog \in Nat /\ Uses \subseteq AllUses
  /\ MaxOps \in Nat /\ MaxOwn \in Nat /\ MaxWrites \in Nat
  /\ MaxSessions \in Nat \ {0} /\ MaxTurns \in Nat

VARIABLES
  made,     \* the last op each client (and the relay itself) made
  outbox,   \* the ops of each client not acknowledged
  has,      \* what each client's base has
  hasv,     \* the relay's version it is at
  cur,      \* the session each client is on, 0 with none
  stage,    \* of each session at the relay: "new" (unused), "waits" (its hello is not
            \* answered), "synced", "left"
  hello,    \* what each session's hello brought: the client's ops, and the version it
            \* asked from, NoVersion for none
  edge,     \* the relay's copy of the store (makeEdge)
  due,      \* the sessions whose hello the handler under way comes to (tryHello)
  saved,    \* the copy in the relay's storage
  up, down, \* the link: to the server, to the relay
  log,      \* the server's log of items
  last,     \* the last op decided of each replica
  void,     \* the items decided that lost whole
  allowed,  \* the clients the server's hooks let in
  letIn,    \* the clients it ever did let in
  sess,     \* the relay's session at the server
  turns     \* how often what MaxTurns bounds came up

client == <<made, outbox, has, hasv, cur, stage, hello>>
server == <<log, last, void, allowed, letIn, sess>>
vars == <<client, edge, due, saved, up, down, server, turns>>

As == Clients \X (1 .. MaxSessions)
Itself == <<Own, 0>>
Speakers == As \cup {Itself}
Authors == Clients \cup {Own}
OpNumbers == 1 .. (IF MaxOps > MaxOwn THEN MaxOps ELSE MaxOwn)
Items == (Authors \X OpNumbers) \cup ({Others} \X (1 .. MaxWrites))
NoVersion == -1

Bounded == turns < MaxTurns /\ turns' = turns + 1
Larger(a, b) == IF a > b THEN a ELSE b
Ascending(S) == [i \in 1 .. Cardinality(S) |-> CHOOSE x \in S : Cardinality({y \in S : y < x}) = i - 1]

-----------------------------------------------------------------------------
(* The relay's copy of the store: its functions, from edge to edge.  What  *)
(* a handler sends up gathers in `out' and is on the link when it is done. *)

ItemOf(entry) == <<entry.as[1], entry.n>>
QueuedBy(queue) == {ItemOf(queue[i]) : i \in DOMAIN queue}
Queued(e) == QueuedBy(e.queue)
linkUp(e) == e.linked /\ ~e.held

\* A queue without the entries at these places, the others in their order.
Without(queue, gone) ==
  LET kept[i \in 0 .. Len(queue)] ==
        IF i = 0 THEN <<>>
        ELSE IF i \in gone THEN kept[i - 1] ELSE Append(kept[i - 1], queue[i])
  IN  kept[Len(queue)]

Unsent(e) == [e EXCEPT !.queue = [i \in DOMAIN @ |-> [@[i] EXCEPT !.sent = FALSE]]]

\* The last n of a sequence.
LastOf(s, n) == IF Len(s) <= n THEN s ELSE SubSeq(s, Len(s) - n + 1, Len(s))

\* emitPatch (345-353).
EmitPatch(e, add, del) ==
  [e EXCEPT !.view = (@ \ del) \cup add,
            !.fv = @ + 1,
            !.log = LastOf(Append(@, [v |-> e.fv + 1, add |-> add, del |-> del]), DeltaLog)]

\* mutant: the queue is not laid over the base again.
RecomputeBase(e, items) ==
  LET del == (e.view \cap (items \cup Queued(e))) \ e.base
  IN  IF del = {} THEN e ELSE EmitPatch(e, {}, del)

\* recompute (360-394) of the records that these items are on.
Recompute(e, items) ==
  LET touched == items \cup Queued(e)
      after == touched \cap (e.base \cup Queued(e))
      add == after \ e.view
      del == (e.view \cap touched) \ after
  IN  IF add \cup del = {} THEN e ELSE EmitPatch(e, add, del)

\* mutant: a patch under a queued op is shown, and not kept.
FromServerShown(e, items) ==
  IF e.queue = <<>> THEN EmitPatch([e EXCEPT !.base = @ \cup items], items, {})
  ELSE Recompute(e, items)

\* fromServer (397-407).
FromServer(e, items) ==
  LET e2 == [e EXCEPT !.base = @ \cup items]
  IN  IF e.queue = <<>> THEN EmitPatch(e2, items, {}) ELSE Recompute(e2, items)

\* Entries of the queue taken out, and their records worked out again.
Forget(e, gone) ==
  IF gone = {} THEN e
  ELSE Recompute([e EXCEPT !.queue = Without(@, gone)], {ItemOf(e.queue[i]) : i \in gone})

\* forgetOrphans (415-421).
ForgetOrphans(e) ==
  Forget(e, {i \in DOMAIN e.queue : e.queue[i].as # Itself /\ e.grants[e.queue[i].as] = "none"})

\* sendUp (423-434).
SendUp(e, i) ==
  IF /\ e.synced /\ linkUp(e) /\ ~e.queue[i].sent
     /\ e.queue[i].as = Itself \/ e.grants[e.queue[i].as] = "admitted"
    THEN [e EXCEPT !.queue[i].sent = TRUE,
                   !.out = Append(@, [t |-> "op", as |-> e.queue[i].as, n |-> e.queue[i].n])]
    ELSE e

\* sendUp of the entries of these speakers, in the order of the queue.
SendQueue(e, S) ==
  LET sent[i \in 0 .. Len(e.queue)] ==
        IF i = 0 THEN e
        ELSE IF e.queue[i].as \in S THEN SendUp(sent[i - 1], i) ELSE sent[i - 1]
  IN  sent[Len(e.queue)]

\* vouch (437-441) for these sessions.
Vouch(e, S) ==
  IF S = {} \/ ~linkUp(e) THEN e
  ELSE [e EXCEPT !.grants = [as \in As |-> IF as \in S THEN "asked" ELSE @[as]],
                 !.out = Append(@, [t |-> "vouch", as |-> S])]

Pending(e) == {as \in As : e.grants[as] = "pending"}

\* mutant: a grant of the session before is taken to hold on the next.
UngrantedNone(e) == e

\* The server's session is gone, with every grant on it.
Ungranted(e) ==
  [e EXCEPT !.grants = [as \in As |-> IF @[as] \in {"asked", "admitted"} THEN "pending" ELSE @[as]]]

\* helloUp (446-466): the relay's own ops go with it.
HelloUp(e) ==
  LET own == {e.queue[i].n : i \in {j \in DOMAIN e.queue : e.queue[j].as = Itself}}
      said == [e EXCEPT
        !.synced = FALSE,
        !.queue = [i \in DOMAIN @ |-> [@[i] EXCEPT !.sent = (e.queue[i].as = Itself)]],
        !.out = Append(@, [t |-> "hello", ops |-> own,
                           since |-> IF e.have THEN e.v ELSE NoVersion])]
  IN  Vouch(said, Pending(said))

\* mutant: an op taken counts as acknowledged.
TakeAcked(e, as, n) ==
  IF n <= e.acked[as[1]] THEN e
  ELSE LET queued == [e EXCEPT !.queue = Append(@, [as |-> as, n |-> n, sent |-> FALSE]),
                               !.acked[as[1]] = n]
       IN  SendUp(EmitPatch(queued, {<<as[1], n>>} \ e.view, {}), Len(queued.queue))

\* take (788-826) of op n on session as.
Take(e, as, n) ==
  LET mine == {i \in DOMAIN e.queue : ItemOf(e.queue[i]) = <<as[1], n>>}
  IN  IF \E i \in mine : e.queue[i].as # as /\ e.grants[e.queue[i].as] = "none"
        THEN LET i == CHOOSE j \in mine : TRUE
             IN  SendUp([e EXCEPT !.queue[i].as = as], i)
      ELSE IF mine # {} \/ n <= e.acked[as[1]] THEN e
      ELSE LET queued == [e EXCEPT !.queue = Append(@, [as |-> as, n |-> n, sent |-> FALSE])]
           IN  SendUp(EmitPatch(queued, {<<as[1], n>>} \ e.view, {}), Len(queued.queue))

\* The ops of a hello, and those made while it waited, in the order they were made.
TakeAll(e, as, ops) ==
  LET taken[n \in 0 .. MaxOps] ==
        IF n = 0 THEN e
        ELSE IF n \in ops THEN Take(taken[n - 1], as, n) ELSE taken[n - 1]
  IN  taken[MaxOps]

\* leave (864-881).
Left(e, as) ==
  IF e.grants[as] = "none" THEN e
  ELSE LET told == IF e.grants[as] = "admitted" /\ e.synced /\ linkUp(e)
                     THEN Append(e.out, [t |-> "leave", as |-> as]) ELSE e.out
       IN  Forget([e EXCEPT !.grants[as] = "none", !.out = told],
                  {i \in DOMAIN e.queue : e.queue[i].as = as /\ ~e.queue[i].sent})

-----------------------------------------------------------------------------
(* What a handler of the relay leaves behind.                              *)

\* What the handler sent is on the link.
Done(e) ==
  /\ edge' = [e EXCEPT !.out = <<>>]
  /\ up' = IF e.linked THEN up \o e.out ELSE <<>>

\* The clients that are answered, on the session they are on.
Answered == {c \in Clients : cur[c] # 0 /\ stage[<<c, cur[c]>>] = "synced"}

\* What the clients of S have once they heard how the view changed.
HasHeard(e, S) ==
  [c \in Clients |->
     IF c \in S THEN (has[c] \ (edge.view \ e.view)) \cup (e.view \ edge.view) ELSE has[c]]
VersionHeard(e, S) == [c \in Clients |-> IF c \in S THEN e.fv ELSE hasv[c]]

Hear(e, S) == has' = HasHeard(e, S) /\ hasv' = VersionHeard(e, S)

Waiting == {as \in As : stage[as] = "waits"}

\* admitted() (745-752): whether a client may be answered now.
Admitted(e, as) ==
  \/ e.grants[as] = "admitted"
  \/ ~(linkUp(e) /\ e.synced) /\ as[1] \in e.admitted

-----------------------------------------------------------------------------
(* The clients.                                                            *)

\* A client makes an op; it goes to the relay once the hello is answered.
Make(c) ==
  /\ due = {} /\ c \in Writers /\ made[c] < MaxOps
  /\ made' = [made EXCEPT ![c] = @ + 1]
  /\ outbox' = [outbox EXCEPT ![c] = @ \cup {made[c] + 1}]
  /\ IF c \in Answered
       THEN LET e == Take(edge, <<c, cur[c]>>, made[c] + 1) IN Done(e) /\ Hear(e, Answered)
       ELSE UNCHANGED <<edge, up, has, hasv>>
  /\ UNCHANGED <<cur, stage, hello, due, saved, down, server, turns>>

\* A client's socket opens, and it says hello (receive, 884-918).
Connect(c) ==
  /\ due = {} /\ cur[c] = 0
  /\ \E k \in 1 .. MaxSessions :
       /\ stage[<<c, k>>] = "new" /\ \A j \in 1 .. k - 1 : stage[<<c, j>>] # "new"
       /\ cur' = [cur EXCEPT ![c] = k]
       /\ stage' = [stage EXCEPT ![<<c, k>>] = "waits"]
       /\ hello' = [hello EXCEPT ![<<c, k>>] = [ops |-> outbox[c], since |-> hasv[c]]]
       /\ edge' = [edge EXCEPT !.grants[<<c, k>>] = "pending"]
       /\ due' = {<<c, k>>}
  /\ UNCHANGED <<made, outbox, has, hasv, saved, up, down, server, turns>>

\* What a client at version v, with a base S, has after a delta (777-780).
Delta(e, v, S) ==
  LET after[i \in 0 .. Len(e.log)] ==
        IF i = 0 THEN S
        ELSE IF e.log[i].v <= v THEN after[i - 1]
        ELSE (after[i - 1] \ e.log[i].del) \cup e.log[i].add
  IN  after[Len(e.log)]

\* mutant: any version is within the log.
ReachesAny(e, v) == v # NoVersion

\* Whether the log has all that came after v.
Reaches(e, v) == v = e.fv \/ \E i \in DOMAIN e.log : e.log[i].v = v + 1

\* tryHello (754-785): the session vouched for, and, if it may be answered, its ops
\* taken and the answer sent.  What the client made since goes with them: it sends
\* that once it has the answer.
TryHello(as) ==
  LET c == as[1]
      asked == IF edge.grants[as] = "pending" THEN Vouch(edge, {as}) ELSE edge
      here == cur[c] = as[2]
      e == TakeAll(asked, as, hello[as].ops \cup IF here THEN outbox[c] ELSE {})
      base == IF Reaches(e, hello[as].since) THEN Delta(e, hello[as].since, has[c]) ELSE e.view
  IN  /\ as \in due
      /\ due' = due \ {as}
      /\ IF edge.have /\ Admitted(asked, as)
           THEN /\ stage' = [stage EXCEPT ![as] = "synced"]
                /\ Done(e)
                /\ outbox' = IF here THEN [outbox EXCEPT ![c] = {n \in @ : n > e.acked[c]}] ELSE outbox
                /\ has' = IF here THEN [HasHeard(e, Answered) EXCEPT ![c] = base]
                          ELSE HasHeard(e, Answered)
                /\ hasv' = VersionHeard(e, Answered \cup IF here THEN {c} ELSE {})
           ELSE Done(asked) /\ UNCHANGED <<stage, outbox, has, hasv>>
  /\ UNCHANGED <<made, cur, hello, saved, down, server, turns>>

\* There is another session to come back on (a bound, not a guard of the code).
MoreSessions(c) == c \in Movers /\ stage[<<c, MaxSessions>>] = "new"

\* A client's socket closes, and the relay knows (close, leave).
Leave(c) ==
  /\ "leave" \in Uses /\ due = {} /\ cur[c] # 0 /\ MoreSessions(c)
  /\ cur' = [cur EXCEPT ![c] = 0]
  /\ stage' = [stage EXCEPT ![<<c, cur[c]>>] = "left"]
  /\ LET e == Left(edge, <<c, cur[c]>>) IN Done(e) /\ Hear(e, Answered \ {c})
  /\ UNCHANGED <<made, outbox, hello, due, saved, down, server, turns>>

\* A client's socket is lost, and the relay does not know yet.
SocketLost(c) ==
  /\ "halfopen" \in Uses /\ due = {} /\ cur[c] # 0 /\ MoreSessions(c)
  /\ cur' = [cur EXCEPT ![c] = 0]
  /\ UNCHANGED <<made, outbox, has, hasv, stage, hello, edge, due, saved, up, down, server, turns>>

\* The relay comes to know (close, leave).
NoticeLost(as) ==
  /\ due = {} /\ stage[as] \in {"waits", "synced"} /\ cur[as[1]] # as[2]
  /\ stage' = [stage EXCEPT ![as] = "left"]
  /\ LET e == Left(edge, as) IN Done(e) /\ Hear(e, Answered)
  /\ UNCHANGED <<made, outbox, cur, hello, due, saved, down, server, turns>>

-----------------------------------------------------------------------------
(* The link, and what comes down it.                                       *)

\* The link opens (onOpen, helloUp).
LinkOpens ==
  /\ due = {} /\ ~edge.linked
  /\ Done(HelloUp([edge EXCEPT !.linked = TRUE]))
  /\ UNCHANGED <<client, due, saved, down, server, turns>>

NoSession ==
  [open |-> FALSE, greeted |-> FALSE, follows |-> TRUE, asked |-> <<>>,
   grants |-> {}, checks |-> {}, limited |-> {}]

\* The session ended: the grants are to be asked for again, the ops of clients that
\* have left are forgotten, and the rest is to be sent again (onClose 523-532, and 695-701).
SessionLost(e) == Unsent(ForgetOrphans(Ungranted([e EXCEPT !.synced = FALSE])))

\* The link drops (onClose, and the status `offline'), with the server's end of it.
LinkDrops ==
  /\ "drop" \in Uses /\ due = {} /\ edge.linked /\ Bounded
  /\ LET e == SessionLost([edge EXCEPT !.linked = FALSE]) IN Done(e) /\ Hear(e, Answered)
  /\ due' = Waiting
  /\ down' = <<>> /\ sess' = NoSession
  /\ UNCHANGED <<made, outbox, cur, stage, hello, saved, log, last, void, allowed, letIn>>

\* upstreamDown (988-994): the host's word that the server is away.
UpstreamDown ==
  /\ "hold" \in Uses /\ due = {} /\ ~edge.held /\ Bounded
  /\ edge' = [edge EXCEPT !.held = TRUE]
  /\ due' = Waiting
  /\ UNCHANGED <<client, saved, up, down, server>>

\* upstreamUp (995-1003): a link that stayed up says hello again.
UpstreamUp ==
  /\ due = {} /\ edge.held
  /\ LET e == [edge EXCEPT !.held = FALSE] IN Done(IF edge.linked THEN HelloUp(e) ELSE e)
  /\ UNCHANGED <<client, due, saved, down, server, turns>>

\* The timer after `unavailable' (701): hello again, if there is a link.
Reopens ==
  /\ due = {} /\ edge.reopens
  /\ LET e == [edge EXCEPT !.reopens = FALSE] IN Done(IF edge.linked THEN HelloUp(e) ELSE e)
  /\ UNCHANGED <<client, due, saved, down, server, turns>>

\* The timer after an op was refused for the rate (627-629): by now the server's is over.
Retries ==
  /\ due = {} /\ edge.retry
  /\ Done(SendQueue([edge EXCEPT !.retry = FALSE], Speakers))
  /\ sess' = [sess EXCEPT !.limited = @ \cap {Itself}]
  /\ UNCHANGED <<client, due, saved, down, log, last, void, allowed, letIn, turns>>

\* The timers after vouches were turned away for the rate (674-675).
AsksAgain ==
  /\ due = {} /\ edge.revouch # {}
  /\ Done(Vouch([edge EXCEPT !.revouch = {}], edge.revouch \cap Pending(edge)))
  /\ UNCHANGED <<client, due, saved, down, server, turns>>

\* The relay's own write (patch, 947-968).
Patch ==
  /\ due = {} /\ made[Own] < MaxOwn
  /\ made' = [made EXCEPT ![Own] = @ + 1]
  /\ LET entry == [as |-> Itself, n |-> edge.ownSeq + 1, sent |-> FALSE]
         e == EmitPatch([edge EXCEPT !.ownSeq = @ + 1, !.queue = Append(@, entry)],
                        {ItemOf(entry)} \ edge.view, {})
     IN  Done(SendUp(e, Len(e.queue))) /\ Hear(e, Answered)
  /\ UNCHANGED <<outbox, cur, stage, hello, due, saved, down, server, turns>>

Merged(from, to) == {log[v] : v \in from + 1 .. to}

\* A snapshot or a delta into the base (caughtUp 537-553).
CaughtUp(e, m) ==
  LET news == IF m.since = NoVersion THEN Merged(0, m.v) ELSE Merged(m.since, m.v)
      base == IF m.since = NoVersion THEN news ELSE e.base \cup news
      touched == IF m.since = NoVersion THEN e.base \cup news ELSE news
  IN  Recompute([e EXCEPT
        !.queue = Without(@, {i \in DOMAIN e.queue : e.queue[i].as = Itself /\ e.queue[i].n <= m.s}),
        !.base = base, !.v = m.v, !.have = TRUE, !.synced = TRUE], touched)

\* The answer: then who waits is vouched for, what waits goes up, and the sessions
\* not answered are tried (556-558).
HearAnswer(m) ==
  LET e == CaughtUp(edge, m)
      asked == Vouch(e, Pending(e))
  IN  /\ Done(SendQueue(asked, Speakers)) /\ Hear(e, Answered)
      /\ due' = Waiting
      /\ UNCHANGED <<outbox, cur, stage>>

\* A patch (582-593).
HearPatch(m) ==
  /\ LET e == IF ~edge.synced THEN edge
              ELSE IF m.v > edge.v + 1 THEN HelloUp(edge)
              ELSE FromServer([edge EXCEPT !.v = m.v], {log[m.v]})
     IN  Done(e) /\ Hear(e, Answered)
  /\ UNCHANGED <<outbox, cur, stage, due>>

\* An ack (594-619): passed on to every session of the replica, with the relay's version.
HearAck(m) ==
  LET c == m.as[1]
      e == IF m.as = Itself THEN [edge EXCEPT !.v = Larger(@, m.v)]
           ELSE [edge EXCEPT !.v = Larger(@, m.v), !.acked[c] = Larger(@, m.n)]
      after == Forget(e, {i \in DOMAIN e.queue : ItemOf(e.queue[i]) = <<c, m.n>>})
      told == m.as # Itself /\ cur[c] # 0
  IN  /\ Done(after)
      /\ outbox' = IF told THEN [outbox EXCEPT ![c] = {n \in @ : n > m.n}] ELSE outbox
      /\ has' = HasHeard(after, Answered)
      /\ hasv' = [d \in Clients |-> IF d \in Answered THEN after.fv
                                    ELSE IF told /\ d = c /\ hasv[c] # NoVersion
                                    THEN Larger(hasv[c], edge.fv) ELSE hasv[d]]
      /\ UNCHANGED <<cur, stage, due>>

\* A refusal of an op (632-650).
HearRefused(m) ==
  LET c == m.as[1]
      e == Forget(edge, {i \in DOMAIN edge.queue : ItemOf(edge.queue[i]) = <<c, m.n>>})
  IN  /\ Done(e) /\ Hear(e, Answered)
      /\ outbox' = IF m.as # Itself /\ cur[c] # 0 THEN [outbox EXCEPT ![c] = @ \ {m.n}] ELSE outbox
      /\ UNCHANGED <<cur, stage, due>>

\* A refusal for the rate of an op (625-631).
HearLimited(m) ==
  /\ Done([edge EXCEPT
       !.queue = [i \in DOMAIN @ |-> [@[i] EXCEPT !.sent = edge.queue[i].sent /\ edge.queue[i].as # m.as]],
       !.retry = TRUE])
  /\ UNCHANGED <<outbox, has, hasv, cur, stage, due>>

\* A client was let in (656-667).
HearAdmitted(m) ==
  /\ IF edge.grants[m.as] = "none" THEN Done(edge) /\ UNCHANGED due
     ELSE /\ Done(SendQueue([edge EXCEPT !.grants[m.as] = "admitted",
                                         !.admitted = @ \cup {m.as[1]}], {m.as}))
          /\ due' = {m.as} \cap Waiting
  /\ UNCHANGED <<outbox, has, hasv, cur, stage>>

\* A client was refused or taken back (668-690): its session ends.
HearTurned(m) ==
  LET c == m.as[1]
      e == [edge EXCEPT !.grants[m.as] = "none", !.admitted = @ \ {c},
                        !.queue = Without(@, {i \in DOMAIN edge.queue : edge.queue[i].as = m.as})]
      here == cur[c] = m.as[2]
  IN  /\ IF edge.grants[m.as] = "none" THEN Done(edge) /\ UNCHANGED <<cur, stage>>
         ELSE /\ Done(e)
              /\ stage' = [stage EXCEPT ![m.as] = "left"]
              /\ cur' = IF here THEN [cur EXCEPT ![c] = 0] ELSE cur
      /\ UNCHANGED <<outbox, has, hasv, due>>

\* A vouch has to wait (671-677).
HearWait(m) ==
  /\ Done(IF edge.grants[m.as] = "none" THEN edge
          ELSE [edge EXCEPT !.grants[m.as] = "pending", !.revouch = @ \cup {m.as}])
  /\ UNCHANGED <<outbox, has, hasv, cur, stage, due>>

\* The store was unloaded (691-703).
HearClosed ==
  /\ LET e == SessionLost([edge EXCEPT !.reopens = TRUE]) IN Done(e) /\ Hear(e, Answered)
  /\ UNCHANGED <<outbox, cur, stage, due>>

\* A refusal that names no op, a hello's for the rate among them: it is only reported (621-624).
HearReported == UNCHANGED <<edge, up, outbox, has, hasv, cur, stage, due>>

\* fromUpstream (561-712): the next message from the server.
FromUpstream ==
  /\ due = {} /\ edge.linked /\ down # <<>>
  /\ down' = Tail(down)
  /\ LET m == Head(down)
     IN  \/ m.t = "answer" /\ HearAnswer(m)
         \/ m.t = "patch" /\ HearPatch(m)
         \/ m.t = "ack" /\ HearAck(m)
         \/ m.t = "refused" /\ HearRefused(m)
         \/ m.t = "limited" /\ HearLimited(m)
         \/ m.t = "admitted" /\ HearAdmitted(m)
         \/ m.t = "turned" /\ HearTurned(m)
         \/ m.t = "wait" /\ HearWait(m)
         \/ m.t = "reported" /\ HearReported
         \/ m.t = "closed" /\ HearClosed
  /\ UNCHANGED <<made, hello, saved, server, turns>>

-----------------------------------------------------------------------------
(* The relay's session at the server.                                      *)

version == Len(log)
Opened == [sess EXCEPT !.open = TRUE]

\* A patch goes to a session that follows the store; the rest goes to it in any case.
Downward(patches, told) ==
  down' = down \o (IF sess'.open /\ sess'.follows THEN patches ELSE <<>>) \o told

PatchesFrom(v) == [i \in 1 .. Len(log') - v |-> [t |-> "patch", v |-> v + i]]
Tells(kind, as, n) == <<[t |-> kind, as |-> as, n |-> n, v |-> Len(log')]>>

\* store.js:595.
Decided(r, n) == n <= last[r]

\* apply() of op n of the speaker as, which came live (829-845).
Apply(as, n) ==
  LET r == as[1]
  IN  \/ /\ Decided(r, n)
         /\ UNCHANGED <<log, last, void>>
         /\ Downward(<<>>, Tells("ack", as, n))
      \/ /\ ~Decided(r, n)
         /\ log' = Append(log, <<r, n>>) /\ last' = [last EXCEPT ![r] = n] /\ UNCHANGED void
         /\ Downward(PatchesFrom(version), Tells("ack", as, n))
      \/ /\ ~Decided(r, n) /\ "lose" \in Uses
         /\ void' = void \cup {<<r, n>>} /\ last' = [last EXCEPT ![r] = n] /\ UNCHANGED log
         /\ Downward(<<>>, Tells("ack", as, n))
      \/ /\ ~Decided(r, n) /\ "refuse" \in Uses
         /\ UNCHANGED <<log, last, void>>
         /\ Downward(<<>>, Tells("refused", as, n))

\* A live op turned away for the rate holds its speaker (829-839).
TurnAway(as) ==
  /\ UNCHANGED <<log, last, void>>
  /\ sess' = [Opened EXCEPT !.limited = @ \cup {as}]
  /\ Downward(<<>>, <<[t |-> "limited", as |-> as]>>)

\* liveOp (825-849), for a client vouched for or the relay itself.  A client held
\* waits its time out; the relay's session waits for its next hello.
LiveOp(m) ==
  \/ /\ m.as # Itself /\ m.as \notin sess.grants
     /\ sess' = Opened
     /\ UNCHANGED <<log, last, void, turns>>
     /\ Downward(<<>>, <<[t |-> "reported"]>>)
  \/ /\ m.as \in sess.grants \cup {Itself} /\ m.as \in sess.limited
     /\ TurnAway(m.as) /\ UNCHANGED turns
  \/ /\ m.as \in sess.grants \cup {Itself}
     /\ IF m.as = Itself THEN "limitown" \in Uses ELSE "limit" \in Uses
     /\ m.as \notin sess.limited /\ Bounded
     /\ TurnAway(m.as)
  \/ /\ m.as \in sess.grants \cup {Itself}
     /\ m.as = Itself => Itself \notin sess.limited
     /\ sess' = [Opened EXCEPT !.limited = @ \ {m.as}]
     /\ Apply(m.as, m.n)
     /\ UNCHANGED turns

\* catchUp: a delta, or a snapshot with nothing to go by (or once the log was trimmed).
AnswerFrom(v) ==
  [t |-> "answer", since |-> v, v |-> Len(log'), s |-> last'[Own]]

\* A hello (888-955): turned away for the rate; or its ops decided, and the answer
\* sent, or held until a first client is let in.
Hello(m) ==
  \/ /\ "limithello" \in Uses /\ Bounded
     /\ sess' = Opened
     /\ UNCHANGED <<log, last, void>>
     /\ Downward(<<>>, <<[t |-> "reported"]>>)
  \/ /\ UNCHANGED turns
     /\ LET fresh == {n \in m.ops : ~Decided(Own, n)}
            first == sess.grants = {}
        IN  \E refused \in IF "refuse" \in Uses THEN SUBSET fresh ELSE {{}} :
            \E lost \in IF "lose" \in Uses THEN SUBSET (fresh \ refused) ELSE {{}} :
              LET landed == Ascending(fresh \ (refused \cup lost))
                  nays == Ascending(refused)
                  acks == Ascending(m.ops \ refused)
                  said == [i \in DOMAIN nays |-> Tells("refused", Itself, nays[i])[1]]
              IN  /\ log' = log \o [i \in DOMAIN landed |-> <<Own, landed[i]>>]
                  /\ void' = void \cup {<<Own, n>> : n \in lost}
                  /\ \E n \in (fresh \ refused) \cup {last[Own]} :
                       /\ \A k \in fresh \ refused : k <= n
                       /\ last' = [last EXCEPT ![Own] = n]
                  /\ sess' = [Opened EXCEPT
                       !.greeted = TRUE, !.limited = @ \ {Itself},
                       !.follows = IF first THEN FALSE ELSE @,
                       !.asked = IF first THEN <<m.since>> ELSE @]
                  /\ Downward(PatchesFrom(version), said \o
                       IF first THEN [i \in DOMAIN acks |-> Tells("ack", Itself, acks[i])[1]]
                       ELSE <<AnswerFrom(m.since)>>)

\* vouchFor (hub.js 113-133): the checks begin, but for those that have to wait.
Vouched(m) ==
  \E wait \in {{}} \cup IF "limitvouch" \in Uses /\ turns < MaxTurns THEN SUBSET m.as ELSE {} :
    /\ turns' = IF wait = {} THEN turns ELSE turns + 1
    /\ sess' = [Opened EXCEPT !.checks = @ \cup (m.as \ wait)]
    /\ UNCHANGED <<log, last, void>>
    /\ \E f \in [1 .. Cardinality(wait) -> wait] :
         /\ \A i, j \in DOMAIN f : i # j => f[i] # f[j]
         /\ Downward(<<>>, [i \in DOMAIN f |-> [t |-> "wait", as |-> f[i]]])

\* ungrant (1024-1029).
Ungrant(m) ==
  /\ sess' = [Opened EXCEPT !.grants = @ \ {m.as}, !.limited = @ \ {m.as}]
  /\ UNCHANGED <<log, last, void, down, turns>>

\* The next message of the relay's is read; one with no session opens it (hub.js admit).
ServerReads ==
  /\ due = {} /\ edge.linked /\ up # <<>>
  /\ up' = Tail(up)
  /\ LET m == Head(up)
     IN  \/ m.t = "op" /\ LiveOp(m)
         \/ m.t = "hello" /\ Hello(m)
         \/ m.t = "vouch" /\ Vouched(m)
         \/ m.t = "leave" /\ Ungrant(m)
  /\ UNCHANGED <<client, edge, due, saved, allowed, letIn>>

\* The verdict on a client (hub.js 135-144) and its grant (979-1010): the first one
\* let in sends the answer held, before the verdict or with what waits for a commit.
Verdict(as) ==
  /\ due = {} /\ as \in sess.checks
  /\ UNCHANGED <<client, edge, due, saved, up, log, last, void, allowed, turns>>
  /\ IF as[1] \in allowed
       THEN /\ sess' = [sess EXCEPT !.checks = @ \ {as}, !.grants = @ \cup {as},
                                    !.follows = @ \/ sess.asked # <<>>, !.asked = <<>>]
            /\ letIn' = letIn \cup {as[1]}
            /\ LET answer == [i \in DOMAIN sess.asked |->
                     [t |-> "answer", since |-> sess.asked[i], v |-> version, s |-> last[Own]]]
                   verdict == <<[t |-> "admitted", as |-> as]>>
               IN  down' = down \o answer \o verdict \/ (answer # <<>> /\ down' = down \o verdict \o answer)
       ELSE /\ sess' = [sess EXCEPT !.checks = @ \ {as}]
            /\ down' = Append(down, [t |-> "turned", as |-> as])
            /\ UNCHANGED letIn

\* The server takes a client back, on each session it is granted (revoke, 1012-1022).
TakesBack(c) ==
  /\ "revoke" \in Uses /\ due = {} /\ c \in allowed /\ Bounded
  /\ allowed' = allowed \ {c}
  /\ sess' = [sess EXCEPT !.grants = {as \in @ : as[1] # c}, !.limited = {as \in @ : as[1] # c}]
  /\ LET on == Ascending({as[2] : as \in {a \in sess.grants : a[1] = c}})
     IN  down' = down \o [i \in DOMAIN on |-> [t |-> "turned", as |-> <<c, on[i]>>]]
  /\ UNCHANGED <<client, edge, due, saved, up, log, last, void, letIn>>

\* Another's op lands.
OthersWrite ==
  /\ due = {}
  /\ LET n == Cardinality({v \in 1 .. version : log[v][1] = Others})
     IN  n < MaxWrites /\ log' = Append(log, <<Others, n + 1>>)
  /\ UNCHANGED <<client, edge, due, saved, up, last, void, allowed, letIn, sess, turns>>
  /\ down' = IF sess.open /\ sess.follows THEN Append(down, [t |-> "patch", v |-> version + 1]) ELSE down

\* The store is released, or unloads itself: its session ends, the socket stays.
Unload ==
  /\ "unload" \in Uses /\ due = {} /\ sess.open /\ Bounded
  /\ sess' = NoSession
  /\ down' = Append(down, [t |-> "closed"])
  /\ UNCHANGED <<client, edge, due, saved, up, log, last, void, allowed, letIn>>

-----------------------------------------------------------------------------
(* The relay's storage.                                                    *)

Copy(e) ==
  [kept |-> TRUE, have |-> e.have, base |-> e.base, v |-> e.v, fv |-> e.fv,
   ownSeq |-> e.ownSeq, own |-> Without(e.queue, {i \in DOMAIN e.queue : e.queue[i].as # Itself}),
   admitted |-> e.admitted]

NoCopy ==
  [kept |-> FALSE, have |-> FALSE, base |-> {}, v |-> 0, fv |-> 0, ownSeq |-> 0, own |-> <<>>,
   admitted |-> {}]

\* The copy reaches storage (persist 302-342; storage.js flush).  Bound: once, before a
\* crash: only the last copy that did matters to it.
Save ==
  /\ "crash" \in Uses /\ due = {} /\ ~saved.kept /\ turns < MaxTurns
  /\ saved' = Copy(edge)
  /\ UNCHANGED <<client, edge, due, up, down, server, turns>>

\* makeEdge (221-263) from what storage has.
Loaded(copy) ==
  [have |-> copy.have, base |-> copy.base, v |-> copy.v, fv |-> copy.fv, log |-> <<>>,
   view |-> copy.base \cup QueuedBy(copy.own), queue |-> [i \in DOMAIN copy.own |-> [copy.own[i] EXCEPT !.sent = FALSE]],
   ownSeq |-> copy.ownSeq, acked |-> [c \in Clients |-> 0], admitted |-> copy.admitted,
   grants |-> [as \in As |-> "none"], synced |-> FALSE, linked |-> FALSE, held |-> FALSE,
   reopens |-> FALSE, retry |-> FALSE, revouch |-> {}, out |-> <<>>]

\* The relay dies and is started again, with every socket it had.
Crash ==
  /\ "crash" \in Uses /\ due = {} /\ Bounded
  /\ \A c \in Clients : cur[c] # 0 => MoreSessions(c)
  /\ edge' = Loaded(saved)
  /\ stage' = [as \in As |-> IF stage[as] = "new" THEN "new" ELSE "left"]
  /\ cur' = [c \in Clients |-> 0]
  /\ hasv' = IF saved.kept THEN hasv ELSE [c \in Clients |-> NoVersion]
  /\ up' = <<>> /\ down' = <<>> /\ sess' = NoSession
  /\ UNCHANGED <<made, outbox, has, hello, due, saved, log, last, void, allowed, letIn>>

-----------------------------------------------------------------------------
Init ==
  /\ made = [r \in Authors |-> 0]
  /\ outbox = [c \in Clients |-> {}]
  /\ has = [c \in Clients |-> {}] /\ hasv = [c \in Clients |-> NoVersion]
  /\ cur = [c \in Clients |-> 0]
  /\ stage = [as \in As |-> "new"]
  /\ hello = [as \in As |-> [ops |-> {}, since |-> NoVersion]]
  /\ edge = Loaded(NoCopy) /\ due = {} /\ saved = NoCopy
  /\ up = <<>> /\ down = <<>>
  /\ log = <<>> /\ last = [r \in Authors |-> 0] /\ void = {}
  /\ allowed = Clients /\ letIn = {} /\ sess = NoSession
  /\ turns = 0

Relaying ==
  \/ FromUpstream \/ LinkOpens \/ UpstreamUp \/ Reopens \/ Retries \/ AsksAgain
  \/ \E as \in As : TryHello(as) \/ NoticeLost(as)

Serving == ServerReads \/ \E as \in As : Verdict(as)

Next ==
  \/ \E c \in Clients : Make(c) \/ Connect(c) \/ Leave(c) \/ SocketLost(c) \/ TakesBack(c)
  \/ Relaying \/ Serving
  \/ LinkDrops \/ UpstreamDown \/ Patch \/ OthersWrite \/ Unload \/ Save \/ Crash

Spec == Init /\ [][Next]_vars

\* Either side reads what it is sent, the hooks answer, timers fire, the link and the
\* clients' sockets open again: while any of that can happen, some of it does.
Fairness == WF_vars(Relaying \/ Serving \/ \E c \in Clients : Connect(c))

FairSpec == Spec /\ Fairness

-----------------------------------------------------------------------------
(* Properties.                                                             *)

Entry == [as : Speakers, n : OpNumbers, sent : BOOLEAN]

EdgeOK ==
  /\ edge.have \in BOOLEAN /\ edge.synced \in BOOLEAN /\ edge.linked \in BOOLEAN
  /\ edge.held \in BOOLEAN /\ edge.reopens \in BOOLEAN /\ edge.retry \in BOOLEAN
  /\ edge.base \subseteq Items /\ edge.view \subseteq Items
  /\ edge.v \in Nat /\ edge.fv \in Nat /\ edge.ownSeq \in 0 .. MaxOwn
  /\ edge.queue \in Seq(Entry) /\ Len(edge.log) <= DeltaLog
  /\ edge.acked \in [Clients -> 0 .. MaxOps] /\ edge.admitted \subseteq Clients
  /\ edge.grants \in [As -> {"none", "pending", "asked", "admitted"}]
  /\ edge.revouch \subseteq As /\ edge.out = <<>>

\* The state of the relay, its clients and the server stays within its types, and
\* nothing that a handler has to send is left.
TypeOK ==
  /\ made \in [Authors -> Nat] /\ outbox \in [Clients -> SUBSET OpNumbers]
  /\ has \in [Clients -> SUBSET Items] /\ hasv \in [Clients -> Nat \cup {NoVersion}]
  /\ cur \in [Clients -> 0 .. MaxSessions]
  /\ stage \in [As -> {"new", "waits", "synced", "left"}]
  /\ EdgeOK /\ due \subseteq As
  /\ log \in Seq(Items) /\ last \in [Authors -> Nat] /\ void \subseteq Items
  /\ allowed \subseteq Clients /\ letIn \subseteq Clients
  /\ sess.grants \subseteq As /\ sess.checks \subseteq As /\ sess.limited \subseteq Speakers

Landed == {log[v] : v \in 1 .. version}

\* follower.js:309-310, docs/relays.md:103: a delta from `v' brings the copy to where
\* the server is.  The base lacks nothing up to v and has nothing the server has not.
BaseIsWhole == Merged(0, edge.v) \subseteq edge.base /\ edge.base \subseteq Landed

\* follower.js:974, docs/relays.md:29: what the relay shows is its copy with the queue
\* on top.
ViewIsCopyAndQueue == edge.view = edge.base \cup Queued(edge)

\* The same, but for what a client taken back had in the queue (680), and the relay's
\* own ops that an answer took out of it (539), whose records it may not touch.
ViewIsSettled ==
  /\ edge.base \cup Queued(edge) \subseteq edge.view
  /\ edge.view \subseteq edge.base \cup Queued(edge) \cup {i \in Items : i[1] \notin allowed}

\* docs/relays.md:36, 94: the clients on the relay stay in step: each that is answered
\* has what the relay shows.
ClientsAreInStep == \A c \in Answered : has[c] = edge.view

\* docs/relays.md:45-48: the relay reads nothing before a client of it is let in, and
\* answers none that never was (129-131).
ReadsForItsClients ==
  /\ edge.base # {} => letIn # {}
  /\ \A c \in Clients : has[c] # {} => c \in letIn

\* store.js:1020: with nothing on the link, what the relay holds for let in the server
\* still lets in.
GrantsHold ==
  edge.linked /\ down = <<>> => \A as \in As : edge.grants[as] = "admitted" => as \in sess.grants

\* No op lands twice, whichever session it came on.
LandsOnce == \A v, w \in 1 .. version : log[v] = log[w] => v = w

\* docs/relays.md:53-56: a client's outbox holds its op until the server has it, or
\* has refused it.
NothingLost ==
  [][\A c \in Clients : \A n \in outbox[c] \ outbox'[c] :
       \/ <<c, n>> \in Landed \cup void
       \/ down # <<>> /\ Head(down).t = "refused" /\ Head(down).as[1] = c /\ Head(down).n = n]_vars

\* docs/relays.md:103-106: what is queued goes up and is answered, the relay's own ops
\* and its clients'.
QueueDrains == <>[](edge.queue = <<>>)

\* docs/relays.md:55: every op of a client is decided in the end.
Drains == <>[](\A c \in Clients : outbox[c] = {})
=============================================================================
