---------------------------------- MODULE Hub ----------------------------------
(***************************************************************************)
(* Who is let in, and who is told who is there: the sockets of a server    *)
(* (src/server/bun.js), the hub of each (src/server/hub.js), the registry  *)
(* that has the stores (src/server/registry.js), and the presence that     *)
(* one store tells its sessions (src/server/store.js, and the list that    *)
(* src/client/index.js keeps).                                             *)
(*                                                                         *)
(* There is one store id.  A store loaded for it is a number, and 0 is     *)
(* none.  The hooks `authorizeId' and `authorize' answer through promises: *)
(* a check in flight has the app's verdict of when it began or of when it  *)
(* settles.  What a store says of its records is Sync.tla's: an answer     *)
(* here is one message, after which comes the list of who is there.        *)
(***************************************************************************)
EXTENDS Integers, Sequences, FiniteSets

CONSTANTS
  Clients,     \* the replicas, each another user's
  Movers,      \* bound: those that leave, share, are taken back or lose their socket
  Hooked,      \* whether the app gives `authorizeId' and `authorize'
  Uses,        \* what may happen, of AllUses below
  MaxSockets,  \* bound: sockets of a client
  MaxHellos,   \* bound: times a client attaches, 1 for each socket before included
  MaxStores,   \* bound: times the store is loaded
  MaxShares,   \* bound: what a client comes to share, 0 for nothing
  MaxTurns     \* bound: what the app and the server do of their own

\* "halfopen": a client comes back before the server knows that its socket is lost;
\* "revalidate", "disconnect": the app takes a user back, the one way or the other;
\* "close": a socket closes; "evict": a store ends a session; "sweep": an idle store is
\* released; "unload": one with sessions unloads itself, or is restored; "locked":
\* another process has the store; "leave": a client leaves, its socket open.
AllUses == {"halfopen", "revalidate", "disconnect", "close", "evict", "sweep", "unload",
            "locked", "leave"}

ASSUME HubAssumption ==
  /\ Movers \subseteq Clients /\ Hooked \in BOOLEAN /\ Uses \subseteq AllUses
  /\ MaxSockets \in Nat \ {0} /\ MaxHellos \in Nat /\ MaxStores \in Nat
  /\ MaxShares \in Nat /\ MaxTurns \in Nat

VARIABLES
  allowed,  \* the users the app's hooks let in
  judged,   \* those taken back, and judged again since
  sock,     \* of each socket: "new", "passed" (authenticated), "open", "gone"
  cl,       \* of each client on its socket: "off", "waits" (its hello is not answered),
            \* "synced", "again" (it will say hello again), "ended"
  hellos,   \* how often it attached there
  data,     \* what each client shares
  peers,    \* whom it was told of, with what they share
  inbox,    \* what it sent and the server has not read
  wire,     \* what it was sent and has not read
  pend,     \* the hub's attempt to open the store, NoAttempt for none
  tries,    \* the number of the last attempt
  checks,   \* the hooks under way
  sess,     \* the hub's session on the store, NoSession for none
  live,     \* the store the registry has
  loads,    \* the last store loaded
  noted,    \* the changes of presence not told yet
  thrown,   \* the sockets whose attempt ended in an error nobody caught
  turns     \* how often what MaxTurns bounds came up

app == <<allowed, judged, turns>>
client == <<cl, hellos, data, peers>>
hub == <<pend, tries, checks, sess>>
store == <<live, loads, noted>>
vars == <<app, sock, client, inbox, wire, hub, store, thrown>>

Sockets == Clients \X (1 .. MaxSockets)
NoAttempt == [att |-> 0, queue |-> <<>>]
NoSession == [on |-> 0, id |-> 0, joined |-> FALSE, data |-> 0]
Bounded == turns < MaxTurns /\ turns' = turns + 1

\* The app's verdict on the user of a socket.
Allows(k) == Hooked => k[1] \in allowed

-----------------------------------------------------------------------------
(* The store: its sessions, and what it tells them of each other.          *)

\* listedPeers (326-331), of these sessions.
Listed(s) == {<<k[1], s[k].data>> : k \in {j \in Sockets : s[j].on # 0 /\ s[j].joined}}

Entry(k, s, joined, left, shared) ==
  [who |-> <<k, s[k].id>>, rep |-> k[1], joined |-> joined, left |-> left, shared |-> shared]

\* noteChange (362-384).
Note(n, k, s, what) ==
  LET old == {e \in n : e.who = <<k, s[k].id>>}
      new == IF what = "leave" THEN Entry(k, s, FALSE, TRUE, FALSE)
             ELSE Entry(k, s, what = "join" \/ \E e \in old : e.joined,
                        \E e \in old : e.left, what = "share" \/ \E e \in old : e.shared)
  IN  (n \ old) \cup {new}

\* close (1030-1035) of sessions, which may have said hello.
NoteLeft(n, s, K) ==
  LET left == {k \in K : s[k].on # 0 /\ s[k].joined}
  IN  {e \in n : \A k \in left : e.who # <<k, s[k].id>>}
        \cup {Entry(k, s, FALSE, TRUE, FALSE) : k \in left}

\* The sessions that have ended, or were left (drop, 80-85).
Ended(s, K) == [k \in Sockets |-> IF k \in K THEN NoSession ELSE s[k]]

OnStore == {k \in Sockets : sess[k].on # 0}

\* flushPresence (386-407): what these entries come to when they are told.
News(n, s) ==
  LET of(e) == <<e.rep, s[e.who[1]].data>>
  IN  [t |-> "presence",
       left |-> {e.rep : e \in {x \in n : x.left}},
       joined |-> {of(e) : e \in {x \in n : ~x.left /\ x.joined}},
       shared |-> {of(e) : e \in {x \in n : ~x.left /\ ~x.joined /\ x.shared}}]

\* The flush, a turn of the event loop later, to every session there is by then.
Flush ==
  /\ noted # {}
  /\ noted' = {}
  /\ wire' = [k \in Sockets |-> IF k \in OnStore THEN Append(wire[k], News(noted, sess)) ELSE wire[k]]
  /\ UNCHANGED <<app, sock, client, inbox, hub, live, loads, thrown>>

\* What a session makes of a message: the session, the changes noted, what it is sent.
Taken(k, st, m) ==
  LET s == [st.s EXCEPT ![k].joined = TRUE]
      d == [st.s EXCEPT ![k].data = m.n]
  IN  IF m.t = "hello"
        THEN \* receive hello (894-957), the share it brought included
             LET h == [s EXCEPT ![k].data = m.n]
                 first == ~st.s[k].joined
                 list == [t |-> "peers", all |-> Listed(h)]
             IN  [s |-> h,
                  noted |-> IF first THEN Note(st.noted, k, h, "join")
                            ELSE IF h # st.s THEN Note(st.noted, k, h, "share") ELSE st.noted,
                  out |-> st.out \o <<[t |-> "answer"]>> \o IF first THEN <<list>> ELSE <<>>]
        ELSE \* receive share (958-968)
             [s |-> d, out |-> st.out,
              noted |-> IF d # st.s /\ st.s[k].joined THEN Note(st.noted, k, d, "share") ELSE st.noted]

\* deliver (147-153), one message after another.
Delivered(k, s, queue) ==
  LET heard[i \in 0 .. Len(queue)] ==
        IF i = 0 THEN [s |-> s, noted |-> noted, out |-> <<>>] ELSE Taken(k, heard[i - 1], queue[i])
  IN  heard[Len(queue)]

Deliver(k, s, queue) ==
  LET st == Delivered(k, s, queue)
  IN  sess' = st.s /\ noted' = st.noted /\ wire' = [wire EXCEPT ![k] = @ \o st.out]

-----------------------------------------------------------------------------
(* The hub of a socket.                                                    *)

\* A hook asked.  The verdict of now and the one of later are the same once the app has
\* taken back whom it will.
Check(k, att, kind, stage, on) ==
  {[k |-> k, att |-> att, kind |-> kind, stage |-> stage, on |-> on, said |-> said] :
     said \in IF Allows(k) /\ k[1] \in Movers /\ turns < MaxTurns THEN {"yes", "late"} ELSE {"late"}}

Closed(code) == [t |-> "closed", code |-> code]

\* A message the hub has no session for (admit 162-182): the first hook is asked.
Admit(k, queue) ==
  /\ tries' = [tries EXCEPT ![k] = @ + 1]
  /\ pend' = [pend EXCEPT ![k] = [att |-> tries[k] + 1, queue |-> queue]]
  /\ \E c \in Check(k, tries[k] + 1, "admit", "id", 0) : checks' = checks \cup {c}

\* A leave (256-261): the session is closed, and an attempt under way is disowned.
LeaveRead(k) ==
  /\ noted' = NoteLeft(noted, sess, {k}) /\ sess' = Ended(sess, {k})
  /\ pend' = [pend EXCEPT ![k] = NoAttempt]
  /\ UNCHANGED <<wire, tries, checks>>

\* receive (247-266): delivered, queued, or a new attempt.
HubReads(k) ==
  /\ sock[k] = "open" /\ inbox[k] # <<>>
  /\ inbox' = [inbox EXCEPT ![k] = Tail(@)]
  /\ LET m == Head(inbox[k])
     IN  \/ m.t = "leave" /\ LeaveRead(k)
         \/ /\ m.t # "leave" /\ sess[k].on # 0
            /\ Deliver(k, sess, <<m>>) /\ UNCHANGED <<pend, tries, checks>>
         \/ /\ m.t # "leave" /\ sess[k].on = 0 /\ pend[k].att # 0
            /\ pend' = [pend EXCEPT ![k].queue = Append(@, m)]
            /\ UNCHANGED <<sess, noted, wire, tries, checks>>
         \/ /\ m.t # "leave" /\ sess[k].on = 0 /\ pend[k].att = 0
            /\ Admit(k, <<m>>) /\ UNCHANGED <<sess, noted, wire>>
  /\ UNCHANGED <<app, sock, client, live, loads, thrown>>

\* mutant: whatever attempt there is by now is the one the verdict is for.
CurrentAny(c) == sock[c.k] = "open" /\ pend[c.k].att # 0

\* Whether what a verdict is for still waits for it (current 164, and 235).
Current(c) ==
  /\ sock[c.k] = "open"
  /\ IF c.kind = "admit" THEN pend[c.k].att = c.att ELSE sess[c.k].on # 0 /\ sess[c.k].id = c.att

\* The attempt ends with a word for the client (refuse 78, deny 165-168).
Refuse(k, code) ==
  /\ pend' = [pend EXCEPT ![k] = NoAttempt]
  /\ wire' = [wire EXCEPT ![k] = Append(@, Closed(code))]

\* A hook let the socket's user in, or did not.
Verdict(c) == IF c.said = "late" THEN Allows(c.k) ELSE c.said = "yes"

\* The id is allowed: the store is resolved (183-202; registry.js get 53-65), and the
\* second hook asked.
Resolved(c) ==
  \/ /\ "locked" \in Uses /\ Bounded
     /\ checks' = checks \ {c} /\ Refuse(c.k, "unavailable")
     /\ UNCHANGED <<live, loads, sess, noted, thrown>>
  \/ /\ live # 0 \/ loads < MaxStores
     /\ live' = (IF live # 0 THEN live ELSE loads + 1)
     /\ loads' = (IF live # 0 THEN loads ELSE loads + 1)
     /\ \E d \in Check(c.k, c.att, "admit", "store", live') : checks' = (checks \ {c}) \cup {d}
     /\ UNCHANGED <<pend, wire, sess, noted, thrown, turns>>

\* The store is allowed (203-206; open 87-105): its session() throws if it was disposed
\* of meanwhile, and what waited is gone with the attempt.
Opened(c) ==
  /\ checks' = checks \ {c}
  /\ pend' = [pend EXCEPT ![c.k] = NoAttempt]
  /\ IF c.on # live
       THEN thrown' = thrown \cup {c.k} /\ UNCHANGED <<sess, noted, wire>>
       ELSE /\ Deliver(c.k, [sess EXCEPT ![c.k] = [NoSession EXCEPT !.on = c.on, !.id = c.att]],
                       pend[c.k].queue)
            /\ UNCHANGED thrown
  /\ UNCHANGED <<live, loads, turns>>

\* A check begun by revalidate comes to an end (225-240).
JudgedAgain(c) ==
  IF Verdict(c)
    THEN IF c.stage = "id"
           THEN /\ \E d \in Check(c.k, c.att, "again", "store", c.on) : checks' = (checks \ {c}) \cup {d}
                /\ UNCHANGED <<wire, sess, noted>>
           ELSE checks' = checks \ {c} /\ UNCHANGED <<wire, sess, noted>>
    ELSE /\ checks' = checks \ {c}
         /\ noted' = NoteLeft(noted, sess, {c.k}) /\ sess' = Ended(sess, {c.k})
         /\ wire' = [wire EXCEPT ![c.k] = Append(@, Closed("forbidden"))]

\* A hook answers.
Settle(c) ==
  /\ c \in checks
  /\ UNCHANGED <<allowed, judged, sock, client, inbox, tries>>
  /\ \/ /\ ~Current(c)
        /\ checks' = checks \ {c}
        /\ UNCHANGED <<pend, wire, sess, store, thrown, turns>>
     \/ /\ Current(c) /\ c.kind = "again"
        /\ JudgedAgain(c)
        /\ UNCHANGED <<pend, live, loads, thrown, turns>>
     \/ /\ Current(c) /\ c.kind = "admit" /\ ~Verdict(c)
        /\ checks' = checks \ {c} /\ Refuse(c.k, "forbidden")
        /\ UNCHANGED <<sess, store, thrown, turns>>
     \/ Current(c) /\ c.kind = "admit" /\ Verdict(c) /\ c.stage = "id" /\ Resolved(c)
     \/ Current(c) /\ c.kind = "admit" /\ Verdict(c) /\ c.stage = "store" /\ Opened(c)

-----------------------------------------------------------------------------
(* What the app and the server do of their own.                            *)

Judgeable(u) == {k \in Sockets : k[1] = u /\ sock[k] = "open"}

\* mutant: an attempt under way goes on with the verdict it began with.
RevalidateOpen(u) ==
  /\ checks' = checks \cup
         {[k |-> k, att |-> sess[k].id, kind |-> "again", stage |-> "id", on |-> sess[k].on, said |-> "late"] :
            k \in Judgeable(u) \cap OnStore}
  /\ UNCHANGED <<pend, tries, wire, sess, noted, sock, inbox, cl, peers>>

\* revalidate (220-244) of the sockets of u: an attempt under way starts over, an open
\* session is judged where it is.
Revalidate(u) ==
  LET again == {k \in Judgeable(u) : pend[k].att # 0}
      open == Judgeable(u) \cap OnStore
  IN  /\ tries' = [k \in Sockets |-> IF k \in again THEN tries[k] + 1 ELSE tries[k]]
      /\ pend' = [k \in Sockets |-> IF k \in again THEN [pend[k] EXCEPT !.att = tries[k] + 1] ELSE pend[k]]
      /\ checks' = checks
             \cup {[k |-> k, att |-> tries[k] + 1, kind |-> "admit", stage |-> "id", on |-> 0, said |-> "late"] : k \in again}
             \cup {[k |-> k, att |-> sess[k].id, kind |-> "again", stage |-> "id", on |-> sess[k].on, said |-> "late"] : k \in open}
      /\ UNCHANGED <<wire, sess, noted, sock, inbox, cl, peers>>

\* reauthenticate (bun.js 413-422), or the close of a socket (338-348): the hub is closed,
\* and the client's end of it.
HangUp(K) ==
  /\ sock' = [k \in Sockets |-> IF k \in K THEN "gone" ELSE sock[k]]
  /\ noted' = NoteLeft(noted, sess, K) /\ sess' = Ended(sess, K)
  /\ pend' = [k \in Sockets |-> IF k \in K THEN NoAttempt ELSE pend[k]]
  /\ inbox' = [k \in Sockets |-> IF k \in K THEN <<>> ELSE inbox[k]]
  /\ wire' = [k \in Sockets |-> IF k \in K THEN <<>> ELSE wire[k]]
  /\ cl' = [k \in Sockets |-> IF k \in K THEN "off" ELSE cl[k]]
  /\ peers' = [k \in Sockets |-> IF k \in K THEN {} ELSE peers[k]]
  /\ UNCHANGED <<tries, checks>>

\* The app takes a user back: what its hooks answer changes, and it has the server judge
\* the user's sessions again (revalidate 428-434), or end them (disconnect 389-410).
TakesBack(u) ==
  /\ u \in allowed \cap Movers /\ Bounded
  /\ allowed' = allowed \ {u} /\ judged' = judged \cup {u}
  /\ \/ "revalidate" \in Uses /\ Revalidate(u)
     \/ "disconnect" \in Uses /\ HangUp(Judgeable(u))
  /\ UNCHANGED <<hellos, data, live, loads, thrown>>

\* A store ends a session for good (closeSessions 1049-1070).
Evict(k) ==
  /\ k[1] \in Movers /\ "evict" \in Uses /\ sess[k].on # 0 /\ Bounded
  /\ wire' = [wire EXCEPT ![k] = Append(@, Closed("evicted"))]
  /\ noted' = NoteLeft(noted, sess, {k}) /\ sess' = Ended(sess, {k})
  /\ UNCHANGED <<allowed, judged, sock, client, inbox, pend, tries, checks, live, loads, thrown>>

\* A store with no session is released (sweep 123-138, release 113-121).
Sweep ==
  /\ "sweep" \in Uses /\ live # 0 /\ OnStore = {} /\ loads < MaxStores
  /\ live' = 0 /\ noted' = {}
  /\ UNCHANGED <<app, sock, client, inbox, wire, hub, loads, thrown>>

\* A store with sessions ends (dispose 1179-1204): one that could not save, or one
\* restored (registry.js 97-112).
Unload ==
  /\ "unload" \in Uses /\ live # 0 /\ loads < MaxStores /\ Bounded
  /\ wire' = [k \in Sockets |-> IF k \in OnStore THEN Append(wire[k], Closed("unavailable")) ELSE wire[k]]
  /\ sess' = Ended(sess, OnStore)
  /\ live' = 0 /\ noted' = {}
  /\ UNCHANGED <<allowed, judged, sock, client, inbox, pend, tries, checks, loads, thrown>>

-----------------------------------------------------------------------------
(* The sockets and the clients.                                            *)

\* A client may attach once more, on this socket or the next (a bound).
Again(k) == hellos[k] + k[2] <= MaxHellos

\* The socket before this one is over for the server, or, half-open, for the client.
Before(k) ==
  \A j \in Sockets : j[1] = k[1] /\ j[2] < k[2] =>
    sock[j] = "gone" \/ ("halfopen" \in Uses /\ sock[j] = "open")

\* upgrade (bun.js 236-246): `authenticate' judges the request, a promise as well.
Handshake(k) ==
  /\ sock[k] = "new" /\ Before(k)
  /\ sock' = [sock EXCEPT ![k] = IF k[1] \in allowed THEN "passed" ELSE "gone"]
  /\ UNCHANGED <<app, client, inbox, wire, hub, store, thrown>>

Hello(k) == [t |-> "hello", n |-> data[k[1]]]

\* The socket opens (309-318), and the client says hello.
SocketOpens(k) ==
  /\ sock[k] = "passed"
  /\ sock' = [sock EXCEPT ![k] = "open"]
  /\ cl' = [cl EXCEPT ![k] = "waits"] /\ hellos' = [hellos EXCEPT ![k] = 1]
  /\ inbox' = [inbox EXCEPT ![k] = <<Hello(k)>>]
  /\ UNCHANGED <<app, data, peers, wire, hub, store, thrown>>

\* A socket closes (338-348): it is lost, or its session runs out (313-317).
SocketCloses(k) ==
  /\ k[1] \in Movers /\ "close" \in Uses /\ sock[k] = "open" /\ Again(k) /\ Bounded
  /\ HangUp({k})
  /\ UNCHANGED <<allowed, judged, hellos, data, live, loads, thrown>>

\* A client leaves the store, its socket open (detach).
Detach(k) ==
  /\ k[1] \in Movers /\ "leave" \in Uses /\ cl[k] \in {"waits", "synced"} /\ Again(k)
  /\ cl' = [cl EXCEPT ![k] = "off"] /\ peers' = [peers EXCEPT ![k] = {}]
  /\ inbox' = [inbox EXCEPT ![k] = Append(@, [t |-> "leave"])]
  /\ UNCHANGED <<app, sock, hellos, data, wire, hub, store, thrown>>

\* And comes back to it (attach).
Attach(k) ==
  /\ sock[k] = "open" /\ cl[k] = "off" /\ Again(k)
  /\ cl' = [cl EXCEPT ![k] = "waits"] /\ hellos' = [hellos EXCEPT ![k] = @ + 1]
  /\ inbox' = [inbox EXCEPT ![k] = Append(@, Hello(k))]
  /\ UNCHANGED <<app, sock, data, peers, wire, hub, store, thrown>>

\* The timer after `unavailable' (retryHello).
SaysAgain(k) ==
  /\ cl[k] = "again"
  /\ cl' = [cl EXCEPT ![k] = "waits"]
  /\ inbox' = [inbox EXCEPT ![k] = Append(@, Hello(k))]
  /\ UNCHANGED <<app, sock, hellos, data, peers, wire, hub, store, thrown>>

\* share: sent at once, answered or not, and with every hello.
Share(k) ==
  /\ k[1] \in Movers /\ cl[k] \in {"waits", "synced"} /\ data[k[1]] < MaxShares
  /\ data' = [data EXCEPT ![k[1]] = @ + 1]
  /\ inbox' = [inbox EXCEPT ![k] = Append(@, [t |-> "share", n |-> data[k[1]] + 1])]
  /\ UNCHANGED <<app, sock, cl, hellos, peers, wire, hub, store, thrown>>

\* mutant: who joined is added before who left is taken away.
AppliedLeftLast(list, m) ==
  IF m.t = "peers" THEN m.all
  ELSE LET with == {p \in list : \A q \in m.joined \cup m.shared : q[1] # p[1]} \cup m.joined
                     \cup {q \in m.shared : \E p \in list : p[1] = q[1]}
       IN  {p \in with : p[1] \notin m.left}

\* applyPresence (client/index.js 368-397).
Applied(list, m) ==
  IF m.t = "peers" THEN m.all
  ELSE LET kept == {p \in list : p[1] \notin m.left}
           with == {p \in kept : \A q \in m.joined : q[1] # p[1]} \cup m.joined
       IN  {p \in with : \A q \in m.shared : q[1] # p[1]}
             \cup {q \in m.shared : \E p \in with : p[1] = q[1]}

\* mutant: the hello is not said again.
HearUnavailableIdle(k) ==
  /\ cl' = [cl EXCEPT ![k] = "waits"] /\ peers' = [peers EXCEPT ![k] = {}] /\ UNCHANGED inbox

\* closed, and not for good (client/index.js 582-591).
HearUnavailable(k) ==
  /\ cl' = [cl EXCEPT ![k] = "again"] /\ peers' = [peers EXCEPT ![k] = {}] /\ UNCHANGED inbox

\* handle: the client reads what it was sent; one that has left hears nothing.
ClientHears(k) ==
  /\ wire[k] # <<>>
  /\ wire' = [wire EXCEPT ![k] = Tail(@)]
  /\ LET m == Head(wire[k])
         there == cl[k] \in {"waits", "synced", "again"}
     IN  \/ /\ ~there /\ UNCHANGED <<cl, peers, inbox>>
         \/ /\ there /\ m.t = "answer"
            /\ cl' = [cl EXCEPT ![k] = IF @ = "again" THEN "again" ELSE "synced"]
            /\ UNCHANGED <<peers, inbox>>
         \/ /\ there /\ m.t \in {"peers", "presence"}
            /\ peers' = [peers EXCEPT ![k] = Applied(@, m)] /\ UNCHANGED <<cl, inbox>>
         \/ there /\ m.t = "closed" /\ m.code = "unavailable" /\ HearUnavailable(k)
         \/ /\ there /\ m.t = "closed" /\ m.code # "unavailable"
            /\ cl' = [cl EXCEPT ![k] = "ended"] /\ peers' = [peers EXCEPT ![k] = {}]
            /\ inbox' = [inbox EXCEPT ![k] = Append(@, [t |-> "leave"])]
  /\ UNCHANGED <<app, sock, hellos, data, hub, store, thrown>>

-----------------------------------------------------------------------------
Init ==
  /\ allowed = Clients /\ judged = {} /\ turns = 0
  /\ sock = [k \in Sockets |-> "new"]
  /\ cl = [k \in Sockets |-> "off"] /\ hellos = [k \in Sockets |-> 0]
  /\ data = [u \in Clients |-> 0] /\ peers = [k \in Sockets |-> {}]
  /\ inbox = [k \in Sockets |-> <<>>] /\ wire = [k \in Sockets |-> <<>>]
  /\ pend = [k \in Sockets |-> NoAttempt] /\ tries = [k \in Sockets |-> 0] /\ checks = {}
  /\ sess = [k \in Sockets |-> NoSession]
  /\ live = 0 /\ loads = 0 /\ noted = {} /\ thrown = {}

Working ==
  \/ Flush
  \/ \E k \in Sockets : HubReads(k) \/ ClientHears(k) \/ SaysAgain(k)
  \/ \E c \in checks : Settle(c)

Next ==
  \/ Working
  \/ \E u \in Clients : TakesBack(u)
  \/ \E k \in Sockets : Handshake(k) \/ SocketOpens(k) \/ SocketCloses(k) \/ Evict(k)
                          \/ Detach(k) \/ Attach(k) \/ Share(k)
  \/ Sweep \/ Unload

Spec == Init /\ [][Next]_vars

\* Messages are read, hooks answer, the turn of the event loop and the timers come: while
\* any of that can happen, some of it does.
FairSpec == Spec /\ WF_vars(Working)

-----------------------------------------------------------------------------
(* Properties.                                                             *)

\* The sockets, the clients, the hub and the store stay within their types.
TypeOK ==
  /\ allowed \subseteq Clients /\ judged \subseteq Clients
  /\ sock \in [Sockets -> {"new", "passed", "open", "gone"}]
  /\ cl \in [Sockets -> {"off", "waits", "synced", "again", "ended"}]
  /\ \A k \in Sockets : peers[k] \subseteq Clients \X (0 .. MaxShares)
  /\ \A k \in Sockets : pend[k].att \in 0 .. tries[k] /\ (pend[k].att = 0 <=> pend[k].queue = <<>>)
  /\ \A c \in checks : c.k \in Sockets /\ c.att \in 1 .. tries[c.k] /\ c.on \in 0 .. loads
  /\ \A k \in Sockets : sess[k].on \in {0, live} /\ (sess[k].on # 0 => pend[k].att = 0 /\ sock[k] = "open")
  /\ live \in {0, loads} /\ \A e \in noted : e.rep \in Clients

\* hub.js:211-218, docs/auth.md:48: once a user was taken back and the hooks asked again
\* have answered, no session is the user's, whatever was under way when it began.
TakenBackIsOut ==
  \A u \in judged : (\A c \in checks : c.k[1] # u) => \A k \in OnStore : k[1] # u

\* hub.js:159-161: a client that left has no session once its leave was read, whatever
\* was under way.
LeftIsOut ==
  \A k \in Sockets : cl[k] = "off" /\ inbox[k] = <<>> => sess[k].on = 0 /\ pend[k].att = 0

\* docs/auth.md:199: with nothing on its way, whoever the store greeted has the list of the
\* sessions that are on the store, and of what they share.
PeersAgree ==
  noted = {} => \A k \in OnStore :
    sess[k].joined /\ wire[k] = <<>> /\ cl[k] = "synced" /\ inbox[k] = <<>> => peers[k] = Listed(sess)

\* hub.js:155-161, 185-187: every hello is answered or refused in the end, but for those
\* of an attempt that ended in an error (`thrown').
HellosAreAnswered == <>[](\A k \in Sockets : cl[k] = "waits" => k \in thrown)

\* hub.js:157: no attempt is thrown away, with the messages that wait for it.
NoneThrown == thrown = {}
=============================================================================
