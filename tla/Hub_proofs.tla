------------------------------ MODULE Hub_proofs ------------------------------
(***************************************************************************)
(* Proofs about Hub.tla, for any number of clients, sockets, hellos and    *)
(* stores, and whatever may happen: a user taken back is out once the      *)
(* hooks asked again have answered, and a client that left is out once its *)
(* leave was read.  As long as no store is let go of while a hook is asked *)
(* about it, no attempt is thrown away.  As long as a client comes back    *)
(* after the server knows that it was gone, whoever was greeted comes to   *)
(* have the list of who is there.                                          *)
(***************************************************************************)
EXTENDS Hub, SequenceTheorems, WellFoundedInduction, TLAPS

\* What a client says, and what of it waits for a session.
Asks == [t : {"hello", "share"}, n : Nat]
Says == Asks \cup [t : {"leave"}]
Attempts == [att : Nat, queue : Seq(Asks)]
Sessions == [on : Nat, id : Nat, joined : BOOLEAN, data : Nat]
Checks == [k : Sockets, att : Nat, kind : {"admit", "again"}, stage : {"id", "store"},
           on : Nat, said : {"yes", "late"}]

\* The types of what decides who has a session.
Types ==
  /\ allowed \subseteq Clients /\ judged \subseteq Clients
  /\ sock \in [Sockets -> {"new", "passed", "open", "gone"}]
  /\ cl \in [Sockets -> {"off", "waits", "synced", "again", "ended"}]
  /\ data \in [Clients -> Nat]
  /\ inbox \in [Sockets -> Seq(Says)]
  /\ pend \in [Sockets -> Attempts] /\ tries \in [Sockets -> Nat]
  /\ checks \subseteq Checks
  /\ sess \in [Sockets -> Sessions]
  /\ live \in Nat /\ loads \in Nat

\* Attempts are numbered as they are begun, and an attempt or a session is of an open socket.
Numbered ==
  /\ \A k \in Sockets : pend[k].att <= tries[k]
  /\ \A k \in Sockets : pend[k].att # 0 \/ sess[k].on # 0 => sock[k] = "open"
  /\ \A c \in checks : c.kind = "admit" => c.att # 0 /\ c.att <= tries[c.k]

\* A user that was taken back is not let in again, and only such a user is judged again.
Outside ==
  /\ judged \cap allowed = {}
  /\ \A c \in checks : c.kind = "again" => c.k[1] \in judged

\* A verdict that still counts for a user taken back is one of after that, if hooks judge.
JudgedLate == Hooked => \A c \in checks : c.k[1] \in judged /\ Current(c) => c.said = "late"

\* A session of a user taken back is being judged again.
Watched ==
  Hooked => \A k \in OnStore : k[1] \in judged =>
    \E c \in checks : c.k = k /\ c.kind = "again" /\ c.att = sess[k].id

\* The inductive invariant.
Kept == Types /\ Numbered /\ Outside /\ JudgedLate /\ Watched

\* A client that left has said so last, or has nothing at the hub.
Parted ==
  \A k \in Sockets : cl[k] \in {"off", "ended"} =>
    IF inbox[k] = <<>> THEN sess[k].on = 0 /\ pend[k].att = 0
    ELSE inbox[k][Len(inbox[k])].t = "leave"

\* The second hook is asked about the store there is, which stays.
Resolves ==
  thrown = {} /\ \A c \in checks : c.kind = "admit" /\ c.stage = "store" => live # 0 /\ c.on = live

-----------------------------------------------------------------------------
(* The operators of the model.                                             *)

\* A set of numbers has a smallest.
LEMMA SmallestOf ==
  ASSUME NEW S \in SUBSET Nat, S # {}
  PROVE  \E x \in S : \A y \in S : x <= y
  <1> DEFINE R == {p \in Nat \X Nat : p[1] < p[2]}
  <1>1. IsWellFoundedOn(R, Nat)
    BY NatLessThanWellFounded, Zenon DEF OpToRel
  <1> HIDE DEF R
  <1>2. PICK x \in S : \A y \in S : ~(<<y, x>> \in R)
    BY <1>1, WFMin
  <1>3. ASSUME NEW y \in S PROVE x <= y
    <2>1. <<y, x>> \notin R
      BY <1>2
    <2>2. x \in Nat /\ y \in Nat
      OBVIOUS
    <2> QED BY <2>1, <2>2 DEF R
  <1> QED BY <1>3

\* The sessions keep what tells one from another.
Same(s, t) ==
  /\ t \in [Sockets -> Sessions]
  /\ \A j \in Sockets : t[j].on = s[j].on /\ t[j].id = s[j].id

\* A message changes nothing of a session but who it is of, and what is shared.
LEMMA TakenKeeps ==
  ASSUME NEW k \in Sockets, NEW st, st.s \in [Sockets -> Sessions], NEW m \in Asks
  PROVE  Same(st.s, Taken(k, st, m).s)
  <1> DEFINE s == [st.s EXCEPT ![k].joined = TRUE]
             d == [st.s EXCEPT ![k].data = m.n]
             h == [s EXCEPT ![k].data = m.n]
  <1>1. Same(st.s, s) /\ Same(st.s, d)
    BY DEF Same, Sessions, Asks
  <1>2. Same(st.s, h)
    <2> HIDE DEF s
    <2> QED BY <1>1 DEF Same, Sessions, Asks
  <1>3. Taken(k, st, m).s = h \/ Taken(k, st, m).s = d
    BY DEF Taken
  <1> HIDE DEF h, d
  <1> QED BY <1>1, <1>2, <1>3

\* What a queue comes to, message by message.
Heard(f, k, s, q, n) ==
  f = [i \in 0 .. n |-> IF i = 0 THEN [s |-> s, noted |-> noted, out |-> <<>>] ELSE Taken(k, f[i - 1], q[i])]

\* A queue comes to something.
LEMMA HeardExists ==
  ASSUME NEW k, NEW s, NEW q, NEW n \in Nat
  PROVE  \E f : Heard(f, k, s, q, n)
  <1> DEFINE T == {m \in Nat : ~\E f : Heard(f, k, s, q, m)}
  <1> SUFFICES ASSUME T # {} PROVE FALSE
    OBVIOUS
  <1>1. PICK m \in T : \A y \in T : m <= y
    <2> HIDE DEF T
    <2>1. T \subseteq Nat
      BY DEF T
    <2> QED BY <2>1, SmallestOf
  <1>2. m # 0
    <2>1. Heard([i \in 0 .. 0 |-> [s |-> s, noted |-> noted, out |-> <<>>]], k, s, q, 0)
      BY DEF Heard
    <2> QED BY <2>1
  <1>3. m \in Nat /\ m - 1 \in Nat /\ m - 1 \notin T
    BY <1>1, <1>2
  <1>4. PICK g : Heard(g, k, s, q, m - 1)
    BY <1>3
  <1> DEFINE G == [i \in 0 .. m |-> IF i = 0 THEN [s |-> s, noted |-> noted, out |-> <<>>] ELSE Taken(k, g[i - 1], q[i])]
  <1>5. \A i \in 0 .. m - 1 : G[i] = g[i]
    BY <1>3, <1>4 DEF Heard
  <1>6. \A i \in 0 .. m : i # 0 => G[i - 1] = g[i - 1]
    <2> SUFFICES ASSUME NEW i \in 0 .. m, i # 0 PROVE G[i - 1] = g[i - 1]
      OBVIOUS
    <2>1. i - 1 \in 0 .. m - 1
      BY <1>3
    <2> QED BY <1>5, <2>1
  <1>7. Heard(G, k, s, q, m)
    BY <1>6 DEF Heard
  <1> QED BY <1>1, <1>7

\* Nothing that waited changes whose session it is (hub.js:147-153).
LEMMA DeliveredKeeps ==
  ASSUME NEW k \in Sockets, NEW s \in [Sockets -> Sessions], NEW q \in Seq(Asks)
  PROVE  Same(s, Delivered(k, s, q).s)
  <1> DEFINE n == Len(q)
             f == CHOOSE g : Heard(g, k, s, q, n)
  <1>1. n \in Nat
    OBVIOUS
  <1>2. Heard(f, k, s, q, n)
    <2> HIDE DEF n
    <2> QED BY <1>1, HeardExists
  <1>3. Delivered(k, s, q) = f[n]
    BY DEF Delivered, Heard
  <1> HIDE DEF f
  <1> DEFINE T == {i \in 0 .. n : ~Same(s, f[i].s)}
  <1>4. T = {}
    <2> SUFFICES ASSUME T # {} PROVE FALSE
      OBVIOUS
    <2>1. PICK i \in T : \A y \in T : i <= y
      <3>1. T \subseteq Nat
        OBVIOUS
      <3> HIDE DEF T
      <3> QED BY <3>1, SmallestOf
    <2>2. i # 0
      <3>1. f[0] = [s |-> s, noted |-> noted, out |-> <<>>]
        BY <1>1, <1>2 DEF Heard
      <3>2. Same(s, f[0].s)
        BY <3>1 DEF Same
      <3> QED BY <2>1, <3>2
    <2>3. i \in 1 .. n /\ i - 1 \in 0 .. n /\ i - 1 \notin T
      BY <1>1, <2>1, <2>2
    <2>4. f[i] = Taken(k, f[i - 1], q[i])
      BY <1>2, <2>3 DEF Heard
    <2>5. q[i] \in Asks
      BY <2>3, ElementOfSeq
    <2>6. Same(s, f[i - 1].s)
      BY <2>3
    <2>7. Same(f[i - 1].s, f[i].s)
      <3>1. f[i - 1].s \in [Sockets -> Sessions]
        BY <2>6 DEF Same
      <3> QED BY <2>4, <2>5, <3>1, TakenKeeps
    <2>8. Same(s, f[i].s)
      BY <2>6, <2>7 DEF Same
    <2> QED BY <2>1, <2>8
  <1>5. n \in 0 .. n
    BY <1>1
  <1> HIDE DEF n
  <1> QED BY <1>3, <1>4, <1>5

\* What a hook asked now may say.
LEMMA CheckShape ==
  ASSUME NEW k, NEW att, NEW kind, NEW stage, NEW on, NEW c \in Check(k, att, kind, stage, on)
  PROVE  /\ c.k = k /\ c.att = att /\ c.kind = kind /\ c.stage = stage /\ c.on = on
         /\ c = [k |-> k, att |-> att, kind |-> kind, stage |-> stage, on |-> on, said |-> c.said]
         /\ c.said \in {"yes", "late"}
         /\ ~Allows(k) => c.said = "late"
  BY DEF Check

\* A user taken back is not allowed.
LEMMA OutsideIsRefused ==
  ASSUME Hooked, Outside, NEW k \in Sockets, k[1] \in judged
  PROVE  ~Allows(k)
  BY DEF Outside, Allows

-----------------------------------------------------------------------------
(* A user taken back is out.                                               *)

\* A step that lets nobody in and asks no hook: attempts and sessions stay or end.
Quieter ==
  /\ UNCHANGED <<allowed, judged, tries>>
  /\ checks' \subseteq checks
  /\ \A k \in Sockets :
       /\ pend'[k].att = 0 \/ pend'[k].att = pend[k].att
       /\ sess'[k].on = 0 \/ (sess'[k].on = sess[k].on /\ sess'[k].id = sess[k].id)
       /\ pend'[k].att # 0 \/ sess'[k].on # 0 => sock'[k] = "open"
  /\ Hooked => \A c \in checks \ checks' : ~Current(c)'

\* Such a step keeps what is claimed of users taken back.
LEMMA QuieterKeeps ==
  ASSUME Kept, Types', Quieter
  PROVE  Kept'
  <1>1. Numbered'
    <2>1. \A k \in Sockets : pend'[k].att <= tries'[k]
      <3> SUFFICES ASSUME NEW k \in Sockets PROVE pend'[k].att <= tries'[k]
        OBVIOUS
      <3>1. pend[k].att <= tries[k] /\ tries[k] \in Nat
        BY DEF Kept, Types, Numbered
      <3>2. tries' = tries /\ (pend'[k].att = 0 \/ pend'[k].att = pend[k].att)
        BY DEF Quieter
      <3> QED BY <3>1, <3>2
    <2>2. \A k \in Sockets : pend'[k].att # 0 \/ sess'[k].on # 0 => sock'[k] = "open"
      BY DEF Quieter
    <2>3. \A c \in checks' : c.kind = "admit" => c.att # 0 /\ c.att <= tries'[c.k]
      BY DEF Kept, Quieter, Numbered
    <2> QED BY <2>1, <2>2, <2>3 DEF Numbered
  <1>2. Outside'
    BY DEF Kept, Quieter, Outside
  <1>3. ASSUME NEW c \in checks', Current(c)' PROVE Current(c)
    <2>1. c.k \in Sockets /\ c.kind \in {"admit", "again"} /\ c \in checks
      BY DEF Kept, Types, Quieter, Checks
    <2>2. CASE c.kind = "admit"
      <3>1. pend'[c.k].att = c.att /\ c.att # 0
        BY <1>3, <2>1, <2>2 DEF Current, Kept, Numbered
      <3>2. pend[c.k].att = c.att
        BY <2>1, <3>1 DEF Quieter
      <3> QED BY <2>1, <2>2, <3>1, <3>2 DEF Kept, Numbered, Current
    <2>3. CASE c.kind = "again"
      <3>1. sess'[c.k].on # 0 /\ sess'[c.k].id = c.att
        BY <1>3, <2>3 DEF Current
      <3>2. sess[c.k].on # 0 /\ sess[c.k].id = c.att
        BY <2>1, <3>1 DEF Quieter
      <3> QED BY <2>1, <2>3, <3>2 DEF Kept, Numbered, Current
    <2> QED BY <2>1, <2>2, <2>3
  <1>4. JudgedLate'
    BY <1>3 DEF Kept, Quieter, JudgedLate
  <1>5. Watched'
    <2> SUFFICES ASSUME Hooked, NEW k \in Sockets, sess'[k].on # 0, k[1] \in judged'
                 PROVE  \E c \in checks' : c.k = k /\ c.kind = "again" /\ c.att = sess'[k].id
      BY DEF Watched, OnStore
    <2>1. sess[k].on # 0 /\ sess'[k].id = sess[k].id /\ k[1] \in judged
      BY DEF Quieter
    <2>2. PICK c \in checks : c.k = k /\ c.kind = "again" /\ c.att = sess[k].id
      BY <2>1 DEF Kept, Watched, OnStore
    <2>3. Current(c)'
      BY <1>1, <2>1, <2>2 DEF Current, Numbered
    <2> QED BY <2>1, <2>2, <2>3 DEF Quieter
  <1> QED BY <1>1, <1>2, <1>4, <1>5 DEF Kept

\* A sequence loses its first and keeps its elements.
LEMMA TailKeeps ==
  ASSUME NEW S, NEW q \in Seq(S), q # <<>>
  PROVE  Head(q) \in S /\ Tail(q) \in Seq(S)
  OBVIOUS

\* What the sessions that end come to.
LEMMA EndedShape ==
  ASSUME NEW s \in [Sockets -> Sessions], NEW K
  PROVE  /\ Ended(s, K) \in [Sockets -> Sessions]
         /\ \A k \in Sockets : IF k \in K THEN Ended(s, K)[k].on = 0 ELSE Ended(s, K)[k] = s[k]
  BY DEF Ended, NoSession, Sessions

\* No attempt is one of its type.
LEMMA NoAttemptShape == NoAttempt \in Attempts /\ NoAttempt.att = 0
  BY DEF NoAttempt, Attempts

\* What the clients do, and what is sent to them, lets nobody in: the claims are about
\* the hub alone.
LEMMA ClientKeeps ==
  ASSUME Kept, NEW k \in Sockets,
         ClientHears(k) \/ SaysAgain(k) \/ Detach(k) \/ Attach(k) \/ Share(k)
  PROVE  Kept'
  <1>1. UNCHANGED <<allowed, judged, sock, hub, live, loads>>
    BY DEF ClientHears, SaysAgain, Detach, Attach, Share, app, store, hub
  <1>2. Quieter
    BY <1>1 DEF Kept, Numbered, Quieter, hub
  <1>3. k[1] \in Clients
    BY DEF Sockets
  <1>4. /\ cl' \in [Sockets -> {"off", "waits", "synced", "again", "ended"}]
        /\ data' \in [Clients -> Nat] /\ inbox' \in [Sockets -> Seq(Says)]
    <2>1. inbox \in [Sockets -> Seq(Says)] /\ data \in [Clients -> Nat]
          /\ cl \in [Sockets -> {"off", "waits", "synced", "again", "ended"}]
      BY DEF Kept, Types
    <2>2. [t |-> "leave"] \in Says /\ Hello(k) \in Says /\ [t |-> "share", n |-> data[k[1]] + 1] \in Says
      BY <1>3, <2>1 DEF Says, Asks, Hello
    <2>3. ASSUME NEW m \in Says PROVE [inbox EXCEPT ![k] = Append(@, m)] \in [Sockets -> Seq(Says)]
      BY <2>1
    <2>4. CASE ClientHears(k)
      <3>1. data' = data /\ (inbox' = inbox \/ inbox' = [inbox EXCEPT ![k] = Append(@, [t |-> "leave"])])
        BY <2>4 DEF ClientHears, HearUnavailable
      <3>2. cl' \in [Sockets -> {"off", "waits", "synced", "again", "ended"}]
        BY <2>1, <2>4 DEF ClientHears, HearUnavailable
      <3> QED BY <2>1, <2>2, <2>3, <3>1, <3>2
    <2>5. CASE SaysAgain(k) \/ Attach(k)
      BY <2>1, <2>2, <2>3, <2>5 DEF SaysAgain, Attach
    <2>6. CASE Detach(k)
      BY <2>1, <2>2, <2>3, <2>6 DEF Detach
    <2>7. CASE Share(k)
      <3>1. data' \in [Clients -> Nat]
        BY <1>3, <2>1, <2>7 DEF Share
      <3>2. cl' = cl /\ inbox' = [inbox EXCEPT ![k] = Append(@, [t |-> "share", n |-> data[k[1]] + 1])]
        BY <2>7 DEF Share
      <3> QED BY <2>1, <2>2, <2>3, <3>1, <3>2
    <2> QED BY <2>4, <2>5, <2>6, <2>7
  <1>5. Types'
    BY <1>1, <1>4 DEF Kept, Types, hub
  <1> QED BY <1>2, <1>5, QuieterKeeps

\* A socket is judged as it is asked for, and opens with nothing begun.
LEMMA OpensKeeps ==
  ASSUME Kept, NEW k \in Sockets, Handshake(k) \/ SocketOpens(k)
  PROVE  Kept'
  <1>1. UNCHANGED <<allowed, judged, data, hub, live, loads>>
    BY DEF Handshake, SocketOpens, app, client, store, hub
  <1>2. sock[k] # "open" /\ sock' \in [Sockets -> {"new", "passed", "open", "gone"}]
        /\ \A j \in Sockets : sock[j] = "open" => sock'[j] = "open"
    BY DEF Handshake, SocketOpens, Kept, Types
  <1>3. Quieter
    BY <1>1, <1>2 DEF Kept, Numbered, Quieter, hub
  <1>4. cl' \in [Sockets -> {"off", "waits", "synced", "again", "ended"}] /\ inbox' \in [Sockets -> Seq(Says)]
    <2>1. inbox \in [Sockets -> Seq(Says)] /\ data \in [Clients -> Nat]
          /\ cl \in [Sockets -> {"off", "waits", "synced", "again", "ended"}]
      BY DEF Kept, Types
    <2>2. <<Hello(k)>> \in Seq(Says)
      BY <2>1 DEF Says, Asks, Hello, Sockets
    <2>3. (cl' = cl /\ inbox' = inbox) \/ (cl' = [cl EXCEPT ![k] = "waits"] /\ inbox' = [inbox EXCEPT ![k] = <<Hello(k)>>])
      BY DEF Handshake, SocketOpens, client
    <2> QED BY <2>1, <2>2, <2>3
  <1>5. Types'
    BY <1>1, <1>2, <1>4 DEF Kept, Types, hub
  <1> QED BY <1>3, <1>5, QuieterKeeps

\* What closes with its socket.
LEMMA HangUpShape ==
  ASSUME Types, NEW K, HangUp(K)
  PROVE  /\ sock' \in [Sockets -> {"new", "passed", "open", "gone"}]
         /\ cl' \in [Sockets -> {"off", "waits", "synced", "again", "ended"}]
         /\ inbox' \in [Sockets -> Seq(Says)]
         /\ pend' \in [Sockets -> Attempts] /\ sess' \in [Sockets -> Sessions]
         /\ tries' = tries /\ checks' = checks
         /\ \A k \in Sockets :
              IF k \in K THEN sock'[k] = "gone" /\ pend'[k].att = 0 /\ sess'[k].on = 0 /\ inbox'[k] = <<>>
              ELSE /\ sock'[k] = sock[k] /\ pend'[k] = pend[k] /\ sess'[k] = sess[k]
                   /\ inbox'[k] = inbox[k] /\ cl'[k] = cl[k]
  <1>1. sess' = Ended(sess, K) /\ sess \in [Sockets -> Sessions]
    BY DEF HangUp, Types
  <1>2. sess' \in [Sockets -> Sessions] /\ \A k \in Sockets : IF k \in K THEN sess'[k].on = 0 ELSE sess'[k] = sess[k]
    BY <1>1, EndedShape
  <1>3. <<>> \in Seq(Says)
    OBVIOUS
  <1> QED BY <1>2, <1>3, NoAttemptShape DEF HangUp, Types

\* A socket that closes takes its session and its attempt with it.
LEMMA ClosesKeeps ==
  ASSUME Kept, NEW k \in Sockets, SocketCloses(k)
  PROVE  Kept'
  <1>1. HangUp({k}) /\ UNCHANGED <<allowed, judged, data, live, loads>>
    BY DEF SocketCloses
  <1>2. Types
    BY DEF Kept
  <1>3. Types'
    BY <1>1, <1>2, HangUpShape DEF Types
  <1>4. Quieter
    BY <1>1, <1>2, HangUpShape DEF Kept, Numbered, Quieter
  <1> QED BY <1>3, <1>4, QuieterKeeps

\* A store that ends its sessions, one or all, or is released without any.
LEMMA EndsKeeps ==
  ASSUME Kept, Flush \/ Sweep \/ Unload \/ \E k \in Sockets : Evict(k)
  PROVE  Kept'
  <1>1. UNCHANGED <<allowed, judged, sock, cl, data, inbox, pend, tries, checks, loads>>
    BY DEF Flush, Sweep, Unload, Evict, app, client, hub
  <1>2. sess' = sess \/ \E K \in SUBSET Sockets : sess' = Ended(sess, K)
    <2>1. CASE Unload
      <3>1. OnStore \in SUBSET Sockets
        BY DEF OnStore
      <3> QED BY <2>1, <3>1 DEF Unload
    <2>2. ASSUME NEW k \in Sockets, Evict(k) PROVE sess' = Ended(sess, {k})
      BY <2>2 DEF Evict
    <2> QED BY <2>1, <2>2 DEF Flush, Sweep, hub
  <1>3. sess' \in [Sockets -> Sessions] /\ \A k \in Sockets : sess'[k].on = 0 \/ sess'[k] = sess[k]
    <2>1. sess \in [Sockets -> Sessions]
      BY DEF Kept, Types
    <2> QED BY <1>2, <2>1, EndedShape
  <1>4. live' \in Nat
    <2>1. live' = live \/ live' = 0
      BY DEF Flush, Sweep, Unload, Evict
    <2> QED BY <2>1 DEF Kept, Types
  <1>5. Types'
    BY <1>1, <1>3, <1>4 DEF Kept, Types
  <1>6. Quieter
    BY <1>1, <1>3 DEF Kept, Numbered, Quieter
  <1> QED BY <1>5, <1>6, QuieterKeeps

\* The hub reads of a socket: a leave ends what there is, and a message finds a session,
\* waits for one, or has the first hook asked.
LEMMA HubReadsKeeps ==
  ASSUME Kept, NEW k \in Sockets, HubReads(k)
  PROVE  Kept'
  <1> DEFINE m == Head(inbox[k])
  <1>1. UNCHANGED <<allowed, judged, data, cl, sock, live, loads>> /\ sock[k] = "open"
    BY DEF HubReads, app, client
  <1>2. inbox' \in [Sockets -> Seq(Says)] /\ m \in Says /\ (m.t # "leave" => m \in Asks)
    <2>1. inbox \in [Sockets -> Seq(Says)] /\ inbox[k] # <<>> /\ inbox' = [inbox EXCEPT ![k] = Tail(@)]
      BY DEF HubReads, Kept, Types
    <2>2. m \in Says /\ Tail(inbox[k]) \in Seq(Says)
      BY <2>1, TailKeeps
    <2> QED BY <2>1, <2>2 DEF Says
  <1> HIDE DEF m
  <1>3. sess \in [Sockets -> Sessions] /\ pend \in [Sockets -> Attempts]
        /\ tries \in [Sockets -> Nat] /\ checks \subseteq Checks
    BY DEF Kept, Types
  <1>4. ASSUME /\ UNCHANGED <<tries, checks>>
               /\ pend' \in [Sockets -> Attempts] /\ sess' \in [Sockets -> Sessions]
               /\ \A j \in Sockets : pend'[j].att = 0 \/ pend'[j].att = pend[j].att
               /\ \A j \in Sockets :
                    sess'[j].on = 0 \/ (sess'[j].on = sess[j].on /\ sess'[j].id = sess[j].id)
        PROVE  Kept'
    <2>1. Types'
      BY <1>1, <1>2, <1>4 DEF Kept, Types
    <2>2. Quieter
      BY <1>1, <1>4 DEF Kept, Numbered, Quieter
    <2> QED BY <2>1, <2>2, QuieterKeeps
  <1>5. CASE LeaveRead(k)
    <2>1. UNCHANGED <<tries, checks>> /\ pend' = [pend EXCEPT ![k] = NoAttempt] /\ sess' = Ended(sess, {k})
      BY <1>5 DEF LeaveRead
    <2>2. pend' \in [Sockets -> Attempts] /\ \A j \in Sockets : pend'[j].att = 0 \/ pend'[j].att = pend[j].att
      BY <1>3, <2>1, NoAttemptShape
    <2>3. sess' \in [Sockets -> Sessions] /\ \A j \in Sockets : sess'[j].on = 0 \/ sess'[j] = sess[j]
      BY <1>3, <2>1, EndedShape
    <2> QED BY <1>4, <2>1, <2>2, <2>3
  <1>6. CASE m \in Asks /\ Deliver(k, sess, <<m>>) /\ UNCHANGED <<pend, tries, checks>>
    <2>1. Same(sess, sess')
      <3>1. <<m>> \in Seq(Asks)
        BY <1>6
      <3>2. sess' = Delivered(k, sess, <<m>>).s
        BY <1>6 DEF Deliver
      <3> QED BY <1>3, <3>1, <3>2, DeliveredKeeps
    <2> QED BY <1>3, <1>4, <1>6, <2>1 DEF Same
  <1>7. CASE m \in Asks /\ pend' = [pend EXCEPT ![k].queue = Append(@, m)] /\ UNCHANGED <<sess, tries, checks>>
    <2>1. Append(pend[k].queue, m) \in Seq(Asks)
      BY <1>3, <1>7 DEF Attempts
    <2>2. pend' \in [Sockets -> Attempts] /\ \A j \in Sockets : pend'[j].att = pend[j].att
      BY <1>3, <1>7, <2>1 DEF Attempts
    <2> QED BY <1>3, <1>4, <1>7, <2>2
  <1>8. CASE m \in Asks /\ pend[k].att = 0 /\ sess[k].on = 0 /\ Admit(k, <<m>>) /\ UNCHANGED sess
    <2> DEFINE n == tries[k] + 1
    <2>1. PICK d \in Check(k, n, "admit", "id", 0) : checks' = checks \cup {d}
      BY <1>8 DEF Admit
    <2>2. /\ n \in Nat /\ n # 0 /\ tries' = [tries EXCEPT ![k] = n]
          /\ pend' = [pend EXCEPT ![k] = [att |-> n, queue |-> <<m>>]]
      BY <1>3, <1>8 DEF Admit
    <2> HIDE DEF n
    <2>3. /\ d.k = k /\ d.att = n /\ d.kind = "admit" /\ d \in Checks
          /\ ~Allows(k) => d.said = "late"
      BY <2>1, <2>2, CheckShape DEF Checks
    <2>4. [att |-> n, queue |-> <<m>>] \in Attempts
      BY <1>8, <2>2 DEF Attempts
    <2>5. Types'
      BY <1>1, <1>2, <1>3, <1>8, <2>1, <2>2, <2>3, <2>4 DEF Kept, Types
    <2>6. \A j \in Sockets : tries[j] <= tries'[j] /\ tries'[j] \in Nat
      BY <1>3, <2>2 DEF n
    <2>7. Numbered'
      <3>1. \A j \in Sockets : pend'[j].att <= tries'[j] /\ (pend'[j].att # 0 => sock'[j] = "open")
        BY <1>1, <1>3, <2>2 DEF Kept, Numbered, Attempts
      <3>2. ASSUME NEW c \in checks', c.kind = "admit" PROVE c.att # 0 /\ c.att <= tries'[c.k]
        <4>1. CASE c = d
          BY <1>3, <2>2, <2>3, <4>1
        <4>2. CASE c \in checks
          <5>1. c.k \in Sockets /\ c.att \in Nat /\ c.att # 0 /\ c.att <= tries[c.k]
            BY <1>3, <3>2, <4>2 DEF Kept, Numbered, Checks
          <5> QED BY <1>3, <2>6, <5>1
        <4> QED BY <2>1, <4>1, <4>2
      <3> QED BY <1>1, <1>8, <3>1, <3>2 DEF Kept, Numbered
    <2>8. Outside'
      BY <1>1, <2>1, <2>3 DEF Kept, Outside
    <2>9. ASSUME Hooked, NEW c \in checks', c.k[1] \in judged', Current(c)' PROVE c.said = "late"
      <3>1. CASE c = d
        BY <1>1, <2>3, <2>9, <3>1, OutsideIsRefused DEF Kept
      <3>2. CASE c \in checks
        <4>1. c.k \in Sockets
          BY <1>3, <3>2 DEF Checks
        <4>2. Current(c)
          <5>1. CASE c.kind = "admit" /\ c.k = k
            <6>1. c.att = n
              BY <1>3, <2>2, <2>9, <5>1 DEF Current
            <6>2. c.att <= tries[k]
              BY <3>2, <5>1 DEF Kept, Numbered
            <6> QED BY <1>3, <6>1, <6>2 DEF n
          <5>2. CASE ~(c.kind = "admit" /\ c.k = k)
            BY <1>1, <1>3, <1>8, <2>2, <2>9, <4>1, <5>2 DEF Current
          <5> QED BY <5>1, <5>2
        <4> QED BY <1>1, <2>9, <3>2, <4>2 DEF Kept, JudgedLate
      <3> QED BY <2>1, <3>1, <3>2
    <2>10. Watched'
      BY <1>1, <1>8, <2>1 DEF Kept, Watched, OnStore
    <2> QED BY <2>5, <2>7, <2>8, <2>9, <2>10 DEF Kept, JudgedLate
  <1> QED
    <2>1. \/ LeaveRead(k)
          \/ m.t # "leave" /\ Deliver(k, sess, <<m>>) /\ UNCHANGED <<pend, tries, checks>>
          \/ /\ m.t # "leave" /\ pend' = [pend EXCEPT ![k].queue = Append(@, m)]
             /\ UNCHANGED <<sess, tries, checks>>
          \/ m.t # "leave" /\ pend[k].att = 0 /\ sess[k].on = 0 /\ Admit(k, <<m>>) /\ UNCHANGED sess
      BY Zenon DEF HubReads, m
    <2> QED BY <1>2, <1>5, <1>6, <1>7, <1>8, <2>1

\* What a verdict takes away: a check that is over is no longer asked.
LEMMA DroppedKeeps ==
  ASSUME Kept, NEW c \in checks, checks' = checks \ {c}, Hooked => ~Current(c)',
         UNCHANGED <<allowed, judged, data, cl, inbox, sock, tries, loads>>, live' \in Nat,
         pend' \in [Sockets -> Attempts], sess' \in [Sockets -> Sessions],
         \A j \in Sockets : pend'[j].att = 0 \/ pend'[j].att = pend[j].att,
         \A j \in Sockets : sess'[j].on = 0 \/ sess'[j] = sess[j]
  PROVE  Kept'
  <1>1. Types'
    BY DEF Kept, Types
  <1>2. Quieter
    BY DEF Kept, Numbered, Quieter
  <1> QED BY <1>1, <1>2, QuieterKeeps

\* A hook lets an attempt through to the next hook, or a session that is judged again:
\* the same is asked of the next.
LEMMA AskedOnKeeps ==
  ASSUME Kept, NEW c \in checks, Current(c), NEW on \in Nat, Hooked => c.k[1] \notin judged,
         NEW d \in Check(c.k, c.att, c.kind, "store", on), checks' = (checks \ {c}) \cup {d},
         UNCHANGED <<allowed, judged, data, cl, inbox, sock, tries, pend, sess>>,
         live' \in Nat, loads' \in Nat
  PROVE  Kept'
  <1>1. c \in Checks
    BY DEF Kept, Types
  <1>2. d \in Checks /\ d.k = c.k /\ d.att = c.att /\ d.kind = c.kind
    BY <1>1, CheckShape DEF Checks
  <1>3. Types'
    BY <1>2 DEF Kept, Types
  <1>4. Numbered' /\ Outside'
    BY <1>2 DEF Kept, Numbered, Outside
  <1>5. JudgedLate'
    BY <1>2 DEF Kept, JudgedLate, Current
  <1>6. Watched'
    <2> SUFFICES ASSUME Hooked, NEW k \in Sockets, sess[k].on # 0, k[1] \in judged
                 PROVE  \E e \in checks' : e.k = k /\ e.kind = "again" /\ e.att = sess[k].id
      BY DEF Watched, OnStore
    <2>1. PICK e \in checks : e.k = k /\ e.kind = "again" /\ e.att = sess[k].id
      BY DEF Kept, Watched, OnStore
    <2> QED BY <2>1
  <1> QED BY <1>3, <1>4, <1>5, <1>6 DEF Kept

\* The store lets an attempt in: a session of a user that was never taken back.
LEMMA LetInKeeps ==
  ASSUME Kept, NEW c \in checks, Current(c), Hooked => c.k[1] \notin judged, c.kind = "admit",
         checks' = checks \ {c}, pend' = [pend EXCEPT ![c.k] = NoAttempt],
         sess' \in [Sockets -> Sessions],
         \A j \in Sockets : j # c.k => sess'[j].on = sess[j].on /\ sess'[j].id = sess[j].id,
         UNCHANGED <<allowed, judged, data, cl, inbox, sock, tries, live, loads>>
  PROVE  Kept'
  <1>1. c \in Checks /\ c.k \in Sockets /\ sock[c.k] = "open"
    BY DEF Kept, Types, Checks, Current
  <1>2. pend \in [Sockets -> Attempts] /\ tries \in [Sockets -> Nat] /\ checks \subseteq Checks
    BY DEF Kept, Types
  <1>3. pend' \in [Sockets -> Attempts] /\ \A j \in Sockets : pend'[j].att = (IF j = c.k THEN 0 ELSE pend[j].att)
    BY <1>1, <1>2, NoAttemptShape
  <1>4. Types'
    BY <1>3 DEF Kept, Types
  <1>5. Numbered'
    <2>1. \A j \in Sockets : pend'[j].att <= tries'[j]
      BY <1>2, <1>3 DEF Kept, Numbered, Attempts
    <2>2. \A j \in Sockets : pend'[j].att # 0 \/ sess'[j].on # 0 => sock'[j] = "open"
      BY <1>1, <1>3 DEF Kept, Numbered
    <2> QED BY <2>1, <2>2 DEF Kept, Numbered
  <1>6. Outside'
    BY DEF Kept, Outside
  <1>7. ASSUME Hooked, NEW e \in checks', e.k[1] \in judged', Current(e)' PROVE e.said = "late"
    <2>1. e \in checks /\ e.k # c.k /\ e.k \in Sockets
      BY <1>2, <1>7 DEF Checks
    <2>2. Current(e)
      BY <1>3, <1>7, <2>1 DEF Current
    <2> QED BY <1>7, <2>1, <2>2 DEF Kept, JudgedLate
  <1>8. Watched'
    <2> SUFFICES ASSUME Hooked, NEW k \in Sockets, sess'[k].on # 0, k[1] \in judged
                 PROVE  \E e \in checks' : e.k = k /\ e.kind = "again" /\ e.att = sess'[k].id
      BY DEF Watched, OnStore
    <2>1. k # c.k
      OBVIOUS
    <2>2. PICK e \in checks : e.k = k /\ e.kind = "again" /\ e.att = sess[k].id
      BY <2>1 DEF Kept, Watched, OnStore
    <2> QED BY <2>1, <2>2
  <1> QED BY <1>4, <1>5, <1>6, <1>7, <1>8 DEF Kept, JudgedLate

\* A verdict of "yes" that counts is on a user who was not taken back.
LEMMA YesIsOfBefore ==
  ASSUME Kept, NEW c \in checks, Current(c), Verdict(c)
  PROVE  Hooked => c.k[1] \notin judged
  <1>1. c.k \in Sockets /\ c.said \in {"yes", "late"}
    BY DEF Kept, Types, Checks
  <1> QED BY <1>1, OutsideIsRefused DEF Kept, JudgedLate, Verdict

\* An attempt that ends is not the one its check is for any more.
LEMMA RefusedKeeps ==
  ASSUME Kept, NEW c \in checks, c.kind = "admit",
         checks' = checks \ {c}, pend' = [pend EXCEPT ![c.k] = NoAttempt],
         UNCHANGED <<allowed, judged, data, cl, inbox, sock, tries, sess, live, loads>>
  PROVE  Kept'
  <1>1. c.k \in Sockets /\ c.att # 0
    BY DEF Kept, Types, Checks, Numbered
  <1>2. pend \in [Sockets -> Attempts] /\ sess \in [Sockets -> Sessions] /\ live \in Nat
    BY DEF Kept, Types
  <1>3. /\ pend' \in [Sockets -> Attempts] /\ pend'[c.k].att = 0
        /\ \A j \in Sockets : pend'[j].att = 0 \/ pend'[j].att = pend[j].att
    BY <1>1, <1>2, NoAttemptShape
  <1>4. ~Current(c)'
    BY <1>1, <1>3 DEF Current
  <1> QED BY <1>2, <1>3, <1>4, DroppedKeeps

\* A hook answers: what it was asked about is let go of, ended, or goes on; nobody who was
\* taken back is let in (hub.js:162-244).
LEMMA SettleKeeps ==
  ASSUME Kept, NEW c \in checks, Settle(c)
  PROVE  Kept'
  <1>1. UNCHANGED <<allowed, judged, sock, cl, data, inbox, tries>>
    BY DEF Settle, client
  <1>2. c.k \in Sockets /\ c.on \in Nat
    BY DEF Kept, Types, Checks
  <1>3. pend \in [Sockets -> Attempts] /\ sess \in [Sockets -> Sessions] /\ live \in Nat /\ loads \in Nat
    BY DEF Kept, Types
  <1>4. CASE ~Current(c) /\ checks' = checks \ {c} /\ UNCHANGED <<pend, sess, live, loads>>
    <2>1. ~Current(c)'
      BY <1>1, <1>4 DEF Current
    <2> QED BY <1>1, <1>3, <1>4, <2>1, DroppedKeeps
  <1>5. CASE Current(c) /\ c.kind = "again" /\ JudgedAgain(c) /\ UNCHANGED <<pend, live, loads>>
    <2>1. Hooked => ~Verdict(c)
      BY <1>5, YesIsOfBefore DEF Kept, Outside
    <2>2. CASE ~(checks' = checks \ {c} /\ sess' = Ended(sess, {c.k}))
      <3>1. Verdict(c) /\ sess' = sess
        BY <1>5, <2>2 DEF JudgedAgain
      <3>2. CASE checks' = checks \ {c}
        BY <1>1, <1>3, <1>5, <2>1, <3>1, <3>2, DroppedKeeps
      <3>3. CASE \E d \in Check(c.k, c.att, c.kind, "store", c.on) : checks' = (checks \ {c}) \cup {d}
        BY <1>1, <1>2, <1>3, <1>5, <3>1, <3>3, YesIsOfBefore, AskedOnKeeps
      <3> QED BY <1>5, <3>1, <3>2, <3>3 DEF JudgedAgain
    <2>3. CASE checks' = checks \ {c} /\ sess' = Ended(sess, {c.k})
      <3>1. /\ sess' \in [Sockets -> Sessions] /\ sess'[c.k].on = 0
            /\ \A j \in Sockets : sess'[j].on = 0 \/ sess'[j] = sess[j]
        BY <1>2, <1>3, <2>3, EndedShape
      <3>2. ~Current(c)'
        BY <1>5, <3>1 DEF Current
      <3> QED BY <1>1, <1>3, <1>5, <2>3, <3>1, <3>2, DroppedKeeps
    <2> QED BY <2>2, <2>3
  <1>6. ASSUME NEW code, c.kind = "admit", checks' = checks \ {c}, Refuse(c.k, code),
               UNCHANGED <<sess, live, loads>>
        PROVE  Kept'
    BY <1>1, <1>6, RefusedKeeps DEF Refuse
  <1>7. CASE Current(c) /\ c.kind = "admit" /\ Verdict(c) /\ Resolved(c)
    <2>1. CASE checks' = checks \ {c} /\ Refuse(c.k, "unavailable") /\ UNCHANGED <<live, loads, sess>>
      BY <1>6, <1>7, <2>1
    <2>2. CASE /\ live' = (IF live # 0 THEN live ELSE loads + 1)
               /\ loads' = (IF live # 0 THEN loads ELSE loads + 1)
               /\ \E d \in Check(c.k, c.att, "admit", "store", live') : checks' = (checks \ {c}) \cup {d}
               /\ UNCHANGED <<pend, sess>>
      <3>1. live' \in Nat /\ loads' \in Nat
        BY <1>3, <2>2
      <3>2. PICK d \in Check(c.k, c.att, "admit", "store", live') : checks' = (checks \ {c}) \cup {d}
        BY <2>2
      <3>3. Hooked => c.k[1] \notin judged
        BY <1>7, YesIsOfBefore
      <3> QED BY <1>1, <1>7, <2>2, <3>1, <3>2, <3>3, AskedOnKeeps
    <2> QED BY <1>7, <2>1, <2>2 DEF Resolved
  <1>8. CASE Current(c) /\ c.kind = "admit" /\ Verdict(c) /\ Opened(c)
    <2>1. /\ checks' = checks \ {c} /\ pend' = [pend EXCEPT ![c.k] = NoAttempt]
          /\ UNCHANGED <<live, loads>>
      BY <1>8 DEF Opened
    <2>2. CASE sess' = sess
      BY <1>1, <1>8, <2>1, <2>2, RefusedKeeps
    <2>3. CASE sess' # sess
      <3> DEFINE s == [sess EXCEPT ![c.k] = [NoSession EXCEPT !.on = c.on, !.id = c.att]]
      <3>1. Deliver(c.k, s, pend[c.k].queue)
        BY <1>8, <2>3 DEF Opened
      <3>2. s \in [Sockets -> Sessions] /\ pend[c.k].queue \in Seq(Asks)
        <4>1. [NoSession EXCEPT !.on = c.on, !.id = c.att] \in Sessions
          BY <1>2 DEF NoSession, Sessions, Kept, Types, Checks
        <4> QED BY <1>2, <1>3, <4>1 DEF Attempts
      <3>3. \A j \in Sockets : j # c.k => s[j] = sess[j]
        BY <1>3
      <3> HIDE DEF s
      <3>4. sess' = Delivered(c.k, s, pend[c.k].queue).s
        BY <3>1 DEF Deliver
      <3>5. Same(s, sess')
        BY <1>2, <3>2, <3>4, DeliveredKeeps
      <3>6. Hooked => c.k[1] \notin judged
        BY <1>8, YesIsOfBefore
      <3>7. /\ sess' \in [Sockets -> Sessions]
            /\ \A j \in Sockets : j # c.k => sess'[j].on = sess[j].on /\ sess'[j].id = sess[j].id
        BY <3>3, <3>5 DEF Same
      <3> QED BY <1>1, <1>8, <2>1, <3>6, <3>7, LetInKeeps
    <2> QED BY <2>2, <2>3
  <1> QED
    <2>1. \/ ~Current(c) /\ checks' = checks \ {c} /\ UNCHANGED <<pend, sess, live, loads>>
          \/ Current(c) /\ c.kind = "again" /\ JudgedAgain(c) /\ UNCHANGED <<pend, live, loads>>
          \/ c.kind = "admit" /\ checks' = checks \ {c} /\ Refuse(c.k, "forbidden") /\ UNCHANGED <<sess, live, loads>>
          \/ Current(c) /\ c.kind = "admit" /\ Verdict(c) /\ Resolved(c)
          \/ Current(c) /\ c.kind = "admit" /\ Verdict(c) /\ Opened(c)
      BY DEF Settle, store
    <2> QED BY <1>4, <1>5, <1>6, <1>7, <1>8, <2>1

\* The app takes a user back: an attempt under way starts over with a hook asked now, a
\* session is judged where it is, or all of them end with their sockets.
LEMMA TakesBackKeeps ==
  ASSUME Kept, NEW u \in Clients, TakesBack(u)
  PROVE  Kept'
  <1>1. /\ u \in allowed /\ allowed' = allowed \ {u} /\ judged' = judged \cup {u}
        /\ UNCHANGED <<data, live, loads>>
    BY DEF TakesBack
  <1>2. Types /\ allowed \subseteq Clients /\ judged \subseteq Clients /\ u \notin judged
    BY <1>1 DEF Kept, Types, Outside
  <1>3. CASE HangUp(Judgeable(u))
    <2> DEFINE K == Judgeable(u)
    <2>1. \A k \in Sockets : k \in K <=> k[1] = u /\ sock[k] = "open"
      BY DEF Judgeable
    <2>2. HangUp(K)
      BY <1>3
    <2> HIDE DEF K
    <2>3. Types'
      BY <1>1, <1>2, <2>2, HangUpShape DEF Types
    <2>4. checks' = checks /\ tries' = tries
      BY <1>2, <2>2, HangUpShape
    <2>5. ASSUME NEW k \in Sockets
          PROVE  IF k \in K THEN sock'[k] = "gone" /\ pend'[k].att = 0 /\ sess'[k].on = 0
                 ELSE sock'[k] = sock[k] /\ pend'[k] = pend[k] /\ sess'[k] = sess[k]
      BY <1>2, <2>2, HangUpShape
    <2>6. Numbered'
      <3>1. \A k \in Sockets : pend'[k].att <= tries'[k]
        BY <2>4, <2>5 DEF Types, Kept, Numbered
      <3>2. \A k \in Sockets : pend'[k].att # 0 \/ sess'[k].on # 0 => sock'[k] = "open"
        BY <2>5 DEF Kept, Numbered
      <3> QED BY <2>4, <3>1, <3>2 DEF Kept, Numbered
    <2>7. Outside'
      BY <1>1, <2>4 DEF Kept, Outside
    <2>8. ASSUME Hooked, NEW c \in checks', c.k[1] \in judged', Current(c)' PROVE c.said = "late"
      <3>1. c \in checks /\ c.k \in Sockets
        BY <2>4 DEF Kept, Types, Checks
      <3>2. sock'[c.k] = "open"
        BY <2>8 DEF Current
      <3>3. c.k \notin K /\ sock[c.k] = "open"
        BY <2>5, <3>1, <3>2
      <3>4. c.k[1] # u
        BY <2>1, <3>1, <3>3
      <3>5. Current(c)
        BY <2>5, <2>8, <3>1, <3>3 DEF Current
      <3> QED BY <1>1, <2>8, <3>1, <3>4, <3>5 DEF Kept, JudgedLate
    <2>9. Watched'
      <3> SUFFICES ASSUME Hooked, NEW k \in Sockets, sess'[k].on # 0, k[1] \in judged'
                   PROVE  \E c \in checks' : c.k = k /\ c.kind = "again" /\ c.att = sess'[k].id
        BY DEF Watched, OnStore
      <3>1. k \notin K /\ sess'[k] = sess[k]
        BY <2>5
      <3>2. sock[k] = "open"
        BY <3>1 DEF Kept, Numbered
      <3>3. k[1] \in judged
        BY <1>1, <2>1, <3>1, <3>2
      <3> QED BY <2>4, <3>1, <3>3 DEF Kept, Watched, OnStore
    <2> QED BY <2>3, <2>6, <2>7, <2>8, <2>9 DEF Kept, JudgedLate
  <1>4. CASE Revalidate(u)
    <2> DEFINE again == {k \in Judgeable(u) : pend[k].att # 0}
               open == Judgeable(u) \cap OnStore
               first(k) == [k |-> k, att |-> tries[k] + 1, kind |-> "admit", stage |-> "id", on |-> 0, said |-> "late"]
               anew(k) == [k |-> k, att |-> sess[k].id, kind |-> "again", stage |-> "id", on |-> sess[k].on, said |-> "late"]
    <2>1. /\ UNCHANGED <<sess, sock, inbox, cl>>
          /\ tries' = [k \in Sockets |-> IF k \in again THEN tries[k] + 1 ELSE tries[k]]
          /\ pend' = [k \in Sockets |-> IF k \in again THEN [pend[k] EXCEPT !.att = tries[k] + 1] ELSE pend[k]]
          /\ checks' = checks \cup {first(k) : k \in again} \cup {anew(k) : k \in open}
      BY <1>4 DEF Revalidate
    <2>2. /\ \A k \in Sockets : k \in again <=> k[1] = u /\ sock[k] = "open" /\ pend[k].att # 0
          /\ \A k \in Sockets : k \in open <=> k[1] = u /\ sock[k] = "open" /\ sess[k].on # 0
          /\ again \subseteq Sockets /\ open \subseteq Sockets
      BY DEF Judgeable, OnStore
    <2>3. /\ pend \in [Sockets -> Attempts] /\ tries \in [Sockets -> Nat] /\ checks \subseteq Checks
          /\ sess \in [Sockets -> Sessions]
      BY <1>2 DEF Types
    <2>4. \A k \in Sockets : first(k) \in Checks /\ anew(k) \in Checks
      BY <2>3 DEF Checks, Sessions
    <2>5. \A k \in Sockets :
            /\ first(k).k = k /\ first(k).kind = "admit" /\ first(k).att = tries[k] + 1 /\ first(k).said = "late"
            /\ anew(k).k = k /\ anew(k).kind = "again" /\ anew(k).att = sess[k].id /\ anew(k).said = "late"
      OBVIOUS
    <2> HIDE DEF again, open, first, anew
    <2>6. \A c \in checks' : c \in checks \/ (\E k \in again : c = first(k)) \/ (\E k \in open : c = anew(k))
      BY <2>1
    <2>7. \A k \in Sockets :
            /\ tries'[k] \in Nat /\ tries[k] <= tries'[k]
            /\ k \in again => tries'[k] = tries[k] + 1 /\ pend'[k].att = tries[k] + 1
            /\ k \notin again => tries'[k] = tries[k] /\ pend'[k] = pend[k]
            /\ pend'[k] \in Attempts
      <3> SUFFICES ASSUME NEW k \in Sockets
                   PROVE  /\ tries'[k] \in Nat /\ tries[k] <= tries'[k]
                          /\ k \in again => tries'[k] = tries[k] + 1 /\ pend'[k].att = tries[k] + 1
                          /\ k \notin again => tries'[k] = tries[k] /\ pend'[k] = pend[k]
                          /\ pend'[k] \in Attempts
        OBVIOUS
      <3>1. tries[k] \in Nat /\ pend[k] \in Attempts
        BY <2>3
      <3>2. CASE k \in again
        <4>1. tries'[k] = tries[k] + 1 /\ pend'[k] = [pend[k] EXCEPT !.att = tries[k] + 1]
          BY <2>1, <3>2
        <4> QED BY <3>1, <3>2, <4>1 DEF Attempts
      <3>3. CASE k \notin again
        BY <2>1, <3>1, <3>3
      <3> QED BY <3>2, <3>3
    <2>8. Types'
      <3>1. tries' \in [Sockets -> Nat] /\ pend' \in [Sockets -> Attempts]
        BY <2>1, <2>7
      <3>2. checks' \subseteq Checks
        BY <2>2, <2>3, <2>4, <2>6
      <3>3. allowed' \subseteq Clients /\ judged' \subseteq Clients
        BY <1>1, <1>2
      <3> QED BY <1>1, <1>2, <2>1, <3>1, <3>2, <3>3 DEF Types
    <2>9. Numbered'
      <3>1. ASSUME NEW k \in Sockets
            PROVE  pend'[k].att <= tries'[k] /\ (pend'[k].att # 0 \/ sess'[k].on # 0 => sock'[k] = "open")
        BY <2>1, <2>2, <2>7 DEF Kept, Numbered
      <3>2. ASSUME NEW c \in checks', c.kind = "admit" PROVE c.att # 0 /\ c.att <= tries'[c.k]
        <4>1. CASE c \in checks
          <5>1. c.k \in Sockets /\ c.att \in Nat /\ c.att # 0 /\ c.att <= tries[c.k]
            BY <2>3, <3>2, <4>1 DEF Kept, Numbered, Checks
          <5> QED BY <2>3, <2>7, <5>1
        <4>2. ASSUME NEW k \in again, c = first(k) PROVE c.att # 0 /\ c.att <= tries'[c.k]
          BY <2>2, <2>3, <2>5, <2>7, <4>2
        <4>3. ~\E k \in open : c = anew(k)
          BY <2>2, <2>5, <3>2
        <4> QED BY <2>6, <4>1, <4>2, <4>3
      <3> QED BY <3>1, <3>2 DEF Numbered
    <2>10. Outside'
      <3>1. judged' \cap allowed' = {}
        BY <1>1 DEF Kept, Outside
      <3>2. ASSUME NEW c \in checks', c.kind = "again" PROVE c.k[1] \in judged'
        <4>1. c \in checks \/ \E k \in open : c = anew(k)
          BY <2>2, <2>5, <2>6, <3>2
        <4> QED BY <1>1, <2>2, <2>5, <3>2, <4>1 DEF Kept, Outside
      <3> QED BY <3>1, <3>2 DEF Outside
    <2>11. ASSUME Hooked, NEW c \in checks', c.k[1] \in judged', Current(c)' PROVE c.said = "late"
      <3>1. CASE c \notin checks
        BY <2>2, <2>5, <2>6, <3>1
      <3>2. CASE c \in checks
        <4>1. c.k \in Sockets /\ c.att \in Nat /\ c.kind \in {"admit", "again"}
          BY <2>3, <3>2 DEF Checks
        <4>2. CASE c.kind = "again"
          <5>1. Current(c) /\ c.k[1] \in judged
            BY <2>1, <2>11, <3>2, <4>2 DEF Current, Kept, Outside
          <5> QED BY <2>11, <3>2, <5>1 DEF Kept, JudgedLate
        <4>3. CASE c.kind = "admit"
          <5>1. c.att # 0 /\ c.att <= tries[c.k] /\ pend'[c.k].att = c.att /\ sock[c.k] = "open"
            BY <2>1, <2>11, <3>2, <4>3 DEF Current, Kept, Numbered
          <5>2. c.k \notin again
            BY <2>3, <2>7, <4>1, <5>1
          <5>3. pend[c.k].att = c.att
            BY <2>7, <4>1, <5>1, <5>2
          <5>4. c.k[1] # u
            BY <2>2, <4>1, <5>1, <5>2, <5>3
          <5>5. Current(c)
            BY <4>3, <5>1, <5>3 DEF Current
          <5> QED BY <1>1, <2>11, <3>2, <5>4, <5>5 DEF Kept, JudgedLate
        <4> QED BY <4>1, <4>2, <4>3
      <3> QED BY <3>1, <3>2
    <2>12. Watched'
      <3> SUFFICES ASSUME Hooked, NEW k \in Sockets, sess[k].on # 0, k[1] \in judged'
                   PROVE  \E c \in checks' : c.k = k /\ c.kind = "again" /\ c.att = sess[k].id
        BY <2>1 DEF Watched, OnStore
      <3>1. CASE k[1] = u
        <4>1. k \in open
          BY <2>2, <3>1 DEF Kept, Numbered
        <4>2. anew(k) \in checks'
          BY <2>1, <4>1
        <4> QED BY <2>5, <4>2
      <3>2. CASE k[1] # u
        BY <1>1, <2>1, <3>2 DEF Kept, Watched, OnStore
      <3> QED BY <3>1, <3>2
    <2> QED BY <2>8, <2>9, <2>10, <2>11, <2>12 DEF Kept, JudgedLate
  <1> QED BY <1>3, <1>4 DEF TakesBack

\* The hub starts with nobody taken back.
LEMMA KeptInit == Init => Kept
  <1> SUFFICES ASSUME Init PROVE Kept
    OBVIOUS
  <1>1. Types
    <2>1. <<>> \in Seq(Says)
      OBVIOUS
    <2>2. NoSession \in Sessions
      BY DEF NoSession, Sessions
    <2> QED BY <2>1, <2>2, NoAttemptShape DEF Init, Types
  <1>2. Numbered /\ Outside /\ JudgedLate /\ Watched
    BY DEF Init, Numbered, Outside, JudgedLate, Watched, OnStore, NoAttempt, NoSession
  <1> QED BY <1>1, <1>2 DEF Kept

\* Every step keeps what is claimed of users taken back.
LEMMA KeptNext == Kept /\ [Next]_vars => Kept'
  <1> SUFFICES ASSUME Kept, [Next]_vars PROVE Kept'
    OBVIOUS
  <1>1. CASE Working
    BY <1>1, EndsKeeps, HubReadsKeeps, ClientKeeps, SettleKeeps DEF Working
  <1>2. CASE \E u \in Clients : TakesBack(u)
    BY <1>2, TakesBackKeeps
  <1>3. ASSUME NEW k \in Sockets,
               Handshake(k) \/ SocketOpens(k) \/ SocketCloses(k) \/ Evict(k)
                 \/ Detach(k) \/ Attach(k) \/ Share(k)
        PROVE  Kept'
    BY <1>3, OpensKeeps, ClosesKeeps, EndsKeeps, ClientKeeps
  <1>4. CASE Sweep \/ Unload
    BY <1>4, EndsKeeps
  <1>5. CASE UNCHANGED vars
    BY <1>5 DEF vars, app, client, hub, store, Kept, Types, Numbered, Outside, JudgedLate, Current, Watched, OnStore
  <1> QED BY <1>1, <1>2, <1>3, <1>4, <1>5 DEF Next

\* With no check of a user taken back under way, the user has no session.
LEMMA KeptIsOut == Hooked /\ Kept => TakenBackIsOut
  BY DEF Kept, Watched, TakenBackIsOut, OnStore

\* hub.js:211-218, docs/auth.md:48: once a user was taken back and the hooks asked again
\* have answered, no session is the user's, whatever was under way when it began, where
\* the app gives hooks.
THEOREM TakenBack == Hooked => (Spec => []TakenBackIsOut)
  <1> SUFFICES ASSUME Hooked PROVE Spec => []TakenBackIsOut
    OBVIOUS
  <1>1. Kept /\ [Next]_vars => Kept'
    BY KeptNext
  <1> QED BY <1>1, KeptInit, KeptIsOut, PTL DEF Spec

-----------------------------------------------------------------------------
(* A client that left is out.                                              *)

\* A step changes nothing on a socket but this one.
LEMMA PartedElsewhere ==
  ASSUME Parted, NEW k,
         \A j \in Sockets : j # k =>
           /\ inbox'[j] = inbox[j]
           /\ cl'[j] = cl[j] \/ cl'[j] \notin {"off", "ended"}
           /\ sess[j].on = 0 => sess'[j].on = 0
           /\ pend[j].att = 0 => pend'[j].att = 0
  PROVE  \A j \in Sockets : j # k =>
           (cl'[j] \in {"off", "ended"} =>
             IF inbox'[j] = <<>> THEN sess'[j].on = 0 /\ pend'[j].att = 0
             ELSE inbox'[j][Len(inbox'[j])].t = "leave")
  BY DEF Parted

\* The client says that it leaves, or says something and has not left.
LEMMA ClientParts ==
  ASSUME Types, Parted, NEW k \in Sockets,
         ClientHears(k) \/ SaysAgain(k) \/ Detach(k) \/ Attach(k) \/ Share(k)
  PROVE  Parted'
  <1>1. UNCHANGED <<sess, pend>>
    BY DEF ClientHears, SaysAgain, Detach, Attach, Share, hub
  <1>2. inbox \in [Sockets -> Seq(Says)] /\ cl \in [Sockets -> {"off", "waits", "synced", "again", "ended"}]
    BY DEF Types
  <1>3. \A j \in Sockets : j # k => inbox'[j] = inbox[j] /\ cl'[j] = cl[j]
    BY <1>2 DEF ClientHears, HearUnavailable, SaysAgain, Detach, Attach, Share
  <1>4. \/ cl'[k] = cl[k] /\ inbox'[k] = inbox[k]
        \/ cl'[k] \notin {"off", "ended"}
        \/ inbox'[k] = Append(inbox[k], [t |-> "leave"])
    BY <1>2 DEF ClientHears, HearUnavailable, SaysAgain, Detach, Attach, Share
  <1>5. cl'[k] \in {"off", "ended"} =>
          IF inbox'[k] = <<>> THEN sess'[k].on = 0 /\ pend'[k].att = 0
          ELSE inbox'[k][Len(inbox'[k])].t = "leave"
    <2>1. CASE inbox'[k] = Append(inbox[k], [t |-> "leave"])
      <3>1. [t |-> "leave"] \in Says /\ inbox[k] \in Seq(Says)
        BY <1>2 DEF Says
      <3>2. inbox'[k] # <<>> /\ inbox'[k][Len(inbox'[k])] = [t |-> "leave"]
        BY <2>1, <3>1, AppendProperties
      <3> QED BY <3>2
    <2> QED BY <1>1, <1>4, <2>1 DEF Parted
  <1> QED BY <1>1, <1>3, <1>5, PartedElsewhere DEF Parted

\* What is left of a sequence ends as the sequence did.
LEMMA TailLast ==
  ASSUME NEW S, NEW q \in Seq(S), q # <<>>
  PROVE  IF Len(q) = 1 THEN Tail(q) = <<>>
         ELSE Tail(q) # <<>> /\ Tail(q)[Len(Tail(q))] = q[Len(q)]
  <1>1. /\ Tail(q) \in Seq(S) /\ Len(Tail(q)) = Len(q) - 1
        /\ \A i \in 1 .. Len(Tail(q)) : Tail(q)[i] = q[i + 1]
    BY HeadTailProperties
  <1>2. Len(q) \in Nat /\ Len(q) # 0
    BY EmptySeq
  <1> DEFINE u == Tail(q)
  <1>3. u \in Seq(S) => (u = <<>> <=> Len(u) = 0)
    <2> HIDE DEF u
    <2> QED BY EmptySeq
  <1>4. CASE Len(q) = 1
    BY <1>1, <1>3, <1>4
  <1>5. CASE Len(q) # 1
    <2>1. Len(Tail(q)) \in 1 .. Len(Tail(q)) /\ Len(Tail(q)) + 1 = Len(q)
      BY <1>1, <1>2, <1>5
    <2>2. Tail(q) # <<>>
      BY <1>1, <1>2, <1>3, <1>5
    <2> QED BY <1>1, <1>5, <2>1, <2>2
  <1> QED BY <1>4, <1>5

\* Once the leave was read nothing is left, and before it was it is the last to be read.
LEMMA HubParts ==
  ASSUME Types, Parted, NEW k \in Sockets, HubReads(k)
  PROVE  Parted'
  <1>1. /\ inbox[k] # <<>> /\ inbox' = [inbox EXCEPT ![k] = Tail(@)]
        /\ cl' = cl
    BY DEF HubReads, client
  <1>2. /\ inbox \in [Sockets -> Seq(Says)] /\ sess \in [Sockets -> Sessions]
        /\ pend \in [Sockets -> Attempts]
    BY DEF Types
  <1> DEFINE m == Head(inbox[k])
  <1>3. m \in Says /\ Tail(inbox[k]) \in Seq(Says) /\ (m.t # "leave" => m \in Asks)
    BY <1>1, <1>2, TailKeeps DEF Says
  <1>4. \/ LeaveRead(k)
        \/ m.t # "leave" /\ Deliver(k, sess, <<m>>) /\ UNCHANGED pend
        \/ m.t # "leave" /\ pend' = [pend EXCEPT ![k].queue = Append(@, m)] /\ UNCHANGED sess
        \/ m.t # "leave" /\ Admit(k, <<m>>) /\ UNCHANGED sess
    BY Zenon DEF HubReads
  <1>5. m.t = "leave" => LeaveRead(k)
    BY DEF HubReads
  <1> HIDE DEF m
  <1>6. \A j \in Sockets : j # k => (sess[j].on = 0 => sess'[j].on = 0) /\ (pend[j].att = 0 => pend'[j].att = 0)
    <2>1. CASE LeaveRead(k)
      BY <1>2, <2>1, EndedShape DEF LeaveRead
    <2>2. CASE m.t # "leave" /\ Deliver(k, sess, <<m>>) /\ UNCHANGED pend
      <3>1. <<m>> \in Seq(Asks)
        BY <1>3, <2>2
      <3>2. Same(sess, sess')
        BY <1>2, <2>2, <3>1, DeliveredKeeps DEF Deliver
      <3> QED BY <2>2, <3>2 DEF Same
    <2>3. CASE m.t # "leave" /\ pend' = [pend EXCEPT ![k].queue = Append(@, m)] /\ UNCHANGED sess
      BY <1>2, <2>3
    <2>4. CASE m.t # "leave" /\ Admit(k, <<m>>) /\ UNCHANGED sess
      BY <1>2, <2>4 DEF Admit
    <2> QED BY <1>4, <2>1, <2>2, <2>3, <2>4
  <1>7. cl[k] \in {"off", "ended"} =>
          IF inbox'[k] = <<>> THEN sess'[k].on = 0 /\ pend'[k].att = 0
          ELSE inbox'[k][Len(inbox'[k])].t = "leave"
    <2> SUFFICES ASSUME cl[k] \in {"off", "ended"}
                 PROVE  IF inbox'[k] = <<>> THEN sess'[k].on = 0 /\ pend'[k].att = 0
                        ELSE inbox'[k][Len(inbox'[k])].t = "leave"
      OBVIOUS
    <2> DEFINE q == inbox[k]
               n == Len(q)
    <2>1. q \in Seq(Says) /\ q # <<>> /\ inbox'[k] = Tail(q) /\ q[n].t = "leave"
      BY <1>1, <1>2 DEF Parted
    <2>2. n \in Nat /\ n # 0 /\ Len(Tail(q)) = n - 1 /\ Head(q) = q[1]
      BY <2>1
    <2>3. CASE n = 1
      <3>1. m.t = "leave"
        BY <2>1, <2>2, <2>3 DEF m
      <3>2. sess'[k].on = 0 /\ pend'[k].att = 0
        BY <1>2, <1>5, <3>1, EndedShape, NoAttemptShape DEF LeaveRead
      <3>3. Tail(q) = <<>>
        BY <2>1, <2>3, TailLast
      <3> QED BY <2>1, <3>2, <3>3
    <2>4. CASE n # 1
      <3>1. Tail(q)[Len(Tail(q))] = q[n] /\ Tail(q) # <<>>
        BY <2>1, <2>4, TailLast
      <3> QED BY <2>1, <3>1
    <2> QED BY <2>3, <2>4
  <1>8. \A j \in Sockets : j # k => inbox'[j] = inbox[j]
    BY <1>1, <1>2
  <1> QED BY <1>1, <1>6, <1>7, <1>8, PartedElsewhere DEF Parted

\* A verdict finds an attempt or a session, and opens no session where there is neither.
LEMMA SettleParts ==
  ASSUME Types, Numbered, Parted, NEW c \in checks, Settle(c)
  PROVE  Parted'
  <1>1. UNCHANGED <<cl, inbox>>
    BY DEF Settle, client
  <1>2. c.k \in Sockets /\ c.on \in Nat /\ c.att \in Nat /\ (c.kind = "admit" => c.att # 0)
    BY DEF Types, Checks, Numbered
  <1>3. sess \in [Sockets -> Sessions] /\ pend \in [Sockets -> Attempts]
    BY DEF Types
  <1>4. pend' = pend \/ pend' = [pend EXCEPT ![c.k] = NoAttempt]
    BY DEF Settle, Resolved, Opened, Refuse
  <1>5. \/ sess' = sess
        \/ sess' = Ended(sess, {c.k})
        \/ Current(c) /\ c.kind = "admit" /\ Opened(c) /\ sess' # sess
    BY DEF Settle, Resolved, Opened, JudgedAgain
  <1>6. \A j \in Sockets : pend[j].att = 0 => pend'[j].att = 0
    BY <1>2, <1>3, <1>4, NoAttemptShape
  <1>7. \A j \in Sockets : sess[j].on = 0 => sess'[j].on = 0 \/ (j = c.k /\ pend[j].att # 0)
    <2>1. CASE sess' = Ended(sess, {c.k})
      BY <1>3, <2>1, EndedShape
    <2>2. CASE Current(c) /\ c.kind = "admit" /\ Opened(c) /\ sess' # sess
      <3> DEFINE s == [sess EXCEPT ![c.k] = [NoSession EXCEPT !.on = c.on, !.id = c.att]]
      <3>1. pend[c.k].att # 0
        BY <1>2, <2>2 DEF Current
      <3>2. s \in [Sockets -> Sessions] /\ pend[c.k].queue \in Seq(Asks)
        <4>1. [NoSession EXCEPT !.on = c.on, !.id = c.att] \in Sessions
          BY <1>2 DEF NoSession, Sessions
        <4> QED BY <1>2, <1>3, <4>1 DEF Attempts
      <3>3. \A j \in Sockets : j # c.k => s[j] = sess[j]
        BY <1>3
      <3>4. Deliver(c.k, s, pend[c.k].queue)
        BY <2>2 DEF Opened
      <3> HIDE DEF s
      <3>5. Same(s, sess')
        BY <1>2, <3>2, <3>4, DeliveredKeeps DEF Deliver
      <3> QED BY <3>1, <3>3, <3>5 DEF Same
    <2> QED BY <1>5, <2>1, <2>2
  <1> QED BY <1>1, <1>6, <1>7 DEF Parted

\* What else happens ends what there is, or concerns clients that are there.
LEMMA RestParts ==
  ASSUME Types, Parted,
         \/ Flush \/ Sweep \/ Unload
         \/ \E u \in Clients : TakesBack(u)
         \/ \E k \in Sockets : Handshake(k) \/ SocketOpens(k) \/ SocketCloses(k) \/ Evict(k)
  PROVE  Parted'
  <1>1. /\ sess \in [Sockets -> Sessions] /\ inbox \in [Sockets -> Seq(Says)]
        /\ pend \in [Sockets -> Attempts]
        /\ cl \in [Sockets -> {"off", "waits", "synced", "again", "ended"}]
    BY DEF Types
  <1>2. ASSUME NEW K, HangUp(K) PROVE Parted'
    <2> SUFFICES ASSUME NEW k \in Sockets, cl'[k] \in {"off", "ended"}
                 PROVE  IF inbox'[k] = <<>> THEN sess'[k].on = 0 /\ pend'[k].att = 0
                        ELSE inbox'[k][Len(inbox'[k])].t = "leave"
      BY DEF Parted
    <2>1. CASE k \in K
      BY <1>2, <2>1, HangUpShape
    <2>2. CASE k \notin K
      <3>1. /\ pend'[k] = pend[k] /\ sess'[k] = sess[k]
            /\ inbox'[k] = inbox[k] /\ cl'[k] = cl[k]
        BY <1>2, <2>2, HangUpShape
      <3> QED BY <3>1 DEF Parted
    <2> QED BY <2>1, <2>2
  <1>3. ASSUME NEW u \in Clients, Revalidate(u) PROVE Parted'
    <2>1. UNCHANGED <<sess, inbox, cl>>
      BY <1>3 DEF Revalidate
    <2>2. \A j \in Sockets : pend[j].att = 0 => pend'[j] = pend[j]
      BY <1>3 DEF Revalidate
    <2> QED BY <2>1, <2>2 DEF Parted
  <1>4. CASE Flush \/ Sweep
    BY <1>4 DEF Flush, Sweep, client, hub, Parted
  <1>5. ASSUME NEW K, sess' = Ended(sess, K), UNCHANGED <<cl, inbox, pend>> PROVE Parted'
    BY SMTT(60), <1>1, <1>5, EndedShape DEF Parted
  <1>6. ASSUME NEW k \in Sockets, Handshake(k) PROVE Parted'
    BY <1>6 DEF Handshake, client, hub, Parted
  <1>7. ASSUME NEW k \in Sockets, SocketOpens(k) PROVE Parted'
    <2>1. cl' = [cl EXCEPT ![k] = "waits"] /\ inbox' = [inbox EXCEPT ![k] = <<Hello(k)>>] /\ UNCHANGED <<sess, pend>>
      BY <1>7 DEF SocketOpens, hub
    <2> QED BY <1>1, <2>1, PartedElsewhere DEF Parted
  <1>8. CASE \E u \in Clients : TakesBack(u)
    BY <1>2, <1>3, <1>8 DEF TakesBack
  <1>9. CASE \E k \in Sockets : SocketCloses(k)
    BY <1>2, <1>9 DEF SocketCloses
  <1>10. CASE Unload \/ \E k \in Sockets : Evict(k)
    BY <1>5, <1>10 DEF Unload, Evict, client
  <1> QED BY <1>4, <1>6, <1>7, <1>8, <1>9, <1>10

\* Every step keeps what is claimed of clients that left.
LEMMA PartedNext == Types /\ Numbered /\ Parted /\ [Next]_vars => Parted'
  <1> SUFFICES ASSUME Types, Numbered, Parted, [Next]_vars PROVE Parted'
    OBVIOUS
  <1>1. CASE UNCHANGED vars
    BY <1>1 DEF vars, client, hub, Parted
  <1> QED BY <1>1, ClientParts, HubParts, SettleParts, RestParts DEF Next, Working

\* It holds of clients that never came.
LEMMA PartedInit == Init => Parted
  BY DEF Init, Parted, NoSession, NoAttempt

\* hub.js:159-161: a client that left has no session and no attempt under way once its
\* leave was read, whatever was under way and whoever asked for it.
THEOREM Left == Spec => []LeftIsOut
  <1>1. Kept => Types /\ Numbered
    BY DEF Kept
  <1>2. Parted => LeftIsOut
    BY DEF Parted, LeftIsOut
  <1> QED BY <1>1, <1>2, KeptInit, KeptNext, PartedInit, PartedNext, PTL DEF Spec

-----------------------------------------------------------------------------
(* No attempt is thrown away while its store stays.                        *)

\* What the second hook is asked about is the store there is.
LEMMA ResolvesNext ==
  ASSUME Uses \cap {"sweep", "unload"} = {}, Types, Resolves, [Next]_vars
  PROVE  Resolves'
  <1>1. live \in Nat /\ loads \in Nat
    BY DEF Types
  <1>2. ASSUME UNCHANGED <<thrown, live>>,
               \A d \in checks' : d \in checks \/ ~(d.kind = "admit" /\ d.stage = "store")
        PROVE  Resolves'
    BY <1>2 DEF Resolves
  <1>3. CASE UNCHANGED vars
    BY <1>2, <1>3 DEF vars, hub, store
  <1>4. CASE Flush
    BY <1>2, <1>4 DEF Flush, hub
  <1>5. ASSUME NEW k \in Sockets, HubReads(k) PROVE Resolves'
    <2>1. UNCHANGED <<thrown, live>>
      BY <1>5 DEF HubReads
    <2>2. checks' = checks \/ \E n : Admit(k, n)
      BY <1>5 DEF HubReads, LeaveRead
    <2>3. ASSUME NEW n, Admit(k, n) PROVE \A d \in checks' : d \in checks \/ d.stage = "id"
      BY <2>3, CheckShape DEF Admit
    <2> QED BY <1>2, <2>1, <2>2, <2>3
  <1>6. ASSUME NEW k \in Sockets,
               \/ ClientHears(k) \/ SaysAgain(k) \/ Handshake(k) \/ SocketOpens(k)
               \/ Detach(k) \/ Attach(k) \/ Share(k)
        PROVE  Resolves'
    <2>1. UNCHANGED <<thrown, live, checks>>
      BY <1>6 DEF ClientHears, SaysAgain, Handshake, SocketOpens, Detach, Attach, Share, hub, store
    <2> QED BY <1>2, <2>1
  <1>7. ASSUME NEW k \in Sockets, SocketCloses(k) \/ Evict(k) PROVE Resolves'
    BY <1>2, <1>7 DEF SocketCloses, HangUp, Evict
  <1>8. ASSUME NEW u \in Clients, TakesBack(u) PROVE Resolves'
    <2>1. UNCHANGED <<thrown, live>>
      BY <1>8 DEF TakesBack
    <2>2. CASE HangUp(Judgeable(u))
      BY <1>2, <2>1, <2>2 DEF HangUp
    <2>3. CASE Revalidate(u)
      <3>1. \A d \in checks' : d \in checks \/ d.stage = "id"
        BY <2>3 DEF Revalidate
      <3> QED BY <1>2, <2>1, <3>1
    <2> QED BY <1>8, <2>2, <2>3 DEF TakesBack
  <1>9. ASSUME NEW c \in checks, Settle(c) PROVE Resolves'
    <2>1. CASE UNCHANGED <<thrown, live>> /\ checks' = checks \ {c}
      BY <1>2, <2>1
    <2>2. CASE c.kind = "again" /\ JudgedAgain(c) /\ UNCHANGED <<thrown, live>>
      <3>1. \A d \in checks' : d \in checks \/ d.kind = "again"
        BY <2>2, CheckShape DEF JudgedAgain
      <3> QED BY <1>2, <2>2, <3>1
    <2>3. CASE c.kind = "admit" /\ c.stage = "id" /\ Resolved(c)
      <3>1. CASE live' = (IF live # 0 THEN live ELSE loads + 1) /\ UNCHANGED thrown
                 /\ \E d \in Check(c.k, c.att, "admit", "store", live') : checks' = (checks \ {c}) \cup {d}
        <4>1. PICK d \in Check(c.k, c.att, "admit", "store", live') : checks' = (checks \ {c}) \cup {d}
          BY <3>1
        <4>2. live' # 0 /\ d.on = live'
          BY <1>1, <3>1, CheckShape
        <4>3. \A e \in checks : e.kind = "admit" /\ e.stage = "store" => live' = live
          BY <3>1 DEF Resolves
        <4> QED BY <3>1, <4>1, <4>2, <4>3 DEF Resolves
      <3> QED BY <2>1, <2>3, <3>1 DEF Resolved
    <2>4. CASE c.kind = "admit" /\ c.stage = "store" /\ Opened(c)
      <3>1. c.on = live
        BY <2>4 DEF Resolves
      <3> QED BY <1>2, <2>4, <3>1 DEF Opened
    <2> QED BY <1>9, <2>1, <2>2, <2>3, <2>4 DEF Settle, store
  <1>10. ~Sweep /\ ~Unload
    BY DEF Sweep, Unload
  <1> QED BY <1>3, <1>4, <1>5, <1>6, <1>7, <1>8, <1>9, <1>10 DEF Next, Working

\* hub.js:183-206: as long as no store is swept, unloaded or restored, the store a hook is
\* asked about is there when it answers, and no attempt is thrown away with what waits.
THEOREM AttemptsStay == Uses \cap {"sweep", "unload"} = {} => (Spec => []NoneThrown)
  <1> SUFFICES ASSUME Uses \cap {"sweep", "unload"} = {} PROVE Spec => []NoneThrown
    OBVIOUS
  <1>1. Kept => Types
    BY DEF Kept
  <1>2. Init => Resolves
    BY DEF Init, Resolves
  <1>3. Types /\ Resolves /\ [Next]_vars => Resolves'
    BY ResolvesNext
  <1>4. Resolves => NoneThrown
    BY DEF Resolves, NoneThrown
  <1> QED BY <1>1, <1>2, <1>3, <1>4, KeptInit, KeptNext, PTL DEF Spec

-----------------------------------------------------------------------------
(* The list that a client keeps of who is there.                           *)

Pairs == Clients \X Nat
Entries ==
  [who : Sockets \X Nat, rep : Clients, joined : BOOLEAN, left : BOOLEAN, shared : BOOLEAN]
Messages ==
  [t : {"answer"}] \cup [t : {"peers"}, all : SUBSET Pairs]
    \cup [t : {"presence"}, left : SUBSET Clients, joined : SUBSET Pairs, shared : SUBSET Pairs]
    \cup [t : {"closed"}, code : {"unavailable", "forbidden", "evicted"}]

\* What a client that is there makes of its list with a message.
Met(list, m) ==
  IF m.t \in {"peers", "presence"} THEN Applied(list, m) ELSE IF m.t = "closed" THEN {} ELSE list

\* With the messages of w a list comes to x.
Leads(list, w, x) ==
  \E L \in [0 .. Len(w) -> SUBSET Pairs] :
    /\ L[0] = list /\ L[Len(w)] = x
    /\ \A i \in 1 .. Len(w) : L[i] = Met(L[i - 1], w[i])

Joined(s, k) == s[k].on # 0 /\ s[k].joined
Is(s, who) == s[who[1]].on # 0 /\ s[who[1]].id = who[2]

\* What is noted is of sessions that left, or of joined ones; and a client that left and is
\* back is noted as that too.
Matches(n, s) ==
  /\ \A e \in n : e.rep = e.who[1][1]
  /\ \A e \in n : IF e.left THEN ~e.joined /\ ~Is(s, e.who)
                  ELSE Joined(s, e.who[1]) /\ Is(s, e.who) /\ (e.joined \/ e.shared)
  /\ \A e, d \in n : e.who = d.who => e = d
  /\ \A e \in n : e.left => \A k \in Sockets : Joined(s, k) /\ k[1] = e.rep =>
       \E d \in n : d.who = <<k, s[k].id>> /\ d.joined

\* A client has one session.
Alone(s) == \A j, k \in Sockets : s[j].on # 0 /\ s[k].on # 0 /\ j[1] = k[1] => j = k

\* The list x is that of the sessions of s but for what is noted, and has whom nothing is
\* noted of but a share.
Told(x, n, s) ==
  /\ \A p \in Pairs : (\A e \in n : e.rep # p[1]) => (p \in x <=> p \in Listed(s))
  /\ \A e \in n : ~e.left /\ ~e.joined => \E p \in x : p[1] = e.rep

-----------------------------------------------------------------------------
\* The sessions listed are pairs.
LEMMA ListedPairs ==
  ASSUME NEW s \in [Sockets -> Sessions]
  PROVE  /\ Listed(s) \in SUBSET Pairs
         /\ \A p \in Pairs : p \in Listed(s) <=> \E k \in Sockets : Joined(s, k) /\ p = <<k[1], s[k].data>>
  <1>1. \A k \in Sockets : k[1] \in Clients /\ s[k].data \in Nat
    BY DEF Sockets, Sessions
  <1> QED BY <1>1 DEF Listed, Joined, Pairs

\* With nothing noted a list that is told is that of the sessions.
LEMMA ToldIs ==
  ASSUME NEW s \in [Sockets -> Sessions], NEW x \in SUBSET Pairs, Told(x, {}, s)
  PROVE  x = Listed(s)
  <1>1. \A p \in Pairs : p \in x <=> p \in Listed(s)
    BY DEF Told
  <1> QED BY <1>1, ListedPairs

\* Entries are what they say.
LEMMA EntryIs ==
  ASSUME NEW k \in Sockets, NEW s \in [Sockets -> Sessions],
         NEW jo \in BOOLEAN, NEW le \in BOOLEAN, NEW sh \in BOOLEAN
  PROVE  LET e == Entry(k, s, jo, le, sh)
         IN  /\ e \in Entries /\ e.who = <<k, s[k].id>> /\ e.who[1] = k /\ e.who[2] = s[k].id
             /\ e.rep = k[1] /\ e.joined = jo /\ e.left = le /\ e.shared = sh
  <1>1. k[1] \in Clients /\ s[k].id \in Nat
    BY DEF Sockets, Sessions
  <1> QED BY <1>1 DEF Entry, Entries

\* What is noted of a session is not that it left.
NotLeft(n, k, s) == \A e \in n : e.who = <<k, s[k].id>> => ~e.left

\* What is noted of a session that joins or shares: one entry, for all there was of it.
Noted(n, k, s, what, new) ==
  /\ Note(n, k, s, what) = {e \in n : e.who # <<k, s[k].id>>} \cup {new}
  /\ new.who = <<k, s[k].id>> /\ new.rep = k[1] /\ ~new.left
  /\ new.joined <=> what = "join" \/ \E e \in n : e.who = <<k, s[k].id>> /\ e.joined
  /\ new.joined \/ new.shared

\* What is noted of a session takes the place of what was.
LEMMA NoteIs ==
  ASSUME NEW n \in SUBSET Entries, NEW k \in Sockets, NEW s \in [Sockets -> Sessions],
         NEW what \in {"join", "share"}, NotLeft(n, k, s)
  PROVE  \E new \in Entries : Noted(n, k, s, what, new)
  <1> DEFINE old == {e \in n : e.who = <<k, s[k].id>>}
             jo == (what = "join" \/ \E e \in old : e.joined)
             le == (\E e \in old : e.left)
             sh == (what = "share" \/ \E e \in old : e.shared)
             new == Entry(k, s, jo, le, sh)
  <1>1. Note(n, k, s, what) = (n \ old) \cup {new}
    BY DEF Note
  <1>2. ~le
    BY DEF NotLeft
  <1>3. jo \in BOOLEAN /\ le \in BOOLEAN /\ sh \in BOOLEAN
    OBVIOUS
  <1>4. jo <=> what = "join" \/ \E e \in n : e.who = <<k, s[k].id>> /\ e.joined
    OBVIOUS
  <1>5. jo \/ sh
    OBVIOUS
  <1>6. n \ old = {e \in n : e.who # <<k, s[k].id>>}
    OBVIOUS
  <1> HIDE DEF jo, le, sh
  <1>7. /\ new \in Entries /\ new.who = <<k, s[k].id>> /\ new.rep = k[1]
        /\ new.joined = jo /\ new.left = le /\ new.shared = sh
    BY <1>3, EntryIs
  <1> HIDE DEF new, old
  <1> QED BY <1>1, <1>2, <1>4, <1>5, <1>6, <1>7 DEF Noted

\* What was told is told of the next state: what is noted of it matches, and lists stay right.
Goes(n, s, n2, s2) ==
  /\ n2 \in SUBSET Entries /\ Matches(n2, s2)
  /\ \A x \in SUBSET Pairs : Told(x, n, s) => Told(x, n2, s2)

\* Nothing changes.
LEMMA GoesSame ==
  ASSUME NEW n \in SUBSET Entries, NEW s, Matches(n, s)
  PROVE  Goes(n, s, n, s)
  BY DEF Goes

\* A session greeted or that shares, as the store notes it: the one entry of it is new.
LEMMA NoteGoes ==
  ASSUME NEW n \in SUBSET Entries, NEW k \in Sockets,
         NEW s \in [Sockets -> Sessions], NEW h \in [Sockets -> Sessions],
         Alone(s), Matches(n, s), s[k].on # 0,
         \A j \in Sockets : j # k => h[j] = s[j],
         h[k].on = s[k].on, h[k].id = s[k].id, h[k].joined,
         NEW what \in {"join", "share"}, what = "share" => s[k].joined
  PROVE  Goes(n, s, Note(n, k, h, what), h)
  <1> DEFINE who == <<k, s[k].id>>
             rest == {e \in n : e.who # who}
  <1>1. \A e \in n : e.who = who => ~e.left
    <2> SUFFICES ASSUME NEW e \in n, e.who = who, e.left PROVE FALSE
      BY DEF Entries
    <2>1. e.who[1] = k /\ e.who[2] = s[k].id
      OBVIOUS
    <2>2. ~Is(s, e.who)
      BY DEF Matches
    <2> QED BY <2>1, <2>2 DEF Is
  <1>2. PICK new \in Entries :
           /\ Note(n, k, h, what) = rest \cup {new}
           /\ new.who = who /\ new.rep = k[1] /\ ~new.left
           /\ new.joined <=> what = "join" \/ \E e \in n : e.who = who /\ e.joined
           /\ new.joined \/ new.shared
    <2>1. NotLeft(n, k, h)
      BY <1>1 DEF NotLeft
    <2>2. PICK new \in Entries : Noted(n, k, h, what, new)
      BY <2>1, NoteIs
    <2> QED BY <2>2 DEF Noted
  <1>3. who[1] = k /\ who[2] = s[k].id
    OBVIOUS
  <1>4. \A e \in n : /\ e.who \in Sockets \X Nat /\ e.rep \in Clients /\ e.left \in BOOLEAN
                     /\ e.joined \in BOOLEAN /\ e.who[1] \in Sockets /\ e.who = <<e.who[1], e.who[2]>>
    BY DEF Entries
  <1> HIDE DEF who, rest
  <1> DEFINE n2 == rest \cup {new}
  <1>5. \A e \in n2 : e = new \/ (e \in n /\ e.who # who)
    BY DEF rest
  <1>6. \A e \in n : e.who = who \/ e \in n2
    BY DEF rest
  <1>7. new \in n2 /\ n2 \in SUBSET Entries
    BY <1>5
  <1> HIDE DEF n2
  <1>8. \A j \in Sockets : h[j].on = s[j].on /\ h[j].id = s[j].id
    OBVIOUS
  <1>9. \A e \in n : Is(h, e.who) <=> Is(s, e.who)
    BY <1>4, <1>8 DEF Is
  <1>10. \A j \in Sockets : Joined(s, j) => Joined(h, j)
    BY DEF Joined
  <1>11. Matches(n2, h)
    <2>1. \A e \in n2 : e.rep = e.who[1][1]
      BY <1>2, <1>3, <1>5 DEF Matches
    <2>2. ASSUME NEW e \in n2
          PROVE  IF e.left THEN ~e.joined /\ ~Is(h, e.who)
                 ELSE Joined(h, e.who[1]) /\ Is(h, e.who) /\ (e.joined \/ e.shared)
      <3>1. CASE e = new
        BY <1>2, <1>3, <1>8, <3>1 DEF Joined, Is
      <3>2. CASE e \in n
        <4>1. IF e.left THEN ~e.joined /\ ~Is(s, e.who)
              ELSE Joined(s, e.who[1]) /\ Is(s, e.who) /\ (e.joined \/ e.shared)
          BY <3>2 DEF Matches
        <4> QED BY <1>4, <1>9, <1>10, <3>2, <4>1
      <3> QED BY <1>5, <3>1, <3>2
    <2>3. \A e, d \in n2 : e.who = d.who => e = d
      BY <1>2, <1>5 DEF Matches
    <2>4. ASSUME NEW e \in n2, e.left, NEW j \in Sockets, Joined(h, j), j[1] = e.rep
          PROVE  \E d \in n2 : d.who = <<j, h[j].id>> /\ d.joined
      <3>1. e \in n /\ e.who # who
        BY <1>2, <1>5, <2>4
      <3>2. CASE j # k
        <4>1. Joined(s, j) /\ h[j].id = s[j].id
          BY <2>4, <3>2 DEF Joined
        <4>2. PICK d \in n : d.who = <<j, s[j].id>> /\ d.joined
          BY <2>4, <3>1, <4>1 DEF Matches
        <4>3. d.who # who
          BY <3>2, <4>2 DEF who
        <4> QED BY <1>6, <4>1, <4>2, <4>3
      <3>3. CASE j = k
        <4>1. what = "share" => \E d \in n : d.who = who /\ d.joined
          <5>1. what = "share" => Joined(s, k)
            BY DEF Joined
          <5> QED BY <2>4, <3>1, <3>3, <5>1 DEF Matches, who
        <4>2. new.joined
          BY <1>2, <4>1
        <4> QED BY <1>2, <1>7, <3>3, <4>2 DEF who
      <3> QED BY <3>2, <3>3
    <2> QED BY <2>1, <2>2, <2>3, <2>4 DEF Matches
  <1>12. ASSUME NEW p \in Pairs, p[1] # k[1] PROVE p \in Listed(h) <=> p \in Listed(s)
    <2>1. \A j \in Sockets : j[1] = p[1] => h[j] = s[j]
      BY <1>12
    <2> QED BY <2>1, ListedPairs DEF Joined
  <1>13. ASSUME NEW x \in SUBSET Pairs, Told(x, n, s) PROVE Told(x, n2, h)
    <2>1. ASSUME NEW p \in Pairs, \A e \in n2 : e.rep # p[1] PROVE p \in x <=> p \in Listed(h)
      <3>1. p[1] # k[1]
        BY <1>2, <1>7, <2>1
      <3>2. \A e \in n : e.rep # p[1]
        BY <1>3, <1>6, <2>1, <3>1 DEF Matches
      <3> QED BY <1>12, <1>13, <3>1, <3>2 DEF Told
    <2>2. ASSUME NEW e \in n2, ~e.left, ~e.joined PROVE \E p \in x : p[1] = e.rep
      <3>1. CASE e \in n
        BY <1>13, <2>2, <3>1 DEF Told
      <3>2. CASE e = new
        <4>1. what = "share" /\ Joined(s, k)
          BY <1>2, <2>2, <3>2 DEF Joined
        <4>2. CASE \E d \in n : d.rep = k[1] /\ ~d.left
          <5>1. PICK d \in n : d.rep = k[1] /\ ~d.left
            BY <4>2
          <5>2. d.who[1] = k /\ d.who[2] = s[k].id
            BY <1>4, <5>1 DEF Matches, Alone, Joined, Is
          <5>3. d.who = who
            BY <1>4, <5>2 DEF who
          <5>4. ~d.joined
            BY <1>2, <2>2, <3>2, <5>3
          <5> QED BY <1>2, <1>13, <3>2, <5>1, <5>4 DEF Told
        <4>3. CASE \E d \in n : d.rep = k[1] /\ d.left
          <5>1. \E d \in n : d.who = who /\ d.joined
            BY <4>1, <4>3 DEF Matches, who
          <5> QED BY <1>2, <2>2, <3>2, <5>1
        <4>4. CASE ~\E d \in n : d.rep = k[1]
          <5> DEFINE p == <<k[1], s[k].data>>
          <5>1. p \in Pairs /\ p[1] = k[1]
            BY DEF Pairs, Sockets, Sessions
          <5>2. p \in Listed(s)
            BY <4>1, <5>1, ListedPairs
          <5>3. p \in x
            BY <1>13, <4>4, <5>1, <5>2 DEF Told
          <5> QED BY <1>2, <3>2, <5>1, <5>3
        <4> QED BY <4>2, <4>3, <4>4
      <3> QED BY <1>5, <2>2, <3>1, <3>2
    <2> QED BY <2>1, <2>2 DEF Told
  <1> QED BY <1>2, <1>7, <1>11, <1>13 DEF n2, Goes

\* The list that a session is greeted with is told.
LEMMA ListTold ==
  ASSUME NEW n \in SUBSET Entries, NEW s \in [Sockets -> Sessions], Matches(n, s)
  PROVE  Told(Listed(s), n, s)
  <1>1. ASSUME NEW e \in n, ~e.left PROVE \E p \in Listed(s) : p[1] = e.rep
    <2> DEFINE k == e.who[1]
               p == <<k[1], s[k].data>>
    <2>1. k \in Sockets /\ Joined(s, k) /\ e.rep = k[1]
      BY <1>1 DEF Matches, Entries
    <2>2. p \in Pairs /\ p[1] = k[1]
      BY <2>1 DEF Pairs, Sockets, Sessions
    <2>3. p \in Listed(s)
      BY <2>1, <2>2, ListedPairs
    <2> QED BY <2>1, <2>2, <2>3
  <1> QED BY <1>1 DEF Told

\* Sessions end, joined or not, as the store notes it.
LEMMA LeftGoes ==
  ASSUME NEW n \in SUBSET Entries, NEW s \in [Sockets -> Sessions], NEW K \in SUBSET Sockets,
         Alone(s), Matches(n, s)
  PROVE  Goes(n, s, NoteLeft(n, s, K), Ended(s, K))
  <1> DEFINE gone == {k \in K : s[k].on # 0 /\ s[k].joined}
             of(k) == Entry(k, s, FALSE, TRUE, FALSE)
             n2 == NoteLeft(n, s, K)
             t == Ended(s, K)
  <1>1. \A k \in Sockets : k \in gone <=> k \in K /\ Joined(s, k)
    BY DEF Joined
  <1>2. n2 = {e \in n : \A k \in gone : e.who # <<k, s[k].id>>} \cup {of(k) : k \in gone}
    BY DEF NoteLeft
  <1>3. \A k \in Sockets : /\ of(k) \in Entries /\ of(k).who = <<k, s[k].id>>
                           /\ of(k).who[1] = k /\ of(k).who[2] = s[k].id
                           /\ of(k).rep = k[1] /\ ~of(k).joined /\ of(k).left
    <2> SUFFICES ASSUME NEW k \in Sockets
                 PROVE  /\ of(k) \in Entries /\ of(k).who = <<k, s[k].id>>
                        /\ of(k).who[1] = k /\ of(k).who[2] = s[k].id
                        /\ of(k).rep = k[1] /\ ~of(k).joined /\ of(k).left
      OBVIOUS
    <2>1. TRUE \in BOOLEAN /\ FALSE \in BOOLEAN
      OBVIOUS
    <2>2. LET e == Entry(k, s, FALSE, TRUE, FALSE)
          IN  /\ e \in Entries /\ e.who = <<k, s[k].id>> /\ e.who[1] = k /\ e.who[2] = s[k].id
              /\ e.rep = k[1] /\ e.joined = FALSE /\ e.left = TRUE /\ e.shared = FALSE
      BY <2>1, EntryIs, Zenon
    <2> QED BY <2>2, ZenonT(60)
  <1>4. gone \subseteq Sockets
    OBVIOUS
  <1> HIDE DEF gone, of, n2
  <1>5. \A e \in n2 : (e \in n /\ \A k \in gone : e.who # <<k, s[k].id>>) \/ \E k \in gone : e = of(k)
    BY <1>2
  <1>6. /\ \A k \in gone : of(k) \in n2
        /\ \A e \in n : e \in n2 \/ \E k \in gone : e.who = <<k, s[k].id>>
    BY <1>2
  <1>7. n2 \in SUBSET Entries
    BY <1>3, <1>4, <1>5
  <1>8. /\ t \in [Sockets -> Sessions]
        /\ \A k \in Sockets : IF k \in K THEN t[k].on = 0 ELSE t[k] = s[k]
    BY EndedShape
  <1> HIDE DEF t
  <1>9. \A e \in n : /\ e.who[1] \in Sockets /\ e.who = <<e.who[1], e.who[2]>> /\ e.left \in BOOLEAN
                     /\ e.rep = e.who[1][1]
    BY DEF Entries, Matches
  <1>10. ASSUME NEW e \in n, e \in n2 PROVE ~e.left => e.who[1] \notin K
    <2> SUFFICES ASSUME ~e.left, e.who[1] \in K PROVE FALSE
      OBVIOUS
    <2>1. Joined(s, e.who[1]) /\ e.who[2] = s[e.who[1]].id
      BY DEF Matches, Is
    <2>2. e.who[1] \in gone /\ e.who = <<e.who[1], s[e.who[1]].id>>
      BY <1>1, <1>9, <2>1
    <2>3. PICK k \in gone : e = of(k)
      BY <1>5, <1>10, <2>2
    <2> QED BY <1>3, <1>4, <2>3
  <1>11. Matches(n2, t)
    <2>1. \A e \in n2 : e.rep = e.who[1][1]
      BY <1>3, <1>4, <1>5, <1>9
    <2>2. ASSUME NEW e \in n2
          PROVE  IF e.left THEN ~e.joined /\ ~Is(t, e.who)
                 ELSE Joined(t, e.who[1]) /\ Is(t, e.who) /\ (e.joined \/ e.shared)
      <3>1. CASE e \in n
        <4>1. IF e.left THEN ~e.joined /\ ~Is(s, e.who)
              ELSE Joined(s, e.who[1]) /\ Is(s, e.who) /\ (e.joined \/ e.shared)
          BY <3>1 DEF Matches
        <4>2. CASE e.left
          <5>1. Is(t, e.who) => Is(s, e.who)
            BY <1>8, <1>9, <3>1 DEF Is
          <5> QED BY <4>1, <4>2, <5>1
        <4>3. CASE ~e.left
          <5>1. t[e.who[1]] = s[e.who[1]]
            BY <1>8, <1>9, <1>10, <3>1, <4>3
          <5> QED BY <4>1, <4>3, <5>1 DEF Joined, Is
        <4> QED BY <4>2, <4>3
      <3>2. ASSUME NEW k \in gone, e = of(k) PROVE e.left /\ ~e.joined /\ ~Is(t, e.who)
        BY <1>1, <1>3, <1>4, <1>8, <3>2 DEF Is
      <3> QED BY <1>5, <3>1, <3>2
    <2>3. ASSUME NEW e \in n2, NEW d \in n2, e.who = d.who PROVE e = d
      <3>1. CASE e \in n /\ d \in n
        BY <2>3, <3>1 DEF Matches
      <3>2. ASSUME NEW k \in gone, e = of(k) \/ d = of(k) PROVE e = d
        <4>1. e.who = <<k, s[k].id>> /\ d.who = <<k, s[k].id>>
          BY <1>3, <1>4, <2>3, <3>2
        <4>2. PICK i \in gone, j \in gone : e = of(i) /\ d = of(j)
          BY <1>5, <4>1
        <4>3. i = k /\ j = k
          BY <1>3, <1>4, <4>1, <4>2
        <4> QED BY <4>2, <4>3
      <3> QED BY <1>5, <3>1, <3>2
    <2>4. ASSUME NEW e \in n2, e.left, NEW j \in Sockets, Joined(t, j), j[1] = e.rep
          PROVE  \E d \in n2 : d.who = <<j, t[j].id>> /\ d.joined
      <3>1. j \notin K /\ t[j] = s[j] /\ Joined(s, j)
        BY <1>8, <2>4 DEF Joined
      <3>2. ~\E k \in gone : e = of(k)
        BY <1>1, <1>3, <1>4, <2>4, <3>1 DEF Alone, Joined
      <3>3. PICK d \in n : d.who = <<j, s[j].id>> /\ d.joined
        BY <1>5, <2>4, <3>1, <3>2 DEF Matches
      <3>4. d \in n2
        <4> SUFFICES ASSUME NEW k \in gone, d.who = <<k, s[k].id>> PROVE FALSE
          BY <1>6
        <4>1. k = j
          BY <3>3
        <4> QED BY <1>1, <1>4, <3>1, <4>1
      <3> QED BY <3>1, <3>3, <3>4
    <2> QED BY <2>1, <2>2, <2>3, <2>4 DEF Matches
  <1>12. ASSUME NEW x \in SUBSET Pairs, Told(x, n, s) PROVE Told(x, n2, t)
    <2>1. ASSUME NEW p \in Pairs, \A e \in n2 : e.rep # p[1] PROVE p \in x <=> p \in Listed(t)
      <3>1. \A k \in gone : k[1] # p[1]
        BY <1>3, <1>4, <1>6, <2>1
      <3>2. \A e \in n : e.rep # p[1]
        <4> SUFFICES ASSUME NEW e \in n, e.rep = p[1] PROVE FALSE
          OBVIOUS
        <4>1. PICK k \in gone : e.who = <<k, s[k].id>>
          BY <1>6, <2>1
        <4> QED BY <1>9, <3>1, <4>1
      <3>3. \A k \in Sockets : k[1] = p[1] => (Joined(s, k) <=> Joined(t, k)) /\ (Joined(t, k) => t[k] = s[k])
        BY <1>1, <1>8, <3>1 DEF Joined
      <3>4. p \in Listed(s) <=> p \in Listed(t)
        <4>1. p \in Listed(s) <=> \E k \in Sockets : Joined(s, k) /\ p = <<k[1], s[k].data>>
          BY ListedPairs
        <4>2. p \in Listed(t) <=> \E k \in Sockets : Joined(t, k) /\ p = <<k[1], t[k].data>>
          BY <1>8, ListedPairs
        <4> QED BY <3>3, <4>1, <4>2
      <3> QED BY <1>12, <2>1, <3>2, <3>4 DEF Told
    <2>2. ASSUME NEW e \in n2, ~e.left, ~e.joined PROVE \E p \in x : p[1] = e.rep
      BY <1>3, <1>4, <1>5, <1>12, <2>2 DEF Told
    <2> QED BY <2>1, <2>2 DEF Told
  <1>13. Goes(n, s, n2, t)
    BY <1>7, <1>11, <1>12 DEF Goes
  <1> QED BY <1>13 DEF n2, t

\* One after the other.
LEMMA GoesOn ==
  ASSUME NEW n, NEW s, NEW n2, NEW s2, NEW n3, NEW s3,
         Goes(n, s, n2, s2), Goes(n2, s2, n3, s3)
  PROVE  Goes(n, s, n3, s3)
  BY DEF Goes

\* A session that has not said hello is of no account to who is told.
LEMMA UnseenGoes ==
  ASSUME NEW n \in SUBSET Entries, NEW k \in Sockets,
         NEW s \in [Sockets -> Sessions], NEW t \in [Sockets -> Sessions],
         Matches(n, s), ~Joined(s, k), ~Joined(t, k), \A j \in Sockets : j # k => t[j] = s[j],
         \A e \in n : e.left => ~Is(t, e.who)
  PROVE  Goes(n, s, n, t)
  <1>1. \A j \in Sockets : (Joined(s, j) <=> Joined(t, j)) /\ (Joined(t, j) => t[j] = s[j])
    BY DEF Joined
  <1>2. \A e \in n : e.who[1] \in Sockets /\ e.left \in BOOLEAN
    BY DEF Entries
  <1>3. Matches(n, t)
    <2>1. \A e \in n : e.rep = e.who[1][1]
      BY DEF Matches
    <2>2. ASSUME NEW e \in n
          PROVE  IF e.left THEN ~e.joined /\ ~Is(t, e.who)
                 ELSE Joined(t, e.who[1]) /\ Is(t, e.who) /\ (e.joined \/ e.shared)
      <3>1. IF e.left THEN ~e.joined /\ ~Is(s, e.who)
            ELSE Joined(s, e.who[1]) /\ Is(s, e.who) /\ (e.joined \/ e.shared)
        BY DEF Matches
      <3>2. ~e.left => t[e.who[1]] = s[e.who[1]]
        BY <1>1, <1>2, <3>1
      <3> QED BY <1>1, <1>2, <3>1, <3>2 DEF Is
    <2>3. \A e, d \in n : e.who = d.who => e = d
      BY DEF Matches
    <2>4. ASSUME NEW e \in n, e.left, NEW j \in Sockets, Joined(t, j), j[1] = e.rep
          PROVE  \E d \in n : d.who = <<j, t[j].id>> /\ d.joined
      <3>1. Joined(s, j) /\ t[j] = s[j]
        BY <1>1, <2>4
      <3>2. \E d \in n : d.who = <<j, s[j].id>> /\ d.joined
        BY <2>4, <3>1 DEF Matches
      <3> QED BY <3>1, <3>2
    <2> QED BY <2>1, <2>2, <2>3, <2>4 DEF Matches
  <1>4. \A p \in Pairs : p \in Listed(s) <=> p \in Listed(t)
    BY <1>1, ListedPairs
  <1>5. \A x \in SUBSET Pairs : Told(x, n, s) => Told(x, n, t)
    BY <1>4 DEF Told
  <1> QED BY <1>3, <1>5 DEF Goes

-----------------------------------------------------------------------------
(* What a client makes of its messages.                                    *)

\* A list stays one.
LEMMA MetIs ==
  ASSUME NEW x \in SUBSET Pairs, NEW m \in Messages
  PROVE  Met(x, m) \in SUBSET Pairs
  <1>1. CASE m.t = "peers"
    <2>1. m.all \in SUBSET Pairs
      BY <1>1 DEF Messages
    <2> QED BY <1>1, <2>1 DEF Met, Applied
  <1>2. CASE m.t = "presence"
    <2>1. m.joined \in SUBSET Pairs /\ m.shared \in SUBSET Pairs
      BY <1>2 DEF Messages
    <2> QED BY <1>2, <2>1 DEF Met, Applied
  <1>3. CASE m.t \notin {"peers", "presence"}
    BY <1>3 DEF Met
  <1> QED BY <1>1, <1>2, <1>3

\* With nothing to read a list is what it is.
LEMMA LeadsNone ==
  ASSUME NEW list \in SUBSET Pairs, NEW x
  PROVE  Leads(list, <<>>, x) <=> x = list
  <1>1. Len(<<>>) = 0
    OBVIOUS
  <1>2. ASSUME x = list PROVE Leads(list, <<>>, x)
    <2> DEFINE L == [i \in 0 .. 0 |-> list]
    <2>1. L \in [0 .. Len(<<>>) -> SUBSET Pairs] /\ L[0] = list /\ L[Len(<<>>)] = x
      BY <1>1, <1>2
    <2> HIDE DEF L
    <2> QED BY <1>1, <2>1 DEF Leads
  <1> QED BY <1>1, <1>2 DEF Leads

\* One more message.
LEMMA LeadsOn ==
  ASSUME NEW list, NEW w \in Seq(Messages), NEW x, Leads(list, w, x), NEW m \in Messages
  PROVE  x \in SUBSET Pairs /\ Met(x, m) \in SUBSET Pairs /\ Leads(list, Append(w, m), Met(x, m))
  <1> DEFINE n == Len(w)
             v == Append(w, m)
             y == Met(x, m)
  <1>1. n \in Nat /\ Len(v) = n + 1 /\ v[n + 1] = m /\ \A i \in 1 .. n : v[i] = w[i]
    OBVIOUS
  <1>2. PICK L \in [0 .. n -> SUBSET Pairs] :
          L[0] = list /\ L[n] = x /\ \A i \in 1 .. n : L[i] = Met(L[i - 1], w[i])
    BY DEF Leads
  <1> HIDE DEF n, v
  <1>3. x \in SUBSET Pairs
    BY <1>1, <1>2
  <1>4. y \in SUBSET Pairs
    BY <1>3, MetIs
  <1> HIDE DEF y
  <1> DEFINE M == [i \in 0 .. n + 1 |-> IF i = n + 1 THEN y ELSE L[i]]
  <1>5. M \in [0 .. n + 1 -> SUBSET Pairs]
    BY <1>1, <1>2, <1>4
  <1>6. M[0] = list /\ M[n + 1] = y /\ \A i \in 0 .. n : M[i] = L[i]
    BY <1>1, <1>2
  <1> HIDE DEF M
  <1>7. ASSUME NEW i \in 1 .. n + 1 PROVE M[i] = Met(M[i - 1], v[i])
    <2>1. CASE i = n + 1
      <3>1. M[i - 1] = x /\ n \in 0 .. n /\ i - 1 = n
        BY <1>1, <1>2, <1>6, <2>1
      <3> QED BY <1>1, <1>6, <2>1, <3>1 DEF y
    <2>2. CASE i # n + 1
      <3>1. i \in 1 .. n /\ i \in 0 .. n /\ i - 1 \in 0 .. n
        BY <1>1, <2>2
      <3> QED BY <1>1, <1>2, <1>6, <3>1
    <2> QED BY <2>1, <2>2
  <1>8. Leads(list, v, y)
    BY <1>1, <1>5, <1>6, <1>7 DEF Leads
  <1> QED BY <1>3, <1>4, <1>8 DEF v, y

\* A message is read.
LEMMA LeadsTail ==
  ASSUME NEW list, NEW w \in Seq(Messages), w # <<>>, NEW x, Leads(list, w, x)
  PROVE  Leads(Met(list, Head(w)), Tail(w), x)
  <1> DEFINE n == Len(w)
             v == Tail(w)
  <1>1. n \in Nat /\ n # 0 /\ Len(v) = n - 1 /\ Head(w) = w[1] /\ \A i \in 1 .. n - 1 : v[i] = w[i + 1]
    OBVIOUS
  <1>2. PICK L \in [0 .. n -> SUBSET Pairs] :
          L[0] = list /\ L[n] = x /\ \A i \in 1 .. n : L[i] = Met(L[i - 1], w[i])
    BY DEF Leads
  <1> HIDE DEF n, v
  <1> DEFINE M == [i \in 0 .. n - 1 |-> L[i + 1]]
  <1>3. \A i \in 0 .. n - 1 : i + 1 \in 0 .. n /\ i + 1 \in 1 .. n
    BY <1>1
  <1>4. M \in [0 .. n - 1 -> SUBSET Pairs] /\ \A i \in 0 .. n - 1 : M[i] = L[i + 1]
    BY <1>2, <1>3
  <1> HIDE DEF M
  <1>5. M[0] = Met(list, Head(w)) /\ M[n - 1] = x
    <2>1. 0 \in 0 .. n - 1 /\ n - 1 \in 0 .. n - 1 /\ 0 + 1 = 1 /\ (n - 1) + 1 = n /\ 1 \in 1 .. n /\ 1 - 1 = 0
      BY <1>1
    <2>2. M[0] = L[1] /\ L[1] = Met(L[0], w[1])
      BY <1>2, <1>4, <2>1
    <2>3. M[n - 1] = L[n]
      BY <1>4, <2>1
    <2> QED BY <1>1, <1>2, <2>2, <2>3
  <1>6. ASSUME NEW i \in 1 .. n - 1 PROVE M[i] = Met(M[i - 1], v[i])
    <2>1. i \in 0 .. n - 1 /\ i - 1 \in 0 .. n - 1 /\ i + 1 \in 1 .. n /\ (i + 1) - 1 = i /\ (i - 1) + 1 = i
      BY <1>1
    <2>2. M[i] = L[i + 1] /\ M[i - 1] = L[i]
      BY <1>4, <2>1
    <2>3. L[i + 1] = Met(L[i], w[i + 1])
      BY <1>2, <2>1
    <2> QED BY <1>1, <2>2, <2>3
  <1>7. Leads(Met(list, Head(w)), v, x)
    BY <1>1, <1>4, <1>5, <1>6 DEF Leads
  <1> QED BY <1>7 DEF v

\* Messages come to some list.
LEMMA LeadsExists ==
  ASSUME NEW list \in SUBSET Pairs, NEW w \in Seq(Messages)
  PROVE  \E x \in SUBSET Pairs : Leads(list, w, x)
  <1> DEFINE n == Len(w)
             Come(m, L) == /\ L \in [0 .. m -> SUBSET Pairs] /\ L[0] = list
                           /\ \A i \in 1 .. m : L[i] = Met(L[i - 1], w[i])
             T == {m \in 0 .. n : ~\E L : Come(m, L)}
  <1>1. n \in Nat /\ \A i \in 1 .. n : w[i] \in Messages
    OBVIOUS
  <1> HIDE DEF n
  <1>2. T = {}
    <2> SUFFICES ASSUME T # {} PROVE FALSE
      OBVIOUS
    <2>1. PICK m \in T : \A y \in T : m <= y
      <3>1. T \subseteq Nat
        BY <1>1
      <3> HIDE DEF T
      <3> QED BY <3>1, SmallestOf
    <2>2. m # 0
      <3> DEFINE Z == [i \in 0 .. 0 |-> list]
      <3>1. Z \in [0 .. 0 -> SUBSET Pairs] /\ Z[0] = list
        OBVIOUS
      <3> HIDE DEF Z
      <3>2. Come(0, Z)
        BY <3>1
      <3> QED BY <2>1, <3>2
    <2>3. m \in 1 .. n /\ m - 1 \in 0 .. n /\ m - 1 \notin T
      <3>1. m \in 0 .. n
        BY <2>1
      <3>2. m \in 1 .. n /\ m - 1 \in 0 .. n /\ m - 1 < m /\ m - 1 \in Nat /\ m \in Nat
        BY <1>1, <2>2, <3>1
      <3> HIDE DEF T
      <3>3. m - 1 \notin T
        BY <2>1, <3>2
      <3> QED BY <3>2, <3>3
    <2>4. PICK L : Come(m - 1, L)
      BY <2>3
    <2> DEFINE M == [i \in 0 .. m |-> IF i = m THEN Met(L[m - 1], w[m]) ELSE L[i]]
    <2>5. L[m - 1] \in SUBSET Pairs /\ \A i \in 0 .. m - 1 : L[i] \in SUBSET Pairs
      BY <2>3, <2>4
    <2>6. Met(L[m - 1], w[m]) \in SUBSET Pairs
      BY <1>1, <2>3, <2>5, MetIs
    <2>7. M \in [0 .. m -> SUBSET Pairs] /\ M[m] = Met(L[m - 1], w[m]) /\ \A i \in 0 .. m - 1 : M[i] = L[i]
      BY <2>3, <2>5, <2>6
    <2> HIDE DEF M
    <2>8. M[0] = list
      BY <2>3, <2>4, <2>7
    <2>9. ASSUME NEW i \in 1 .. m PROVE M[i] = Met(M[i - 1], w[i])
      <3>1. i - 1 \in 0 .. m - 1 /\ M[i - 1] = L[i - 1]
        BY <2>3, <2>7
      <3>2. CASE i = m
        BY <2>7, <3>1, <3>2
      <3>3. CASE i # m
        <4>1. i \in 1 .. m - 1 /\ i \in 0 .. m - 1
          BY <2>3, <3>3
        <4> QED BY <2>4, <2>7, <3>1, <4>1
      <3> QED BY <3>2, <3>3
    <2>10. Come(m, M)
      BY <2>7, <2>8, <2>9
    <2> QED BY <2>1, <2>10
  <1>3. PICK L : Come(n, L)
    <2>1. n \in 0 .. n
      BY <1>1
    <2> QED BY <1>2, <2>1
  <1>4. L[n] \in SUBSET Pairs /\ Leads(list, w, L[n])
    BY <1>1, <1>3 DEF Leads, n
  <1> QED BY <1>4

-----------------------------------------------------------------------------
(* What is told.                                                           *)

\* News is a message.
LEMMA NewsIs ==
  ASSUME NEW n \in SUBSET Entries, NEW s \in [Sockets -> Sessions]
  PROVE  News(n, s) \in Messages
  <1>1. \A e \in n : e.rep \in Clients /\ e.who[1] \in Sockets /\ <<e.rep, s[e.who[1]].data>> \in Pairs
    BY DEF Entries, Sessions, Pairs
  <1> DEFINE left == {e.rep : e \in {x \in n : x.left}}
             joined == {<<e.rep, s[e.who[1]].data>> : e \in {x \in n : ~x.left /\ x.joined}}
             shared == {<<e.rep, s[e.who[1]].data>> : e \in {x \in n : ~x.left /\ ~x.joined /\ x.shared}}
  <1>2. left \in SUBSET Clients /\ joined \in SUBSET Pairs /\ shared \in SUBSET Pairs
    BY <1>1
  <1>3. News(n, s) = [t |-> "presence", left |-> left, joined |-> joined, shared |-> shared]
    BY DEF News
  <1> HIDE DEF left, joined, shared
  <1> QED BY <1>2, <1>3 DEF Messages

\* Whoever applies the news has the list of the sessions.
LEMMA NewsTold ==
  ASSUME NEW n \in SUBSET Entries, NEW s \in [Sockets -> Sessions], NEW x \in SUBSET Pairs,
         Matches(n, s), Alone(s), Told(x, n, s)
  PROVE  Told(Applied(x, News(n, s)), {}, s)
  <1> DEFINE m == News(n, s)
             y == Applied(x, m)
             pair(e) == <<e.rep, s[e.who[1]].data>>
  <1>1. /\ m.t = "presence"
        /\ \A u : u \in m.left <=> \E e \in n : e.left /\ u = e.rep
        /\ \A q : q \in m.joined <=> \E e \in n : ~e.left /\ e.joined /\ q = pair(e)
        /\ \A q : q \in m.shared <=> \E e \in n : ~e.left /\ ~e.joined /\ e.shared /\ q = pair(e)
    BY DEF News
  <1> DEFINE kept == {p \in x : p[1] \notin m.left}
             with == {p \in kept : \A q \in m.joined : q[1] # p[1]} \cup m.joined
  <1>2. y = {p \in with : \A q \in m.shared : q[1] # p[1]}
              \cup {q \in m.shared : \E p \in with : p[1] = q[1]}
    BY <1>1 DEF Applied
  <1>3. \A p : p \in kept <=> p \in x /\ p[1] \notin m.left
    OBVIOUS
  <1>4. \A p : p \in with <=> (p \in kept /\ \A q \in m.joined : q[1] # p[1]) \/ p \in m.joined
    OBVIOUS
  <1> HIDE DEF kept, with
  <1>5. \A p : p \in y <=> \/ p \in with /\ \A q \in m.shared : q[1] # p[1]
                           \/ p \in m.shared /\ \E r \in with : r[1] = p[1]
    BY <1>2
  <1> HIDE DEF m, y
  <1>6. \A e \in n : /\ e.rep \in Clients /\ e.who[1] \in Sockets /\ e.rep = e.who[1][1]
                     /\ e.who = <<e.who[1], e.who[2]>> /\ pair(e) \in Pairs /\ pair(e)[1] = e.rep
                     /\ e.left \in BOOLEAN /\ e.joined \in BOOLEAN /\ e.shared \in BOOLEAN
    BY DEF Entries, Matches, Sessions, Pairs
  <1>7. \A e \in n : IF e.left THEN ~e.joined ELSE Joined(s, e.who[1]) /\ Is(s, e.who) /\ (e.joined \/ e.shared)
    BY DEF Matches
  <1>8. \A e, d \in n : ~e.left /\ ~d.left /\ e.rep = d.rep => e = d
    <2> SUFFICES ASSUME NEW e \in n, NEW d \in n, ~e.left, ~d.left, e.rep = d.rep PROVE e = d
      OBVIOUS
    <2>1. /\ e.who[1] \in Sockets /\ d.who[1] \in Sockets /\ e.who[1][1] = d.who[1][1]
          /\ e.who = <<e.who[1], e.who[2]>> /\ d.who = <<d.who[1], d.who[2]>>
      BY <1>6
    <2>2. Joined(s, e.who[1]) /\ Joined(s, d.who[1]) /\ Is(s, e.who) /\ Is(s, d.who)
      BY <1>7
    <2>3. e.who[1] = d.who[1]
      BY <2>1, <2>2 DEF Alone, Joined
    <2>4. e.who[2] = d.who[2]
      BY <2>2, <2>3 DEF Is
    <2>5. e.who = d.who
      BY <2>1, <2>3, <2>4
    <2> QED BY <2>5 DEF Matches
  <1>9. \A k \in Sockets, e \in n : Joined(s, k) /\ k[1] = e.rep /\ e.left =>
          \E d \in n : d.rep = e.rep /\ d.joined /\ ~d.left
    <2> SUFFICES ASSUME NEW k \in Sockets, NEW e \in n, Joined(s, k), k[1] = e.rep, e.left
                 PROVE  \E d \in n : d.rep = e.rep /\ d.joined /\ ~d.left
      OBVIOUS
    <2>1. PICK d \in n : d.who = <<k, s[k].id>> /\ d.joined
      BY DEF Matches
    <2>2. d.rep = e.rep
      <3>1. d.rep = d.who[1][1]
        BY <1>6
      <3>2. d.who[1] = k
        BY <2>1
      <3> QED BY <3>1, <3>2
    <2> QED BY <1>7, <2>1, <2>2
  <1> SUFFICES ASSUME NEW p \in Pairs PROVE p \in y <=> p \in Listed(s)
    BY DEF Told, y, m
  <1>10. p = <<p[1], p[2]>>
    BY DEF Pairs
  <1>11. p \in Listed(s) <=> \E k \in Sockets : Joined(s, k) /\ p = <<k[1], s[k].data>>
    BY ListedPairs
  <1> HIDE DEF pair
  <1>12. CASE \A e \in n : e.rep # p[1]
    <2>1. p[1] \notin m.left /\ (\A q \in m.joined : q[1] # p[1]) /\ (\A q \in m.shared : q[1] # p[1])
      BY <1>1, <1>6, <1>12
    <2>2. p \in y <=> p \in x
      BY <1>3, <1>4, <1>5, <2>1
    <2> QED BY <1>12, <2>2 DEF Told
  <1>13. ASSUME NEW e \in n, e.rep = p[1], ~e.left PROVE p \in y <=> p \in Listed(s)
    <2>1. p \in Listed(s) <=> p = pair(e)
      <3>1. Joined(s, e.who[1])
        BY <1>7, <1>13
      <3>2. \A k \in Sockets : Joined(s, k) /\ k[1] = p[1] => k = e.who[1]
        BY <1>6, <1>13, <3>1 DEF Alone, Joined
      <3>3. pair(e) = <<e.who[1][1], s[e.who[1]].data>>
        BY <1>6 DEF pair
      <3>4. ASSUME p \in Listed(s) PROVE p = pair(e)
        <4>1. PICK k \in Sockets : Joined(s, k) /\ p = <<k[1], s[k].data>>
          BY <1>11, <3>4
        <4>2. k[1] = p[1]
          BY <4>1
        <4>3. k = e.who[1]
          BY <3>2, <4>1, <4>2
        <4> QED BY <3>3, <4>1, <4>3
      <3>5. ASSUME p = pair(e) PROVE p \in Listed(s)
        BY <1>6, <1>11, <3>1, <3>3, <3>5
      <3> QED BY <3>4, <3>5
    <2>2. CASE e.joined
      <3>1. pair(e) \in m.joined /\ \A q \in m.joined : q[1] = p[1] => q = pair(e)
        BY <1>1, <1>6, <1>8, <1>13, <2>2
      <3>2. \A q \in m.shared : q[1] # p[1]
        BY <1>1, <1>6, <1>8, <1>13, <2>2
      <3>3. p \in with <=> p = pair(e)
        BY <1>4, <1>6, <1>13, <3>1
      <3> QED BY <1>5, <2>1, <3>2, <3>3
    <2>3. CASE ~e.joined
      <3>1. pair(e) \in m.shared /\ \A q \in m.shared : q[1] = p[1] => q = pair(e)
        BY <1>1, <1>6, <1>7, <1>8, <1>13, <2>3
      <3>2. \A q \in m.joined : q[1] # p[1]
        BY <1>1, <1>6, <1>8, <1>13, <2>3
      <3>3. p[1] \notin m.left
        <4> SUFFICES ASSUME NEW d \in n, d.left, d.rep = p[1] PROVE FALSE
          BY <1>1
        <4>1. PICK f \in n : f.rep = d.rep /\ f.joined /\ ~f.left
          BY <1>6, <1>7, <1>9, <1>13
        <4>2. f = e
          BY <1>8, <1>13, <4>1
        <4> QED BY <2>3, <4>1, <4>2
      <3>4. PICK r \in x : r[1] = e.rep
        BY <1>13, <2>3 DEF Told
      <3>5. r \in with /\ r[1] = p[1]
        BY <1>3, <1>4, <1>13, <3>2, <3>3, <3>4
      <3>6. p \in y <=> p = pair(e)
        BY <1>5, <1>6, <1>13, <3>1, <3>5
      <3> QED BY <2>1, <3>6
    <2> QED BY <1>6, <2>2, <2>3
  <1>14. ASSUME NEW e \in n, e.rep = p[1], \A d \in n : d.rep = p[1] => d.left PROVE p \in y <=> p \in Listed(s)
    <2>1. p \notin Listed(s)
      <3> SUFFICES ASSUME p \in Listed(s) PROVE FALSE
        OBVIOUS
      <3>1. PICK k \in Sockets : Joined(s, k) /\ p = <<k[1], s[k].data>>
        BY <1>11
      <3>2. k[1] = e.rep
        BY <1>14, <3>1
      <3> QED BY <1>9, <1>14, <3>1, <3>2
    <2>2. p[1] \in m.left /\ (\A q \in m.joined : q[1] # p[1]) /\ (\A q \in m.shared : q[1] # p[1])
      BY <1>1, <1>6, <1>14
    <2>3. p \notin with /\ p \notin m.shared
      BY <1>3, <1>4, <2>2
    <2>4. p \notin y
      BY <1>5, <2>3
    <2> QED BY <2>1, <2>4
  <1> QED BY <1>6, <1>12, <1>13, <1>14

-----------------------------------------------------------------------------
(* What a session makes of its messages.                                   *)

\* Nobody is sent away.
Kind(w) == \A i \in 1 .. Len(w) : w[i].t # "closed"

\* What the session on k has come to, from the sessions s and what was noted.
Served(k, s, st) ==
  /\ Same(s, st.s) /\ \A j \in Sockets : j # k => st.s[j] = s[j]
  /\ st.out \in Seq(Messages) /\ Kind(st.out)
  /\ Goes(noted, s, st.noted, st.s)
  /\ \A e \in st.noted : e \in noted \/ e.who = <<k, s[k].id>>

\* A client that reads on has the list.
Greets(G, k, list, w, st) ==
  G /\ Joined(st.s, k) =>
    \E x \in SUBSET Pairs : Leads(list, w \o st.out, x) /\ Told(x, st.noted, st.s)

Answer == [t |-> "answer"]
ListOf(s) == [t |-> "peers", all |-> Listed(s)]

\* What a message changes: nothing but an answer, what is shared, a session that joins, or
\* what one shares that has not joined.
Nothing(k, st, t) ==
  t.s = st.s /\ t.noted = st.noted /\ (t.out = st.out \/ t.out = Append(st.out, Answer))
Shares(k, st, t) ==
  /\ st.s[k].joined /\ t.s[k].joined /\ t.noted = Note(st.noted, k, t.s, "share")
  /\ t.out = st.out \/ t.out = Append(st.out, Answer)
Joins(k, st, t) ==
  /\ ~st.s[k].joined /\ t.s[k].joined /\ t.noted = Note(st.noted, k, t.s, "join")
  /\ t.out = Append(Append(st.out, Answer), ListOf(t.s))
Holds(k, st, t) ==
  ~st.s[k].joined /\ ~t.s[k].joined /\ t.noted = st.noted /\ t.out = st.out

\* A message changes one of these.
LEMMA TakenIs ==
  ASSUME NEW k \in Sockets, NEW st, st.s \in [Sockets -> Sessions], NEW m \in Asks,
         st.out \in Seq(Messages)
  PROVE  LET t == Taken(k, st, m)
         IN  /\ Same(st.s, t.s) /\ \A j \in Sockets : j # k => t.s[j] = st.s[j]
             /\ Nothing(k, st, t) \/ Shares(k, st, t) \/ Joins(k, st, t) \/ Holds(k, st, t)
  <1> DEFINE t == Taken(k, st, m)
             s == [st.s EXCEPT ![k].joined = TRUE]
             d == [st.s EXCEPT ![k].data = m.n]
             h == [s EXCEPT ![k].data = m.n]
             list == [t |-> "peers", all |-> Listed(h)]
  <1>1. Same(st.s, t.s)
    BY TakenKeeps
  <1>2. m.n \in Nat /\ m.t \in {"hello", "share"}
    BY DEF Asks
  <1>3. s \in [Sockets -> Sessions] /\ s[k].joined /\ (\A j \in Sockets : j # k => s[j] = st.s[j])
        /\ (st.s[k].joined => s = st.s)
    BY DEF Sessions
  <1>4. d \in [Sockets -> Sessions] /\ d[k].joined = st.s[k].joined /\ (\A j \in Sockets : j # k => d[j] = st.s[j])
    BY <1>2 DEF Sessions
  <1>5. h \in [Sockets -> Sessions] /\ h[k].joined /\ (\A j \in Sockets : j # k => h[j] = st.s[j])
    <2> HIDE DEF s
    <2> QED BY ZenonT(30), <1>2, <1>3 DEF Sessions
  <1>6. st.s[k].joined \in BOOLEAN
    BY DEF Sessions
  <1>7. CASE m.t = "hello"
    <2>1. /\ t.s = h
          /\ t.noted = (IF ~st.s[k].joined THEN Note(st.noted, k, h, "join")
                        ELSE IF h # st.s THEN Note(st.noted, k, h, "share") ELSE st.noted)
          /\ t.out = st.out \o <<Answer>> \o (IF ~st.s[k].joined THEN <<list>> ELSE <<>>)
      BY <1>7 DEF Taken, Answer
    <2> DEFINE o == st.out \o <<Answer>>
    <2>2. Answer \in Messages /\ list \in Messages
      <3>1. Listed(h) \in SUBSET Pairs
        <4> HIDE DEF h
        <4> QED BY <1>5, ListedPairs
      <3> QED BY <3>1 DEF Messages, Answer
    <2> HIDE DEF list, h, t
    <2>3. o \in Seq(Messages) /\ o = Append(st.out, Answer)
      BY <2>2
    <2>4. o \o <<list>> = Append(o, list) /\ o \o <<>> = o
      <3> HIDE DEF o
      <3> QED BY <2>2, <2>3
    <2>5. CASE ~st.s[k].joined
      <3>1. t.out = Append(Append(st.out, Answer), ListOf(t.s))
        BY <2>1, <2>3, <2>4, <2>5 DEF list, ListOf
      <3>2. t.noted = Note(st.noted, k, t.s, "join")
        BY <2>1, <2>5
      <3>3. Joins(k, st, t)
        BY <1>5, <2>1, <2>5, <3>1, <3>2 DEF Joins
      <3> QED BY <1>1, <1>5, <2>1, <3>3 DEF t
    <2>6. CASE st.s[k].joined
      <3>1. t.out = Append(st.out, Answer)
        BY <2>1, <2>3, <2>4, <2>6
      <3>2. Shares(k, st, t) \/ Nothing(k, st, t)
        BY <1>5, <2>1, <2>6, <3>1 DEF Shares, Nothing
      <3> QED BY <1>1, <1>5, <2>1, <3>2 DEF t
    <2> QED BY <1>6, <2>5, <2>6
  <1>8. CASE m.t = "share"
    <2>1. /\ t.s = d /\ t.out = st.out
          /\ t.noted = (IF d # st.s /\ st.s[k].joined THEN Note(st.noted, k, d, "share") ELSE st.noted)
      BY <1>8 DEF Taken
    <2> HIDE DEF d, t
    <2>2. Nothing(k, st, t) \/ Shares(k, st, t) \/ Holds(k, st, t)
      BY <1>4, <2>1 DEF Nothing, Shares, Holds
    <2> QED BY <1>1, <1>4, <2>1, <2>2 DEF t
  <1> QED BY <1>2, <1>7, <1>8

\* Two messages, one after the other.
LEMMA AppendOn ==
  ASSUME NEW w \in Seq(Messages), NEW out \in Seq(Messages), NEW m \in Messages, m.t # "closed", Kind(out)
  PROVE  /\ Append(out, m) \in Seq(Messages) /\ Kind(Append(out, m))
         /\ w \o Append(out, m) = Append(w \o out, m) /\ w \o out \in Seq(Messages)
  <1>1. Append(out, m) \in Seq(Messages) /\ w \o out \in Seq(Messages)
    OBVIOUS
  <1>2. Kind(Append(out, m))
    BY DEF Kind
  <1>3. w \o Append(out, m) = Append(w \o out, m)
    OBVIOUS
  <1> QED BY <1>1, <1>2, <1>3

\* A session is served by each of its messages.
LEMMA TakenServes ==
  ASSUME NEW k \in Sockets, NEW s \in [Sockets -> Sessions], NEW st, NEW m \in Asks,
         noted \in SUBSET Entries, Alone(s), s[k].on # 0, Served(k, s, st),
         NEW G, NEW list \in SUBSET Pairs, NEW w \in Seq(Messages), Greets(G, k, list, w, st)
  PROVE  Served(k, s, Taken(k, st, m)) /\ Greets(G, k, list, w, Taken(k, st, m))
  <1> DEFINE t == Taken(k, st, m)
  <1>1. /\ st.s \in [Sockets -> Sessions] /\ \A j \in Sockets : st.s[j].on = s[j].on /\ st.s[j].id = s[j].id
        /\ st.out \in Seq(Messages) /\ Kind(st.out)
        /\ st.noted \in SUBSET Entries /\ Matches(st.noted, st.s) /\ Goes(noted, s, st.noted, st.s)
    BY DEF Served, Same, Goes
  <1>2. /\ Same(st.s, t.s) /\ \A j \in Sockets : j # k => t.s[j] = st.s[j]
        /\ Nothing(k, st, t) \/ Shares(k, st, t) \/ Joins(k, st, t) \/ Holds(k, st, t)
    BY <1>1, TakenIs
  <1> HIDE DEF t
  <1>3. Same(s, t.s) /\ t.s \in [Sockets -> Sessions] /\ \A j \in Sockets : t.s[j].on = st.s[j].on /\ t.s[j].id = st.s[j].id
    BY <1>1, <1>2 DEF Same
  <1>4. Alone(st.s)
    BY <1>1 DEF Alone
  <1>5. st.s[k].on # 0 /\ t.s[k].on = st.s[k].on /\ t.s[k].id = st.s[k].id /\ st.s[k].id = s[k].id
    BY <1>1, <1>3
  <1>6. Answer \in Messages /\ Answer.t # "closed" /\ \A x : Met(x, Answer) = x
    BY DEF Answer, Messages, Met
  <1>7. /\ Append(st.out, Answer) \in Seq(Messages) /\ Kind(Append(st.out, Answer))
        /\ w \o Append(st.out, Answer) = Append(w \o st.out, Answer) /\ w \o st.out \in Seq(Messages)
    BY <1>1, <1>6, AppendOn
  <1>8. \A x \in SUBSET Pairs : Leads(list, w \o st.out, x) => Leads(list, w \o Append(st.out, Answer), x)
    <2> SUFFICES ASSUME NEW x \in SUBSET Pairs, Leads(list, w \o st.out, x)
                 PROVE  Leads(list, w \o Append(st.out, Answer), x)
      OBVIOUS
    <2>1. Leads(list, Append(w \o st.out, Answer), Met(x, Answer))
      BY <1>6, <1>7, LeadsOn
    <2> QED BY <1>6, <1>7, <2>1
  <1>9. Goes(st.noted, st.s, t.noted, t.s)
    <2>1. CASE Nothing(k, st, t)
      BY <1>1, <2>1, GoesSame DEF Nothing
    <2>2. CASE Shares(k, st, t)
      <3>1. "share" \in {"join", "share"} /\ t.noted = Note(st.noted, k, t.s, "share") /\ t.s[k].joined
            /\ ("share" = "share" => st.s[k].joined)
        BY <2>2 DEF Shares
      <3>2. Goes(st.noted, st.s, Note(st.noted, k, t.s, "share"), t.s)
        BY <1>1, <1>2, <1>3, <1>4, <1>5, <3>1, NoteGoes
      <3> QED BY <3>1, <3>2
    <2>3. CASE Joins(k, st, t)
      <3>1. "join" \in {"join", "share"} /\ t.noted = Note(st.noted, k, t.s, "join") /\ t.s[k].joined
            /\ ("join" = "share" => st.s[k].joined)
        BY <2>3 DEF Joins
      <3>2. Goes(st.noted, st.s, Note(st.noted, k, t.s, "join"), t.s)
        BY <1>1, <1>2, <1>3, <1>4, <1>5, <3>1, NoteGoes
      <3> QED BY <3>1, <3>2
    <2>4. CASE Holds(k, st, t)
      <3>1. ~Joined(st.s, k) /\ ~Joined(t.s, k) /\ t.noted = st.noted
        BY <2>4 DEF Holds, Joined
      <3>2. \A e \in st.noted : e.left => ~Is(t.s, e.who)
        <4> SUFFICES ASSUME NEW e \in st.noted, e.left PROVE ~Is(t.s, e.who)
          OBVIOUS
        <4>1. ~Is(st.s, e.who) /\ e.who[1] \in Sockets
          BY <1>1 DEF Matches, Entries
        <4> QED BY <1>3, <4>1 DEF Is
      <3>3. Goes(st.noted, st.s, st.noted, t.s)
        BY <1>1, <1>2, <1>3, <3>1, <3>2, UnseenGoes
      <3> QED BY <3>1, <3>3
    <2> QED BY <1>2, <2>1, <2>2, <2>3, <2>4
  <1>10. Goes(noted, s, t.noted, t.s)
    BY <1>1, <1>9, GoesOn
  <1>11. Matches(t.noted, t.s) /\ t.noted \in SUBSET Entries
    BY <1>9 DEF Goes
  <1>12. Joins(k, st, t) => t.out = Append(Append(st.out, Answer), ListOf(t.s))
    BY DEF Joins
  <1>13. /\ ListOf(t.s) \in Messages /\ ListOf(t.s).t # "closed" /\ Listed(t.s) \in SUBSET Pairs
         /\ \A x : Met(x, ListOf(t.s)) = Listed(t.s)
    <2>1. Listed(t.s) \in SUBSET Pairs
      BY <1>3, ListedPairs
    <2> QED BY <2>1 DEF ListOf, Messages, Met, Applied
  <1> DEFINE o == Append(st.out, Answer)
  <1>14. /\ Append(o, ListOf(t.s)) \in Seq(Messages) /\ Kind(Append(o, ListOf(t.s)))
         /\ w \o Append(o, ListOf(t.s)) = Append(w \o o, ListOf(t.s)) /\ w \o o \in Seq(Messages)
    <2> HIDE DEF o
    <2>1. o \in Seq(Messages) /\ Kind(o)
      BY <1>7 DEF o
    <2> QED BY <1>13, <2>1, AppendOn
  <1>15. t.out = st.out \/ t.out = o \/ (Joins(k, st, t) /\ t.out = Append(o, ListOf(t.s)))
    BY <1>2, <1>12 DEF Nothing, Shares, Holds
  <1>16. t.out \in Seq(Messages) /\ Kind(t.out)
    <2> HIDE DEF o
    <2>1. o \in Seq(Messages) /\ Kind(o)
      BY <1>7 DEF o
    <2> QED BY <1>1, <1>14, <1>15, <2>1
  <1>17. \A e \in t.noted : e \in st.noted \/ e.who = <<k, s[k].id>>
    <2>1. t.noted = st.noted \/ \E what : t.noted = Note(st.noted, k, t.s, what)
      BY <1>2 DEF Nothing, Shares, Joins, Holds
    <2>2. ASSUME NEW what, NEW e \in Note(st.noted, k, t.s, what) PROVE e \in st.noted \/ e.who = <<k, t.s[k].id>>
      BY <2>2 DEF Note, Entry
    <2> QED BY <1>5, <2>1, <2>2
  <1>18. \A e \in t.noted : e \in noted \/ e.who = <<k, s[k].id>>
    BY <1>17 DEF Served
  <1>19. \A j \in Sockets : j # k => t.s[j] = s[j]
    BY <1>2 DEF Served
  <1>20. Served(k, s, t)
    BY <1>3, <1>10, <1>16, <1>18, <1>19 DEF Served
  <1>21. Greets(G, k, list, w, t)
    <2> SUFFICES ASSUME G, Joined(t.s, k)
                 PROVE  \E x \in SUBSET Pairs : Leads(list, w \o t.out, x) /\ Told(x, t.noted, t.s)
      BY DEF Greets
    <2>1. CASE Joins(k, st, t)
      <3>1. PICK x \in SUBSET Pairs : Leads(list, w \o o, x)
        <4> HIDE DEF o
        <4> QED BY <1>14, LeadsExists
      <3>2. Leads(list, Append(w \o o, ListOf(t.s)), Met(x, ListOf(t.s)))
        <4> HIDE DEF o
        <4> QED BY <1>13, <1>14, <3>1, LeadsOn
      <3>3. Leads(list, w \o t.out, Listed(t.s))
        <4> HIDE DEF o
        <4>1. t.out = Append(o, ListOf(t.s))
          BY <1>12, <2>1 DEF o
        <4>2. w \o t.out = Append(w \o o, ListOf(t.s))
          BY <1>14, <4>1
        <4> QED BY <1>13, <3>2, <4>2
      <3>4. Told(Listed(t.s), t.noted, t.s)
        BY <1>3, <1>11, ListTold
      <3> QED BY <1>13, <3>3, <3>4
    <2>2. CASE ~Joins(k, st, t)
      <3>1. Nothing(k, st, t) \/ Shares(k, st, t)
        BY <1>2, <2>2 DEF Holds, Joined
      <3>2. Joined(st.s, k) /\ (t.out = st.out \/ t.out = Append(st.out, Answer))
        BY <1>5, <3>1 DEF Nothing, Shares, Joined
      <3>3. PICK x \in SUBSET Pairs : Leads(list, w \o st.out, x) /\ Told(x, st.noted, st.s)
        BY <3>2 DEF Greets
      <3>4. Leads(list, w \o t.out, x)
        BY <1>8, <3>2, <3>3
      <3>5. Told(x, t.noted, t.s)
        BY <1>9, <3>3 DEF Goes
      <3> QED BY <3>4, <3>5
    <2> QED BY <2>1, <2>2
  <1> QED BY <1>20, <1>21 DEF t

\* And by all that waited for it (hub.js:147-153).
LEMMA DeliveredServes ==
  ASSUME NEW k \in Sockets, NEW s \in [Sockets -> Sessions], NEW q \in Seq(Asks),
         noted \in SUBSET Entries, Matches(noted, s), Alone(s), s[k].on # 0,
         NEW G, NEW list \in SUBSET Pairs, NEW w \in Seq(Messages),
         G /\ Joined(s, k) => \E x \in SUBSET Pairs : Leads(list, w, x) /\ Told(x, noted, s)
  PROVE  Served(k, s, Delivered(k, s, q)) /\ Greets(G, k, list, w, Delivered(k, s, q))
  <1> DEFINE n == Len(q)
             f == CHOOSE g : Heard(g, k, s, q, n)
  <1>1. n \in Nat
    OBVIOUS
  <1>2. Heard(f, k, s, q, n)
    <2> HIDE DEF n
    <2> QED BY <1>1, HeardExists
  <1>3. Delivered(k, s, q) = f[n]
    BY DEF Delivered, Heard
  <1> HIDE DEF f
  <1> DEFINE OK(st) == Served(k, s, st) /\ Greets(G, k, list, w, st)
             T == {i \in 0 .. n : ~OK(f[i])}
  <1>4. OK(f[0])
    <2> DEFINE z == [s |-> s, noted |-> noted, out |-> <<>>]
    <2>1. f[0] = z
      BY <1>1, <1>2 DEF Heard
    <2>2. z.s = s /\ z.noted = noted /\ z.out = <<>>
      OBVIOUS
    <2> HIDE DEF z
    <2>3. <<>> \in Seq(Messages) /\ Kind(<<>>) /\ w \o <<>> = w
      BY DEF Kind
    <2>4. Same(s, s) /\ Goes(noted, s, noted, s)
      BY GoesSame DEF Same
    <2>5. Served(k, s, z)
      BY <2>2, <2>3, <2>4 DEF Served
    <2>6. Greets(G, k, list, w, z)
      BY <2>2, <2>3 DEF Greets
    <2> QED BY <2>1, <2>5, <2>6
  <1>5. ASSUME NEW i \in 1 .. n, OK(f[i - 1]) PROVE OK(f[i])
    <2>1. f[i] = Taken(k, f[i - 1], q[i])
      BY <1>1, <1>2 DEF Heard
    <2>2. q[i] \in Asks
      BY ElementOfSeq
    <2>3. Served(k, s, Taken(k, f[i - 1], q[i])) /\ Greets(G, k, list, w, Taken(k, f[i - 1], q[i]))
      BY <1>5, <2>2, TakenServes
    <2> QED BY <2>1, <2>3
  <1> HIDE DEF OK, n
  <1>6. T = {}
    <2> SUFFICES ASSUME T # {} PROVE FALSE
      OBVIOUS
    <2>1. PICK i \in T : \A y \in T : i <= y
      <3>1. T \subseteq Nat
        BY <1>1
      <3> HIDE DEF T
      <3> QED BY <3>1, SmallestOf
    <2>2. i \in 0 .. n /\ ~OK(f[i])
      BY <2>1
    <2>3. i \in 1 .. n /\ i - 1 \in 0 .. n /\ i - 1 < i
      BY <1>1, <1>4, <2>2
    <2>4. i - 1 \notin T
      <3> HIDE DEF T
      <3>1. T \subseteq Nat
        BY <1>1 DEF T
      <3> QED BY <2>1, <2>3
    <2>5. OK(f[i - 1])
      BY <2>3, <2>4
    <2> QED BY <1>5, <2>2, <2>3, <2>5
  <1>7. OK(f[n])
    <2>1. n \in 0 .. n
      BY <1>1
    <2> QED BY <1>6, <2>1
  <1> QED BY <1>3, <1>7 DEF OK

-----------------------------------------------------------------------------
(* The list is that of the sessions.                                       *)

\* A client that has a list of the sessions, or will with what it was sent: it is there, has
\* said hello, and neither leaves nor is sent away.
There(k) == cl[k] \in {"waits", "synced", "again"}
Stays(k) == \A i \in 1 .. Len(inbox[k]) : inbox[k][i].t # "leave"
Final(m) == m.t = "closed" /\ m.code # "unavailable"
Heeded(k) == There(k) /\ Stays(k) /\ \A i \in 1 .. Len(wire[k]) : ~Final(wire[k][i])

\* With what is on the wire it has the list of the sessions, but for what is noted.
Informed(k) ==
  Heeded(k) /\ Joined(sess, k) =>
    \E x \in SUBSET Pairs : Leads(peers[k], wire[k], x) /\ Told(x, noted, sess)

\* The types of what is told.
Typed ==
  /\ wire \in [Sockets -> Seq(Messages)] /\ peers \in [Sockets -> SUBSET Pairs]
  /\ noted \in SUBSET Entries

\* A client has one socket at a time.
One == \A k \in Sockets : sock[k] \in {"passed", "open"} =>
         \A j \in Sockets : j[1] = k[1] /\ j[2] < k[2] => sock[j] = "gone"

\* A session is of an attempt that is over, and what is noted of those before the attempt
\* under way; the second hook is asked about a store.
Past ==
  /\ \A k \in Sockets : sess[k].on # 0 => pend[k].att = 0 /\ sess[k].id <= tries[k]
  /\ \A e \in noted : /\ e.who[2] <= tries[e.who[1]]
                      /\ pend[e.who[1]].att # 0 => e.who[2] < pend[e.who[1]].att
  /\ \A c \in checks : c.kind = "admit" /\ c.stage = "store" => c.on # 0

\* The inductive invariant.
Greeted == Typed /\ One /\ Past /\ Matches(noted, sess) /\ \A k \in Sockets : Informed(k)

\* With a socket at a time there is a session at a time.
LEMMA OneAlone ==
  ASSUME One, NEW s, \A k \in Sockets : s[k].on # 0 => sock[k] = "open"
  PROVE  Alone(s)
  <1> SUFFICES ASSUME NEW j \in Sockets, NEW k \in Sockets, s[j].on # 0, s[k].on # 0, j[1] = k[1]
               PROVE  j = k
    BY DEF Alone
  <1>1. sock[j] = "open" /\ sock[k] = "open"
    OBVIOUS
  <1>2. ~(j[2] < k[2]) /\ ~(k[2] < j[2])
    BY <1>1 DEF One
  <1>3. j[2] \in Nat /\ k[2] \in Nat /\ j = <<j[1], j[2]>> /\ k = <<k[1], k[2]>>
    BY HubAssumption DEF Sockets
  <1>4. j[2] = k[2]
    BY <1>2, <1>3
  <1> QED BY <1>3, <1>4

\* A client that is no worse off is as well informed.
LEMMA InformedOn ==
  ASSUME NEW k \in Sockets, Informed(k), Goes(noted, sess, noted', sess'),
         Heeded(k)' => Heeded(k), Joined(sess', k) => Joined(sess, k),
         \A x \in SUBSET Pairs : Heeded(k)' /\ Leads(peers[k], wire[k], x) => Leads(peers'[k], wire'[k], x)
  PROVE  Informed(k)'
  <1> SUFFICES ASSUME Heeded(k)', Joined(sess', k)
               PROVE  \E x \in SUBSET Pairs : Leads(peers'[k], wire'[k], x) /\ Told(x, noted', sess')
    BY DEF Informed
  <1>1. PICK x \in SUBSET Pairs : Leads(peers[k], wire[k], x) /\ Told(x, noted, sess)
    BY DEF Informed
  <1> QED BY <1>1 DEF Goes

\* Whoever is informed has the list when nothing is noted and nothing on the way.
LEMMA GreetedAgree == Types /\ Greeted => PeersAgree
  <1> SUFFICES ASSUME Types, Greeted, noted = {}, NEW k \in OnStore, sess[k].joined,
                      wire[k] = <<>>, cl[k] = "synced", inbox[k] = <<>>
               PROVE  peers[k] = Listed(sess)
    BY DEF PeersAgree
  <1>1. k \in Sockets /\ Joined(sess, k) /\ sess \in [Sockets -> Sessions] /\ peers[k] \in SUBSET Pairs
    BY DEF OnStore, Joined, Types, Greeted, Typed
  <1>2. Heeded(k)
    BY DEF Heeded, There, Stays
  <1>3. PICK x \in SUBSET Pairs : Leads(peers[k], <<>>, x) /\ Told(x, {}, sess)
    BY <1>1, <1>2 DEF Greeted, Informed
  <1>4. x = peers[k]
    BY <1>1, <1>3, LeadsNone
  <1>5. x = Listed(sess)
    BY <1>1, <1>3, ToldIs
  <1> QED BY <1>4, <1>5

\* Nobody is there at first.
LEMMA GreetedInit == Init => Greeted
  <1> SUFFICES ASSUME Init PROVE Greeted
    OBVIOUS
  <1>1. Typed
    <2>1. <<>> \in Seq(Messages)
      OBVIOUS
    <2> QED BY <2>1 DEF Init, Typed
  <1>2. \A k \in Sockets : sess[k].on = 0 /\ sock[k] = "new"
    BY DEF Init, NoSession
  <1>3. noted = {} /\ checks = {}
    BY DEF Init
  <1>4. One /\ Past
    BY <1>2, <1>3 DEF One, Past
  <1>5. Matches(noted, sess)
    BY <1>3 DEF Matches
  <1>6. \A k \in Sockets : Informed(k)
    BY <1>2 DEF Informed, Joined
  <1> QED BY <1>1, <1>4, <1>5, <1>6 DEF Greeted

\* Sessions end, are opened and note what they do, and attempts end: it is all in the past.
LEMMA PastKeeps ==
  ASSUME Types, Past, noted \in SUBSET Entries, UNCHANGED tries,
         \A k \in Sockets : pend'[k].att = 0 \/ pend'[k].att = pend[k].att,
         \A k \in Sockets : \/ sess'[k].on = 0
                            \/ sess'[k].on = sess[k].on /\ sess'[k].id = sess[k].id
                            \/ pend'[k].att = 0 /\ sess'[k].id <= tries[k],
         \A e \in noted' : e \in noted \/ (e.who[2] <= tries[e.who[1]] /\ pend'[e.who[1]].att = 0),
         \A c \in checks' : c.kind = "admit" /\ c.stage = "store" => c \in checks \/ c.on # 0
  PROVE  Past'
  <1>1. \A k \in Sockets : sess'[k].on # 0 => pend'[k].att = 0 /\ sess'[k].id <= tries'[k]
    BY DEF Past
  <1>2. \A e \in noted : e.who[1] \in Sockets
    BY DEF Entries
  <1>3. ASSUME NEW e \in noted' PROVE /\ e.who[2] <= tries'[e.who[1]]
                                      /\ pend'[e.who[1]].att # 0 => e.who[2] < pend'[e.who[1]].att
    <2>1. CASE e \in noted
      BY <1>2, <2>1 DEF Past
    <2>2. CASE e \notin noted
      BY <2>2
    <2> QED BY <2>1, <2>2
  <1> QED BY <1>1, <1>3 DEF Past

\* An attempt is begun, or begun again, later than all there was.
LEMMA PastBegins ==
  ASSUME Types, Past, noted \in SUBSET Entries, UNCHANGED <<sess, noted>>,
         \A k \in Sockets : \/ pend'[k].att = pend[k].att /\ tries'[k] = tries[k]
                            \/ sess[k].on = 0 /\ tries'[k] = tries[k] + 1 /\ pend'[k].att = tries[k] + 1,
         \A c \in checks' : c.kind = "admit" /\ c.stage = "store" => c \in checks
  PROVE  Past'
  <1>1. \A k \in Sockets : sess'[k].on # 0 => pend'[k].att = 0 /\ sess'[k].id <= tries'[k]
    BY DEF Past
  <1>2. ASSUME NEW e \in noted PROVE /\ e.who[2] <= tries'[e.who[1]]
                                     /\ pend'[e.who[1]].att # 0 => e.who[2] < pend'[e.who[1]].att
    <2> DEFINE k == e.who[1]
    <2>1. k \in Sockets /\ e.who[2] \in Nat /\ tries[k] \in Nat /\ e.who[2] <= tries[k]
      BY DEF Entries, Past, Types
    <2>2. pend[k].att # 0 => e.who[2] < pend[k].att
      BY DEF Past
    <2> HIDE DEF k
    <2>3. e.who[2] <= tries'[k] /\ (pend'[k].att # 0 => e.who[2] < pend'[k].att)
      BY <2>1, <2>2
    <2> QED BY <2>3 DEF k
  <1>3. \A c \in checks' : c.kind = "admit" /\ c.stage = "store" => c.on # 0
    BY DEF Past
  <1>4. \A e \in noted' : /\ e.who[2] <= tries'[e.who[1]]
                          /\ pend'[e.who[1]].att # 0 => e.who[2] < pend'[e.who[1]].att
    BY <1>2
  <1> QED BY <1>1, <1>3, <1>4 DEF Past

\* What NoteLeft adds.
LEMMA NoteLeftIs ==
  ASSUME NEW n, NEW s, NEW K \in SUBSET Sockets, NEW e \in NoteLeft(n, s, K)
  PROVE  e \in n \/ \E k \in K : s[k].on # 0 /\ e.who = <<k, s[k].id>>
  <1> SUFFICES ASSUME e \notin n PROVE \E k \in K : s[k].on # 0 /\ e.who = <<k, s[k].id>>
    OBVIOUS
  <1>1. PICK k \in K : s[k].on # 0 /\ e = Entry(k, s, FALSE, TRUE, FALSE)
    BY DEF NoteLeft
  <1>2. e.who = <<k, s[k].id>>
    BY <1>1 DEF Entry
  <1> QED BY <1>1, <1>2

\* Sessions end, and it is noted.
LEMMA EndGreets ==
  ASSUME Kept, Greeted, NEW K \in SUBSET Sockets,
         sess' = Ended(sess, K), noted' = NoteLeft(noted, sess, K),
         UNCHANGED tries, \A j \in Sockets : pend'[j].att = 0 \/ pend'[j].att = pend[j].att,
         \A c \in checks' : c.kind = "admit" /\ c.stage = "store" => c \in checks \/ c.on # 0,
         wire' \in [Sockets -> Seq(Messages)], peers' \in [Sockets -> SUBSET Pairs], One',
         \A k \in Sockets : k \notin K => (Heeded(k)' => Heeded(k)) /\ wire'[k] = wire[k] /\ peers'[k] = peers[k]
  PROVE  Greeted'
  <1>1. sess \in [Sockets -> Sessions] /\ noted \in SUBSET Entries /\ Matches(noted, sess) /\ Types /\ Past /\ One
    BY DEF Kept, Types, Greeted, Typed
  <1>2. Alone(sess)
    <2>1. \A k \in Sockets : sess[k].on # 0 => sock[k] = "open"
      BY DEF Kept, Numbered
    <2> QED BY <1>1, <2>1, OneAlone
  <1>3. Goes(noted, sess, noted', sess')
    BY <1>1, <1>2, LeftGoes
  <1>4. Typed' /\ Matches(noted', sess')
    BY <1>3 DEF Goes, Typed
  <1>5. \A k \in Sockets : IF k \in K THEN sess'[k].on = 0 ELSE sess'[k] = sess[k]
    BY <1>1, EndedShape
  <1>6. Past'
    <2>1. ASSUME NEW e \in noted', e \notin noted PROVE e.who[2] <= tries[e.who[1]] /\ pend'[e.who[1]].att = 0
      <3>1. PICK k \in K : sess[k].on # 0 /\ e.who = <<k, sess[k].id>>
        BY <2>1, NoteLeftIs
      <3>2. k \in Sockets /\ e.who[1] = k /\ e.who[2] = sess[k].id
        BY <3>1
      <3>3. pend[k].att = 0 /\ sess[k].id <= tries[k]
        BY <1>1, <3>1, <3>2 DEF Past
      <3> QED BY <3>2, <3>3
    <2> QED BY <1>1, <1>5, <2>1, PastKeeps
  <1>7. ASSUME NEW k \in Sockets PROVE Informed(k)'
    <2>1. CASE k \in K
      BY <1>5, <2>1 DEF Informed, Joined
    <2>2. CASE k \notin K
      <3>1. Informed(k) /\ sess'[k] = sess[k]
        BY <1>5, <2>2 DEF Greeted
      <3>2. Joined(sess', k) => Joined(sess, k)
        BY <3>1 DEF Joined
      <3> QED BY <1>3, <2>2, <3>1, <3>2, InformedOn
    <2> QED BY <2>1, <2>2
  <1> QED BY <1>4, <1>6, <1>7 DEF Greeted

\* The sessions and what is noted of them stay.
LEMMA StillGreets ==
  ASSUME Kept, Greeted, UNCHANGED <<sess, noted>>, Past', One',
         wire' \in [Sockets -> Seq(Messages)], peers' \in [Sockets -> SUBSET Pairs],
         \A k \in Sockets : Joined(sess, k) =>
           /\ Heeded(k)' => Heeded(k)
           /\ \A x \in SUBSET Pairs : Heeded(k)' /\ Leads(peers[k], wire[k], x) => Leads(peers'[k], wire'[k], x)
  PROVE  Greeted'
  <1>1. Typed' /\ Matches(noted', sess')
    BY DEF Greeted, Typed
  <1>2. Goes(noted, sess, noted', sess')
    BY GoesSame DEF Greeted, Typed
  <1>3. ASSUME NEW k \in Sockets PROVE Informed(k)'
    <2>1. CASE ~Joined(sess, k)
      BY <2>1 DEF Informed
    <2>2. CASE Joined(sess, k)
      <3>1. Informed(k)
        BY DEF Greeted
      <3> QED BY <1>2, <2>2, <3>1, InformedOn
    <2> QED BY <2>1, <2>2
  <1> QED BY <1>1, <1>3 DEF Greeted

\* Messages are delivered to a session there is, or that is opened.
LEMMA DeliverGreets ==
  ASSUME Kept, Greeted, NEW k \in Sockets, NEW s \in [Sockets -> Sessions], NEW q \in Seq(Asks),
         Deliver(k, s, q), Goes(noted, sess, noted, s), s[k].on # 0, sock[k] = "open",
         \A j \in Sockets : j # k => s[j] = sess[j],
         Joined(s, k) => s = sess,
         UNCHANGED <<sock, cl, peers, tries>>,
         \A j \in Sockets : j # k => inbox'[j] = inbox[j],
         Stays(k)' => Stays(k),
         \A j \in Sockets : pend'[j].att = 0 \/ pend'[j].att = pend[j].att,
         pend'[k].att = 0, s[k].id <= tries[k],
         \A c \in checks' : c.kind = "admit" /\ c.stage = "store" => c \in checks \/ c.on # 0
  PROVE  Greeted'
  <1> DEFINE st == Delivered(k, s, q)
  <1>1. sess' = st.s /\ noted' = st.noted /\ wire' = [wire EXCEPT ![k] = @ \o st.out]
    BY DEF Deliver
  <1>2. /\ Types /\ Past /\ One /\ noted \in SUBSET Entries
        /\ wire \in [Sockets -> Seq(Messages)] /\ peers \in [Sockets -> SUBSET Pairs]
    BY DEF Kept, Greeted, Typed
  <1>3. Alone(s) /\ Matches(noted, s)
    <2>1. \A j \in Sockets : s[j].on # 0 => sock[j] = "open"
      BY DEF Kept, Numbered
    <2> QED BY <1>2, <2>1, OneAlone DEF Goes
  <1>4. Heeded(k) /\ Joined(s, k) => \E x \in SUBSET Pairs : Leads(peers[k], wire[k], x) /\ Told(x, noted, s)
    BY DEF Greeted, Informed
  <1>5. Served(k, s, st) /\ Greets(Heeded(k), k, peers[k], wire[k], st)
    <2>1. peers[k] \in SUBSET Pairs /\ wire[k] \in Seq(Messages)
      BY <1>2
    <2> QED BY <1>2, <1>3, <1>4, <2>1, DeliveredServes
  <1> HIDE DEF st
  <1>6. /\ Same(s, sess') /\ \A j \in Sockets : j # k => sess'[j] = s[j]
        /\ st.out \in Seq(Messages) /\ Kind(st.out) /\ Goes(noted, s, noted', sess')
        /\ \A e \in noted' : e \in noted \/ e.who = <<k, s[k].id>>
    BY <1>1, <1>5 DEF Served
  <1>7. Goes(noted, sess, noted', sess')
    BY <1>6, GoesOn
  <1>8. /\ wire' \in [Sockets -> Seq(Messages)] /\ wire'[k] = wire[k] \o st.out
        /\ \A j \in Sockets : j # k => wire'[j] = wire[j]
    BY <1>1, <1>2, <1>6
  <1>9. Typed' /\ Matches(noted', sess')
    BY <1>2, <1>7, <1>8 DEF Typed, Goes
  <1>10. One'
    BY <1>2 DEF One
  <1>11. Past'
    <2>1. \A e \in noted' : e \in noted \/ (e.who[2] <= tries[e.who[1]] /\ pend'[e.who[1]].att = 0)
      <3> SUFFICES ASSUME NEW e \in noted', e \notin noted PROVE e.who[2] <= tries[e.who[1]] /\ pend'[e.who[1]].att = 0
        OBVIOUS
      <3>1. e.who[1] = k /\ e.who[2] = s[k].id
        BY <1>6
      <3> QED BY <3>1
    <2>2. \A j \in Sockets : \/ sess'[j].on = 0
                             \/ sess'[j].on = sess[j].on /\ sess'[j].id = sess[j].id
                             \/ pend'[j].att = 0 /\ sess'[j].id <= tries[j]
      BY <1>6 DEF Same
    <2> QED BY <1>2, <2>1, <2>2, PastKeeps
  <1>12. ASSUME NEW j \in Sockets PROVE Informed(j)'
    <2>1. CASE j # k
      <3>1. Informed(j) /\ sess'[j] = sess[j] /\ wire'[j] = wire[j] /\ inbox'[j] = inbox[j]
        BY <1>6, <1>8, <2>1 DEF Greeted
      <3>2. (Joined(sess', j) => Joined(sess, j)) /\ (Heeded(j)' => Heeded(j))
        BY <3>1 DEF Joined, Heeded, There, Stays
      <3> QED BY <1>7, <3>1, <3>2, InformedOn
    <2>2. CASE j = k
      <3> SUFFICES ASSUME Heeded(k)', Joined(sess', k)
                   PROVE  \E x \in SUBSET Pairs : Leads(peers'[k], wire'[k], x) /\ Told(x, noted', sess')
        BY <2>2 DEF Informed
      <3>1. Heeded(k)
        <4>1. There(k) /\ Stays(k)
          BY DEF Heeded, There
        <4>2. \A i \in 1 .. Len(wire'[k]) : ~Final(wire'[k][i])
          BY DEF Heeded
        <4>3. wire[k] \in Seq(Messages) /\ st.out \in Seq(Messages)
          BY <1>2, <1>6
        <4> DEFINE w == wire[k]
                   o == st.out
                   v == w \o o
        <4>4. Len(w) \in Nat /\ Len(v) = Len(w) + Len(o) /\ Len(o) \in Nat /\ \A i \in 1 .. Len(w) : v[i] = w[i]
          <5>1. w \in Seq(Messages) /\ o \in Seq(Messages)
            BY <4>3
          <5> HIDE DEF w, o
          <5> QED BY <5>1
        <4>5. \A i \in 1 .. Len(w) : i \in 1 .. Len(v)
          <5> HIDE DEF v, w
          <5> QED BY <4>4
        <4>6. \A i \in 1 .. Len(v) : ~Final(v[i])
          BY <1>8, <4>2
        <4> HIDE DEF v
        <4>7. \A i \in 1 .. Len(w) : ~Final(w[i])
          BY <4>4, <4>5, <4>6
        <4> QED BY <4>1, <4>7 DEF Heeded
      <3>2. Joined(st.s, k)
        BY <1>1
      <3> QED BY <1>1, <1>5, <1>8, <3>1, <3>2 DEF Greets
    <2> QED BY <2>1, <2>2
  <1> QED BY <1>9, <1>10, <1>11, <1>12 DEF Greeted

\* What an EXCEPT does to the elements of a function.
LEMMA AppendsTo ==
  ASSUME NEW f \in [Sockets -> Seq(Messages)], NEW k \in Sockets, NEW m \in Messages
  PROVE  /\ [f EXCEPT ![k] = Append(@, m)] \in [Sockets -> Seq(Messages)]
         /\ \A j \in Sockets : j # k => [f EXCEPT ![k] = Append(@, m)][j] = f[j]
  OBVIOUS

\* The words a client is sent away with.
LEMMA ClosedIs ==
  \A code \in {"unavailable", "forbidden", "evicted"} : Closed(code) \in Messages
  BY DEF Closed, Messages

\* Sockets open one at a time.
LEMMA OpensGreets ==
  ASSUME "halfopen" \notin Uses, Kept, Greeted, NEW k \in Sockets, Handshake(k) \/ SocketOpens(k)
  PROVE  Greeted'
  <1>1. /\ UNCHANGED <<sess, noted, pend, tries, checks, wire, peers>>
        /\ sock \in [Sockets -> {"new", "passed", "open", "gone"}]
        /\ cl \in [Sockets -> {"off", "waits", "synced", "again", "ended"}]
        /\ inbox \in [Sockets -> Seq(Says)]
    BY DEF Handshake, SocketOpens, client, hub, store, Kept, Types
  <1>2. Past' /\ wire' \in [Sockets -> Seq(Messages)] /\ peers' \in [Sockets -> SUBSET Pairs]
    BY <1>1 DEF Greeted, Past, Typed
  <1>3. One'
    <2> SUFFICES ASSUME NEW i \in Sockets, sock'[i] \in {"passed", "open"},
                        NEW j \in Sockets, j[1] = i[1], j[2] < i[2]
                 PROVE  sock'[j] = "gone"
      BY DEF One
    <2>1. CASE Handshake(k)
      <3>1. sock[k] = "new" /\ Before(k) /\ \A h \in Sockets : h # k => sock'[h] = sock[h]
        BY <1>1, <2>1 DEF Handshake
      <3>2. \A h \in Sockets : h[1] = k[1] /\ h[2] < k[2] => sock[h] = "gone"
        BY <3>1 DEF Before
      <3>3. CASE i = k
        <4>1. j # k /\ sock[j] = "gone"
          BY <3>1, <3>2, <3>3
        <4> QED BY <3>1, <4>1
      <3>4. CASE i # k
        <4>1. sock[j] = "gone"
          BY <3>1, <3>4 DEF Greeted, One
        <4> QED BY <3>1, <4>1
      <3> QED BY <3>3, <3>4
    <2>2. CASE SocketOpens(k)
      <3>1. sock[k] = "passed" /\ sock'[k] = "open" /\ \A h \in Sockets : h # k => sock'[h] = sock[h]
        BY <1>1, <2>2 DEF SocketOpens
      <3>2. sock[j] = "gone"
        BY <3>1 DEF Greeted, One
      <3> QED BY <3>1, <3>2
    <2> QED BY <2>1, <2>2
  <1>4. ASSUME NEW j \in Sockets, Joined(sess, j) PROVE Heeded(j)' => Heeded(j)
    <2>1. sock[j] = "open"
      BY <1>4 DEF Joined, Kept, Numbered
    <2>2. cl'[j] = cl[j] /\ inbox'[j] = inbox[j]
      BY <1>1, <2>1 DEF Handshake, SocketOpens, client
    <2> QED BY <1>1, <2>2 DEF Heeded, There, Stays
  <1> QED BY <1>1, <1>2, <1>3, <1>4, StillGreets

\* A sequence gets an element more.
LEMMA AppendStays ==
  ASSUME NEW q \in Seq(Says), NEW m \in Says
  PROVE  LET v == Append(q, m)
         IN  (\A i \in 1 .. Len(v) : v[i].t # "leave") => (\A i \in 1 .. Len(q) : q[i].t # "leave") /\ m.t # "leave"
  <1> DEFINE v == Append(q, m)
  <1>1. Len(q) \in Nat /\ Len(v) = Len(q) + 1 /\ v[Len(q) + 1] = m /\ \A i \in 1 .. Len(q) : v[i] = q[i]
    OBVIOUS
  <1> HIDE DEF v
  <1>2. ASSUME \A i \in 1 .. Len(v) : v[i].t # "leave"
        PROVE  (\A i \in 1 .. Len(q) : q[i].t # "leave") /\ m.t # "leave"
    <2>1. \A i \in 1 .. Len(q) : i \in 1 .. Len(v)
      BY <1>1
    <2>2. Len(q) + 1 \in 1 .. Len(v)
      BY <1>1
    <2> QED BY <1>1, <1>2, <2>1, <2>2
  <1> QED BY <1>2 DEF v

\* What the clients say: only one that has left, which said so, comes back.
LEMMA ClientGreets ==
  ASSUME Kept, Parted, Greeted, NEW k \in Sockets,
         SaysAgain(k) \/ Detach(k) \/ Attach(k) \/ Share(k)
  PROVE  Greeted'
  <1>1. /\ UNCHANGED <<sess, noted, pend, tries, checks, wire, sock>>
        /\ cl \in [Sockets -> {"off", "waits", "synced", "again", "ended"}]
        /\ inbox \in [Sockets -> Seq(Says)] /\ data \in [Clients -> Nat]
        /\ peers \in [Sockets -> SUBSET Pairs] /\ wire \in [Sockets -> Seq(Messages)]
    BY DEF SaysAgain, Detach, Attach, Share, hub, store, Kept, Types, Greeted, Typed
  <1>2. Past' /\ One' /\ wire' \in [Sockets -> Seq(Messages)]
    BY <1>1 DEF Greeted, Past, One
  <1>3. peers' \in [Sockets -> SUBSET Pairs]
    BY <1>1 DEF SaysAgain, Detach, Attach, Share
  <1>4. \A j \in Sockets : j # k => cl'[j] = cl[j] /\ inbox'[j] = inbox[j] /\ peers'[j] = peers[j]
    BY <1>1 DEF SaysAgain, Detach, Attach, Share
  <1>5. \E m \in Says : inbox'[k] = Append(inbox[k], m)
    <2>1. [t |-> "leave"] \in Says /\ Hello(k) \in Says /\ [t |-> "share", n |-> data[k[1]] + 1] \in Says
      <3>1. k[1] \in Clients
        BY DEF Sockets
      <3> QED BY <1>1, <3>1 DEF Says, Asks, Hello
    <2> QED BY <1>1, <2>1 DEF SaysAgain, Detach, Attach, Share
  <1>6. Stays(k)' => Stays(k)
    <2>1. PICK m \in Says : inbox'[k] = Append(inbox[k], m)
      BY <1>5
    <2>2. inbox[k] \in Seq(Says)
      BY <1>1
    <2> QED BY <2>1, <2>2, AppendStays DEF Stays
  <1>7. ASSUME Joined(sess, k), Heeded(k)' PROVE There(k) /\ peers'[k] = peers[k]
    <2>1. CASE SaysAgain(k) \/ Share(k)
      BY <2>1 DEF SaysAgain, Share, There
    <2>2. CASE Detach(k)
      <3>1. cl'[k] = "off"
        BY <1>1, <2>2 DEF Detach
      <3> QED BY <1>7, <3>1 DEF Heeded, There
    <2>3. CASE Attach(k)
      <3>1. cl[k] = "off"
        BY <2>3 DEF Attach
      <3>2. inbox[k] # <<>> /\ inbox[k][Len(inbox[k])].t = "leave"
        BY <1>7, <3>1 DEF Parted, Joined
      <3>3. Len(inbox[k]) \in 1 .. Len(inbox[k])
        <4> DEFINE q == inbox[k]
        <4>1. q \in Seq(Says) /\ q # <<>>
          BY <1>1, <3>2
        <4> HIDE DEF q
        <4>2. Len(q) \in Nat /\ Len(q) # 0
          BY <4>1, EmptySeq
        <4>3. Len(q) \in 1 .. Len(q)
          BY <4>2
        <4> QED BY <4>3 DEF q
      <3>4. ~Stays(k)
        BY <3>2, <3>3 DEF Stays
      <3> QED BY <1>6, <1>7, <3>4 DEF Heeded
    <2> QED BY <2>1, <2>2, <2>3
  <1>8. ASSUME NEW j \in Sockets, Joined(sess, j)
        PROVE  /\ Heeded(j)' => Heeded(j)
               /\ Heeded(j)' => peers'[j] = peers[j]
    <2>1. CASE j # k
      BY <1>1, <1>4, <2>1 DEF Heeded, There, Stays
    <2>2. CASE j = k
      BY <1>1, <1>6, <1>7, <1>8, <2>2 DEF Heeded
    <2> QED BY <2>1, <2>2
  <1> QED BY <1>1, <1>2, <1>3, <1>8, StillGreets

\* A client reads what it was sent.
LEMMA HearsGreets ==
  ASSUME Kept, Greeted, NEW k \in Sockets, ClientHears(k)
  PROVE  Greeted'
  <1> DEFINE m == Head(wire[k])
  <1>1. /\ UNCHANGED <<sess, noted, pend, tries, checks, sock>>
        /\ cl \in [Sockets -> {"off", "waits", "synced", "again", "ended"}]
        /\ inbox \in [Sockets -> Seq(Says)]
        /\ peers \in [Sockets -> SUBSET Pairs] /\ wire \in [Sockets -> Seq(Messages)]
    BY DEF ClientHears, hub, store, Kept, Types, Greeted, Typed
  <1>2. wire[k] # <<>> /\ wire' = [wire EXCEPT ![k] = Tail(@)]
    BY DEF ClientHears
  <1>3. m \in Messages /\ Tail(wire[k]) \in Seq(Messages)
    BY <1>1, <1>2, TailKeeps
  <1>4. /\ wire' \in [Sockets -> Seq(Messages)] /\ wire'[k] = Tail(wire[k])
        /\ \A j \in Sockets : j # k => wire'[j] = wire[j]
    BY <1>1, <1>2, <1>3
  <1>5. \/ ~There(k) /\ UNCHANGED <<cl, peers, inbox>>
        \/ /\ There(k) /\ m.t = "answer" /\ cl' = [cl EXCEPT ![k] = IF @ = "again" THEN "again" ELSE "synced"]
           /\ UNCHANGED <<peers, inbox>>
        \/ /\ There(k) /\ m.t \in {"peers", "presence"}
           /\ peers' = [peers EXCEPT ![k] = Applied(@, m)] /\ UNCHANGED <<cl, inbox>>
        \/ /\ There(k) /\ m.t = "closed" /\ m.code = "unavailable"
           /\ cl' = [cl EXCEPT ![k] = "again"] /\ peers' = [peers EXCEPT ![k] = {}] /\ UNCHANGED inbox
        \/ /\ There(k) /\ m.t = "closed" /\ m.code # "unavailable"
           /\ cl' = [cl EXCEPT ![k] = "ended"] /\ peers' = [peers EXCEPT ![k] = {}]
           /\ inbox' = [inbox EXCEPT ![k] = Append(@, [t |-> "leave"])]
    BY DEF ClientHears, HearUnavailable, There
  <1> HIDE DEF m
  <1>6. Past' /\ One'
    BY <1>1 DEF Greeted, Past, One
  <1>7. Met(peers[k], m) \in SUBSET Pairs
    BY <1>1, <1>3, MetIs
  <1>8. peers' \in [Sockets -> SUBSET Pairs]
    BY <1>1, <1>5, <1>7 DEF Met
  <1>9. \A j \in Sockets : j # k => cl'[j] = cl[j] /\ inbox'[j] = inbox[j] /\ peers'[j] = peers[j]
    BY <1>1, <1>5
  <1>10. ASSUME Heeded(k)' PROVE Heeded(k) /\ peers'[k] = Met(peers[k], m)
    <2>1. There(k)'
      BY <1>10 DEF Heeded
    <2>2. There(k) /\ inbox'[k] = inbox[k] /\ ~Final(m) /\ peers'[k] = Met(peers[k], m)
      <3>1. ~(~There(k) /\ UNCHANGED <<cl, peers, inbox>>)
        BY <2>1 DEF There
      <3>2. There(k) /\ m.t = "closed" /\ m.code # "unavailable" => cl'[k] # "ended"
        BY <2>1 DEF There
      <3>3. ~(There(k) /\ m.t = "closed" /\ m.code # "unavailable")
        BY <1>1, <1>5, <3>2
      <3> QED BY <1>1, <1>5, <3>1, <3>3 DEF Met, Final
    <2>3. \A i \in 1 .. Len(wire[k]) : ~Final(wire[k][i])
      <3> DEFINE w == wire[k]
                 v == Tail(w)
      <3>1. /\ Len(w) \in Nat /\ Len(v) = Len(w) - 1 /\ m = w[1]
            /\ \A i \in 1 .. Len(v) : v[i] = w[i + 1]
        <4>1. w \in Seq(Messages) /\ w # <<>> /\ m = Head(w)
          BY <1>1, <1>2 DEF m
        <4> HIDE DEF w
        <4> QED BY <4>1
      <3>2. \A i \in 1 .. Len(v) : ~Final(v[i])
        BY <1>4, <1>10 DEF Heeded
      <3> HIDE DEF v, w
      <3>3. ASSUME NEW i \in 1 .. Len(w) PROVE ~Final(w[i])
        <4>1. CASE i = 1
          BY <2>2, <3>1, <4>1
        <4>2. CASE i # 1
          <5>1. i - 1 \in 1 .. Len(v) /\ (i - 1) + 1 = i
            BY <3>1, <4>2
          <5>2. v[i - 1] = w[i]
            BY <3>1, <5>1
          <5> QED BY <3>2, <5>1, <5>2
        <4> QED BY <4>1, <4>2
      <3> QED BY <3>3 DEF w
    <2> QED BY <1>10, <2>2, <2>3 DEF Heeded, Stays
  <1>11. ASSUME NEW j \in Sockets, Joined(sess, j)
         PROVE  /\ Heeded(j)' => Heeded(j)
                /\ \A x \in SUBSET Pairs : Heeded(j)' /\ Leads(peers[j], wire[j], x) => Leads(peers'[j], wire'[j], x)
    <2>1. CASE j # k
      BY <1>4, <1>9, <2>1 DEF Heeded, There, Stays
    <2>2. CASE j = k
      <3>1. \A x : Leads(peers[k], wire[k], x) => Leads(Met(peers[k], m), Tail(wire[k]), x)
        <4> SUFFICES ASSUME NEW x, Leads(peers[k], wire[k], x) PROVE Leads(Met(peers[k], m), Tail(wire[k]), x)
          OBVIOUS
        <4>1. wire[k] \in Seq(Messages)
          BY <1>1
        <4>2. Leads(Met(peers[k], Head(wire[k])), Tail(wire[k]), x)
          BY <1>2, <4>1, LeadsTail
        <4> QED BY <4>2 DEF m
      <3> QED BY <1>4, <1>10, <2>2, <3>1
    <2> QED BY <2>1, <2>2
  <1> QED BY <1>1, <1>4, <1>6, <1>8, <1>11, StillGreets

\* What is left of a sequence that did not start with a leave.
LEMMA TailStays ==
  ASSUME NEW k \in Sockets, inbox[k] \in Seq(Says), inbox[k] # <<>>, Head(inbox[k]).t # "leave",
         inbox'[k] = Tail(inbox[k])
  PROVE  Stays(k)' => Stays(k)
  <1> DEFINE w == inbox[k]
             v == Tail(w)
  <1>1. /\ Len(w) \in Nat /\ Len(v) = Len(w) - 1 /\ Head(w) = w[1]
        /\ \A i \in 1 .. Len(v) : v[i] = w[i + 1]
    <2> HIDE DEF w
    <2>1. w \in Seq(Says) /\ w # <<>>
      BY DEF w
    <2> QED BY <2>1
  <1> HIDE DEF v, w
  <1>2. ASSUME \A i \in 1 .. Len(v) : v[i].t # "leave", NEW i \in 1 .. Len(w) PROVE w[i].t # "leave"
    <2>1. CASE i = 1
      BY <1>1, <2>1 DEF w
    <2>2. CASE i # 1
      <3>1. i - 1 \in 1 .. Len(v) /\ (i - 1) + 1 = i
        BY <1>1, <2>2
      <3>2. v[i - 1] = w[i]
        BY <1>1, <3>1
      <3> QED BY <1>2, <3>1, <3>2
    <2> QED BY <2>1, <2>2
  <1> QED BY <1>2 DEF Stays, v, w

\* The hub reads what a client sent.
LEMMA HubGreets ==
  ASSUME Kept, Greeted, NEW k \in Sockets, HubReads(k)
  PROVE  Greeted'
  <1> DEFINE m == Head(inbox[k])
  <1>1. /\ UNCHANGED <<cl, peers, sock>> /\ sock[k] = "open"
        /\ inbox[k] # <<>> /\ inbox' = [inbox EXCEPT ![k] = Tail(@)]
    BY DEF HubReads, client
  <1>2. /\ inbox \in [Sockets -> Seq(Says)] /\ sess \in [Sockets -> Sessions] /\ pend \in [Sockets -> Attempts]
        /\ tries \in [Sockets -> Nat] /\ noted \in SUBSET Entries
        /\ peers \in [Sockets -> SUBSET Pairs] /\ wire \in [Sockets -> Seq(Messages)]
        /\ One /\ Past /\ Types
    BY DEF Kept, Types, Greeted, Typed
  <1>3. m \in Says /\ Tail(inbox[k]) \in Seq(Says) /\ (m.t # "leave" => m \in Asks)
    BY <1>1, <1>2, TailKeeps DEF Says
  <1>4. /\ inbox'[k] = Tail(inbox[k]) /\ \A j \in Sockets : j # k => inbox'[j] = inbox[j]
    BY <1>1, <1>2, <1>3
  <1>5. One'
    BY <1>1, <1>2 DEF One
  <1>6. m.t # "leave" => (Stays(k)' => Stays(k))
    BY <1>1, <1>2, <1>4, TailStays
  <1>7. \/ LeaveRead(k)
        \/ m.t # "leave" /\ sess[k].on # 0 /\ Deliver(k, sess, <<m>>) /\ UNCHANGED <<pend, tries, checks>>
        \/ /\ m.t # "leave" /\ pend[k].att # 0 /\ pend' = [pend EXCEPT ![k].queue = Append(@, m)]
           /\ UNCHANGED <<sess, noted, wire, tries, checks>>
        \/ /\ m.t # "leave" /\ sess[k].on = 0 /\ pend[k].att = 0
           /\ Admit(k, <<m>>) /\ UNCHANGED <<sess, noted, wire>>
    BY Zenon DEF HubReads
  <1> HIDE DEF m
  <1>8. CASE LeaveRead(k)
    <2>1. /\ noted' = NoteLeft(noted, sess, {k}) /\ sess' = Ended(sess, {k})
          /\ pend' = [pend EXCEPT ![k] = NoAttempt] /\ UNCHANGED <<wire, tries, checks>>
      BY <1>8 DEF LeaveRead
    <2>2. \A j \in Sockets : pend'[j].att = 0 \/ pend'[j].att = pend[j].att
      BY <1>2, <2>1, NoAttemptShape
    <2>3. \A j \in Sockets : j \notin {k} => (Heeded(j)' => Heeded(j)) /\ wire'[j] = wire[j] /\ peers'[j] = peers[j]
      BY <1>1, <1>4, <2>1 DEF Heeded, There, Stays
    <2>4. \A c \in checks' : c.kind = "admit" /\ c.stage = "store" => c \in checks \/ c.on # 0
      BY <2>1
    <2>5. {k} \in SUBSET Sockets /\ wire' \in [Sockets -> Seq(Messages)] /\ peers' \in [Sockets -> SUBSET Pairs]
      BY <1>1, <1>2, <2>1
    <2> QED BY <1>5, <2>1, <2>2, <2>3, <2>4, <2>5, EndGreets
  <1>9. CASE m.t # "leave" /\ sess[k].on # 0 /\ Deliver(k, sess, <<m>>) /\ UNCHANGED <<pend, tries, checks>>
    <2>1. <<m>> \in Seq(Asks)
      BY <1>3, <1>9
    <2>2. Goes(noted, sess, noted, sess)
      BY <1>2, GoesSame DEF Greeted
    <2>3. pend'[k].att = 0 /\ sess[k].id <= tries[k] /\ \A j \in Sockets : pend'[j].att = 0 \/ pend'[j].att = pend[j].att
      BY <1>2, <1>9 DEF Past
    <2>4. \A c \in checks' : c.kind = "admit" /\ c.stage = "store" => c \in checks \/ c.on # 0
      BY <1>9
    <2>5. \A j \in Sockets : j # k => sess[j] = sess[j] /\ inbox'[j] = inbox[j]
      BY <1>4
    <2> QED BY <1>1, <1>2, <1>6, <1>9, <2>1, <2>2, <2>3, <2>4, <2>5, DeliverGreets
  <1>10. ASSUME Past', m.t # "leave", UNCHANGED <<sess, noted, wire>> PROVE Greeted'
    <2>1. \A j \in Sockets : Heeded(j)' => Heeded(j)
      BY <1>1, <1>4, <1>6, <1>10 DEF Heeded, There, Stays
    <2>2. \A j \in Sockets : peers'[j] = peers[j] /\ wire'[j] = wire[j]
      BY <1>1, <1>10
    <2> QED BY <1>1, <1>2, <1>5, <1>10, <2>1, <2>2, StillGreets
  <1>11. CASE /\ m.t # "leave" /\ pend[k].att # 0 /\ pend' = [pend EXCEPT ![k].queue = Append(@, m)]
              /\ UNCHANGED <<sess, noted, wire, tries, checks>>
    <2>1. \A j \in Sockets : pend'[j].att = pend[j].att
      BY <1>2, <1>11 DEF Attempts
    <2>2. Past'
      BY <1>2, <1>11, <2>1, PastBegins
    <2> QED BY <1>10, <1>11, <2>2
  <1>12. CASE /\ m.t # "leave" /\ sess[k].on = 0 /\ pend[k].att = 0
              /\ Admit(k, <<m>>) /\ UNCHANGED <<sess, noted, wire>>
    <2>1. /\ tries' = [tries EXCEPT ![k] = @ + 1]
          /\ pend' = [pend EXCEPT ![k] = [att |-> tries[k] + 1, queue |-> <<m>>]]
      BY <1>12 DEF Admit
    <2>2. \A c \in checks' : c.kind = "admit" /\ c.stage = "store" => c \in checks
      <3>1. PICK d \in Check(k, tries[k] + 1, "admit", "id", 0) : checks' = checks \cup {d}
        BY <1>12 DEF Admit
      <3>2. d.stage = "id"
        BY CheckShape
      <3> QED BY <3>1, <3>2
    <2>3. \A j \in Sockets : \/ pend'[j].att = pend[j].att /\ tries'[j] = tries[j]
                             \/ sess[j].on = 0 /\ tries'[j] = tries[j] + 1 /\ pend'[j].att = tries[j] + 1
      BY <1>2, <1>12, <2>1
    <2>4. Past'
      BY <1>2, <1>12, <2>2, <2>3, PastBegins
    <2> QED BY <1>10, <1>12, <2>4
  <1> QED BY <1>7, <1>8, <1>9, <1>11, <1>12

\* A hook answers: an attempt ends, goes on or is let in, or a session ends.
LEMMA SettleGreets ==
  ASSUME Kept, Greeted, NEW c \in checks, Settle(c)
  PROVE  Greeted'
  <1> DEFINE k == c.k
  <1>1. UNCHANGED <<cl, peers, sock, inbox, tries>>
    BY DEF Settle, client
  <1>2. /\ inbox \in [Sockets -> Seq(Says)] /\ sess \in [Sockets -> Sessions] /\ pend \in [Sockets -> Attempts]
        /\ tries \in [Sockets -> Nat] /\ noted \in SUBSET Entries /\ live \in Nat /\ loads \in Nat
        /\ peers \in [Sockets -> SUBSET Pairs] /\ wire \in [Sockets -> Seq(Messages)]
        /\ One /\ Past /\ Types /\ Matches(noted, sess)
    BY DEF Kept, Types, Greeted, Typed
  <1>3. c \in Checks /\ k \in Sockets /\ c.on \in Nat /\ c.att \in Nat
    BY <1>2 DEF Types, Checks
  <1>4. c.kind = "admit" => c.att # 0 /\ c.att <= tries[k]
    BY DEF Kept, Numbered
  <1>5. Current(c) /\ c.kind = "admit" => pend[k].att = c.att /\ sess[k].on = 0 /\ sock[k] = "open"
    BY <1>2, <1>3, <1>4 DEF Current, Past
  <1> HIDE DEF k
  <1>6. One' /\ peers' \in [Sockets -> SUBSET Pairs]
    BY <1>1, <1>2 DEF One
  <1>7. ASSUME UNCHANGED <<sess, noted>>, pend' = pend \/ pend' = [pend EXCEPT ![k] = NoAttempt],
               \A d \in checks' : d.kind = "admit" /\ d.stage = "store" => d \in checks \/ d.on # 0
        PROVE  Past'
    <2>1. \A j \in Sockets : pend'[j].att = 0 \/ pend'[j].att = pend[j].att
      BY <1>2, <1>3, <1>7, NoAttemptShape
    <2>2. \A j \in Sockets : \/ sess'[j].on = 0
                             \/ sess'[j].on = sess[j].on /\ sess'[j].id = sess[j].id
                             \/ pend'[j].att = 0 /\ sess'[j].id <= tries[j]
      BY <1>7
    <2>3. \A e \in noted' : e \in noted \/ (e.who[2] <= tries[e.who[1]] /\ pend'[e.who[1]].att = 0)
      BY <1>7
    <2> QED BY <1>1, <1>2, <1>7, <2>1, <2>2, <2>3, PastKeeps
  <1>8. ASSUME UNCHANGED <<sess, noted, wire>>, pend' = pend \/ pend' = [pend EXCEPT ![k] = NoAttempt],
               \A d \in checks' : d.kind = "admit" /\ d.stage = "store" => d \in checks \/ d.on # 0
        PROVE  Greeted'
    <2>1. Past'
      BY <1>7, <1>8
    <2>2. \A j \in Sockets : /\ Heeded(j)' => Heeded(j)
                             /\ peers'[j] = peers[j] /\ wire'[j] = wire[j]
      BY <1>1, <1>8 DEF Heeded, There, Stays
    <2> QED BY <1>2, <1>6, <1>8, <2>1, <2>2, StillGreets
  <1>9. ASSUME NEW code \in {"unavailable", "forbidden", "evicted"}, Current(c), c.kind = "admit",
               Refuse(k, code), checks' = checks \ {c}, UNCHANGED <<sess, noted>>
        PROVE  Greeted'
    <2>1. Closed(code) \in Messages
      BY ClosedIs
    <2>2. wire' = [wire EXCEPT ![k] = Append(@, Closed(code))] /\ pend' = [pend EXCEPT ![k] = NoAttempt]
      BY <1>9 DEF Refuse
    <2>3. wire' \in [Sockets -> Seq(Messages)] /\ \A j \in Sockets : j # k => wire'[j] = wire[j]
      BY <1>2, <1>3, <2>1, <2>2, AppendsTo DEF k
    <2>4. Past'
      BY <1>7, <1>9, <2>2
    <2>5. ~Joined(sess, k)
      BY <1>5, <1>9 DEF Joined
    <2>6. \A j \in Sockets : Joined(sess, j) =>
            (Heeded(j)' => Heeded(j)) /\ peers'[j] = peers[j] /\ wire'[j] = wire[j]
      BY <1>1, <2>3, <2>5 DEF Heeded, There, Stays
    <2> QED BY <1>2, <1>6, <1>9, <2>3, <2>4, <2>6, StillGreets
  <1>10. CASE ~Current(c) /\ checks' = checks \ {c} /\ UNCHANGED <<pend, wire, sess, store>>
    <2>1. UNCHANGED noted
      BY <1>10 DEF store
    <2> QED BY <1>8, <1>10, <2>1
  <1>11. CASE Current(c) /\ c.kind = "again" /\ JudgedAgain(c) /\ UNCHANGED pend
    <2>1. CASE \E d \in Check(c.k, c.att, "again", "store", c.on) : checks' = (checks \ {c}) \cup {d}
               /\ UNCHANGED <<wire, sess, noted>>
      <3>1. PICK d \in Check(c.k, c.att, "again", "store", c.on) : checks' = (checks \ {c}) \cup {d}
        BY <2>1
      <3>2. d.kind = "again"
        BY CheckShape
      <3>3. \A e \in checks' : e.kind = "admit" /\ e.stage = "store" => e \in checks \/ e.on # 0
        BY <3>1, <3>2
      <3> QED BY <1>8, <1>11, <2>1, <3>3
    <2>2. CASE checks' = checks \ {c} /\ UNCHANGED <<wire, sess, noted>>
      <3>1. \A e \in checks' : e.kind = "admit" /\ e.stage = "store" => e \in checks \/ e.on # 0
        BY <2>2
      <3> QED BY <1>8, <1>11, <2>2, <3>1
    <2>3. CASE /\ checks' = checks \ {c}
               /\ noted' = NoteLeft(noted, sess, {c.k}) /\ sess' = Ended(sess, {c.k})
               /\ wire' = [wire EXCEPT ![c.k] = Append(@, Closed("forbidden"))]
      <3>1. Closed("forbidden") \in Messages
        BY ClosedIs
      <3>2. wire' \in [Sockets -> Seq(Messages)] /\ \A j \in Sockets : j # k => wire'[j] = wire[j]
        BY <1>2, <1>3, <2>3, <3>1, AppendsTo DEF k
      <3>3. \A j \in Sockets : j \notin {k} => (Heeded(j)' => Heeded(j)) /\ wire'[j] = wire[j] /\ peers'[j] = peers[j]
        BY <1>1, <3>2 DEF Heeded, There, Stays
      <3>4. \A d \in checks' : d.kind = "admit" /\ d.stage = "store" => d \in checks \/ d.on # 0
        BY <2>3
      <3>5. {k} \in SUBSET Sockets /\ \A j \in Sockets : pend'[j].att = 0 \/ pend'[j].att = pend[j].att
        BY <1>3, <1>11
      <3>6. noted' = NoteLeft(noted, sess, {k}) /\ sess' = Ended(sess, {k})
        BY <2>3 DEF k
      <3> QED BY <1>1, <1>6, <3>2, <3>3, <3>4, <3>5, <3>6, EndGreets
    <2> QED BY <1>11, <2>1, <2>2, <2>3 DEF JudgedAgain
  <1>12. CASE /\ Current(c) /\ c.kind = "admit" /\ ~Verdict(c)
              /\ checks' = checks \ {c} /\ Refuse(c.k, "forbidden") /\ UNCHANGED <<sess, store>>
    <2>1. UNCHANGED noted
      BY <1>12 DEF store
    <2> QED BY <1>9, <1>12, <2>1 DEF k
  <1>13. CASE Current(c) /\ c.kind = "admit" /\ Resolved(c)
    <2>1. CASE checks' = checks \ {c} /\ Refuse(c.k, "unavailable") /\ UNCHANGED <<sess, noted>>
      BY <1>9, <1>13, <2>1 DEF k
    <2>2. CASE /\ live' = (IF live # 0 THEN live ELSE loads + 1)
               /\ \E d \in Check(c.k, c.att, "admit", "store", live') : checks' = (checks \ {c}) \cup {d}
               /\ UNCHANGED <<pend, wire, sess, noted>>
      <3>1. PICK d \in Check(c.k, c.att, "admit", "store", live') : checks' = (checks \ {c}) \cup {d}
        BY <2>2
      <3>2. live' # 0 /\ d.on = live'
        BY <1>2, <2>2, CheckShape
      <3>3. \A e \in checks' : e.kind = "admit" /\ e.stage = "store" => e \in checks \/ e.on # 0
        BY <3>1, <3>2
      <3> QED BY <1>8, <2>2, <3>3
    <2> QED BY <1>13, <2>1, <2>2 DEF Resolved
  <1>14. CASE Current(c) /\ c.kind = "admit" /\ c.stage = "store" /\ Opened(c)
    <2>1. checks' = checks \ {c} /\ pend' = [pend EXCEPT ![k] = NoAttempt]
      BY <1>14 DEF Opened, k
    <2>2. \A e \in checks' : e.kind = "admit" /\ e.stage = "store" => e \in checks \/ e.on # 0
      BY <2>1
    <2>3. CASE UNCHANGED <<sess, noted, wire>>
      BY <1>8, <2>1, <2>2, <2>3
    <2>4. CASE Deliver(c.k, [sess EXCEPT ![c.k] = [NoSession EXCEPT !.on = c.on, !.id = c.att]], pend[c.k].queue)
      <3> DEFINE new == [NoSession EXCEPT !.on = c.on, !.id = c.att]
                 s == [sess EXCEPT ![k] = new]
                 q == pend[k].queue
      <3>1. new \in Sessions /\ new.on = c.on /\ new.id = c.att /\ ~new.joined
        BY <1>3 DEF NoSession, Sessions
      <3>2. Deliver(k, s, q)
        BY <2>4 DEF k
      <3> HIDE DEF new
      <3>3. /\ s \in [Sockets -> Sessions] /\ s[k] = new /\ \A j \in Sockets : j # k => s[j] = sess[j]
            /\ q \in Seq(Asks)
        BY <1>2, <1>3, <3>1 DEF Attempts
      <3> HIDE DEF s, q
      <3>4. c.on # 0
        BY <1>2, <1>14 DEF Past
      <3>5. sess[k].on = 0 /\ pend[k].att = c.att /\ c.att # 0 /\ c.att <= tries[k] /\ sock[k] = "open"
        BY <1>4, <1>5, <1>14
      <3>6. ~Joined(sess, k) /\ ~Joined(s, k)
        BY <3>1, <3>3, <3>5 DEF Joined
      <3>7. \A e \in noted : e.left => ~Is(s, e.who)
        <4> SUFFICES ASSUME NEW e \in noted, e.left, Is(s, e.who) PROVE FALSE
          OBVIOUS
        <4>1. e.who[1] \in Sockets /\ e.who[2] \in Nat /\ ~Is(sess, e.who)
          BY <1>2 DEF Entries, Matches
        <4>2. CASE e.who[1] = k
          <5>1. e.who[2] = c.att
            BY <3>1, <3>3, <4>2 DEF Is
          <5>2. e.who[2] < pend[k].att
            BY <1>2, <3>5, <4>2 DEF Past
          <5> QED BY <1>3, <3>5, <5>1, <5>2
        <4>3. CASE e.who[1] # k
          BY <3>3, <4>1, <4>3 DEF Is
        <4> QED BY <4>2, <4>3
      <3>8. Goes(noted, sess, noted, s)
        BY <1>2, <1>3, <3>3, <3>6, <3>7, UnseenGoes DEF k
      <3>9. pend'[k].att = 0 /\ \A j \in Sockets : pend'[j].att = 0 \/ pend'[j].att = pend[j].att
        BY <1>2, <1>3, <2>1, NoAttemptShape
      <3>10. s[k].on # 0 /\ s[k].id <= tries[k] /\ (Joined(s, k) => s = sess)
        BY <3>1, <3>3, <3>4, <3>5, <3>6
      <3>11. (Stays(k)' => Stays(k)) /\ \A j \in Sockets : j # k => inbox'[j] = inbox[j]
        BY <1>1 DEF Stays
      <3> QED BY <1>1, <1>3, <2>2, <3>2, <3>3, <3>5, <3>8, <3>9, <3>10, <3>11, DeliverGreets
    <2> QED BY <1>14, <2>3, <2>4 DEF Opened
  <1> QED
    <2>1. \/ ~Current(c) /\ checks' = checks \ {c} /\ UNCHANGED <<pend, wire, sess, store>>
          \/ Current(c) /\ c.kind = "again" /\ JudgedAgain(c) /\ UNCHANGED pend
          \/ /\ Current(c) /\ c.kind = "admit" /\ ~Verdict(c)
             /\ checks' = checks \ {c} /\ Refuse(c.k, "forbidden") /\ UNCHANGED <<sess, store>>
          \/ Current(c) /\ c.kind = "admit" /\ Resolved(c)
          \/ Current(c) /\ c.kind = "admit" /\ c.stage = "store" /\ Opened(c)
      BY Zenon DEF Settle
    <2> QED BY <1>10, <1>11, <1>12, <1>13, <1>14, <2>1

\* Sockets close: with them their sessions, and what was on its way.
LEMMA HangUpGreets ==
  ASSUME Kept, Greeted, NEW K \in SUBSET Sockets, HangUp(K)
  PROVE  Greeted'
  <1>1. Types /\ Typed /\ One
    BY DEF Kept, Greeted
  <1>2. /\ tries' = tries /\ checks' = checks
        /\ \A k \in Sockets :
             IF k \in K THEN sock'[k] = "gone" /\ pend'[k].att = 0
             ELSE sock'[k] = sock[k] /\ pend'[k] = pend[k] /\ inbox'[k] = inbox[k] /\ cl'[k] = cl[k]
    BY <1>1, HangUpShape
  <1>3. /\ noted' = NoteLeft(noted, sess, K) /\ sess' = Ended(sess, K)
        /\ wire' = [k \in Sockets |-> IF k \in K THEN <<>> ELSE wire[k]]
        /\ peers' = [k \in Sockets |-> IF k \in K THEN {} ELSE peers[k]]
    BY DEF HangUp
  <1>4. <<>> \in Seq(Messages)
    OBVIOUS
  <1>5. wire' \in [Sockets -> Seq(Messages)] /\ peers' \in [Sockets -> SUBSET Pairs]
    BY <1>1, <1>3, <1>4 DEF Typed
  <1>6. One'
    <2> SUFFICES ASSUME NEW k \in Sockets, sock'[k] \in {"passed", "open"},
                        NEW j \in Sockets, j[1] = k[1], j[2] < k[2]
                 PROVE  sock'[j] = "gone"
      BY DEF One
    <2>1. sock'[k] = sock[k]
      BY <1>2
    <2>2. sock[j] = "gone"
      BY <1>1, <2>1 DEF One
    <2> QED BY <1>2, <2>2
  <1>7. \A k \in Sockets : k \notin K => (Heeded(k)' => Heeded(k)) /\ wire'[k] = wire[k] /\ peers'[k] = peers[k]
    BY <1>2, <1>3 DEF Heeded, There, Stays
  <1>8. \A c \in checks' : c.kind = "admit" /\ c.stage = "store" => c \in checks \/ c.on # 0
    BY <1>2
  <1>9. \A j \in Sockets : pend'[j].att = 0 \/ pend'[j].att = pend[j].att
    BY <1>2
  <1> QED BY <1>2, <1>3, <1>5, <1>6, <1>7, <1>8, <1>9, EndGreets

\* The app takes a user back.
LEMMA TakesBackGreets ==
  ASSUME Kept, Greeted, NEW u \in Clients, TakesBack(u)
  PROVE  Greeted'
  <1>1. CASE HangUp(Judgeable(u))
    <2>1. Judgeable(u) \in SUBSET Sockets
      BY DEF Judgeable
    <2> QED BY <1>1, <2>1, HangUpGreets
  <1>2. CASE Revalidate(u)
    <2>1. UNCHANGED <<wire, sess, noted, sock, inbox, cl, peers>>
      BY <1>2 DEF Revalidate
    <2>2. /\ Types /\ Past /\ One /\ noted \in SUBSET Entries
          /\ wire \in [Sockets -> Seq(Messages)] /\ peers \in [Sockets -> SUBSET Pairs]
      BY DEF Kept, Greeted, Typed
    <2> DEFINE again == {k \in Judgeable(u) : pend[k].att # 0}
    <2>3. /\ tries' = [k \in Sockets |-> IF k \in again THEN tries[k] + 1 ELSE tries[k]]
          /\ pend' = [k \in Sockets |-> IF k \in again THEN [pend[k] EXCEPT !.att = tries[k] + 1] ELSE pend[k]]
      BY <1>2 DEF Revalidate
    <2>4. \A k \in again : pend[k].att # 0
      OBVIOUS
    <2> HIDE DEF again
    <2>5. ASSUME NEW k \in Sockets
          PROVE  \/ pend'[k].att = pend[k].att /\ tries'[k] = tries[k]
                 \/ sess[k].on = 0 /\ tries'[k] = tries[k] + 1 /\ pend'[k].att = tries[k] + 1
      <3>1. CASE k \in again
        <4>1. sess[k].on = 0
          BY <2>2, <2>4, <3>1 DEF Past
        <4>2. tries'[k] = tries[k] + 1 /\ pend'[k] = [pend[k] EXCEPT !.att = tries[k] + 1]
          BY <2>3, <3>1
        <4>3. pend[k] \in Attempts
          BY <2>2 DEF Types
        <4>4. pend'[k].att = tries[k] + 1
          BY <4>2, <4>3 DEF Attempts
        <4> QED BY <4>1, <4>2, <4>4
      <3>2. CASE k \notin again
        BY <2>3, <3>2
      <3> QED BY <3>1, <3>2
    <2>6. \A c \in checks' : c.kind = "admit" /\ c.stage = "store" => c \in checks
      BY <1>2 DEF Revalidate
    <2>7. Past'
      BY <2>1, <2>2, <2>5, <2>6, PastBegins
    <2>8. One'
      BY <2>1, <2>2 DEF One
    <2>9. \A k \in Sockets : (Heeded(k)' => Heeded(k)) /\ peers'[k] = peers[k] /\ wire'[k] = wire[k]
      BY <2>1 DEF Heeded, There, Stays
    <2> QED BY <2>1, <2>2, <2>7, <2>8, <2>9, StillGreets
  <1> QED BY <1>1, <1>2 DEF TakesBack

\* A socket closes.
LEMMA ClosesGreets ==
  ASSUME Kept, Greeted, NEW k \in Sockets, SocketCloses(k)
  PROVE  Greeted'
  <1>1. HangUp({k}) /\ {k} \in SUBSET Sockets
    BY DEF SocketCloses
  <1> QED BY <1>1, HangUpGreets

\* A store ends a session.
LEMMA EvictGreets ==
  ASSUME Kept, Greeted, NEW k \in Sockets, Evict(k)
  PROVE  Greeted'
  <1>1. /\ wire \in [Sockets -> Seq(Messages)] /\ peers \in [Sockets -> SUBSET Pairs] /\ One
        /\ Closed("evicted") \in Messages
    BY ClosedIs DEF Greeted, Typed
  <1>2. /\ UNCHANGED <<sock, cl, peers, inbox, pend, tries, checks>>
        /\ wire' = [wire EXCEPT ![k] = Append(@, Closed("evicted"))]
        /\ noted' = NoteLeft(noted, sess, {k}) /\ sess' = Ended(sess, {k})
    BY DEF Evict, client
  <1>3. /\ wire' \in [Sockets -> Seq(Messages)]
        /\ \A j \in Sockets : j # k => wire'[j] = wire[j]
    BY <1>1, <1>2, AppendsTo
  <1>4. One' /\ peers' \in [Sockets -> SUBSET Pairs]
    BY <1>1, <1>2 DEF One
  <1>5. \A j \in Sockets : j \notin {k} =>
          (Heeded(j)' => Heeded(j)) /\ wire'[j] = wire[j] /\ peers'[j] = peers[j]
    BY <1>2, <1>3 DEF Heeded, There, Stays
  <1>6. {k} \in SUBSET Sockets
    OBVIOUS
  <1>7. /\ \A j \in Sockets : pend'[j].att = 0 \/ pend'[j].att = pend[j].att
        /\ \A c \in checks' : c.kind = "admit" /\ c.stage = "store" => c \in checks \/ c.on # 0
    BY <1>2
  <1> QED BY <1>2, <1>3, <1>4, <1>5, <1>6, <1>7, EndGreets

\* A store ends, with the sessions it has.
LEMMA NobodyGreets ==
  ASSUME Kept, Greeted, UNCHANGED <<sock, peers, pend, tries, checks>>, noted' = {},
         \A k \in Sockets : sess'[k].on = 0, wire' \in [Sockets -> Seq(Messages)]
  PROVE  Greeted'
  <1>1. Types /\ Past /\ One /\ noted \in SUBSET Entries /\ peers \in [Sockets -> SUBSET Pairs]
    BY DEF Kept, Greeted, Typed
  <1>2. Typed' /\ One' /\ Matches(noted', sess')
    BY <1>1 DEF Typed, One, Matches
  <1>3. Past'
    BY <1>1, PastKeeps
  <1>4. \A k \in Sockets : Informed(k)'
    BY DEF Informed, Joined
  <1> QED BY <1>2, <1>3, <1>4 DEF Greeted

\* A store that ends sends its sessions away, or has none.
LEMMA StoreEndsGreets ==
  ASSUME Kept, Greeted, Sweep \/ Unload
  PROVE  Greeted'
  <1>1. wire \in [Sockets -> Seq(Messages)] /\ Closed("unavailable") \in Messages
    BY ClosedIs DEF Greeted, Typed
  <1>2. CASE Sweep
    <2>1. UNCHANGED <<sock, peers, pend, tries, checks>> /\ noted' = {} /\ UNCHANGED <<sess, wire>> /\ OnStore = {}
      BY <1>2 DEF Sweep, client, hub
    <2>2. \A k \in Sockets : sess'[k].on = 0
      BY <2>1 DEF OnStore
    <2> QED BY <1>1, <2>1, <2>2, NobodyGreets
  <1>3. CASE Unload
    <2>1. /\ UNCHANGED <<sock, peers, pend, tries, checks>> /\ noted' = {} /\ sess' = Ended(sess, OnStore)
          /\ wire' = [k \in Sockets |-> IF k \in OnStore THEN Append(wire[k], Closed("unavailable")) ELSE wire[k]]
      BY <1>3 DEF Unload, client
    <2>2. \A k \in Sockets : sess'[k].on = 0
      BY <2>1 DEF OnStore, Ended, NoSession
    <2>3. \A k \in Sockets : Append(wire[k], Closed("unavailable")) \in Seq(Messages) /\ wire[k] \in Seq(Messages)
      BY <1>1
    <2>4. wire' \in [Sockets -> Seq(Messages)]
      BY <2>1, <2>3
    <2> QED BY <2>1, <2>2, <2>4, NobodyGreets
  <1> QED BY <1>2, <1>3

\* What a client was sent before is heeded if it is with one more.
LEMMA AppendHeeds ==
  ASSUME NEW k \in Sockets, wire[k] \in Seq(Messages), NEW m \in Messages,
         wire'[k] = Append(wire[k], m), UNCHANGED <<cl, inbox>>
  PROVE  Heeded(k)' => Heeded(k)
  <1> DEFINE w == wire[k]
             v == Append(w, m)
  <1>1. Len(w) \in Nat /\ Len(v) = Len(w) + 1 /\ \A i \in 1 .. Len(w) : v[i] = w[i]
    <2>1. w \in Seq(Messages)
      OBVIOUS
    <2> HIDE DEF w
    <2> QED BY <2>1
  <1> HIDE DEF w, v
  <1>2. (\A i \in 1 .. Len(v) : ~Final(v[i])) => \A i \in 1 .. Len(w) : ~Final(w[i])
    <2>1. \A i \in 1 .. Len(w) : i \in 1 .. Len(v)
      BY <1>1
    <2> QED BY <1>1, <2>1
  <1>3. (There(k)' <=> There(k)) /\ (Stays(k)' <=> Stays(k))
    BY DEF There, Stays
  <1>4. wire'[k] = v /\ wire[k] = w
    BY DEF v, w
  <1> QED BY <1>2, <1>3, <1>4 DEF Heeded

\* The flush tells them all, and with it they have the list.
LEMMA FlushGreets ==
  ASSUME Kept, Greeted, Flush
  PROVE  Greeted'
  <1> DEFINE m == News(noted, sess)
  <1>1. /\ sess \in [Sockets -> Sessions] /\ noted \in SUBSET Entries /\ Matches(noted, sess)
        /\ Types /\ Past /\ One /\ wire \in [Sockets -> Seq(Messages)] /\ peers \in [Sockets -> SUBSET Pairs]
    BY DEF Kept, Types, Greeted, Typed
  <1>2. /\ UNCHANGED <<sess, sock, cl, peers, inbox, pend, tries, checks>> /\ noted' = {}
        /\ wire' = [k \in Sockets |-> IF k \in OnStore THEN Append(wire[k], m) ELSE wire[k]]
    BY DEF Flush, client, hub
  <1>3. m \in Messages /\ m.t = "presence"
    <2>1. m.t = "presence"
      BY DEF News
    <2> QED BY <1>1, <2>1, NewsIs
  <1>4. \A x \in SUBSET Pairs : Met(x, m) = Applied(x, m)
    BY <1>3 DEF Met
  <1>5. Alone(sess)
    <2>1. \A k \in Sockets : sess[k].on # 0 => sock[k] = "open"
      BY DEF Kept, Numbered
    <2> QED BY <1>1, <2>1, OneAlone
  <1>6. \A x \in SUBSET Pairs : Told(x, noted, sess) => Told(Applied(x, m), {}, sess)
    BY <1>1, <1>5, NewsTold
  <1> HIDE DEF m
  <1>7. \A k \in Sockets : wire[k] \in Seq(Messages) /\ Append(wire[k], m) \in Seq(Messages)
    BY <1>1, <1>3
  <1>8. wire' \in [Sockets -> Seq(Messages)]
    BY <1>2, <1>7
  <1>9. Typed' /\ One' /\ Matches(noted', sess')
    BY <1>1, <1>2, <1>8 DEF Typed, One, Matches
  <1>10. Past'
    <2>1. /\ \A k \in Sockets : pend'[k].att = 0 \/ pend'[k].att = pend[k].att
          /\ \A k \in Sockets : sess'[k].on = sess[k].on /\ sess'[k].id = sess[k].id
          /\ \A c \in checks' : c.kind = "admit" /\ c.stage = "store" => c \in checks \/ c.on # 0
          /\ \A e \in noted' : e \in noted
          /\ UNCHANGED tries
      BY <1>2
    <2> QED BY <1>1, <2>1, PastKeeps
  <1>11. ASSUME NEW k \in Sockets PROVE Informed(k)'
    <2> SUFFICES ASSUME Heeded(k)', Joined(sess', k)
                 PROVE  \E y \in SUBSET Pairs : Leads(peers'[k], wire'[k], y) /\ Told(y, noted', sess')
      BY DEF Informed
    <2>1. Joined(sess, k) /\ k \in OnStore
      BY <1>2 DEF Joined, OnStore
    <2>2. wire'[k] = Append(wire[k], m) /\ peers'[k] = peers[k] /\ UNCHANGED <<cl, inbox>>
      BY <1>2, <2>1
    <2>3. Heeded(k)
      BY <1>3, <1>7, <2>2, AppendHeeds
    <2>4. PICK x \in SUBSET Pairs : Leads(peers[k], wire[k], x) /\ Told(x, noted, sess)
      BY <2>1, <2>3 DEF Greeted, Informed
    <2>5. Met(x, m) \in SUBSET Pairs /\ Leads(peers[k], Append(wire[k], m), Met(x, m))
      BY <1>3, <1>7, <2>4, LeadsOn
    <2>6. Told(Met(x, m), {}, sess)
      BY <1>4, <1>6, <2>4
    <2> QED BY <1>2, <2>2, <2>5, <2>6
  <1> QED BY <1>9, <1>10, <1>11 DEF Greeted

\* Every step keeps it, if a client comes back after the server knows that it was gone.
LEMMA GreetedNext == "halfopen" \notin Uses /\ Kept /\ Parted /\ Greeted /\ [Next]_vars => Greeted'
  <1> SUFFICES ASSUME "halfopen" \notin Uses, Kept, Parted, Greeted, [Next]_vars PROVE Greeted'
    OBVIOUS
  <1>1. CASE UNCHANGED vars
    BY <1>1 DEF vars, client, hub, store, Greeted, Typed, One, Past, Informed, Heeded, There, Stays
  <1>2. CASE Working
    BY <1>2, FlushGreets, HubGreets, HearsGreets, ClientGreets, SettleGreets DEF Working
  <1>3. ASSUME NEW k \in Sockets,
               \/ Handshake(k) \/ SocketOpens(k) \/ SocketCloses(k) \/ Evict(k)
               \/ Detach(k) \/ Attach(k) \/ Share(k)
        PROVE  Greeted'
    BY <1>3, OpensGreets, ClosesGreets, EvictGreets, ClientGreets
  <1> QED BY <1>1, <1>2, <1>3, TakesBackGreets, StoreEndsGreets DEF Next

\* docs/auth.md:199: with nothing on its way, whoever the store greeted has the list of the
\* sessions that are on the store and of what they share, whoever left, was sent away, came
\* back or shared meanwhile, and however the flush fell between; as long as a client comes
\* back only after the server knows that its socket is gone.
THEOREM PeersTold == "halfopen" \notin Uses => (Spec => []PeersAgree)
  <1> SUFFICES ASSUME "halfopen" \notin Uses PROVE Spec => []PeersAgree
    OBVIOUS
  <1>1. Kept => Types /\ Numbered
    BY DEF Kept
  <1>2. Kept /\ Parted /\ Greeted /\ [Next]_vars => Greeted'
    BY GreetedNext
  <1>3. Kept /\ Greeted => PeersAgree
    BY <1>1, GreetedAgree
  <1> QED BY <1>1, <1>2, <1>3, KeptInit, KeptNext, PartedInit, PartedNext, GreetedInit, PTL DEF Spec
=============================================================================
