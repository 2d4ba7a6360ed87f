---------------------------- MODULE StoreCommit ----------------------------
(***************************************************************************)
(* The commit pipeline of the server's store (src/server/store.js): what   *)
(* one turn of the event loop merges is stored as one commit, and what the *)
(* store would have sent meanwhile is held back until that commit is done. *)
(*                                                                         *)
(* The store runs on one thread.  `stack' is its call stack: a frame is a  *)
(* call with work left to do, "drain" the loop of commitNow that sends     *)
(* what was held back, "hook" an op observer (store.observe('op', fn))     *)
(* that is running and may call the store again.                           *)
(*                                                                         *)
(* A state of the store is an IMAGE: the history of the changes that       *)
(* landed (`log', as long as the store's version), the last op decided for *)
(* each replica (`seq') and the replicas somebody owns (`owned').  The     *)
(* records are what the history amounts to.  A pending change is the image *)
(* of memory right after it: storing it brings the storage there.          *)
(***************************************************************************)
EXTENDS Histories, FiniteSets

CONSTANTS
  GroupMax,     \* GROUP_MAX; 1 stands for `groupCommit: false'
  Faults,       \* what may go wrong: "fail" (a commit throws), "crash"
  Uses,         \* what the application does, of AllUses below
  MaxVersion,   \* bound: versions made
  MaxSeq,       \* bound: ops of one replica
  MaxSessions,  \* bound: sessions opened
  MaxHeld       \* bound: sends held back when a task begins

\* "observe": an op observer calls back into the store; "fetch": the HTTP
\* snapshot is served; "leave": clients disconnect; "lose": ops lose whole;
\* "reject": hellos are turned away; "evict", "dispose": the calls of that name.
AllUses == {"observe", "fetch", "leave", "lose", "reject", "evict", "dispose"}

ASSUME StoreAssumption ==
  /\ Server \notin Peers
  /\ GroupMax \in Nat \ {0}
  /\ Faults \subseteq {"fail", "crash"}
  /\ Uses \subseteq AllUses
  /\ MaxVersion \in Nat
  /\ MaxSeq \in Nat
  /\ MaxSessions \in Nat
  /\ MaxHeld \in Nat

VARIABLES
  disk,      \* the image the storage holds
  mem,       \* the image in the store's memory
  changes,   \* the images of the pending changes, in the order made
  effects,   \* the sends (and observer calls) held back, in the order made
  run,       \* the effects the drain loop took and has not come to yet
  stack,     \* the calls under way, the innermost first
  armed,     \* a commit is scheduled for the end of the turn (cancelCommit)
  status,    \* "live", "disposed" (unloaded), "down" (crashed)
  conn,      \* the peer each session serves, in the order they were made
  open,      \* the sessions open, by number
  untold,    \* the sessions the store ended that were not told so
  copy,      \* the copy kept at the other end of each session
  heard,     \* the history the last message told of
  acked,     \* the last op each replica was told is decided
  fetched    \* the history last served over HTTP

store == <<disk, mem, changes, armed, status>>
people == <<conn, open>>
outside == <<copy, heard, acked, untold>>
vars == <<store, effects, run, stack, people, outside, fetched>>

Sessions == 1 .. MaxSessions

Larger(a, b) == IF a > b THEN a ELSE b

version == Len(mem.log)
draining == \E i \in DOMAIN stack : stack[i].k = "drain"
pending == changes # <<>> \/ effects # <<>> \/ draining

Top(k) == stack # <<>> /\ Head(stack).k = k

\* What is left of the stack when the innermost task throws or returns early:
\* an observer catches what it called (store.js:207), a task just ends.
Unwound(s) ==
  LET first == {i \in 1 .. Len(s) : /\ s[i].k = "hook"
                                    /\ \A j \in 1 .. i - 1 : s[j].k # "hook"}
  IN  IF first = {} THEN <<>> ELSE SubSeq(s, CHOOSE i \in first : TRUE, Len(s))

-----------------------------------------------------------------------------
(* Sending.                                                                *)

\* A message goes to the transport; the client at the other end reads it.
\* A patch goes to every open session made before the change (number <= upTo);
\* a copy that was not answered yet passes it over (client/index.js:550), and
\* any message that names a version moves the copy's version to it (554, 562).
Hears(n, e) ==
  LET c == copy[n]
      at == Len(e.log)
  IN  IF e.t = "patch" /\ n \in open /\ n <= e.upTo /\ c.synced
        THEN [c EXCEPT !.v = at, !.whole = @ /\ at = c.v + 1]
      ELSE IF e.t = "ack" /\ e.n = n
        THEN [c EXCEPT !.v = Larger(@, at), !.whole = @ /\ at <= c.v]
      ELSE IF e.t = "answer" /\ e.n = n
        THEN [c EXCEPT !.v = at, !.synced = TRUE]
      ELSE c

Deliver(e) ==
  /\ copy' = [n \in Sessions |-> Hears(n, e)]
  /\ heard' = IF e.t = "closed" THEN heard ELSE e.log
  /\ acked' = IF e.t \in {"ack", "answer"}
                THEN [acked EXCEPT ![e.p] = Larger(@, e.seq)] ELSE acked
  /\ untold' = IF e.t = "closed" THEN untold \ {e.n} ELSE untold

\* Whether a held message is still sent when its turn comes (store.js:843): not
\* once its session closed, but for a goodbye queued after the close (845-850).
Sent(e) == e.t = "patch" \/ e.n \in open \/ (e.t = "closed" /\ e.sure)

\* mutant: what is not stored yet holds nothing back.
SendAhead(e) ==
  IF effects # <<>> THEN effects' = Append(effects, e) /\ UNCHANGED outside
                    ELSE Deliver(e) /\ UNCHANGED effects

\* store.js later() and a session's send(): now, or once what is pending is stored.
Send(e) ==
  IF pending THEN effects' = Append(effects, e) /\ UNCHANGED outside
             ELSE Deliver(e) /\ UNCHANGED effects

-----------------------------------------------------------------------------
(* commitNow.                                                              *)

\* The batch `pend' is stored whole, and what was held back is sent next; called
\* from within the drain loop it only stores (store.js:283).
Store(pend, calls) ==
  /\ pend = <<>> \/ status = "live"
  /\ disk' = IF pend = <<>> THEN disk ELSE pend[Len(pend)]
  /\ changes' = <<>>
  /\ armed' = FALSE
  /\ stack' = (IF draining THEN <<>> ELSE <<[k |-> "drain"]>>) \o calls
  /\ UNCHANGED <<status, effects, open, outside>>

\* A commit that throws: what it would have told is dropped and the store unloads
\* itself (278-281, 1179-1204).  An adapter without commitMany has stored some of
\* the batch, change by change (275).  Within the drain loop the goodbyes are
\* queued behind the close of their sessions, and never sent.
StoreFails(pend, calls) ==
  /\ pend # <<>>
  /\ "fail" \in Faults \/ status # "live"
  /\ \/ UNCHANGED disk
     \/ status = "live" /\ \E i \in 1 .. Len(pend) - 1 : disk' = pend[i]
  /\ changes' = <<>>
  /\ effects' = <<>>
  /\ armed' = FALSE
  /\ stack' = calls
  /\ IF status = "live"
       THEN /\ status' = "disposed"
            /\ open' = {}
            /\ untold' = IF draining THEN untold \cup open ELSE untold
       ELSE UNCHANGED <<status, open, untold>>
  /\ UNCHANGED <<copy, heard, acked>>

\* commitNow() called with `calls' to go on with.
CommitNow(calls) ==
  /\ Store(changes, calls) \/ StoreFails(changes, calls)
  /\ UNCHANGED <<mem, run, conn, fetched>>

\* mutant: a change pending is nobody's to store.
Unscheduled == UNCHANGED armed

\* scheduleCommit() (248-257).
Scheduled == armed' = TRUE

\* commit(): the memory is at `m', and goes to storage with the turn or, with the
\* group full, now; a commit that fails now ends the task (242-246).
Commit(m, calls) ==
  LET pend == Append(changes, m)
  IN  /\ mem' = m
      /\ IF Len(pend) < GroupMax
           THEN /\ changes' = pend
                /\ Scheduled
                /\ stack' = calls
                /\ UNCHANGED <<disk, status, effects, open, outside>>
           ELSE Store(pend, calls) \/ StoreFails(pend, Unwound(calls))
      /\ UNCHANGED <<run, conn, fetched>>

\* The end of the turn: the scheduled commit runs.
Turn ==
  /\ armed
  /\ stack = <<>>
  /\ CommitNow(<<>>)

\* store.js:285-298, the loop that sends what was held back.
DrainTake ==
  /\ Top("drain") /\ run = <<>> /\ effects # <<>> /\ changes = <<>>
  /\ run' = effects
  /\ effects' = <<>>
  /\ UNCHANGED <<store, stack, people, outside, fetched>>

RunEffect ==
  /\ Top("drain") /\ run # <<>>
  /\ run' = Tail(run)
  /\ LET e == Head(run)
     IN  IF e.t = "op"
           THEN stack' = <<[k |-> "hook"]>> \o stack /\ UNCHANGED outside
           ELSE /\ IF Sent(e) THEN Deliver(e) ELSE UNCHANGED outside
                /\ UNCHANGED stack
  /\ UNCHANGED <<store, effects, people, fetched>>

DrainEnd ==
  /\ Top("drain") /\ run = <<>> /\ (effects = <<>> \/ changes # <<>>)
  /\ stack' = Tail(stack)
  /\ armed' = (armed \/ changes # <<>>)
  /\ UNCHANGED <<disk, mem, changes, status, effects, run, people, outside, fetched>>

-----------------------------------------------------------------------------
(* Calls: each frame is what is left of one.                               *)

\* The innermost call goes on with nothing of this one left.
Done == stack' = Tail(stack)
Frame == Head(stack)

\* takeReplica (store.js:496): the replica becomes its first user's.
Claim ==
  /\ Top("claim")
  /\ IF Frame.p \in mem.owned
       THEN Done /\ UNCHANGED <<store, effects, run, people, outside, fetched>>
       ELSE Commit([mem EXCEPT !.owned = @ \cup {Frame.p}], Tail(stack))

\* A hello goes on only while its claim left the store loaded (911).
Alive ==
  /\ Top("alive")
  /\ stack' = IF status = "live" THEN Tail(stack) ELSE Unwound(Tail(stack))
  /\ UNCHANGED <<store, effects, run, people, outside, fetched>>

\* What the op observers hear follows what a change tells the clients (559).
Observers == IF "observe" \in Uses THEN <<[k |-> "observe"]>> ELSE <<>>

\* mutant: the patch follows what the call itself goes on to tell.
LandedLate(m, calls) ==
  Commit(m, Observers \o calls \o <<[k |-> "broadcast", log |-> m.log]>>)

\* landed() (530-560) with a version made.
Landed(m, calls) ==
  Commit(m, <<[k |-> "broadcast", log |-> m.log]>> \o Observers \o calls)

\* What follows an op: its ack when it came live (842-844), else the rest of the hello.
Applied(f) ==
  (IF f.ackTo = 0 THEN <<>> ELSE <<[k |-> "ack", n |-> f.ackTo, p |-> f.p, seq |-> f.seq]>>)
    \o Tail(stack)

\* mutant: off by one, the last op decided is decided again.
DecidedBefore(f) == f.seq < mem.seq[f.p]

Decided(f) == f.seq <= mem.seq[f.p]

\* apply() (588-645): an op already decided is left alone; any other takes the
\* replica's place in line, and lands as a new version or loses whole (`lands'),
\* which is for the merge to say.
Apply ==
  /\ Top("apply")
  /\ LET f == Frame
         decided == [mem EXCEPT !.seq[f.p] = f.seq, !.owned = @ \cup {f.p}]
     IN  IF Decided(f)
           THEN stack' = Applied(f) /\ UNCHANGED <<store, effects, run, people, outside, fetched>>
           ELSE IF f.lands
             THEN Landed([decided EXCEPT !.log = Append(@, <<f.p, f.seq>>)], Applied(f))
             ELSE Commit(decided, Observers \o Applied(f))

\* broadcast() (302-321): for the sessions there are now, when there are any.
Broadcast ==
  /\ Top("broadcast")
  /\ IF open = {} THEN UNCHANGED <<effects, outside>>
                  ELSE Send([t |-> "patch", log |-> Frame.log, upTo |-> Len(conn)])
  /\ Done /\ UNCHANGED <<store, run, people, fetched>>

\* The op observers are called once the op is stored (559).
Observe ==
  /\ Top("observe")
  /\ IF pending
       THEN effects' = Append(effects, [t |-> "op"]) /\ Done
       ELSE stack' = <<[k |-> "hook"]>> \o Tail(stack) /\ UNCHANGED effects
  /\ UNCHANGED <<store, run, people, outside, fetched>>

HookReturns ==
  /\ Top("hook")
  /\ Done /\ UNCHANGED <<store, effects, run, people, outside, fetched>>

\* liveOp (842-844): the ack carries the store's version.
Ack ==
  /\ Top("ack")
  /\ Send([t |-> "ack", n |-> Frame.n, p |-> Frame.p, seq |-> Frame.seq, log |-> mem.log])
  /\ Done /\ UNCHANGED <<store, run, people, fetched>>

\* mutant: the answer is not held back.
AnswerAhead ==
  /\ Top("answer")
  /\ Deliver([t |-> "answer", n |-> Frame.n, p |-> Frame.p,
              seq |-> mem.seq[Frame.p], log |-> mem.log])
  /\ Done /\ UNCHANGED <<store, effects, run, people, fetched>>

\* catchUp (767-773): a snapshot, or the log after the copy's version.
Answer ==
  /\ Top("answer")
  /\ Send([t |-> "answer", n |-> Frame.n, p |-> Frame.p,
           seq |-> mem.seq[Frame.p], log |-> mem.log])
  /\ Done /\ UNCHANGED <<store, run, people, fetched>>

\* session() once it committed (1037-1039): it does not look whether that failed.
Open ==
  /\ Top("open")
  /\ conn' = Append(conn, Frame.p)
  /\ open' = open \cup {Len(conn) + 1}
  /\ Done /\ UNCHANGED <<store, effects, run, outside, fetched>>

\* A session ends by the store's doing, with a goodbye: sent now, or held back,
\* to be sent in spite of the close (`sure') or not.
End(n, sure) ==
  LET bye == [t |-> "closed", n |-> n, sure |-> sure]
  IN  /\ open' = open \ {n}
      /\ effects' = IF pending THEN Append(effects, bye) ELSE effects
      /\ untold' = IF pending THEN untold \cup {n} ELSE untold
      /\ UNCHANGED <<copy, heard, acked>>

\* closeSessions (1049-1070) for one session: told, then closed.
Evict ==
  /\ Top("evict")
  /\ IF Frame.n \in open THEN End(Frame.n, FALSE) ELSE UNCHANGED <<open, effects, outside>>
  /\ Done /\ UNCHANGED <<store, run, conn, fetched>>

\* closeWith (845-850), for a hello turned away: closed, then told; nothing of it
\* when its commit failed.
Reject ==
  /\ Top("reject")
  /\ IF status = "live" THEN End(Frame.n, TRUE) ELSE UNCHANGED <<open, effects, outside>>
  /\ Done /\ UNCHANGED <<store, run, conn, fetched>>

\* dispose() once it committed (1181-1203): every session told, then closed.
Dispose ==
  /\ Top("dispose")
  /\ IF status = "live"
       THEN /\ status' = "disposed"
            /\ untold' = IF pending THEN untold \cup open ELSE untold
            /\ open' = {}
       ELSE UNCHANGED <<status, untold, open>>
  /\ Done /\ UNCHANGED <<disk, mem, changes, armed, effects, run, conn, copy, heard, acked, fetched>>

\* snapshotJSON (1126-1129): committed, then the state as it is in memory.
Fetch ==
  /\ Top("fetch")
  /\ fetched' = mem.log
  /\ Done /\ UNCHANGED <<store, effects, run, people, outside>>

-----------------------------------------------------------------------------
(* Tasks: what the event loop, or an observer, calls.                      *)

\* A task of the event loop finds the thread free; an observer calls as it runs.
Task == stack = <<>> /\ Len(effects) < MaxHeld
Call == (stack = <<>> \/ Top("hook")) /\ Len(effects) + Len(run) < MaxHeld

Begin(calls) ==
  /\ stack' = calls
  /\ UNCHANGED <<store, effects, run, people, outside, fetched>>

\* A connection says its first message, and gets its session (hub.js:83-106).
Connect(p) ==
  /\ Task /\ status = "live" /\ Len(conn) < MaxSessions
  /\ CommitNow(<<[k |-> "open", p |-> p]>>)

\* Its socket closes, or it leaves the store.
Leave(n) ==
  /\ "leave" \in Uses /\ Task /\ n \in open
  /\ open' = open \ {n}
  /\ UNCHANGED <<store, effects, run, stack, conn, outside, fetched>>

\* Whether an op lands as a new version or loses whole.
Fates == (IF version < MaxVersion THEN {TRUE} ELSE {}) \cup (IF "lose" \in Uses THEN {FALSE} ELSE {})

\* The ops peer p may bring: one already decided, or one that is new.  One sent live
\* is acked to its session; sessions count from 1.
ApplyCalls(p, ackTo) ==
  {[k |-> "apply", p |-> p, seq |-> s, ackTo |-> ackTo, lands |-> b] :
     s \in 1 .. MaxSeq, b \in Fates}

\* A hello (894-957), with at most one op resent in it.  A session left open on a
\* store that unloaded is answered nothing (911).
Hello(n) ==
  /\ Task /\ n \in open /\ status = "live"
  /\ \E ops \in {<<>>} \cup {<<f>> : f \in ApplyCalls(conn[n], 0)} :
       Begin(<<[k |-> "claim", p |-> conn[n]], [k |-> "alive"]>> \o ops
             \o <<[k |-> "answer", n |-> n, p |-> conn[n]]>>)

\* A hello turned away: another protocol, or another user's replica.
HelloRejected(n) ==
  /\ "reject" \in Uses /\ Task /\ n \in open /\ status = "live"
  /\ CommitNow(<<[k |-> "reject", n |-> n]>>)

\* An op sent live, which a client does only once it was answered (client/index.js:306).
LiveOp(n) ==
  /\ Task /\ n \in open /\ status = "live" /\ copy[n].synced
  /\ \E f \in ApplyCalls(conn[n], n) : Begin(<<f>>)

\* The server's own write (run, 660-672).
ServerWrite ==
  /\ Call /\ status = "live" /\ version < MaxVersion
  /\ Landed([mem EXCEPT !.log = Append(@, <<Server, version + 1>>)], stack)

CallFlush == Call /\ status = "live" /\ CommitNow(stack)

\* mutant: sessions are ended with the turn's changes still to store.
CallEvictAtOnce(n) ==
  /\ "evict" \in Uses /\ Call /\ n \in open
  /\ Begin(<<[k |-> "evict", n |-> n]>> \o stack)

CallEvict(n) ==
  /\ "evict" \in Uses /\ Call /\ n \in open
  /\ CommitNow(<<[k |-> "evict", n |-> n]>> \o stack)

CallDispose ==
  /\ "dispose" \in Uses /\ Call /\ status = "live"
  /\ CommitNow(<<[k |-> "dispose"]>> \o stack)

CallFetch ==
  /\ "fetch" \in Uses /\ Task /\ status = "live"
  /\ CommitNow(<<[k |-> "fetch"]>>)

\* The process dies with what it did not store; its sockets close with it.
Crash ==
  /\ "crash" \in Faults /\ status # "down"
  /\ status' = "down"
  /\ mem' = disk
  /\ changes' = <<>> /\ effects' = <<>> /\ run' = <<>> /\ stack' = <<>>
  /\ armed' = FALSE
  /\ open' = {} /\ untold' = {}
  /\ UNCHANGED <<disk, conn, copy, heard, acked, fetched>>

\* The registry loads the store afresh from what is stored (registry.js:60-65).
Load ==
  /\ stack = <<>> /\ status # "live"
  /\ status' = "live"
  /\ mem' = disk
  /\ changes' = <<>> /\ effects' = <<>>
  /\ armed' = FALSE
  /\ open' = {}
  /\ UNCHANGED <<disk, run, stack, conn, outside, fetched>>

-----------------------------------------------------------------------------
Init ==
  /\ disk = Blank
  /\ mem = disk
  /\ changes = <<>> /\ effects = <<>> /\ run = <<>> /\ stack = <<>>
  /\ armed = FALSE
  /\ status = "live"
  /\ conn = <<>> /\ open = {} /\ untold = {}
  /\ copy = [n \in Sessions |-> [synced |-> FALSE, v |-> 0, whole |-> TRUE]]
  /\ heard = <<>> /\ fetched = <<>>
  /\ acked = [p \in Peers |-> 0]

\* What the thread does by itself once it is called.
Running ==
  \/ DrainTake \/ RunEffect \/ DrainEnd
  \/ Claim \/ Alive \/ Apply \/ Broadcast \/ Observe \/ HookReturns \/ Ack \/ Answer
  \/ Open \/ Evict \/ Reject \/ Dispose \/ Fetch

Calling ==
  \/ \E p \in Peers : Connect(p)
  \/ \E n \in open : Leave(n) \/ Hello(n) \/ HelloRejected(n) \/ LiveOp(n) \/ CallEvict(n)
  \/ ServerWrite \/ CallFlush \/ CallDispose \/ CallFetch

Next == Running \/ Turn \/ Calling \/ Crash \/ Load

\* A call under way goes on.  The event loop comes to a scheduled commit after the
\* I/O of one turn, however much more there is to come: strong fairness, since a
\* task of this module may begin just when the commit could.
Fairness == WF_vars(Running) /\ SF_vars(Turn)

Spec == Init /\ [][Next]_vars
FairSpec == Spec /\ Fairness

-----------------------------------------------------------------------------
(* Properties.                                                             *)

\* What a message says, and what is left of a call.
Message ==
  [t : {"patch"}, log : Seq(Ops), upTo : Nat]
    \cup [t : {"ack", "answer"}, n : Nat, p : Peers, seq : Nat, log : Seq(Ops)]
    \cup [t : {"closed"}, n : Nat, sure : BOOLEAN]
    \cup [t : {"op"}]

Calls ==
  [k : {"drain", "hook", "observe", "alive", "dispose", "fetch"}]
    \cup [k : {"claim", "open"}, p : Peers]
    \cup [k : {"apply"}, p : Peers, seq : Nat, ackTo : Nat, lands : BOOLEAN]
    \cup [k : {"broadcast"}, log : Seq(Ops)]
    \cup [k : {"ack"}, n : Nat, p : Peers, seq : Nat]
    \cup [k : {"answer"}, n : Nat, p : Peers]
    \cup [k : {"evict", "reject"}, n : Nat]

\* The state stays within its types.
TypeOK ==
  /\ disk \in Image /\ mem \in Image
  /\ changes \in Seq(Image)
  /\ effects \in Seq(Message) /\ run \in Seq(Message)
  /\ stack \in Seq(Calls)
  /\ armed \in BOOLEAN
  /\ status \in {"live", "disposed", "down"}
  /\ conn \in Seq(Peers)
  /\ open \subseteq 1 .. Len(conn) /\ untold \subseteq Nat
  /\ copy \in [Sessions -> [synced : BOOLEAN, v : Nat, whole : BOOLEAN]]
  /\ heard \in Seq(Ops) /\ fetched \in Seq(Ops)
  /\ acked \in [Peers -> Nat]

\* What a message that names a history claims of an image.
Tells(e) == e.t \in {"patch", "ack", "answer"}
Holds(e, im) ==
  Tells(e) => /\ Before(e.log, im.log)
              /\ e.t # "patch" => e.seq <= im.seq[e.p]

\* A call with something left to write or to tell.
Active(f) == f.k \in {"claim", "alive", "apply", "broadcast", "ack", "answer"}

\* The frames' own claims: what they will tell is in memory.
FrameHolds(f) ==
  /\ f.k = "broadcast" => Before(f.log, mem.log)
  /\ f.k = "ack" => f.seq <= mem.seq[f.p]

\* Why what is heard is stored, with no observer to call back: the pending changes
\* lead from the storage to the memory, what is held back waits for nothing beyond
\* the memory, and with nothing pending there is nothing left to tell, or the
\* memory is stored (store.js:229-300).
Pipeline ==
  /\ Precedes(disk, mem)
  /\ \A i \in 1 .. Len(changes) : Precedes(disk, changes[i]) /\ Precedes(changes[i], mem)
  /\ changes # <<>> => changes[Len(changes)] = mem
  /\ (changes = <<>> /\ status = "live") => mem = disk
  /\ changes = <<>> =>
       \/ mem = disk
       \/ /\ \A i \in 1 .. Len(effects) : ~Tells(effects[i])
          /\ \A i \in 1 .. Len(stack) : ~Active(stack[i])
  /\ \A i \in 1 .. Len(effects) : Holds(effects[i], mem)
  /\ \A i \in 1 .. Len(run) : Holds(run[i], disk)
  /\ \A i \in 1 .. Len(stack) : FrameHolds(stack[i])

\* store.js:29-34: no client hears of a change, or of an op decided, that the
\* storage does not have, whatever fails or crashes afterwards.
HeardIsStored ==
  /\ Before(heard, disk.log)
  /\ \A p \in Peers : acked[p] <= disk.seq[p]

\* The store keeps its promise (DurableStore): what is stored only grows, and only
\* what is stored is told.
Promise == INSTANCE DurableStore WITH stored <- disk
Durable == Promise!Spec

\* No session is told of a version before the patch that makes it: the copy at the
\* other end never finds a version missing, nor one it was told of not come
\* (client/index.js:551-556, 562).
CopiesAreWhole == \A n \in Sessions : copy[n].whole

\* No op of a replica lands twice, however often it is resent.
DecidedOnce == Once(disk.log)

\* A session the store ends is told, now or once what is pending is stored.
EndedAreTold ==
  \A n \in untold :
    \E q \in {effects, run} : \E i \in DOMAIN q :
      q[i].t = "closed" /\ q[i].n = n /\ q[i].sure

\* Nothing is held back, or left unstored, with no commit to come.
HeldIsScheduled ==
  (status = "live" /\ stack = <<>> /\ (changes # <<>> \/ effects # <<>>)) => armed

\* docs/server.md:20-25, of the snapshot over HTTP: nothing unstored is served.
FetchedIsStored == Before(fetched, disk.log)

\* Every ack held back is sent, unless its session or the process is gone.
HeldAcksArrive ==
  \A n \in Sessions, s \in 1 .. MaxSeq :
    (\E i \in DOMAIN effects : effects[i].t = "ack" /\ effects[i].n = n /\ effects[i].seq = s)
      ~> (n \notin open \/ acked[conn[n]] >= s)
=============================================================================
