--------------------------------- MODULE Lease ---------------------------------
(***************************************************************************)
(* Which process serves a store: the lease in the file that processes      *)
(* share, and what each writes under it (src/server/sqlite-shared.js), for *)
(* the stores they load from it (src/server/store.js).                     *)
(*                                                                         *)
(* There is one store id and one record; the n-th op of a client puts the  *)
(* record when n is odd and deletes it when n is even.  A record's data is *)
(* the version that put it, 0 for none.  A lease has how long it lasts yet *)
(* rather than when it ends, by the clock of the file; a process may have  *)
(* a clock that is ahead of it.  A process is a sequence of      *)
(* calls, each of which is short; between two of them it may be stalled as *)
(* long as may be.                                                         *)
(***************************************************************************)
EXTENDS Integers, Sequences, FiniteSets

CONSTANTS
  Procs,       \* the processes that share the file
  Clients,     \* the replicas that write, each through any process
  Nobody,      \* the holder of no lease
  Dead,        \* the holder of one whose process died
  SameHost,    \* whether the processes are on one machine
  Early,       \* the processes whose clocks are ahead of the file's
  Skew,        \* how far those are
  Ttl,         \* how long a lease lasts
  DeltaLog,    \* the changes a store keeps for deltas
  PruneEvery,  \* PRUNE_EVERY
  Uses,        \* what may happen, of AllUses below
  MaxOps,      \* bound: ops of a client
  MaxEpochs,   \* bound: times the storage is put back
  MaxTurns     \* bound: processes that die, and commits the file refuses

\* "crash": a process dies, and is started again; "restore": the storage is put back from
\* a document; "remove": the store is deleted from the file; "fail": a commit fails for
\* another reason; "race": another process writes between a load's look at the lease and
\* its taking it; "stall": a process is stalled in the middle of a call.
AllUses == {"crash", "restore", "remove", "fail", "race", "stall"}

ASSUME LeaseAssumption ==
  /\ Nobody \notin Procs /\ Dead \notin Procs /\ Nobody # Dead /\ SameHost \in BOOLEAN /\ Early \subseteq Procs /\ Skew \in Nat
  /\ Ttl \in Nat \ {0} /\ DeltaLog \in Nat \ {0} /\ PruneEvery \in Nat \ {0}
  /\ Uses \subseteq AllUses /\ MaxOps \in Nat /\ MaxEpochs \in Nat /\ MaxTurns \in Nat

VARIABLES
  file,    \* the rows of the store: `ver', `ep', `row', `seqs', `log'
  lease,   \* its lease: `by', and `left', how long it lasts
  mem,     \* the store in each process: where it is (`at'), and its document
  held,    \* the processes that take the store for theirs
  pruned,  \* the floor each last pruned the log to, -1 for none
  made,    \* the ops each client made
  acked,   \* the last acknowledged, and under which epoch
  told,    \* the documents sessions were told
  hist,    \* the ops that landed in the file under its epoch, in order
  base,    \* the document that epoch began with
  lost,    \* the processes whose clients were told for good that there is no such store
  turns    \* how often what MaxTurns bounds came up

disk == <<file, hist, base>>
outer == <<made, acked, told, lost, turns>>
vars == <<disk, lease, mem, held, pruned, outer>>

Seqs == [Clients -> 0 .. MaxOps]
Blank == [ver |-> 0, row |-> 0, seqs |-> [c \in Clients |-> 0]]
NoStore == [at |-> "none", ver |-> 0, ep |-> 0, row |-> 0, seqs |-> Blank.seqs, log |-> {},
            todo |-> <<>>, owed |-> {}]
NoLease == [by |-> Nobody, left |-> 0]
Ahead(p) == IF p \in Early THEN Skew ELSE 0
Bounded == turns < MaxTurns /\ turns' = turns + 1

Live == {p \in Procs : mem[p].at = "live"}

\* The ops of history h that client c made.
Of(h, c) == {i \in 1 .. Len(h) : h[i][1] = c}

\* What an op leaves of the record, as version v.
Effect(n, v) == IF n % 2 = 1 THEN v ELSE 0

\* The record at a version of this epoch.
RowAt(v) == IF v <= base.ver THEN base.row ELSE Effect(hist[v - base.ver][2], v)

-----------------------------------------------------------------------------
(* The lease (232-278).                                                    *)

\* Whether the lease is another's, and holds by the clock of p (253-256).
Locked(p) ==
  /\ lease.by \notin {p, Nobody} /\ lease.left > Ahead(p)
  /\ ~(lease.by = Dead /\ SameHost)

\* A write to the file: a load that looked at the lease before it cannot take it now.
Written(p, m) ==
  [q \in Procs |-> IF q # p /\ m[q].at = "asked" THEN [m[q] EXCEPT !.at = "stale"] ELSE m[q]]

At(p, where) == [mem EXCEPT ![p].at = where]

\* mutant: a lease is given up whoever has it by now.
GivenAny(p) == NoLease

\* close (410-415).
Given(p) == IF p \in held /\ lease.by = p THEN NoLease ELSE lease

\* acquire, its look (251-266): a client asks for a store that is not loaded
\* (registry.js 52-62).
Asks(p) ==
  /\ p \notin lost /\ mem[p].at = "none" /\ ~Locked(p)
  /\ mem' = At(p, "asked")
  /\ UNCHANGED <<disk, lease, held, pruned, outer>>

Taken(p, where) ==
  /\ lease' = [by |-> p, left |-> Ttl + Ahead(p)]
  /\ held' = held \cup {p}
  /\ mem' = Written(p, At(p, where))
  /\ UNCHANGED <<disk, pruned, outer>>

\* acquire, its write (267-268).
Takes(p) == mem[p].at = "asked" /\ Taken(p, "took")

\* SQLite refuses a transaction that read before another connection wrote: load throws
\* what the hub has no name for (hub.js 190-196).
Busy(p) ==
  /\ mem[p].at = "stale"
  /\ mem' = At(p, "none")
  /\ lost' = (IF "race" \in Uses THEN lost \cup {p} ELSE lost)
  /\ UNCHANGED <<disk, lease, held, pruned, made, acked, told, turns>>

\* The timer (272-277).
Renew(p) ==
  /\ p \in held /\ lease.by = p
  /\ lease' = [by |-> p, left |-> Ttl + Ahead(p)]
  /\ lease' # lease
  /\ mem' = Written(p, mem)
  /\ UNCHANGED <<disk, held, pruned, outer>>

\* A process in the middle of a call.
InCall(p) == mem[p].at \in {"asked", "stale", "took", "meta", "restores", "replaces"}

\* A call takes no time to speak of, unless a process is stalled in the middle of it.
Between == "stall" \in Uses \/ \A p \in Procs : ~InCall(p)

\* Time passes, by the clock of the file.
Tick ==
  /\ lease.left > 0
  /\ Between
  /\ lease' = [lease EXCEPT !.left = @ - 1]
  /\ UNCHANGED <<disk, mem, held, pruned, outer>>

-----------------------------------------------------------------------------
(* The store: loaded, and its ops.                                         *)

\* load (367-382): the version and the epoch first, then the rows.
ReadsMeta(p) ==
  /\ mem[p].at = "took"
  /\ mem' = [mem EXCEPT ![p] = [NoStore EXCEPT !.at = "meta", !.ver = file.ver, !.ep = file.ep]]
  /\ pruned' = [pruned EXCEPT ![p] = -1]
  /\ UNCHANGED <<disk, lease, held, outer>>

\* The log as the store keeps it (store.js 168).
Recent(log, ver) == {v \in log : v <= ver /\ v > ver - DeltaLog}

ReadsRows(p) ==
  /\ mem[p].at = "meta"
  /\ mem' = [mem EXCEPT ![p] = [@ EXCEPT !.at = "live", !.row = file.row, !.seqs = file.seqs,
                                         !.log = Recent(file.log, mem[p].ver)]]
  /\ UNCHANGED <<disk, lease, held, pruned, outer>>

\* What a document tells whoever reads it.
Shown(m) == [ep |-> m.ep, ver |-> m.ver, row |-> m.row]

\* mutant: told before it is stored.
TellAtOnce(p, m, c, n) ==
  /\ acked' = (IF n > 0 THEN [acked EXCEPT ![c] = [ep |-> m.ep, n |-> n]] ELSE acked)
  /\ told' = told \cup {Shown(m)}
  /\ mem' = [mem EXCEPT ![p] = m]

\* later (store.js 237-240): told at once, or with what is to be stored first.
Tell(p, m, c, n) ==
  IF m.todo = <<>>
    THEN /\ acked' = (IF n > 0 THEN [acked EXCEPT ![c] = [ep |-> m.ep, n |-> n]] ELSE acked)
         /\ told' = told \cup {Shown(m)}
         /\ mem' = [mem EXCEPT ![p] = m]
    ELSE /\ mem' = [mem EXCEPT ![p] = [m EXCEPT !.owed = @ \cup {[c |-> c, n |-> n, doc |-> Shown(m)]}]]
         /\ UNCHANGED <<acked, told>>

\* Where a log begins.
Floor(log) == CHOOSE w \in log : \A x \in log : w <= x

\* An op decided (store.js apply 588-645, landed 530-560): a duplicate, or the next version.
Decided(m, c, n) ==
  LET v == m.ver + 1
      log == Recent(m.log \cup {v}, v)
  IN  IF n <= m.seqs[c] THEN m
      ELSE [m EXCEPT !.ver = v, !.row = Effect(n, v), !.seqs[c] = n, !.log = log,
                     !.todo = Append(@, [ver |-> v, row |-> Effect(n, v), c |-> c, n |-> n, floor |-> Floor(log)])]

\* A client's op comes to a process, for the first time or again.
Writes(p, c) ==
  /\ mem[p].at = "live" /\ made[c] > 0
  /\ Tell(p, Decided(mem[p], c, made[c]), c, made[c])
  /\ UNCHANGED <<disk, lease, held, pruned, made, lost, turns>>

\* A client makes an op, the one before it acknowledged.
Makes(c) ==
  /\ made[c] < MaxOps /\ (made[c] = 0 \/ acked[c].n = made[c])
  /\ made' = [made EXCEPT ![c] = @ + 1]
  /\ UNCHANGED <<disk, lease, mem, held, pruned, acked, told, lost, turns>>

\* A hello is answered.
Answers(p) ==
  /\ mem[p].at = "live"
  /\ \E c \in Clients : Tell(p, mem[p], c, 0)
  /\ UNCHANGED <<disk, lease, held, pruned, made, lost, turns>>

-----------------------------------------------------------------------------
(* Commits (290-326, 357-365).                                             *)

\* The last of a set of numbers.
Latest(S) == CHOOSE i \in S : \A j \in S : j <= i

\* The changes of a batch that client c made.
Mine(batch, c) == {i \in 1 .. Len(batch) : batch[i].c = c}

\* The changes of a batch in one transaction: each row as the last of them leaves it, the
\* log entries all, and the log pruned to a floor.
Merged(f, batch, ep, floor) ==
  LET n == Len(batch)
  IN  [ver |-> batch[n].ver, ep |-> ep, row |-> batch[n].row,
       seqs |-> [c \in Clients |-> IF Mine(batch, c) = {} THEN f.seqs[c]
                                    ELSE batch[Latest(Mine(batch, c))].n],
       log |-> {v \in f.log \cup {batch[i].ver : i \in 1 .. n} : v >= floor}]

\* mutant: the lease is not looked at.
OursUnread(p) == TRUE

\* The lease, read after the commit's first write (295-303).
Ours(p) == lease.by = p

\* Whether this commit prunes (360-362).
Prunes(p, floor) == pruned[p] = -1 \/ floor - pruned[p] >= PruneEvery

\* mutant: a store whose commit failed is served on.
UnloadedNot(p) ==
  /\ mem' = [mem EXCEPT ![p].todo = <<>>, ![p].owed = {}]
  /\ UNCHANGED <<lease, held>>

\* A store whose commit fails, or that ends (store.js 274-279, 1179-1204): what waited is
\* told nobody, and the lease given up.
Unloaded(p) ==
  /\ mem' = Written(p, [mem EXCEPT ![p] = NoStore])
  /\ lease' = Given(p) /\ held' = held \ {p}

\* The lease was lost: the process lets go of the store (296-303).
Refused(p) ==
  /\ mem[p].at = "live" /\ mem[p].todo # <<>> /\ ~Ours(p)
  /\ mem' = [mem EXCEPT ![p] = NoStore]
  /\ held' = held \ {p}
  /\ UNCHANGED <<disk, lease, pruned, outer>>

\* The file cannot be written.
CommitFails(p) ==
  /\ "fail" \in Uses /\ mem[p].at = "live" /\ mem[p].todo # <<>> /\ Bounded
  /\ Unloaded(p)
  /\ UNCHANGED <<disk, pruned, made, acked, told, lost>>

\* The acks that wait for client c.
Acks(owed, c) == {o.n : o \in {w \in owed : w.c = c}} \ {0}

\* commitNow (store.js 265-300): the changes of a turn are stored, and what waited is told.
Commit(p) ==
  LET m == mem[p]
      floor == m.todo[Len(m.todo)].floor
  IN  /\ m.at = "live" /\ m.todo # <<>> /\ Ours(p)
      /\ file' = Merged(file, m.todo, m.ep, IF Prunes(p, floor) THEN floor ELSE 0)
      /\ pruned' = (IF Prunes(p, floor) THEN [pruned EXCEPT ![p] = floor] ELSE pruned)
      /\ lease' = (IF 2 * (lease.left - Ahead(p)) < Ttl THEN [by |-> p, left |-> Ttl + Ahead(p)] ELSE lease)
      /\ hist' = hist \o [i \in 1 .. Len(m.todo) |-> <<m.todo[i].c, m.todo[i].n>>]
      /\ told' = told \cup {o.doc : o \in m.owed}
      /\ acked' = [c \in Clients |-> IF Acks(m.owed, c) = {} THEN acked[c]
                                      ELSE [ep |-> m.ep, n |-> Latest(Acks(m.owed, c))]]
      /\ mem' = Written(p, [mem EXCEPT ![p].todo = <<>>, ![p].owed = {}])
      /\ UNCHANGED <<base, held, made, lost, turns>>

-----------------------------------------------------------------------------
(* How a store comes to an end.                                            *)

\* dispose, with nothing left to store: a registry releases it (registry.js 113-121), or
\* the storage is closed (534-545).
Releases(p) ==
  /\ mem[p].at = "live" /\ mem[p].todo = <<>>
  /\ Unloaded(p)
  /\ UNCHANGED <<disk, pruned, outer>>

\* The process dies, and another is started in its place.
Crashes(p) ==
  /\ "crash" \in Uses /\ Bounded
  /\ mem' = [mem EXCEPT ![p] = NoStore] /\ held' = held \ {p}
  /\ lease' = (IF lease.by = p THEN [lease EXCEPT !.by = Dead] ELSE lease)
  /\ UNCHANGED <<disk, pruned, made, acked, told, lost>>

\* The rows of another document, under a new epoch (328-335).
PutBack(doc) ==
  /\ file' = [ver |-> doc.ver, ep |-> file.ep + 1, row |-> doc.row, seqs |-> doc.seqs, log |-> {}]
  /\ hist' = <<>> /\ base' = doc

\* restore (registry.js 101-112, store.js 168-174 of the store): the store ends.
Restores(p) ==
  /\ "restore" \in Uses /\ file.ep < MaxEpochs
  /\ mem[p].at = "live" /\ mem[p].todo = <<>>
  /\ mem' = Written(p, [mem EXCEPT ![p] = [NoStore EXCEPT !.at = "restores"]])
  /\ lease' = Given(p) /\ held' = held \ {p}
  /\ UNCHANGED <<disk, pruned, outer>>

\* replace (394-408): it takes the lease, or throws.
RestoreTakes(p) ==
  /\ mem[p].at = "restores"
  /\ IF Locked(p)
       THEN mem' = At(p, "none") /\ UNCHANGED <<disk, lease, held, pruned, outer>>
       ELSE Taken(p, "replaces")

\* And writes the document, the one the store began with, and lets go.
RestoreWrites(p) ==
  /\ mem[p].at = "replaces"
  /\ PutBack(Blank)
  /\ pruned' = [pruned EXCEPT ![p] = -1]
  /\ Unloaded(p)
  /\ UNCHANGED outer

\* remove (337-343), whoever serves the store: the next load makes a new one of it.
Removes ==
  /\ "remove" \in Uses /\ file.ep < MaxEpochs /\ Between
  /\ PutBack(Blank)
  /\ lease' = NoLease
  /\ mem' = Written(Nobody, mem)
  /\ UNCHANGED <<held, pruned, outer>>

-----------------------------------------------------------------------------
Init ==
  /\ file = [ver |-> 0, ep |-> 0, row |-> 0, seqs |-> Blank.seqs, log |-> {}]
  /\ hist = <<>> /\ base = Blank
  /\ lease = NoLease
  /\ mem = [p \in Procs |-> NoStore] /\ held = {} /\ pruned = [p \in Procs |-> -1]
  /\ made = [c \in Clients |-> 0] /\ acked = [c \in Clients |-> [ep |-> 0, n |-> 0]]
  /\ told = {} /\ lost = {} /\ turns = 0

\* What a process does of its own once a client asked.
Serves(p) == Takes(p) \/ Busy(p) \/ ReadsMeta(p) \/ ReadsRows(p) \/ RestoreTakes(p) \/ RestoreWrites(p)

Next ==
  \/ \E p \in Procs :
       \/ Asks(p) \/ Serves(p) \/ Renew(p) \/ Answers(p)
       \/ Commit(p) \/ Refused(p) \/ CommitFails(p) \/ Releases(p) \/ Crashes(p) \/ Restores(p)
       \/ \E c \in Clients : Writes(p, c)
  \/ \E c \in Clients : Makes(c)
  \/ Tick \/ Removes

Spec == Init /\ [][Next]_vars

\* A process that runs goes on with what it began, a client that was told `unavailable'
\* asks again (client/index.js 588), and time passes.
FairSpec ==
  /\ Spec
  /\ WF_vars(Tick)
  /\ \A p \in Procs : WF_vars(Asks(p)) /\ WF_vars(Serves(p))

-----------------------------------------------------------------------------
(* Properties.                                                             *)

\* The file, its lease and the stores in memory stay within their types.
TypeOK ==
  /\ file.ver \in Nat /\ file.ep \in Nat /\ file.seqs \in Seqs /\ file.row \in 0 .. file.ver
  /\ lease.by \in Procs \cup {Nobody, Dead} /\ lease.left \in Nat
  /\ \A p \in Procs :
       /\ mem[p].at \in {"none", "asked", "stale", "took", "meta", "live", "restores", "replaces"}
       /\ mem[p].ep \in 0 .. file.ep /\ mem[p].seqs \in Seqs
       /\ mem[p].at # "live" => mem[p].todo = <<>> /\ mem[p].owed = {}
       /\ mem[p].todo = <<>> => mem[p].owed = {}
       /\ mem[p].at \in {"meta", "live", "took", "replaces"} <=> p \in held
  /\ made \in Seqs /\ \A c \in Clients : acked[c].n <= made[c]

\* 26-44: what the processes wrote, one after another or past their leases, is one
\* history: each version in turn, each op once and in its order, the record and the
\* progress of each replica as the history leaves them, the log reaching back as far as
\* a store keeps it.
FileIsOne ==
  /\ file.ver = base.ver + Len(hist)
  /\ file.row = RowAt(file.ver)
  /\ \A i, j \in 1 .. Len(hist) : i < j /\ hist[i][1] = hist[j][1] => hist[i][2] < hist[j][2]
  /\ \A c \in Clients :
       IF Of(hist, c) = {} THEN file.seqs[c] = base.seqs[c]
       ELSE \E i \in Of(hist, c) : file.seqs[c] = hist[i][2] /\ \A j \in Of(hist, c) : j <= i
  /\ file.log \subseteq (base.ver + 1) .. file.ver
  /\ \A v \in (base.ver + 1) .. file.ver : v > file.ver - DeltaLog => v \in file.log

\* 33-36: whoever has the lease has the store as the file has it, but for what it is
\* about to store.
HolderIsCurrent ==
  \A p \in Live : lease.by = p =>
    LET m == mem[p]
        f == IF m.todo = <<>> THEN file ELSE Merged(file, m.todo, file.ep, 0)
    IN  /\ m.ep = file.ep /\ m.ver = f.ver /\ m.row = f.row /\ m.seqs = f.seqs
        /\ m.log = Recent(f.log, f.ver)

\* store.js 29-34: an op that was acknowledged is in the file, whichever process serves
\* the store by now.
AckedIsStored == \A c \in Clients : acked[c].ep = file.ep => acked[c].n <= file.seqs[c]

\* store.js 29-34: whatever a session was told, by a process past its lease too, the file
\* has held.
ToldIsHistory == \A t \in told : t.ep = file.ep => t.ver <= file.ver /\ t.row = RowAt(t.ver)

\* 33-36: as long as a lease lasts by every clock, nobody takes it from its process.
NoneIsRobbed ==
  [][\A p \in Procs :
       lease.by = p /\ p \in held /\ (\A q \in Procs : lease.left > Ahead(q)) /\ lease'.by # p
         => p \notin held' \/ file'.ep # file.ep]_vars

\* 37-38: the store is served again after whatever comes, but by processes whose clients
\* were told for good that there is none.
ServedAgain == []<>(Live # {} \/ lost = Procs)

\* docs/server.md:114-117: a client that cannot be let in yet is told to ask again.
NoneIsLost == lost = {}
================================================================================
