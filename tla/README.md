# lazy-storage: a TLA+ development

lazy-storage keeps a tree of records in step between a server and its clients,
which edit offline and merge. This directory holds a formal model of it: modules
translated from `src/src/`, the TLC runs that check them on small instances, and
theorems about them that TLAPS proves for every value of the constants. Line
numbers below are those of the files under `src/src/`, with the directory named
once: `store.js`, `hub.js`, `registry.js`, `sqlite-shared.js` are in `server/`,
`index.js`, `persistence.js`, `shared.js` in `client/`, `doc.js`, `positions.js`
in `core/`, `follower.js` in `relay/`.

`PROJECT.json` holds the same as data: the components, the runs, the lines that
each definition models, the hazards and the properties aimed at each of them.

- [The system](#the-system) - its parts, their state, what is hard in them
- [Modules](#modules) - which module models which part, and how
- [Runs](#runs) - what is checked, with which bounds, and what it shows
- [Fairness](#fairness)
- [Proofs](#proofs) - what is proved, from what, along which argument
- [Where the code and its docs part](#where-the-code-and-its-docs-part)
- [What is not modelled](#what-is-not-modelled)
- [Plan](#plan)

## The system

A *store* is a tree of records, by collection and id, with a *clock* per record
(times by path) that decides which of two edits of a path wins. The server has
each store in memory (`store.js`), over a storage adapter. A client
(`index.js`) has the *base* (what the server decided, as far as it heard), the
*outbox* (its own ops the server has not decided) and the *state*, which is the
base with the outbox over it. A *replica* is a client's identity: its ops are
numbered by `seq`, and the server keeps the last `seq` it decided for each.

How the parts interact: an edit becomes an op in the outbox and, when the client
is synced, a message on its socket. The hub hands the messages of a socket to
the session of the store they name, once the app's hooks let it in. The store
merges the op (`doc.js`), appends the change to its log, plans a commit for the
end of the turn, and holds back what it would say until that commit is done: a
patch to every session, an ack to the op's own. On a new socket the client says
*hello*, with its outbox and the version it is at; the answer is a delta (the log
from there) or a snapshot, with the last op decided. A *relay* does both halves:
it is a client of the server for many clients, to whom it is the server. The tabs
of a browser are the clients of a relay that one of them runs. Processes that
share a SQLite file take turns at a store, by a *lease*.

| Part | State | Operations | What is hard | What makes it correct | Module |
|---|---|---|---|---|---|
| Commit pipeline, `store.js` 185-321, 530-672, 894-1204 | records and version in memory, pending changes, effects held back, the scheduled commit, sessions | commit, commitNow, later, broadcast, landed, apply, session, hello, op, flush, evict, dispose, snapshotJSON | commits that fail or are stored in part, crashes, op observers called in the loop that sends, groups that fill up in mid-call | nothing told that is not stored; versions told in order; each session ended is told; nothing held back for ever | StoreCommit |
| Sync protocol, `index.js` 280-630, `store.js` 588-645, 752-957, `hub.js` 247-266 | outbox, base, `known`, `answered`, `synced`, `throttled`, the retry timer; log and last op decided; `heldUntil` of a session | an edit, hello, an op, patch, ack, answer, refusal, `unavailable`, retry | pipelined ops with some refused, overlapping hellos, hellos too short for the outbox, dropped sockets, reloads with an older base, stores that unload | each op decided once and in order; no op dropped undecided; the base misses no version; the outbox drains | Sync |
| Merge rule and rules, `doc.js`, `clock.js`, `rules.js` | a tree and a clock (`at`, `live`, `gone`) per record; children by parent | apply in the modes judge, authority and trust; prune; trial, undo | edits under containers made anew, deletions that cascade, pieces of a change that lose, clocks that forget, a trial put back | an op decided as a full history would; clients and storage follow exactly; no child left behind; nothing of a refused op stays | MergeDoc |
| Retention, `store.js` 472-503, 602-607, 681-704 | when each replica was seen, the cutoff, the log kept | compact, rememberReplica, refusal of expired ops | ops at the window's edge, a clock that starts again | a forgotten time decides nothing still allowed | MergeDoc, in part |
| Hub and presence, `hub.js`, `bun.js`, `store.js` 323-433 | sessions, attempts and queues of a socket; who is here | receive, admit, revalidate, deliver, close; join, leave, share, flush | authorization through promises, with leaves, revalidations and unloads meanwhile; batches told late | no session for whom the last verdict refuses; every hello answered; the list a client keeps is the store's | Hub |
| Registry, `registry.js` | live stores | get, sweep, release, restore | a store released under those about to use it | one live store per id | Hub, Lease |
| SQLite storage, `sqlite-shared.js` | rows, leases | acquire, load, commit, replace, remove, renew, close | processes that die, stall, or whose clocks differ, on one file | one history; what was acknowledged is in it | Lease |
| Relay, `follower.js` | base, view, queue, versions of its own, grants | patches up and down, vouch, admitted, revoked, refused, ops of its own | a second protocol on top of the first; a relay started again from an older copy | its clients end with what the server has; nobody is let in whom the server refuses | Relay |
| Client persistence, `persistence.js`, `indexeddb.js`, `storage.js`, `sqlite-bun.js`, `snapshot-fetch.js` | outbox and base as stored, what waits to be; the fetch under way and what it holds | op, base, snapshot, load; fetch, hold, cancel | a base older than its outbox; writes not awaited; a page that dies; a store put back from a backup; messages from before and after what is fetched | a reload loses and repeats nothing that was decided; the disk is one that a page may begin with | Replica |
| Shared connection of tabs, `shared.js` | which tab leads, the sessions of the rest, the relay of the leader | lead, follow, take over, sweep, dispose | a leader that goes away without a word | what a tab was told is kept is kept; tabs show one thing | Tabs |
| Ordered lists, `positions.js`, `list.js` | position keys | keysBetween, add, move, remove, reconcile | keys at the edges of the integers, concurrent edits | a key strictly between; the order asked for | Lists |
| Client connection, `connection.js` | socket, backoff, keepalive | connect, attach, send, close | half-open sockets | a hello on every socket | Sync, in part |
| Pure translation: shapes, diffs, paths, ids, wire text, fingerprint, transports, bindings | | | | not protocol: see [below](#what-is-not-modelled) | |

## Modules

`Histories` has the words the others share: an *image* of a store is the history
of the changes that landed, the last op decided of each replica, and who owns
which; an order `Precedes` between images: the one was where the other is.

### StoreCommit - the commit pipeline

The store runs on one thread, so the module has its call stack as a variable: a
call of the source is a list of frames (`claim`, `alive`, `apply`, `answer`...),
and each step of `Running` takes the innermost one. Within a task of the event
loop nothing else runs; what interleaves is what the code lets interleave. An op
observer (`store.observe('op')`) is a frame `hook` on the stack, inside the
`drain` loop of `commitNow`, and the calls an application makes from it run on
top.

| Variable | In the code |
|---|---|
| `disk` | what the adapter holds |
| `mem`, `changes`, `effects`, `armed`, `status` | the records and replicas in memory, the pending group, the sends held back, `cancelCommit`, `disposed` |
| `run`, `stack` | the effects the loop took (`const run = effects`), the call stack |
| `conn`, `open` | sessions made, sessions open |
| `copy`, `heard`, `acked`, `fetched`, `untold` | what the other ends were told: not state of the store, but what the properties are about |

A pending change is the image of memory right after it, so storing a prefix of a
group (an adapter without `commitMany`) is the image of its last change. The
records themselves are left out: they are what the history makes of them, which
is `MergeDoc`'s subject. Whether an op lands or loses whole is the merge's to
say, so here it is a choice (`lands`).

`DurableStore` is the abstract specification: what is stored only grows, each op
lands once, and what is told is stored. `StoreCommit!Durable` is the refinement
(`stored <- disk`), checked by TLC and proved.

### Sync - a client and its store

One client with its outbox, the store it is on, and the sockets between. A
socket is two queues; the server may go on reading one that the client gave up,
and a client's socket that the server closed drops once keepalive notices. An op
is its number, a version its place in the log, and the base the set of versions
merged into it: so "misses a version" can be said. A hello is received, its ops
decided one by one, and answered (`Hello`, `HelloOp`, `HelloAnswered`): a commit
that fails between them leaves the rest undone. The store is here what
`StoreCommit` shows it to be: what it told is stored (theorem `Promised`), so a
crash or a failed commit undoes only what was told to nobody.

What may happen in a run is the constant `Uses`, here and in the modules below;
each says at its declaration what the words mean. `OpDelivery` is the abstract
specification: an op waits until it is decided or a newer one takes its place;
each is decided at most once, in the order made. `Sync!Delivers` is the
refinement.

### MergeDoc - the merge rule

Records are trees (functions from paths to leaves or containers) with clocks
(`at`, `live`, `gone`) exactly as `doc.js` keeps them, `setLive`'s omission of
entries that say no more than `at` included. `Run` is `run()`: a change that puts, sets
or deletes at a path is judged, comes apart into pieces where it meets a container,
and lands in part or not at all. Records nest through the field `Link`, and a
deletion takes the subtree of records with it. An op is a sequence of changes, and a
rule may refuse it after all of them were applied (`rules.js`): its trial is undone.

Around it stand the uses the system makes of it: the server judges a replica's
op, writes as the authority, prunes at a cutoff, and loads itself from its rows;
`copy` is a client that takes over what landed (mode `trust`), without clocks;
`log` is the last changes, for clients that hear some of them again. `wrote` is
not in the code: it records when each path was last written or deleted in truth,
and the clock is judged by it.

### Hub - who is let in, and who is told who is there

The sockets of a server with the hub of each (`sock`, `pend`, `tries`, `checks`,
`sess`), the registry's store (`live`, `loads`), the presence it tells (`noted`),
and the clients at the other end (`cl`, `data`, `peers`). A hook is a check in
flight, with the app's verdict of when it began or of when it settles; the
identity of the queue that a verdict is for is the attempt's number. `Settle`
stands for what follows an `await`: a check whose attempt is no more changes
nothing.

### Lease - which process serves a store

Processes on one file. A load is three steps (the look at the lease, the write
that takes it, the reads), a restore two, a commit one, as SQLite runs it: the
lease is read after the first write, so under the write lock. A lease is how long
it lasts yet by the file's clock, and a process may have a clock that is ahead
(`Early`, `Skew`). What a process has of the store (`mem`) is a document with what
is to be stored (`todo`) and told (`owed`). `hist` is not in the code: the ops that
landed in the file under its epoch, in order. `acked` and `told` are what clients
heard.

### Relay - one store behind a site's relay

The relay's copy (`edge`: base, view, queue, its own versions and log, grants),
its session at the server, the link as two queues, the clients behind it with
their sessions. The functions of `makeEdge` are functions from edge to edge; what
a handler sends gathers in `out`. The socket between a client and the relay is
`Sync`'s subject and arrives at once here.

### Replica - a replica over the life of its pages

The client with its adapter of one of three kinds: IndexedDB (transactions that
land later, in order), SQLite (done when made), and a document adapter (the base
written later). Pages die and come back, snapshots are fetched over HTTP with
what is held meanwhile, the store is put back from a backup (a new epoch), the
database is deleted by another tab. A handler is a function from client to
client; what it sends and stores gathers in `out` and `puts`, and `Does` gives it to
the link and the adapter. `lives` is the history of the store in each of its epochs,
`made`, `mine`, `moot` and `told` what the user did and was told: the code has
neither, the properties are about them.

### Tabs - the tabs of a browser on one connection

The lock of the leader, the channel of each tab, the relay that the leader runs
in `local` mode, its storage, and the server at the other end of its socket. What
comes to a tab by the channel comes in the order posted. `Take` acknowledges an op when
its write was begun, as the code does. With IndexedDB the writes of a leader are
transactions under way (`writes`: `PutOp`, `RemoveOp`, `Replace`, each with the meta of
its time) until it goes; then all of them have landed, or the first few (`Landing`). To
ask only then is enough, as nobody but a leader that loads reads what is stored, and
IndexedDB has it wait for the writes begun before. `kill` loses such writes as put no op,
and is in the run; `lose` those of ops too, and is not. The writes of `localStorage` are
done when made.

### Lists - ordered lists

Position keys as sequences of digits with a head, `keyBetween` and the integers
around it, and the operations of `list.js` by several users at a time, each on
the server's list as of some time with its own edits on top.

## Runs

All runs: `tlc -workers 2 -config X.cfg M`. Every constant that starts with
`Max` is a bound of the model and no limit of the code; they are named where
they are declared.

| Run | Module | Checks | Bounds | Shows |
|---|---|---|---|---|
| commit_faults | MCStoreCommit | HeardIsStored, CopiesAreWhole, EndedAreTold; Durable | groups of 3, 3 versions, 2 peers with one op each, 3 sessions, 2 sends held | a group fills within a call, with commits that fail or are stored in part, crashes, evictions, refused hellos and unloads in every order |
| commit_observed | MCStoreCommit | DecidedOnce, HeldIsScheduled | groups of 2, 2 versions, 2 sessions, 3 sends held | observers call back into the store, nested, from the loop that sends, with failures, crashes and fetched snapshots |
| sync_drops | Sync | BaseIsWhole; OwnEditsStay, Delivers | 2 ops, 1 version of others, 2 sockets, hellos of one op | sockets drop, hellos overlap and leave ops out, ops are replaced or lose, the page reloads with an older base |
| sync_fails | Sync | LandsOnce; Drains | 2 ops, 2 sockets, 2 turns of faults | commits fail and stores unload under pipelined ops; the outbox empties in the end |
| merge | MCMergeDoc | CopyAgrees, DiskAgrees, DecidesByTime, ReplayIsHarmless; NoOrphansMade, RefusedLeavesNothing | 2 records, 4 paths, 4 changes decided, 3 instants | every order of four changes, of ops of one and of two, at any time that retention allows, with refusals, prunings and loads between |
| hub_access | Hub | TakenBackIsOut, PeersAgree; HellosAreAnswered | 2 clients, 2 sockets, 2 stores, 1 act of the app or fault | a client leaves, comes back, shares or is taken back while its hooks answer, and the store is swept, unloads or is another's |
| lease_faults | Lease | FileIsOne, HolderIsCurrent, AckedIsStored, ToldIsHistory; NoneIsRobbed | 2 processes, one with its clock ahead, a lease of 3, 2 ops, 1 fault, 1 epoch more | processes lose a lease unaware, die, fail to commit; the storage is put back or removed |
| relay_faults | Relay | ViewIsSettled, ClientsAreInStep | 2 clients, 1 op of one and of the relay, 2 sessions, 1 fault | one fault of eight, of the link, the rates, the rules or the grants, at any point |
| relay_live | Relay | BaseIsWhole; NothingLost, Drains | 1 client, 1 op, 1 version of others, 2 sessions, 1 fault | the client comes and goes, the link drops, the store unloads or the relay dies |
| replica_pages | Replica | BaseIsWhole, DiskIsWhole, EditsAreAccounted; Converges | 2 edits, 1 write of others, 2 turns, 3 in all, 2 records | each kind of adapter, with pages that die, snapshots fetched, a backup put back, a database deleted |
| tabs_leaders | Tabs | EditsAreKept, TabsAgree; EditsArrive | 2 tabs, 2 edits, 1 write of others, 2 turns, 3 in all | each tab leads in turn, and closes, dies, also with removals and records not landed, or loses its socket |
| lists_order | MCLists | RoomEverywhere; PlacedWhereAsked, ReconciledAgrees | digits 0..2, integers of 2 digits, 3 records, 2 users, 2 edits | lists with ties, records without keys and keys at the edges of the integers |

Why the bounds are enough. In `StoreCommit` every claim relates at most two
messages, two images and one session. A group of three fills up in the middle of
the longest call (a hello that claims its replica, then decides an op), so a
failure may cut before, between and after. In `Sync` losing an op takes one that
was refused or left out and one decided after it, and resending takes a second
socket. In `MergeDoc` what an edit could come to depends on its path, the
container above, a leaf beneath and the parent record; times matter only by which
is newer, and three instants give newer, equal and older. In `Lease` a process
that lost its lease needs one other that took it; two ops make a record and delete
it. In `Hub` an attempt can go stale by one act of the app, and a second socket
is the one that comes back. In `Relay`, `Replica` and `Tabs` the faults come one
or two at a time, with every interleaving of messages around them: the
divergences [below](#where-the-code-and-its-docs-part) were all met with these
bounds. Where a module has theorems the bounds matter less: they hold for every
value.

Other properties stand in the modules and are part of no run: `TypeOK` of each
(proved of `StoreCommit`, `Sync` and `Lease`), `Pipeline` (proved),
`HeldAcksArrive` and `FetchedIsStored` of `StoreCommit`; `NothingLost`,
`Converges` and `GaveWayForGood` of `Sync`; `ClockFits`; `LeftIsOut` and
`NoneThrown`; `ServedAgain` and `NoneIsLost`; `ViewIsCopyAndQueue`, `GrantsHold`,
`ReadsForItsClients`, `QueueDrains` and `LandsOnce` of `Relay`; `OutboxIsKept`
(proved) and `OwnEditsStay` of `Replica`; `BaseIsWhole`, `TabsAreTold`, `OfflineIsServed` and
`TabsConverge` of `Tabs`; `ReconciledWithFewest`. Some state what the code does
not keep (the [table](#where-the-code-and-its-docs-part) says where), the others
follow from what the runs check or hold beside it.

What the runs leave out. No passing run has a combination of `Uses` in which the
code is known not to do what its docs say; each of those is a row of the table. One
row is of constants that are no `Uses`: in `relay_faults` the client that writes stays
connected and the other comes and goes, as one that does both can fall out of step.
`CHECK_DEADLOCK FALSE` stands wherever the system may come to rest with its bounds
used up: everywhere but in `StoreCommit`.

## Fairness

`StoreCommit!FairSpec`: `WF(Running)`, as a call under way on the one thread
goes on; `SF(Turn)`, as `scheduleCommit` uses `setImmediate`, which the event
loop comes to after the I/O of one turn, however much more is waiting. The fairness has
to be strong, since a task of the model may begin just when the commit could.

`Sync!FairSpec`: both ends read what they are sent (`Serving`, `Hear`), the
retry timer fires (`Retry`), the connection opens a socket again
(`Open`, `scheduleRetry`) and notices one that the server closed (`Drop` with the socket
gone; keepalive gives up after two silent intervals).

`Hub!FairSpec` and `Relay!FairSpec`: while a message can be read, a hook can answer,
a flush or a timer is due, something of that happens. One weak fairness over all of
it is enough, and no more than a running event loop gives. `Replica!FairSpec`: the
same of a page that loads, connects, reads, fetches and lands its writes.
`Tabs!FairSpec`: the same of the tabs, and that a dead socket is noticed in the
end (keepalive). These two are stated with the guard of those steps, `MayServe`
(`[]<>~MayServe \/ []<><<...>>_vars`), which is cheaper to evaluate than `ENABLED`. `Lease!FairSpec`: time passes, and a process that began a load goes on
with it.

Nothing is assumed of what the application or the network does: edits, drops,
limits, refusals and failures are never fair, and their number is bounded, as
otherwise a network that always drops would refute any liveness.

## Proofs

The theorems hold for every value of the constants that the assumptions named in
the modules allow (`StoreAssumption`, `SyncAssumption`, `LeaseAssumption`,
`HubAssumption`, `RelayAssumption`, `ReplicaAssumption`): any number of clients, ops, sessions, processes, any group size
and lengths. A further hypothesis is in the theorem's statement, and in these
tables.

### The commit pipeline: StoreCommit_proofs

| Theorem | Says | Assumes further |
|---|---|---|
| `TypeCorrect` | `Spec => []TypeOK` | |
| `LandsOnce` | `Spec => []DecidedOnce` | |
| `Scheduling` | `Spec => []HeldIsScheduled` | |
| `PipelineLeads` | `Spec => []Pipeline` | no observer calls back |
| `Stored` | `Spec => []HeardIsStored` | no observer calls back |
| `Promised` | `Spec => Durable`: the pipeline implements `DurableStore` | no observer calls back |
| `Goodbyes` | `Spec => []EndedAreTold` | no observer calls back |
| `Whole` | `Spec => []CopiesAreWhole` | no observer calls back |

The argument for `Stored`. That what is heard is stored is not inductive: a
message may be sent at once when nothing is pending, which is right only because
memory and storage are the same then; and one held back is sent after the
commit, which is right only as it was held back for nothing that memory lacked. `Pipeline`
says both: the pending images lead from `disk` to `mem`; the last of them is
`mem`; what is in `effects` claims nothing beyond `mem`, and what the loop has
already taken, nothing beyond `disk`; and where a commit failed (so `mem` is
ahead for good) there is nothing left to tell and no call that will. The proof
has a step per action, each by the lemmas on what `Commit`, `CommitNow` and
`Send` keep, which are stated once.

An observer that calls back is left out of five of the theorems because there
the claim is false: a group that fills up inside the observer is committed there,
and where that fails the call around it goes on and tells of a version not stored
(`ackahead`, `groupfull` and `evicted`
[below](#where-the-code-and-its-docs-part)).

The argument for `LandsOnce` is another, and needs no order between what is
pending and what is stored, so it holds with observers too: `Sound` says that in *every*
image (in memory, pending, stored) no op is twice and every op of a replica
counts no more than the last decided, which `Decided` compares with.

`Promised` maps `stored` to `disk`. Each step of the pipeline is a `Store` (the
image stored follows the one before, by `Pipeline`), a `Tell` (what is delivered
is stored, by `Stored`) or a stutter. A commit made within one step both stores
and tells nothing, so no step is both.

`Scheduling` rests on `Awaited`: a store that is live and has something pending has
a commit scheduled, or a `drain` frame on its stack, which looks for more before it
ends. It holds with observers, as the frame stays beneath whatever they call.

`Goodbyes` rests on `Calm`: without observers the loop that sends is never nested
in another call, and what a call leaves on the stack is one frame that waits or a
list of plain ones; so a session is never ended with its goodbye behind its own
close, and `untold` stays empty.

`Whole` rests on `InStep`: the messages that the loop has taken and then those held
back lead every session's copy, one version at a time (`Carries`), to what the
store is about to announce. Whatever joins a queue does so at memory's version, a
delivery takes the first, and a session that has had no answer is told no patch.

### A client and its store: Sync_proofs, Sync_delivery

| Theorem | Says | Assumes further |
|---|---|---|
| `TypeCorrect` | `Spec => []TypeOK` | |
| `OpsLandOnce` | `Spec => []LandsOnce` | |
| `Contiguous` | `Spec => []BaseIsWhole` | no unload, no commit fails |
| `EditsStay` | `Spec => OwnEditsStay` | no unload, no commit fails |
| `OpsDelivered` | `Spec => Delivers`: client and store implement `OpDelivery` | no refusal, unload, failed commit, no hello turned away; where live ops are, an outbox that fits one hello |

Each hypothesis is needed: without it TLC finds the runs of the
[table](#where-the-code-and-its-docs-part). `lose`, `replace`, `drop`, `restart`,
`again` and the rest may happen in all of them.

`OpsLandOnce` is about the same promise from the client's end, where an op is
sent again and again: on several sockets at once, live and in hellos that overlap, after
reloads, to a store loaded afresh. The proof needs nothing of the order in which
messages arrive. `InLine` is inductive: the ops in the log stand in the order of
their numbers, none above the last decided; every step that lands an op passed
`Decided`, and others' writes land under no op's number (`StoreSteps`). That
the messages read are ops at all is `TypeCorrect`, by one lemma for each action.

`Contiguous` is about the way back. That the base is whole is kept by a patch only if
it is the next one, by an ack only if the base has what it names, by a delta
only if it starts no later than the base ends. So `BaseInv` reads the queue to the
client as a path for its version: the messages that will move it (`Moves`: answers,
and patches once an answer was heard) go up from `known`, by one at each patch
(`OneByOne`); acks come behind a version that covers them (`AcksBehind`); whoever is
synced, or has an answer on its way over an open session, arrives at the store's
version at the end (`Reaches`), which is what makes the next patch the next one. The other
way, ops go live only behind an answer and hellos ask from where the client is
(`Asking`). It follows (`FirstIs`) that in such runs no patch is ever skipped.
`EditsStay` adds `Owned`: nothing of the client's own beyond the version that an ack or
answer names is as early as the op it settles.

`OpsDelivered` rests on `OrderInv`, the argument that nothing overtakes. Why no op is
lost is that the store, which compares numbers alone (`Decided`), never decides an op
while an earlier one waits: so `Past`, whatever is pending and not above the last decided was
decided. For it `Lines` says of every socket, also of those the client has given up
and the store has yet to read, that what is on it comes in order: an op that waits is brought
(`Brings`) no later than any made after it. A session that is held passes over
live ops, so what it passes over brings nothing (`Heeded`); and as any session may come to be
held, each hello must start again from all that waits (`Refills`). `Trusted`
says the same of what the client thinks sent and so will not send again (`Relied`):
it is on its way, or the session is held and will hear a hello. `Started`
covers the hello that the store is in the middle of. The lemmas on queues
(`JoinedHello`, `JoinedOps`, `BehindDecided`, `BehindHello`, `BehindHeld`,
`BehindTurnedAway`, `FewerWait`, `FewerSent`) say once what sending, reading and
deciding do to a line. Then each step makes an op, decides one, settles some (by `Owned`
and `Past`) or is a stutter (`DeliveryStep`). TLC checked `OrderInv` first, in three
instances of the constants (with 2 and 3 ops, 2 sockets, limits and restarts).

### Processes on one file: Lease_proofs

| Theorem | Says | Assumes further |
|---|---|---|
| `Kept` | `Spec => NoneIsRobbed` | |
| `TypeCorrect` | `Spec => []TypeOK` | nobody stalls in mid-call, `Skew < Ttl` |
| `OneFile` | `Spec => []FileIsOne` | the same |
| `Current` | `Spec => []HolderIsCurrent` | the same |
| `Acknowledged` | `Spec => []AckedIsStored` | the same |
| `History` | `Spec => []ToldIsHistory` | the same |

`Kept` needs `AskedInTime` alone: a process between its look at the lease and its
write has found the lease not to be another's, and whatever writes in between turns
it away (`Written`); so none takes what lasts by every clock.

The others follow from one inductive invariant, `Ledger`, in named parts. Neither
`FileIsOne` nor `ToldIsHistory` is inductive: a process that lost its lease and does
not know serves a document that the file has gone past, answers from it, and takes
ops that will never be stored. What saves it is that it tells nothing while it has
something to store (`owed`), and cannot store (`Ours`). So `Loaded` says of every
process that serves the store, that its own changes follow one another and leave its
record as the last of them does (`Ordered`), and that with nothing to store it is what
the file has been (`WasStored`); and of the one that has the lease, that it is ahead
of the file by its changes and nothing else (`Continues`). `Settled` says that a
process in the middle of a load or restore has the lease, and nobody else is about
to take it. `OneHistory` is `FileIsOne` as the commits keep it, each client's ops
below the file's count for it. `Remembered` is what clients were told. A commit turns
`Continues` into the next state of `OneHistory` (`CommitShape`, `CommitHistory`);
whatever a step does to the file, what it had stays or the epoch is another
(`HistoryStep`). TLC checked `Ledger` first, with 2 processes and 2 clients.

The hypothesis that nobody stalls in the middle of a call is needed: with `stall`,
TLC finds both a process that begins a load under a lease it has lost by the time it
reads the rows, and the restore of the [table](#where-the-code-and-its-docs-part).
So is `Skew < Ttl`, for the same reason: to a clock a lease ahead, one just taken has
run out. The processes that share a file share a machine or a file system, whose
clocks differ by less than the 30 seconds of a lease.

### The hub: Hub_proofs

| Theorem | Says | Assumes further |
|---|---|---|
| `TakenBack` | `Spec => []TakenBackIsOut` | `Hooked`: the app gives hooks |
| `Left` | `Spec => []LeftIsOut` | |
| `AttemptsStay` | `Spec => []NoneThrown` | no sweep and no unload |
| `PeersTold` | `Spec => []PeersAgree` | `"halfopen" \notin Uses`: a client comes back after the server knows that its socket is gone |

The argument for `TakenBack`. That no check of a user is under way says nothing of the
sessions there are, so `Kept` says it of each: a session of a user taken back is being
judged again, under the number it has now (`Watched`), and of a check that still counts
for such a user the verdict is one of after the user was taken back (`JudgedLate`). So
the check ends the session and no attempt becomes one. `JudgedLate` is what the new
number given to an attempt by `revalidate` is for: the check that began before has the
old number, which is below it (`Numbered`), and answers to nobody. A queue that is
delivered as a session opens changes nothing of who has which session
(`DeliveredKeeps`, from the smallest message that would). Without hooks nobody is
judged again and the claim is false (the [table](#where-the-code-and-its-docs-part)).

For `Left`, `Parted` says that a client that left either has nothing at the hub or has
its leave as the last thing to be read; as it is the last, whatever is opened for what
was read before it goes with it. For `AttemptsStay`, `Resolves` says that what the
second hook is asked about is the store the registry has. A sweep or an unload between
the two is what it cannot allow: `NoneThrown` is false then (the same table). TLC checked
`Kept` and `Parted` first, with the constants of `hub_access`, and `Resolves` with the
same but for the sweep and the unload.

The argument for `PeersTold`. A client's list is what the messages on its wire will
make of it, and what they make of it is not yet what the store has, but for those the
store has noted and not told. So `Greeted` says of each session that said hello, whose
client reads on (`Heeded`: no leave of it and no final close on the way), that its list
`Leads` through the wire to one that is `Told`: right about every replica nothing is noted
of, and with an entry for each of which a share alone is noted, as a share is applied
only to a peer that is listed. What is noted `Matches` the sessions: one entry for each,
a leave only of a session that is over, and beside the leave of a replica that is back
the join of it, which is applied after (`NewsTold`). The steps of the store then keep
`Told` whatever list it is about (`Goes`: a join, a share, a session that ends), a queue
of messages by the smallest that would not (`DeliveredServes`), and the messages on the
wire by one more or one less at its ends (`LeadsOn`, `LeadsTail`); a list by itself does
not have to be known. `One` gives each client one session at a time, which is all that
`halfopen` takes away, and with two of a replica the claim is false (the same table).
TLC checked the parts of `Greeted` first, with the constants of `hub_access`.

### The relay: Relay_proofs

| Theorem | Says | Assumes further |
|---|---|---|
| `Settled` | `Spec => []ViewIsSettled` | |
| `CopiesWhole` | `Spec => []BaseIsWhole` | `Steady`: the relay writes nothing of its own (MaxOwn = 0), its host does not say that the server is away (`hold`), and no store is unloaded under the relay's session (`unload`) |

The relay never computes its view anew but where it must: each handler lays what it
was told on the view there is, or looks again at the records it touched. So what has to
be kept is that each of them touches enough. Of an edge, `Shows(e, L)` says that the
view is the base with the queue on top but for the items of `L`, and there is a lemma
per operation of the code on how it keeps that (`TakeShows`, `ForgetShows`,
`FromServerShows`, `CaughtUpShows`, ...); those that go through a queue or a set of
sessions one by one (`SendQueue`, `TakeAll`, `Without`) from the smallest place where it
would fail. The items of `L` come about in two ways, and here the two sides meet. An answer
takes the relay's own ops out of the queue and looks only at the records of the answer:
they are the relay's (`OwnApart`). A client that is turned away has its ops taken
out of the queue and the view not looked at (`LooseAt`): so of every message on the link
that turns somebody away, the server no longer lets that client in (`Heeds`), and as
the server lets nobody in again, what was excused stays excused (`LooseGrows`). That is
the whole of `Served`; `Copied` adds that the relay's numbers are among those made,
that its copy on disk is well formed, and that it vouches for sessions of its own.
TLC ran `Settles` with crashes, unloads, clients taken back and ops that lose before it
was proved.

The argument for `CopiesWhole`. The copy's version moves with what comes down the link:
an answer sets it, a patch adds one, an ack raises it. That no ack raises it past what
the copy has cannot be seen from the copy, so `Copies` says it of the link, which goes
through phases (`Link`): there is no session (`Shut`), with a hello on its way up once the
link is open (`Greets`); the hello was read, and its answer waits for a first client, is
on its way or was heard (`Followed`); or it was turned away for the rate, and no answer
comes (`Deaf`). With the hello read, `Runs(d, x, y)` says that what is on the way
down leads a copy at version x, -1 before the answer, to y: the answer is
the first to bring a version, each patch brings the next one, and an ack names none that is
still to come. Lists of messages are put together and taken apart by
`RunsConcat` and `RunsTail`. Of the relay's handlers it only has to be known that all but
three (the answer, a patch, an ack) leave the copy and the state of the link alone and
send up nothing that a server without a session would take for more than a vouch
(`Aside`), which the lemmas of `Settled` say too. `Copies` is about the copy in
storage as well: a relay that dies starts again from one that is as whole.

Whatever else may happen is in it: links that drop, clients that come, go and are taken
back, hellos, vouches and ops turned away, ops that are refused or lose, crashes. Each
part of `Steady` is needed: the [table](#where-the-code-and-its-docs-part) has a row of
each, in which an ack is on the link while the copy has no answer to its hello. TLC
checked `Copies` on three instances, with up to 734,627 states, before it was proved.

### A replica and its pages: Replica_inv, Replica_flow, Replica_proofs

| Theorem | Says |
|---|---|
| `BaseWhole` | `Spec => []BaseIsWhole` |
| `DiskWhole` | `Spec => []DiskIsWhole` |
| `OutboxKept` | `Spec => []OutboxIsKept` |
| `EditsAccounted` | `Spec => []EditsAreAccounted` |

All four assume that no hello goes out while another is unanswered or a snapshot is
fetched (`crossed`), that the store ends (is put back from a backup)
when no message is on its way to it and no answer on its way back, and nothing is sent or
fetched until the client hears of that end (`early`), and that a page dies with its writes done (`kill`). Each is
needed: the [table](#where-the-code-and-its-docs-part) has what happens otherwise. Pages
that close, drops, edits that supersede, fetches that fail, backups put back and
databases deleted by another tab may happen in any number, on each adapter.

One inductive invariant, `IInv`, carries all four; it stands in a module of its own,
`Replica_inv`, which TLC can check (it has no theorem in it). `BaseIsWhole` alone says
nothing of what will be laid on the base next, nor why a snapshot that was asked for a
while ago may still be laid under the messages that came since. So:

- *Rows.* `AsOf(rows, v, h)` is what a base of version `v` may be: for records that the
  history writes later either value will do, as a fetched snapshot may be ahead of the
  patch laid on it. `AsOfCompletes` makes `Completes` of it, and there is a lemma for
  each way to move on: a patch, a delta, a snapshot, a snapshot that patches it already
  has are laid on.
- *What is to come.* `Pending` is what is held and what is on the socket, in the order
  it will be handled, and `Flow(x, s, k, u, ls, ss)` relates a client `x` to such a
  sequence `s`, of which the `k`-th message, if any, says that the store was put back. `Chained`:
  versions follow one another up to that of the store. `Downward`: a patch
  is the write of its version in the life it is of, an ack or answer names ops that are in that
  life by that version (`Covered`). `InTouch`: a synced client is no further behind
  than the first of them starts. `Upward`: whatever is pending is in the store or on
  its way there, in its order. `Asking`: a request for a snapshot excludes a hello, an
  answer, and a second request. As `Flow` takes the client and the messages as
  parameters, there is one lemma for the handling of each kind of message (`PatchFine`,
  `AckFine`, `AnswerFine`, `PointerFine`, `EndFine`, `HoldFine`), used for what is heard
  (`HearHandled`), and again for each of the messages held when a snapshot lands or fails
  (`HeldFine`, by induction on their number).
- *Ops.* `Owns` and `Gapless`: in no life of the store is an op of the replica without
  those before it, so an op that is dropped as a duplicate is one that is there. After
  a restore the store may know less than the client: the answers say by which
  version, and `Gapless` of every pending op in *every* life is what keeps numbers from
  being taken twice.
- *Storage.* `Trail` is the sequence of what the disk will be after each write that is
  under way, `Backed` that each of them is whole and the last has the outbox and, for
  row adapters, the base. So a page that dies leaves what `Shut` says, and `Loaded` of
  that is a page again. A document adapter has its base written later, and the
  version with it. A database deleted under the page (`Reflects`) has less than the
  client until it is written again, in one go.
- *Edits.* `Explains`: an edit that is neither pending, superseded nor told of is in the
  history of the life the client is in. When the client hears of another, all its
  edits are told.

`Next` has eighteen actions, and each has a lemma (`HearKeeps`, `EditKeeps`,
`RestoreKeeps`, ...) over those of what the handler does to a client. TLC checked
`IInv` on instances of all three adapters before the proof, with `k` and `D` computed
rather than chosen.

### What is only model-checked

Liveness (`Drains`, `Converges`, `HellosAreAnswered`, `EditsArrive`) is out of
TLAPS's reach. `MergeDoc` and `Lists` compute over data by recursion, of which
nothing can be proved for every input. The properties of `Tabs`
are checked by TLC and have no proof (see the [plan](#plan)): a handler of it is a fold
over sessions, messages and ops of handlers that are folds themselves, and each such fold
takes an operator, which has to be unfolded by hand for each use. `BaseIsWhole` of
`Relay` is proved for a `Steady` one and otherwise false for some bounds: `relay_live`
checks it with stores that unload, for one fault. `ClientsAreInStep` of `Relay` is not true for
every value of the constants (the [table](#where-the-code-and-its-docs-part) has two rows of it) and so stays with TLC.

## Where the code and its docs part

Each was met while modelling. No run is made of them; the constants show each with
the modules as they are, all else as in the cfg of the same module, with the property
put under its INVARIANTS or PROPERTIES. Rows marked *reading* are beyond what the
module models.

Commit pipeline (`StoreCommit`):

| Constants | Violates | The code |
|---|---|---|
| GroupMax 1, Faults {fail}, Uses {observe}, MaxSeq 1, MaxHeld 3 | HeardIsStored | `ackahead`: an op observer writes to the store and that commit fails, which `notify` catches (`store.js` 207): the call goes on and its ack or answer names what was not stored (842, against 29-34) |
| Faults {}, Uses {observe, evict}, GroupMax 8, one session | EndedAreTold | `evicted`: `closeSessions` called by an observer queues the goodbye behind the close of its session, so it is never sent (1063) |
| Faults {fail}, Uses {fetch}, GroupMax 2; or Uses {fetch, observe} | FetchedIsStored | `snapshotJSON` does not look whether its commit failed (1127); an observer that writes during that commit is served unstored |
| Faults {}, Uses {observe}, GroupMax 2, MaxVersion 3; or Uses {observe, lose} | CopiesAreWhole | `groupfull`: a group that fills up inside an observer sends its acks before the patches the outer loop has still to send (244) |
| *reading* | | `session()` does not look whether the commit it made failed (1037): the session it opens stays on a store that unloaded itself, against 262-263 |

A client and its store (`Sync`):

| Constants | Violates | The code |
|---|---|---|
| Uses {drop, refuse}, HelloLimit 9 | NothingLost | An op is refused, the next decided, and the socket drops before either answer is read: the op is resent, taken for a duplicate (`index.js` 436, `store.js` 595), acknowledged, and dropped without `rejected` (`docs/auth.md` 164-165) |
| Uses {unload} or {fail} | NothingLost | The store unloads over op 1; op 2, on the socket already, opens a session on the store loaded afresh (`hub.js` 265), is decided, and its ack drops op 1 (`docs/protocol.md` 118-119) |
| Uses {unload}, MaxWrites 1 | BaseIsWhole | After `unavailable` an ack moves `known.v` past patches that were passed over (`index.js` 563): the delta asked for leaves them out (`docs/protocol.md` 50) |
| Uses {replace, refuse} | GaveWayForGood | A pending op gives way to a newer one that is then refused: neither is decided (`index.js` 293, `docs/offline.md` 63-68) |
| HelloLimit 9, Uses {again, limithello}; or {limithello, drop} with 2 turns | NothingLost | A hello turned away for the rate holds nothing, and a live op overtakes those it carried (`store.js` 903) |
| HelloLimit 1, Uses {limit}, 3 ops | NothingLost | An op past the hello's limit goes out live, behind one refused for the rate after it (`index.js` 424) |

Merge rule and lists (`MergeDoc`, `Lists`):

| Constants | Violates | The code |
|---|---|---|
| ServerDels of a path beneath a container | CopyAgrees | `store.del` beneath what is not there makes the record and containers on the way before it finds nothing to delete (`doc.js` 294, 31-32): clients are not told |
| Starts `<<-2,0,1>>` | RoomEverywhere | Next above the smallest integer `keyBetween(null, 'A0…01')` returns a key it would not take itself (`positions.js` 87-91, against 5) |

Hub (`Hub`):

| Constants | Violates | The code |
|---|---|---|
| as they are | NoneThrown | A store released between its being resolved and the answer of `authorize` (`hub.js` 205): `session()` throws in a promise nobody waits for, and the hello is lost |
| Uses with halfopen | PeersAgree | The old socket's leave, flushed after the join of the new, takes a live peer off the list (`docs/auth.md` 199) |
| Hooked FALSE, Uses {disconnect} | TakenBackIsOut | A user taken back during a handshake is let in, as no hook is asked again |

A shared file (`Lease`):

| Constants | Violates | The code |
|---|---|---|
| Uses with race | NoneIsLost | A write of another process between a load's look and its write makes SQLite refuse it; the hub has no name for that and tells the client for good that there is no store (`hub.js` 190-196, `docs/server.md` 114-117) |
| Uses with stall | ToldIsHistory | A process stalled between its look at the lease, its write and its reads reads rows of another's commit under an older version |
| Uses with stall, restore | FileIsOne | A restore stalled between taking the lease and writing (`sqlite-shared.js` 387-408) leaves the other's commits under its epoch |

Relay (`Relay`):

| Constants | Violates | The code |
|---|---|---|
| Uses {revoke} | ViewIsCopyAndQueue | A client taken back has its ops filtered from the queue, and the view keeps them (`follower.js` 680) |
| Uses {hold, drop} | BaseIsWhole | An ack with `v` held meanwhile moves the copy's version before the answer, and the link drops |
| Uses {drop}, MaxOwn 1, one client | BaseIsWhole | The hello's own ops are acknowledged at once, with the server's version, while its answer is held until a client is let in (`store.js` 940-945); the ack moves the copy's version to it (`follower.js` 596), and if the link drops before the answer, the delta asked for next leaves out what came before (`docs/relays.md` 103-106) |
| Uses {unload, drop}, MaxTurns 2, MaxOwn 0, MaxOps 1, MaxWrites 1 | BaseIsWhole | The timer after `unavailable` (`follower.js` 701) looks only whether there is a link: it says hello again on one that was opened and answered meanwhile, the patches from then on are passed over, and an ack in flight moves the version past them |
| Uses {limitown} | QueueDrains | The relay's own op is turned away: its session stays held until a next hello |
| Uses {limithello} | QueueDrains | And says hello no more until the link drops |
| Uses {limit}, MaxOps 2 | NothingLost | An op overtakes one refused for the rate |
| Uses {halfopen, drop} | Drains | An op of a session that the relay took for gone is removed, and never sent again |
| Uses {crash}, 2 clients | ClientsAreInStep | A relay started again counts its versions from the older copy under the same `fepoch` (778) |
| Uses {drop, halfopen}, one client, in `Writers` and in `Movers`, MaxSessions 3 | ClientsAreInStep | The ack of an op goes to every session of its replica with the relay's version of now (`follower.js` 604), also to one whose hello is not answered, which was sent none of the patches since; the client takes the version for its own (`index.js` 563, with no look at `synced`), and if its socket drops before the answer, the delta it asks for next leaves them out (`docs/relays.md` 96-98) |
| Uses {crash}, MaxOwn 1 | LandsOnce, NothingLost | Its own ops are numbered again, and dropped as duplicates |
| Uses {unload, limit} or {refuse, leave} | NothingLost | As in `Sync` |

A replica and its pages (`Replica`):

| Constants | Violates | The code |
|---|---|---|
| Uses {fetch} | the base never goes back | A patch that the fetched snapshot has is laid on top of it: version and base go back until the next (`docs/limits.md` 76-77, `index.js` 557) |
| Uses with crossed | BaseIsWhole | A hello during a fetch does not cancel it (`snapshot-fetch.js` 14-16) |
| Uses with early | BaseIsWhole, DiskIsWhole, EditsAreAccounted, OwnEditsStay | Messages of the life before, read after the store's end was heard |
| Uses with kill, indexeddb | EditsAreAccounted | A number is used again and dropped as a duplicate; `supersede` writes in two transactions; a reset leaves half the rows (`indexeddb.js` 24-25) |
| *reading* | | A write that fails for quota is passed over and the version goes on (`indexeddb.js` 14-17); a client that never edited has no outbox document, so its cached base is never loaded (`docs/offline.md`); a lease of `localStorage` whose renewal fails (`storage.js` 63-66) |

Tabs (`Tabs`):

| Constants | Violates | The code |
|---|---|---|
| Uses {late, drop} | EditsAreKept | Two hellos in flight, an op turned away with "Say hello first", a later one accepted (`shared.js` 11-12) |
| Adapters {rows}, Uses {die, lose} or {dispose, lose} | EditsAreKept, EditsArrive | An op is acknowledged as its IndexedDB transaction is begun (`follower.js` 822-823, `indexeddb.js` 102-113, where writes are fire-and-forget), and the tab that made it lets go of it; a leader whose page goes before the transaction is done loses it, against "it acknowledges their ops once they are in the browser's outbox" (`shared.js` 11-12). If the op was sent up before that, the next leader loads the number before it, gives it to another op, and the server's answer or ack takes that one out as a duplicate (`follower.js` 236, 540) |
| Adapters {memory}, Uses {die} | EditsAreKept | The default outbox is gone with its tab, the replica's id in `localStorage` is not (`shared.js` 130, 148) |
| Adapters {leased}, Uses {die, yield} | EditsAreKept | `takeOver()` is never called (`storage.js` 219) |
| Uses {sweep, stale} | TabsConverge | A sweep closes the session of a tab that is there (`shared.js` 283-289) |
| `TabsAgree` without `ahead` | | A leader that dies with records unwritten: the next counts the same versions again |

## What is not modelled

Each with a note in `PROJECT.json`. In the modelled parts:

- `StoreCommit`: presence and the sessions of followers send through the same
  `later` and add nothing to it; what a rule or a validation refuses changes no
  state and is left to `Sync`. The log's trimming is left out (a copy that
  cannot be caught up gets a snapshot).
- `Sync`: one client with one replica; one epoch and snapshots that come with
  their answer (`Replica` has epochs and fetched snapshots). The state shown to the
  user (base and outbox) is not a variable: the edits kept in sight are those in
  the outbox or the base, which `OwnEditsStay` is about. Reports of lost changes
  (`lost`) come to the app once and decide nothing.
- `MergeDoc`: the modes `replay` and `optimistic`; registers (records held whole),
  which merge as leaves; the index of children, which is computed from the records;
  a wall clock that goes back, which `clock.observe` makes harmless within one
  process and `Reload` covers across two. Replicas forgotten for their age.
- `Hub`: limits on sockets and rates; limits of what a share may hold.
- `Lease`: several stores in one file, the journal and its checkpoints, backups.
- `Relay`: local mode (`Tabs` has it), a relay that judges by rules of its own,
  `authorizeOffline`, linger, snapshots over HTTP, presence through a relay, a
  refusal that comes after the session closed.
- `Replica`: upgrades of an old database; refusals and rates (`Sync` has them).
- `Tabs`: ports, linger and release, presence, shapes, rates upstream, snapshots
  over HTTP, notices of rejected or lost changes; its log is never trimmed; a leader
  has one write of the records under way at a time.

Not to be modelled: text and bytes (`wire.js`, shapes and paths), sockets and
HTTP of Bun and Node, SHA-256, the bindings, the test network. They hold no state that the
protocol depends on, or are the platform's.

## Plan

Done, in the order of how much rests on it: `StoreCommit` (every client's trust
in what it hears), `Sync` (every edit's way to the store), `MergeDoc` (what
becomes of it there), `Hub`, `Lease`, `Relay`, `Replica`, `Tabs`, `Lists`; the
proofs about `StoreCommit`, `Sync`, `Lease`, `Hub` and `Replica`, and about the copy and
the view of `Relay`.

Next:

1. Theorems: `EditsAreKept` of `Tabs`; `OwnEditsStay` of `Replica`; `NothingLost` of
   `Relay` without what the table has against it.
2. `Retention` - forgotten replicas and `maxReplicas`, composing the store of
   `Sync` with times.
3. A client's view in the modes `replay` and `optimistic`: base and outbox
   replayed agree with the server's decision.
