---------------------------- MODULE Lease_proofs ----------------------------
(***************************************************************************)
(* Proofs about Lease.tla, for any number of processes, clients, ops,      *)
(* epochs and lengths of a lease.  The state keeps its types, and nobody   *)
(* robs a process of a lease that lasts by every clock, whatever happens.  *)
(* As long as no process is stalled in the middle of a call, and no clock  *)
(* is a lease ahead, the file is one history, whoever has the lease has    *)
(* the store as the file has it, and what clients were told the file has.  *)
(***************************************************************************)
EXTENDS Lease, SequenceTheorems, WellFoundedInduction, TLAPS

Places == {"none", "asked", "stale", "took", "meta", "live", "restores", "replaces"}
Docs == [ep : Nat, ver : Nat, row : Nat]
Owings == [c : Clients, n : 0 .. MaxOps, doc : Docs]
Changes == [ver : Nat, row : Nat, c : Clients, n : 0 .. MaxOps, floor : Nat]
Stores == [at : Places, ver : Nat, ep : Nat, row : Nat, seqs : Seqs, log : SUBSET Nat,
           todo : Seq(Changes), owed : SUBSET Owings]
Files == [ver : Nat, ep : Nat, row : Nat, seqs : Seqs, log : SUBSET Nat]

\* The types of the variables.
Types ==
  /\ file \in Files /\ hist \in Seq(Clients \X (0 .. MaxOps)) /\ base = Blank
  /\ lease \in [by : Procs \cup {Nobody, Dead}, left : Nat]
  /\ mem \in [Procs -> Stores] /\ held \subseteq Procs /\ pruned \in [Procs -> Int]
  /\ made \in Seqs /\ acked \in [Clients -> [ep : Nat, n : 0 .. MaxOps]]
  /\ told \subseteq Docs /\ lost \subseteq Procs /\ turns \in Nat

\* A store in memory, within the ops k that clients made.
Fits(m, k) ==
  /\ m.at # "live" => m.todo = <<>>
  /\ m.todo = <<>> => m.owed = {}
  /\ \A i \in 1 .. Len(m.todo) : m.todo[i].row <= m.todo[i].ver
  /\ \A o \in m.owed : o.n <= k[o.c]

\* What a process has of the file it holds.
Holding == {"meta", "live", "took", "replaces"}

\* The inductive form of TypeOK.
Typed ==
  /\ Types
  /\ file.row <= file.ver
  /\ \A p \in Procs : Fits(mem[p], made) /\ (mem[p].at \in Holding <=> p \in held)
  /\ \A c \in Clients : acked[c].n <= made[c]

\* A process in the middle of a load found the lease not to be another's.
AskedInTime == \A p \in Procs : mem[p].at = "asked" => ~Locked(p)

-----------------------------------------------------------------------------
(* What holds of a store in memory, of the file, and of the two together.  *)

\* The versions a log of DeltaLog changes holds when the store is at version v.
Reach(v) == {w \in 1 .. v : w > v - DeltaLog}

\* A store that is served: its log, and its changes to be stored, one version after
\* another, each as it leaves the record, each client's ops in order.
Ordered(m) ==
  LET n == Len(m.todo) IN
  /\ m.log = Reach(m.ver)
  /\ n <= m.ver
  /\ \A i \in 1 .. n :
       /\ m.todo[i].ver = m.ver - n + i
       /\ m.todo[i].row = Effect(m.todo[i].n, m.todo[i].ver)
       /\ \A w \in Reach(m.todo[i].ver) : m.todo[i].floor <= w
       /\ m.todo[i].n <= m.seqs[m.todo[i].c]
  /\ \A i, j \in 1 .. n : i < j /\ m.todo[i].c = m.todo[j].c => m.todo[i].n < m.todo[j].n
  /\ n > 0 => m.row = m.todo[n].row
  /\ \A o \in m.owed :
       /\ o.n <= m.seqs[o.c] /\ o.doc.ep = m.ep
       /\ \E i \in 1 .. n : o.doc.ver = m.todo[i].ver /\ o.doc.row = m.todo[i].row

\* A store that is ahead of the file by its changes to be stored, and by no more.
Continues(m) ==
  LET n == Len(m.todo) IN
  /\ m.ep = file.ep /\ m.ver = file.ver + n
  /\ n = 0 => m.row = file.row
  /\ \A i \in 1 .. n : m.todo[i].n > file.seqs[m.todo[i].c]
  /\ \A c \in Clients :
       \/ m.seqs[c] = file.seqs[c] /\ \A i \in 1 .. n : m.todo[i].c # c
       \/ \E i \in 1 .. n : m.todo[i].c = c /\ m.todo[i].n = m.seqs[c]

\* A store whose changes are all stored, of the file's epoch: the file has had it.
WasStored(m) ==
  m.ep = file.ep /\ m.todo = <<>> =>
    /\ m.ver <= file.ver /\ m.row = RowAt(m.ver)
    /\ \A c \in Clients : m.seqs[c] <= file.seqs[c]

\* The file: each version in turn, each client's ops in order.
OneHistory ==
  /\ file.ver = Len(hist)
  /\ file.row = RowAt(file.ver)
  /\ \A i, j \in 1 .. Len(hist) : i < j /\ hist[i][1] = hist[j][1] => hist[i][2] < hist[j][2]
  /\ \A i \in 1 .. Len(hist) : hist[i][2] <= file.seqs[hist[i][1]]
  /\ \A c \in Clients :
       \/ file.seqs[c] = 0 /\ \A i \in 1 .. Len(hist) : hist[i][1] # c
       \/ \E i \in 1 .. Len(hist) : hist[i][1] = c /\ hist[i][2] = file.seqs[c]
  /\ file.log \subseteq 1 .. file.ver /\ Reach(file.ver) \subseteq file.log

\* A process in the middle of a load or of a restore has the lease, for as long as one
\* lasts, and no other is about to take it.
Settled ==
  \A p \in Procs : mem[p].at \in {"took", "meta", "replaces"} =>
    /\ lease.by = p /\ lease.left >= Ttl
    /\ \A q \in Procs : mem[q].at # "asked"

\* What a process has of the file, read or served.
Loaded ==
  \A p \in Procs :
    /\ mem[p].ep <= file.ep
    /\ mem[p].at = "meta" => mem[p].ep = file.ep /\ mem[p].ver = file.ver
    /\ mem[p].at = "live" => Ordered(mem[p]) /\ WasStored(mem[p])
    /\ mem[p].at = "live" /\ lease.by = p => Continues(mem[p])

\* What clients were told the file has.
Remembered ==
  /\ \A c \in Clients : acked[c].ep <= file.ep /\ (acked[c].ep = file.ep => acked[c].n <= file.seqs[c])
  /\ \A t \in told :
       t.ep <= file.ep /\ (t.ep = file.ep => t.ver <= file.ver /\ t.row = RowAt(t.ver))

\* The inductive invariant.
Ledger == Typed /\ AskedInTime /\ Settled /\ Loaded /\ OneHistory /\ Remembered

-----------------------------------------------------------------------------
(* Numbers, and the operators of the model.                                *)

\* A set of numbers has a smallest.
LEMMA Smallest ==
  ASSUME NEW S \in SUBSET Nat, S # {}
  PROVE  \E x \in S : \A y \in S : x <= y
  <1> DEFINE R == {ss \in Nat \X Nat : ss[1] < ss[2]}
  <1>1. IsWellFoundedOn(R, Nat)
    BY NatLessThanWellFounded, Zenon DEF OpToRel
  <1> HIDE DEF R
  <1>2. PICK x \in S : \A y \in S : ~(<<y, x>> \in R)
    BY <1>1, WFMin
  <1>3. ASSUME NEW y \in S PROVE x <= y
    <2>1. <<y, x>> \notin R
      BY <1>2
    <2>2. x \in Nat /\ y \in Nat
      OBVIOUS
    <2> QED BY <2>1, <2>2 DEF R
  <1> QED BY <1>3

\* A set of numbers with a bound has a largest.
LEMMA Largest ==
  ASSUME NEW b \in Nat, NEW S \in SUBSET (0 .. b), S # {}
  PROVE  \E x \in S : \A y \in S : y <= x
  <1> DEFINE T == {b - y : y \in S}
  <1>1. T \in SUBSET Nat /\ T # {}
    <2>1. \A y \in S : y \in Nat /\ b - y \in Nat
      OBVIOUS
    <2>2. PICK y \in S : TRUE
      OBVIOUS
    <2>3. b - y \in T
      OBVIOUS
    <2>4. \A t \in T : t \in Nat
      BY <2>1
    <2> QED BY <2>3, <2>4
  <1> HIDE DEF T
  <1>2. PICK t \in T : \A u \in T : t <= u
    BY <1>1, Smallest
  <1>3. PICK x \in S : t = b - x
    BY DEF T
  <1>4. ASSUME NEW y \in S PROVE y <= x
    <2>1. b - y \in T
      BY DEF T
    <2>2. b - x <= b - y
      BY <1>2, <1>3, <2>1
    <2> QED BY <2>2
  <1> QED BY <1>4

\* A write to the file turns away the loads that looked at the lease before it, and
\* changes nothing else.
LEMMA WrittenShape ==
  ASSUME NEW p, NEW m \in [Procs -> Stores]
  PROVE  /\ Written(p, m) \in [Procs -> Stores]
         /\ \A q \in Procs :
              \/ Written(p, m)[q] = m[q] /\ (m[q].at = "asked" => q = p)
              \/ /\ m[q].at = "asked" /\ q # p
                 /\ Written(p, m)[q] = [m[q] EXCEPT !.at = "stale"]
  <1>1. ASSUME NEW q \in Procs
        PROVE  [m[q] EXCEPT !.at = "stale"] \in Stores
    BY DEF Stores, Places
  <1> QED BY <1>1 DEF Written

\* What an op leaves of the record is no later than the op.
LEMMA EffectBound ==
  ASSUME NEW n \in Nat, NEW v \in Nat
  PROVE  Effect(n, v) \in 0 .. v
  BY DEF Effect

\* The next version of a store: the log, and the change to be stored.
NextLog(m) == Recent(m.log \cup {m.ver + 1}, m.ver + 1)
NextChange(m, c, n) ==
  [ver |-> m.ver + 1, row |-> Effect(n, m.ver + 1), c |-> c, n |-> n, floor |-> Floor(NextLog(m))]

\* The log of the next version reaches to it, and begins somewhere.
LEMMA NextLogShape ==
  ASSUME NEW m \in Stores
  PROVE  /\ NextLog(m) \in SUBSET Nat /\ m.ver + 1 \in NextLog(m)
         /\ Floor(NextLog(m)) \in Nat
         /\ \A w \in NextLog(m) : Floor(NextLog(m)) <= w
  <1>1. m.ver \in Nat /\ m.log \in SUBSET Nat
    BY DEF Stores
  <1>2. NextLog(m) \in SUBSET Nat /\ m.ver + 1 \in NextLog(m)
    BY <1>1, LeaseAssumption DEF NextLog, Recent
  <1>3. \E w \in NextLog(m) : \A x \in NextLog(m) : w <= x
    BY <1>2, Smallest
  <1>4. Floor(NextLog(m)) \in NextLog(m) /\ \A x \in NextLog(m) : Floor(NextLog(m)) <= x
    BY <1>3 DEF Floor
  <1> QED BY <1>2, <1>4

\* An op that is not a duplicate makes the next version of a store.
LEMMA DecidedShape ==
  ASSUME NEW m \in Stores, NEW c \in Clients, NEW n \in 0 .. MaxOps, ~(n <= m.seqs[c])
  PROVE  LET d == Decided(m, c, n) IN
         /\ d.at = m.at /\ d.ver = m.ver + 1 /\ d.ep = m.ep /\ d.row = Effect(n, m.ver + 1)
         /\ d.seqs = [m.seqs EXCEPT ![c] = n] /\ d.log = NextLog(m)
         /\ d.todo = Append(m.todo, NextChange(m, c, n)) /\ d.owed = m.owed
  BY DEF Decided, Stores, NextLog, NextChange

\* The change is one.
LEMMA NextChangeType ==
  ASSUME NEW m \in Stores, NEW c \in Clients, NEW n \in 0 .. MaxOps
  PROVE  NextChange(m, c, n) \in Changes /\ NextChange(m, c, n).row <= NextChange(m, c, n).ver
  <1>1. m.ver + 1 \in Nat /\ n \in Nat
    BY LeaseAssumption DEF Stores
  <1>2. Effect(n, m.ver + 1) \in 0 .. (m.ver + 1)
    BY <1>1, EffectBound
  <1>3. Effect(n, m.ver + 1) \in Nat /\ Effect(n, m.ver + 1) <= m.ver + 1
    BY <1>1, <1>2
  <1> QED BY <1>1, <1>3, NextLogShape DEF NextChange, Changes

\* It is a store yet, and within the ops of its clients.
LEMMA DecidedTypes ==
  ASSUME NEW m \in Stores, NEW c \in Clients, NEW n \in 0 .. MaxOps,
         NEW k \in Seqs, Fits(m, k), m.at = "live"
  PROVE  /\ Decided(m, c, n) \in Stores /\ Decided(m, c, n).at = "live"
         /\ Fits(Decided(m, c, n), k)
  <1>1. CASE n <= m.seqs[c]
    BY <1>1 DEF Decided
  <1>2. CASE ~(n <= m.seqs[c])
    <2> DEFINE new == NextChange(m, c, n)
    <2>1. new \in Changes /\ new.row <= new.ver /\ m.todo \in Seq(Changes)
      BY NextChangeType DEF Stores
    <2>2. Append(m.todo, new) \in Seq(Changes) /\ Append(m.todo, new) # <<>>
      BY <2>1
    <2>3. NextLog(m) \in SUBSET Nat
      BY NextLogShape
    <2>4. m.ver + 1 \in Nat /\ Effect(n, m.ver + 1) \in Nat
      BY <2>1 DEF NextChange, Changes, Stores
    <2>5. Decided(m, c, n) \in Stores
      BY <1>2, <2>2, <2>3, <2>4 DEF Decided, Stores, NextLog, NextChange, Seqs
    <2>6. ASSUME NEW i \in 1 .. Len(Append(m.todo, new))
          PROVE  Append(m.todo, new)[i].row <= Append(m.todo, new)[i].ver
      <3> HIDE DEF new
      <3>1. CASE i = Len(m.todo) + 1
        BY <2>1, <3>1
      <3>2. CASE i \in 1 .. Len(m.todo)
        BY <2>1, <3>2 DEF Fits
      <3> QED BY <2>1, <3>1, <3>2
    <2>7. /\ Decided(m, c, n).at = "live" /\ Decided(m, c, n).ep = m.ep
          /\ Decided(m, c, n).owed = m.owed /\ Decided(m, c, n).todo = Append(m.todo, new)
      BY <1>2, DecidedShape
    <2> HIDE DEF new
    <2> QED BY <2>2, <2>5, <2>6, <2>7 DEF Fits
  <1> QED BY <1>1, <1>2

\* The last of a client's changes in a batch is one of them, and after the others.
LEMMA MineLatest ==
  ASSUME NEW batch \in Seq(Changes), NEW c, Mine(batch, c) # {}
  PROVE  /\ Latest(Mine(batch, c)) \in 1 .. Len(batch)
         /\ batch[Latest(Mine(batch, c))].c = c
         /\ \A j \in 1 .. Len(batch) : batch[j].c = c => j <= Latest(Mine(batch, c))
  <1>1. Len(batch) \in Nat /\ Mine(batch, c) \in SUBSET (0 .. Len(batch))
    BY DEF Mine
  <1>2. \E x \in Mine(batch, c) : \A y \in Mine(batch, c) : y <= x
    BY <1>1, Largest
  <1>3. /\ Latest(Mine(batch, c)) \in Mine(batch, c)
        /\ \A y \in Mine(batch, c) : y <= Latest(Mine(batch, c))
    BY <1>2 DEF Latest
  <1> QED BY <1>3 DEF Mine

\* A batch leaves a file a file, at its last change.
LEMMA MergedTypes ==
  ASSUME NEW f \in Files, NEW batch \in Seq(Changes), batch # <<>>, NEW e \in Nat, NEW floor,
         \A i \in 1 .. Len(batch) : batch[i].row <= batch[i].ver
  PROVE  Merged(f, batch, e, floor) \in Files /\ Merged(f, batch, e, floor).row <= Merged(f, batch, e, floor).ver
  <1>1. Len(batch) \in 1 .. Len(batch) /\ batch[Len(batch)] \in Changes
    OBVIOUS
  <1>2. batch[Len(batch)].ver \in Nat /\ batch[Len(batch)].row \in Nat
        /\ batch[Len(batch)].row <= batch[Len(batch)].ver
    BY <1>1 DEF Changes
  <1>3. Merged(f, batch, e, floor).seqs \in Seqs
    <2>1. ASSUME NEW c \in Clients
          PROVE  (IF Mine(batch, c) = {} THEN f.seqs[c] ELSE batch[Latest(Mine(batch, c))].n) \in 0 .. MaxOps
      <3>1. CASE Mine(batch, c) = {}
        BY <3>1 DEF Files, Seqs
      <3>2. CASE Mine(batch, c) # {}
        <4>1. batch[Latest(Mine(batch, c))] \in Changes
          BY <3>2, MineLatest
        <4> QED BY <3>2, <4>1 DEF Changes
      <3> QED BY <3>1, <3>2
    <2> QED BY <2>1 DEF Merged, Seqs
  <1>4. Merged(f, batch, e, floor).log \in SUBSET Nat
    <2>1. \A i \in 1 .. Len(batch) : batch[i] \in Changes
      OBVIOUS
    <2>2. \A i \in 1 .. Len(batch) : batch[i].ver \in Nat
      BY <2>1 DEF Changes
    <2> QED BY <2>2 DEF Merged, Files
  <1> QED BY <1>2, <1>3, <1>4 DEF Merged, Files

\* The last ack that waits for a client is one that does.
LEMMA AcksLatest ==
  ASSUME NEW m \in Stores, NEW c \in Clients, Acks(m.owed, c) # {}
  PROVE  \E o \in m.owed : o.c = c /\ Latest(Acks(m.owed, c)) = o.n
  <1>1. ASSUME NEW o \in m.owed
        PROVE  o.n \in 0 .. MaxOps
    BY DEF Stores, Owings
  <1>2. Acks(m.owed, c) \in SUBSET (0 .. MaxOps)
    BY <1>1 DEF Acks
  <1>3. \E x \in Acks(m.owed, c) : \A y \in Acks(m.owed, c) : y <= x
    BY <1>2, Largest, LeaseAssumption
  <1>4. Latest(Acks(m.owed, c)) \in Acks(m.owed, c)
    BY <1>3 DEF Latest
  <1> QED BY <1>4 DEF Acks

-----------------------------------------------------------------------------
(* Types.                                                                  *)

\* A store that moves in one process, and loads that are turned away in the others.
LEMMA StoreMoves ==
  ASSUME Typed, NEW p \in Procs, NEW s \in Stores, Fits(s, made),
         mem' = [mem EXCEPT ![p] = s] \/ mem' = Written(p, [mem EXCEPT ![p] = s]),
         (s.at \in Holding /\ held' = held \cup {p}) \/ (s.at \notin Holding /\ held' = held \ {p})
  PROVE  /\ mem' \in [Procs -> Stores] /\ held' \subseteq Procs
         /\ \A q \in Procs : Fits(mem'[q], made) /\ (mem'[q].at \in Holding <=> q \in held')
  <1> DEFINE m == [mem EXCEPT ![p] = s]
  <1>1. m \in [Procs -> Stores]
    BY DEF Typed, Types
  <1>2. ASSUME NEW q \in Procs
        PROVE  Fits(m[q], made) /\ (m[q].at \in Holding <=> q \in held')
    BY DEF Typed, Types
  <1>3. m[p] = s
    BY DEF Typed, Types
  <1> HIDE DEF m
  <1>4. CASE mem' = m
    BY <1>1, <1>2, <1>4 DEF Typed, Types
  <1>5. CASE mem' = Written(p, m)
    <2>1. mem' \in [Procs -> Stores]
      BY <1>1, <1>5, WrittenShape
    <2>2. ASSUME NEW q \in Procs
          PROVE  Fits(mem'[q], made) /\ (mem'[q].at \in Holding <=> q \in held')
      <3>1. CASE mem'[q] = m[q]
        BY <1>2, <3>1
      <3>2. CASE m[q].at = "asked" /\ mem'[q] = [m[q] EXCEPT !.at = "stale"]
        <4>1. m[q] \in Stores
          BY <1>1
        <4>2. /\ mem'[q].at = "stale" /\ mem'[q].todo = m[q].todo /\ mem'[q].owed = m[q].owed
              /\ mem'[q].ep = m[q].ep
          BY <3>2, <4>1 DEF Stores
        <4>3. Fits(mem'[q], made)
          BY <1>2, <3>2, <4>2 DEF Fits
        <4> QED BY <1>2, <3>2, <4>2, <4>3 DEF Holding
      <3> QED BY <1>1, <1>5, <3>1, <3>2, WrittenShape
    <2> QED BY <2>1, <2>2 DEF Typed, Types
  <1> QED BY <1>4, <1>5 DEF m

\* What is told, or owed: types, and nobody is told of an op not made.
LEMMA TellTypes ==
  ASSUME Typed, NEW p \in Procs, mem[p].at = "live", NEW s \in Stores, s.at = "live",
         Fits(s, made), NEW c \in Clients, NEW n \in 0 .. MaxOps, n <= made[c], Tell(p, s, c, n)
  PROVE  /\ acked' \in [Clients -> [ep : Nat, n : 0 .. MaxOps]] /\ told' \subseteq Docs
         /\ \A d \in Clients : acked'[d].n <= made[d]
         /\ \E t \in Stores : t.at = "live" /\ Fits(t, made) /\ mem' = [mem EXCEPT ![p] = t]
  <1>1. Shown(s) \in Docs
    BY DEF Shown, Docs, Stores
  <1>2. /\ acked \in [Clients -> [ep : Nat, n : 0 .. MaxOps]] /\ told \subseteq Docs
        /\ \A d \in Clients : acked[d].n <= made[d]
    BY DEF Typed, Types
  <1>3. CASE s.todo = <<>>
    <2>1. [ep |-> s.ep, n |-> n] \in [ep : Nat, n : 0 .. MaxOps]
      BY DEF Stores
    <2>2. told' \subseteq Docs /\ mem' = [mem EXCEPT ![p] = s]
      BY <1>1, <1>2, <1>3 DEF Tell
    <2>3. CASE n > 0
      <3>1. acked' = [acked EXCEPT ![c] = [ep |-> s.ep, n |-> n]]
        BY <1>3, <2>3 DEF Tell
      <3> QED BY <1>2, <2>1, <2>2, <3>1
    <2>4. CASE ~(n > 0)
      <3>1. acked' = acked
        BY <1>3, <2>4 DEF Tell
      <3> QED BY <1>2, <2>2, <3>1
    <2> QED BY <2>3, <2>4
  <1>4. CASE s.todo # <<>>
    <2> DEFINE o == [c |-> c, n |-> n, doc |-> Shown(s)]
    <2> DEFINE t == [s EXCEPT !.owed = @ \cup {o}]
    <2>1. o \in Owings
      BY <1>1 DEF Owings
    <2>2. t \in Stores
      BY <2>1 DEF Stores
    <2>3. t.at = "live" /\ t.ep = s.ep /\ t.todo = s.todo /\ t.owed = s.owed \cup {o}
      BY DEF Stores
    <2>4. mem' = [mem EXCEPT ![p] = t] /\ acked' = acked /\ told' = told
      BY <1>4 DEF Tell
    <2> HIDE DEF t
    <2>5. Fits(t, made)
      BY <1>4, <2>3 DEF Fits
    <2> QED BY <1>2, <2>2, <2>3, <2>4, <2>5
  <1> QED BY <1>3, <1>4

\* A store keeps its types as ops are made.
LEMMA FitsOn ==
  ASSUME NEW m \in Stores, NEW k \in Seqs, Fits(m, k),
         NEW k2 \in Seqs, \A c \in Clients : k[c] <= k2[c]
  PROVE  Fits(m, k2)
  <1>1. ASSUME NEW o \in m.owed
        PROVE  o.n <= k2[o.c]
    <2>1. o.c \in Clients /\ o.n \in 0 .. MaxOps /\ k[o.c] \in Nat /\ k2[o.c] \in Nat
      BY DEF Stores, Owings, Seqs
    <2>2. o.n <= k[o.c] /\ k[o.c] <= k2[o.c]
      BY <2>1 DEF Fits
    <2> QED BY <2>1, <2>2
  <1> QED BY <1>1 DEF Fits

\* No store is one, and fits.
LEMMA NoStoreType ==
  ASSUME Typed
  PROVE  /\ NoStore \in Stores /\ Fits(NoStore, made) /\ NoStore.at = "none"
         /\ Blank.seqs \in Seqs
         /\ \A w \in Places : [NoStore EXCEPT !.at = w] \in Stores /\ [NoStore EXCEPT !.at = w].at = w
              /\ Fits([NoStore EXCEPT !.at = w], made)
  <1>1. Blank.seqs \in Seqs
    BY LeaseAssumption DEF Blank, Seqs
  <1>2. NoStore \in Stores /\ NoStore.at = "none"
    BY <1>1 DEF NoStore, Stores, Places
  <1>4. Fits(NoStore, made)
    BY DEF NoStore, Fits
  <1>5. ASSUME NEW w \in Places
        PROVE  [NoStore EXCEPT !.at = w] \in Stores /\ [NoStore EXCEPT !.at = w].at = w
               /\ Fits([NoStore EXCEPT !.at = w], made)
    <2>1. [NoStore EXCEPT !.at = w] \in Stores /\ [NoStore EXCEPT !.at = w].at = w
      BY <1>2 DEF Stores
    <2>2. Fits([NoStore EXCEPT !.at = w], made)
      BY DEF NoStore, Fits
    <2> QED BY <2>1, <2>2
  <1> QED BY <1>1, <1>2, <1>4, <1>5

\* A store in a process that goes somewhere else in its load.
LEMMA AtType ==
  ASSUME Typed, NEW p \in Procs, NEW w \in Places, w # "live", mem[p].at # "live"
  PROVE  \E s \in Stores : s.at = w /\ Fits(s, made) /\ At(p, w) = [mem EXCEPT ![p] = s]
  <1> DEFINE s == [mem[p] EXCEPT !.at = w]
  <1>1. mem[p] \in Stores
    BY DEF Typed, Types
  <1>2. s \in Stores /\ s.at = w /\ s.ep = mem[p].ep /\ s.todo = mem[p].todo /\ s.owed = mem[p].owed
    BY <1>1 DEF Stores
  <1>3. At(p, w) = [mem EXCEPT ![p] = s]
    BY DEF At
  <1>4. Fits(mem[p], made)
    BY DEF Typed
  <1> HIDE DEF s
  <1>5. Fits(s, made)
    BY <1>2, <1>4 DEF Fits
  <1> QED BY <1>2, <1>3, <1>5

\* The types of the lease, as the actions leave it.
LEMMA LeaseTypes ==
  ASSUME Typed, NEW p \in Procs
  PROVE  /\ [by |-> p, left |-> Ttl + Ahead(p)] \in [by : Procs \cup {Nobody, Dead}, left : Nat]
         /\ Given(p) \in [by : Procs \cup {Nobody, Dead}, left : Nat]
         /\ NoLease \in [by : Procs \cup {Nobody, Dead}, left : Nat]
  <1>1. Ttl + Ahead(p) \in Nat
    BY LeaseAssumption DEF Ahead
  <1>2. NoLease \in [by : Procs \cup {Nobody, Dead}, left : Nat]
    BY DEF NoLease
  <1> QED BY <1>1, <1>2 DEF Given, Typed, Types

\* The rows of a document put back.
LEMMA PutBackTypes ==
  ASSUME Typed, PutBack(Blank)
  PROVE  /\ file' \in Files /\ file'.row <= file'.ver /\ file'.ep = file.ep + 1 /\ file'.ver = 0
         /\ hist' = <<>> /\ base' = Blank
         /\ hist' \in Seq(Clients \X (0 .. MaxOps))
  <1>1. Blank.seqs \in Seqs /\ Blank.ver = 0 /\ Blank.row = 0
    BY NoStoreType DEF Blank
  <1>2. file.ep \in Nat
    BY DEF Typed, Types, Files
  <1>3. file' = [ver |-> 0, ep |-> file.ep + 1, row |-> 0, seqs |-> Blank.seqs, log |-> {}]
        /\ hist' = <<>> /\ base' = Blank
    BY <1>1 DEF PutBack
  <1> QED BY <1>1, <1>2, <1>3 DEF Files

\* The types hold of whoever asks, takes, is refused or reads.
LEMMA TypedLoads ==
  ASSUME Typed, NEW p \in Procs,
         Asks(p) \/ Takes(p) \/ Busy(p) \/ ReadsMeta(p) \/ ReadsRows(p) \/ RestoreTakes(p) \/ Restores(p)
  PROVE  Typed'
  <1>1. mem[p] \in Stores /\ mem \in [Procs -> Stores] /\ (mem[p].at \in Holding <=> p \in held)
        /\ Fits(mem[p], made)
    BY DEF Typed, Types
  <1>2. CASE Asks(p)
    <2>1. PICK s \in Stores : s.at = "asked" /\ Fits(s, made) /\ mem' = [mem EXCEPT ![p] = s]
      BY <1>2, AtType DEF Asks, Places
    <2>2. held' = held \ {p}
      BY <1>1, <1>2 DEF Asks, Holding
    <2> QED BY <1>2, <2>1, <2>2, StoreMoves DEF Asks, Typed, Types, disk, outer, Holding
  <1>3. CASE Takes(p)
    <2>1. PICK s \in Stores : s.at = "took" /\ Fits(s, made) /\ At(p, "took") = [mem EXCEPT ![p] = s]
      BY <1>3, AtType DEF Takes, Places
    <2>2. mem' = Written(p, [mem EXCEPT ![p] = s]) /\ held' = held \cup {p}
      BY <1>3, <2>1 DEF Takes, Taken
    <2>3. lease' \in [by : Procs \cup {Nobody, Dead}, left : Nat]
      BY <1>3, LeaseTypes DEF Takes, Taken
    <2>4. UNCHANGED <<disk, pruned, outer>>
      BY <1>3 DEF Takes, Taken
    <2>5. s.at \in Holding
      BY <2>1 DEF Holding
    <2>6. /\ mem' \in [Procs -> Stores] /\ held' \subseteq Procs
          /\ \A q \in Procs : Fits(mem'[q], made) /\ (mem'[q].at \in Holding <=> q \in held')
      BY <2>1, <2>2, <2>5, StoreMoves
    <2> QED BY <2>3, <2>4, <2>6 DEF Typed, Types, disk, outer
  <1>4. CASE Busy(p)
    <2>1. PICK s \in Stores : s.at = "none" /\ Fits(s, made) /\ mem' = [mem EXCEPT ![p] = s]
      BY <1>4, AtType DEF Busy, Places
    <2>2. held' = held \ {p} /\ lost' \subseteq Procs
      BY <1>1, <1>4 DEF Busy, Holding, Typed, Types
    <2> QED BY <1>4, <2>1, <2>2, StoreMoves DEF Busy, Typed, Types, disk, outer, Holding
  <1>5. CASE ReadsMeta(p)
    <2> DEFINE s == [NoStore EXCEPT !.at = "meta", !.ver = file.ver, !.ep = file.ep]
    <2>1. s \in Stores /\ s.at = "meta"
      BY NoStoreType DEF Stores, Places, Typed, Types, Files
    <2>2. Fits(s, made)
      BY DEF Typed, Types, Files, NoStore, Fits
    <2>3. mem' = [mem EXCEPT ![p] = s] /\ held' = held \cup {p}
      BY <1>1, <1>5 DEF ReadsMeta, Holding
    <2> HIDE DEF s
    <2>4. pruned' \in [Procs -> Int]
      BY <1>5 DEF ReadsMeta, Typed, Types
    <2> QED BY <1>5, <2>1, <2>2, <2>3, <2>4, StoreMoves DEF ReadsMeta, Typed, Types, disk, outer, Holding
  <1>6. CASE ReadsRows(p)
    <2> DEFINE s == [mem[p] EXCEPT !.at = "live", !.row = file.row, !.seqs = file.seqs,
                                   !.log = Recent(file.log, mem[p].ver)]
    <2>1. Recent(file.log, mem[p].ver) \in SUBSET Nat
      BY DEF Recent, Typed, Types, Files
    <2>2. s \in Stores /\ s.at = "live" /\ s.ep = mem[p].ep /\ s.todo = mem[p].todo /\ s.owed = mem[p].owed
      BY <1>1, <2>1 DEF Stores, Places, Typed, Types, Files
    <2>3. mem' = [mem EXCEPT ![p] = s] /\ held' = held \cup {p}
      BY <1>1, <1>6 DEF ReadsRows, Holding
    <2> HIDE DEF s
    <2>4. Fits(s, made)
      BY <1>1, <2>2 DEF Fits
    <2> QED BY <1>6, <2>2, <2>3, <2>4, StoreMoves DEF ReadsRows, Typed, Types, disk, outer, Holding
  <1>7. CASE RestoreTakes(p) /\ Locked(p)
    <2>1. PICK s \in Stores : s.at = "none" /\ Fits(s, made) /\ mem' = [mem EXCEPT ![p] = s]
      BY <1>7, AtType DEF RestoreTakes, Places
    <2>2. held' = held \ {p}
      BY <1>1, <1>7 DEF RestoreTakes, Holding
    <2> QED BY <1>7, <2>1, <2>2, StoreMoves DEF RestoreTakes, Typed, Types, disk, outer, Holding
  <1>8. CASE RestoreTakes(p) /\ ~Locked(p)
    <2>1. PICK s \in Stores : s.at = "replaces" /\ Fits(s, made)
                              /\ At(p, "replaces") = [mem EXCEPT ![p] = s]
      BY <1>8, AtType DEF RestoreTakes, Places
    <2>2. mem' = Written(p, [mem EXCEPT ![p] = s]) /\ held' = held \cup {p}
      BY <1>8, <2>1 DEF RestoreTakes, Taken
    <2>3. lease' \in [by : Procs \cup {Nobody, Dead}, left : Nat]
      BY <1>8, LeaseTypes DEF RestoreTakes, Taken
    <2>4. UNCHANGED <<disk, pruned, outer>>
      BY <1>8 DEF RestoreTakes, Taken
    <2>5. s.at \in Holding
      BY <2>1 DEF Holding
    <2>6. /\ mem' \in [Procs -> Stores] /\ held' \subseteq Procs
          /\ \A q \in Procs : Fits(mem'[q], made) /\ (mem'[q].at \in Holding <=> q \in held')
      BY <2>1, <2>2, <2>5, StoreMoves
    <2> QED BY <2>3, <2>4, <2>6 DEF Typed, Types, disk, outer
  <1>9. CASE Restores(p)
    <2> DEFINE s == [NoStore EXCEPT !.at = "restores"]
    <2>1. s \in Stores /\ s.at = "restores" /\ Fits(s, made)
      BY NoStoreType DEF Places
    <2>2. mem' = Written(p, [mem EXCEPT ![p] = s]) /\ held' = held \ {p}
      BY <1>9 DEF Restores
    <2> HIDE DEF s
    <2> QED BY <1>9, <2>1, <2>2, StoreMoves, LeaseTypes DEF Restores, Typed, Types, disk, outer, Holding
  <1> QED BY <1>2, <1>3, <1>4, <1>5, <1>6, <1>7, <1>8, <1>9

\* And of whoever lets go of a store, whatever the reason.
LEMMA TypedEnds ==
  ASSUME Typed, NEW p \in Procs,
         Refused(p) \/ CommitFails(p) \/ Releases(p) \/ Crashes(p)
  PROVE  Typed'
  <1>1. NoStore \in Stores /\ Fits(NoStore, made) /\ NoStore.at \notin Holding
    BY NoStoreType DEF Holding
  <1>2. /\ mem' = [mem EXCEPT ![p] = NoStore] \/ mem' = Written(p, [mem EXCEPT ![p] = NoStore])
        /\ held' = held \ {p}
    BY DEF Refused, CommitFails, Releases, Crashes, Unloaded
  <1>3. lease' \in [by : Procs \cup {Nobody, Dead}, left : Nat]
    BY SMTT(60), LeaseTypes DEF Refused, CommitFails, Releases, Crashes, Unloaded, Typed, Types
  <1>4. turns' \in Nat
    BY DEF Refused, CommitFails, Releases, Crashes, Bounded, Typed, Types, outer
  <1>5. UNCHANGED <<disk, pruned, made, acked, told, lost>>
    BY DEF Refused, CommitFails, Releases, Crashes, disk, outer
  <1> QED BY <1>1, <1>2, <1>3, <1>4, <1>5, StoreMoves DEF Typed, Types, disk

\* And of what a document is put back in.
LEMMA TypedReplaced ==
  ASSUME Typed, (\E p \in Procs : RestoreWrites(p)) \/ Removes
  PROVE  Typed'
  <1>1. PutBack(Blank)
    BY DEF RestoreWrites, Removes
  <1>2. /\ file' \in Files /\ file'.row <= file'.ver /\ file'.ep = file.ep + 1
        /\ base' = Blank /\ hist' \in Seq(Clients \X (0 .. MaxOps)) /\ file.ep \in Nat
    BY <1>1, PutBackTypes DEF Typed, Types, Files
  <1>4. CASE Removes
    <2>1. /\ mem' \in [Procs -> Stores]
          /\ \A q \in Procs : \/ mem'[q] = mem[q]
                              \/ mem[q].at = "asked" /\ mem'[q] = [mem[q] EXCEPT !.at = "stale"]
      <3>1. mem' = Written(Nobody, mem) /\ mem \in [Procs -> Stores]
        BY <1>4 DEF Removes, Typed, Types
      <3> QED BY <3>1, WrittenShape
    <2>2. ASSUME NEW q \in Procs
          PROVE  Fits(mem'[q], made) /\ (mem'[q].at \in Holding <=> q \in held)
      <3>1. CASE mem'[q] = mem[q]
        BY <3>1 DEF Typed
      <3>2. CASE mem[q].at = "asked" /\ mem'[q] = [mem[q] EXCEPT !.at = "stale"]
        <4>1. mem[q] \in Stores
          BY DEF Typed, Types
        <4>2. /\ mem'[q].at = "stale" /\ mem'[q].todo = mem[q].todo /\ mem'[q].owed = mem[q].owed
              /\ mem'[q].ep = mem[q].ep
          BY <3>2, <4>1 DEF Stores
        <4>3. Fits(mem'[q], made)
          BY <3>2, <4>2 DEF Fits, Typed
        <4> QED BY <3>2, <4>2, <4>3 DEF Holding, Typed
      <3> QED BY <2>1, <3>1, <3>2
    <2>4. NoLease \in [by : Procs \cup {Nobody, Dead}, left : Nat]
      BY DEF NoLease
    <2> QED BY <1>2, <1>4, <2>1, <2>2, <2>4 DEF Removes, Typed, Types, outer
  <1>5. ASSUME NEW p \in Procs, RestoreWrites(p)
        PROVE  Typed'
    <2>1. /\ mem' = Written(p, [mem EXCEPT ![p] = NoStore]) /\ held' = held \ {p}
          /\ NoStore \in Stores /\ Fits(NoStore, made) /\ NoStore.at \notin Holding
      BY <1>5, NoStoreType DEF RestoreWrites, Unloaded, Holding
    <2>2. /\ mem' \in [Procs -> Stores] /\ held' \subseteq Procs
          /\ \A q \in Procs : Fits(mem'[q], made) /\ (mem'[q].at \in Holding <=> q \in held')
      BY <2>1, StoreMoves
    <2>4. pruned' \in [Procs -> Int] /\ lease' \in [by : Procs \cup {Nobody, Dead}, left : Nat]
      BY <1>5, LeaseTypes DEF RestoreWrites, Unloaded, Typed, Types
    <2> QED BY <1>2, <1>5, <2>2, <2>4 DEF RestoreWrites, Typed, Types, outer
  <1> QED BY <1>4, <1>5

\* And of what is told, or kept to be told.
LEMMA TypedTells ==
  ASSUME Typed, NEW p \in Procs, Answers(p) \/ \E c \in Clients : Writes(p, c)
  PROVE  Typed'
  <1>1. mem[p].at = "live" /\ mem[p] \in Stores /\ Fits(mem[p], made) /\ p \in held
    BY DEF Answers, Writes, Typed, Types, Holding
  <1>2. ASSUME NEW s \in Stores, s.at = "live", Fits(s, made),
               NEW c \in Clients, NEW n \in 0 .. MaxOps, n <= made[c], Tell(p, s, c, n),
               UNCHANGED <<disk, lease, held, pruned, made, lost, turns>>
        PROVE  Typed'
    <2>1. /\ acked' \in [Clients -> [ep : Nat, n : 0 .. MaxOps]] /\ told' \subseteq Docs
          /\ \A d \in Clients : acked'[d].n <= made[d]
      BY <1>1, <1>2, TellTypes
    <2>2. PICK t \in Stores : t.at = "live" /\ Fits(t, made) /\ mem' = [mem EXCEPT ![p] = t]
      BY <1>1, <1>2, TellTypes
    <2>3. held' = held \cup {p} /\ t.at \in Holding
      BY <1>1, <1>2, <2>2 DEF Holding
    <2>4. /\ mem' \in [Procs -> Stores] /\ held' \subseteq Procs
          /\ \A q \in Procs : Fits(mem'[q], made) /\ (mem'[q].at \in Holding <=> q \in held')
      BY <2>2, <2>3, StoreMoves
    <2> QED BY <1>2, <2>1, <2>4 DEF Typed, Types, disk
  <1>3. CASE Answers(p)
    <2>1. PICK c \in Clients : Tell(p, mem[p], c, 0)
      BY <1>3 DEF Answers
    <2>2. 0 \in 0 .. MaxOps /\ 0 <= made[c]
      BY LeaseAssumption DEF Typed, Types, Seqs
    <2> QED BY <1>1, <1>2, <1>3, <2>1, <2>2 DEF Answers
  <1>4. ASSUME NEW c \in Clients, Writes(p, c)
        PROVE  Typed'
    <2>1. made[c] \in 0 .. MaxOps /\ made[c] <= made[c] /\ made \in Seqs
      BY DEF Typed, Types, Seqs
    <2>2. LET s == Decided(mem[p], c, made[c]) IN s \in Stores /\ s.at = "live" /\ Fits(s, made)
      BY <1>1, <2>1, DecidedTypes
    <2> QED BY <1>2, <1>4, <2>1, <2>2 DEF Writes
  <1> QED BY <1>3, <1>4

\* And of a commit.
LEMMA TypedCommit ==
  ASSUME Typed, NEW p \in Procs, Commit(p)
  PROVE  Typed'
  <1> DEFINE m == mem[p]
  <1> DEFINE s == [m EXCEPT !.todo = <<>>, !.owed = {}]
  <1> DEFINE floor == m.todo[Len(m.todo)].floor
  <1> DEFINE fl == IF Prunes(p, floor) THEN floor ELSE 0
  <1>1. m \in Stores /\ m.at = "live" /\ m.todo \in Seq(Changes) /\ m.todo # <<>> /\ p \in held
        /\ Fits(m, made) /\ m.ep \in Nat
    BY DEF Commit, Typed, Types, Holding, Stores, Fits
  <1>2. \A i \in 1 .. Len(m.todo) : m.todo[i].row <= m.todo[i].ver
    BY <1>1 DEF Fits
  <1>3. file' = Merged(file, m.todo, m.ep, fl)
    BY DEF Commit
  <1>4. file' \in Files /\ file'.row <= file'.ver /\ file'.ep = m.ep
    <2>1. file \in Files
      BY DEF Typed, Types
    <2> HIDE DEF m, fl
    <2>2. Merged(file, m.todo, m.ep, fl) \in Files
          /\ Merged(file, m.todo, m.ep, fl).row <= Merged(file, m.todo, m.ep, fl).ver
      BY <1>1, <1>2, <2>1, MergedTypes
    <2>3. Merged(file, m.todo, m.ep, fl).ep = m.ep
      BY DEF Merged
    <2> QED BY <1>3, <2>2, <2>3
  <1>5. hist' \in Seq(Clients \X (0 .. MaxOps))
    <2> DEFINE new == [i \in 1 .. Len(m.todo) |-> <<m.todo[i].c, m.todo[i].n>>]
    <2>1. ASSUME NEW i \in 1 .. Len(m.todo)
          PROVE  <<m.todo[i].c, m.todo[i].n>> \in Clients \X (0 .. MaxOps)
      <3>1. m.todo[i] \in Changes
        BY <1>1
      <3> QED BY <3>1 DEF Changes
    <2>2. Len(m.todo) \in Nat
      BY <1>1
    <2>3. new \in Seq(Clients \X (0 .. MaxOps))
      BY <2>1, <2>2
    <2>4. hist' = hist \o new /\ hist \in Seq(Clients \X (0 .. MaxOps))
      BY DEF Commit, Typed, Types
    <2> HIDE DEF new
    <2> QED BY <2>3, <2>4
  <1>6. s \in Stores /\ s.at = "live" /\ Fits(s, made)
    <2>1. <<>> \in Seq(Changes) /\ {} \in SUBSET Owings
      OBVIOUS
    <2>2. s \in Stores /\ s.at = "live" /\ s.todo = <<>> /\ s.owed = {}
      BY <1>1, <2>1 DEF Stores
    <2> HIDE DEF s
    <2> QED BY <2>2 DEF Fits
  <1>7. mem' = Written(p, [mem EXCEPT ![p] = s]) /\ held' = held \cup {p}
    <2>1. [mem EXCEPT ![p].todo = <<>>, ![p].owed = {}] = [mem EXCEPT ![p] = s]
      BY <1>1 DEF Typed, Types
    <2> QED BY <1>1, <2>1 DEF Commit
  <1>8. /\ mem' \in [Procs -> Stores] /\ held' \subseteq Procs
        /\ \A q \in Procs : Fits(mem'[q], made) /\ (mem'[q].at \in Holding <=> q \in held')
    <2> HIDE DEF s
    <2>1. s.at \in Holding
      BY <1>6 DEF Holding
    <2> QED BY <1>6, <1>7, <2>1, StoreMoves
  <1>9. /\ acked' \in [Clients -> [ep : Nat, n : 0 .. MaxOps]]
        /\ \A c \in Clients : acked'[c].n <= made[c]
    <2>1. ASSUME NEW c \in Clients
          PROVE  acked'[c] \in [ep : Nat, n : 0 .. MaxOps] /\ acked'[c].n <= made[c]
      <3>1. CASE Acks(m.owed, c) = {}
        BY <3>1 DEF Commit, Typed, Types
      <3>2. CASE Acks(m.owed, c) # {}
        <4> HIDE DEF m
        <4>1. PICK o \in m.owed : o.c = c /\ Latest(Acks(m.owed, c)) = o.n
          BY <1>1, <3>2, AcksLatest
        <4>2. acked'[c] = [ep |-> m.ep, n |-> o.n]
          BY <3>2, <4>1 DEF Commit, m
        <4>3. o.n \in 0 .. MaxOps /\ o.n <= made[c]
          BY <1>1, <4>1 DEF Stores, Owings, Fits
        <4> QED BY <1>1, <4>1, <4>2, <4>3
      <3> QED BY <3>1, <3>2
    <2> HIDE DEF m
    <2>2. acked' = [c \in Clients |-> acked'[c]]
      BY DEF Commit
    <2> QED BY <2>1, <2>2
  <1>10. told' \subseteq Docs
    <2>1. \A o \in m.owed : o.doc \in Docs
      BY <1>1 DEF Stores, Owings
    <2>2. told' = told \cup {o.doc : o \in m.owed}
      BY DEF Commit
    <2> HIDE DEF m
    <2> QED BY <2>1, <2>2 DEF Typed, Types
  <1>11. pruned' \in [Procs -> Int] /\ lease' \in [by : Procs \cup {Nobody, Dead}, left : Nat]
    <2>1. floor \in Int
      <3>1. m.todo[Len(m.todo)] \in Changes
        BY <1>1
      <3> QED BY <3>1 DEF Changes
    <2>2. pruned' = pruned \/ pruned' = [pruned EXCEPT ![p] = floor]
      BY DEF Commit
    <2>3. lease' = lease \/ lease' = [by |-> p, left |-> Ttl + Ahead(p)]
      BY DEF Commit
    <2> HIDE DEF floor, m
    <2> QED BY <2>1, <2>2, <2>3, LeaseTypes DEF Typed, Types
  <1>12. UNCHANGED <<base, made, lost, turns>>
    BY DEF Commit
  <1> HIDE DEF m, s, floor, fl
  <1> QED BY <1>4, <1>5, <1>8, <1>9, <1>10, <1>11, <1>12 DEF Typed, Types

\* The types hold to begin with.
LEMMA TypedInit == Init => Typed
  <1> SUFFICES ASSUME Init PROVE Typed
    OBVIOUS
  <1>1. Blank.seqs \in Seqs /\ Blank.ver = 0
    BY LeaseAssumption DEF Blank, Seqs
  <1>2. NoStore \in Stores /\ NoStore.at = "none" /\ Fits(NoStore, made)
    BY <1>1 DEF NoStore, Stores, Places, Fits
  <1>3. file \in Files /\ file.row <= file.ver
    BY <1>1 DEF Init, Files
  <1>4. made \in Seqs /\ acked \in [Clients -> [ep : Nat, n : 0 .. MaxOps]]
        /\ \A c \in Clients : acked[c].n <= made[c]
    BY LeaseAssumption DEF Init, Seqs
  <1>5. NoLease \in [by : Procs \cup {Nobody, Dead}, left : Nat]
    BY DEF NoLease
  <1>6. mem \in [Procs -> Stores] /\ pruned \in [Procs -> Int] /\ hist \in Seq(Clients \X (0 .. MaxOps))
    BY <1>2 DEF Init
  <1>7. \A p \in Procs : Fits(mem[p], made) /\ (mem[p].at \in Holding <=> p \in held)
    BY <1>2 DEF Init, Holding
  <1> QED BY <1>3, <1>4, <1>5, <1>6, <1>7 DEF Init, Typed, Types

\* And after each step.
LEMMA TypedStep ==
  ASSUME Typed, [Next]_vars
  PROVE  Typed'
  <1>1. ASSUME NEW p \in Procs, Renew(p)
        PROVE  Typed'
    <2>1. /\ mem' \in [Procs -> Stores]
          /\ \A q \in Procs : \/ mem'[q] = mem[q]
                              \/ mem[q].at = "asked" /\ mem'[q] = [mem[q] EXCEPT !.at = "stale"]
      <3>1. mem' = Written(p, mem) /\ mem \in [Procs -> Stores]
        BY <1>1 DEF Renew, Typed, Types
      <3> QED BY <3>1, WrittenShape
    <2>2. ASSUME NEW q \in Procs
          PROVE  Fits(mem'[q], made) /\ (mem'[q].at \in Holding <=> q \in held)
      <3>1. CASE mem'[q] = mem[q]
        BY <3>1 DEF Typed
      <3>2. CASE mem[q].at = "asked" /\ mem'[q] = [mem[q] EXCEPT !.at = "stale"]
        <4>1. mem[q] \in Stores
          BY DEF Typed, Types
        <4>2. mem'[q].at = "stale" /\ mem'[q].todo = mem[q].todo /\ mem'[q].owed = mem[q].owed
          BY <3>2, <4>1 DEF Stores
        <4>3. Fits(mem'[q], made)
          BY <3>2, <4>2 DEF Fits, Typed
        <4> QED BY <3>2, <4>2, <4>3 DEF Holding, Typed
      <3> QED BY <2>1, <3>1, <3>2
    <2>3. lease' \in [by : Procs \cup {Nobody, Dead}, left : Nat]
      BY <1>1, LeaseTypes DEF Renew
    <2> QED BY <1>1, <2>1, <2>2, <2>3 DEF Renew, Typed, Types, disk, outer
  <1>2. ASSUME NEW c \in Clients, Makes(c)
        PROVE  Typed'
    <2>1. made' \in Seqs /\ made \in Seqs /\ \A d \in Clients : made[d] <= made'[d]
      BY <1>2, LeaseAssumption DEF Makes, Typed, Types, Seqs
    <2>2. \A q \in Procs : Fits(mem[q], made')
      BY <2>1, FitsOn DEF Typed, Types
    <2>3. ASSUME NEW d \in Clients
          PROVE  acked[d].n <= made'[d]
      <3>1. acked[d].n \in Nat /\ acked[d].n <= made[d] /\ made[d] <= made'[d]
            /\ made[d] \in Nat /\ made'[d] \in Nat
        BY <2>1, LeaseAssumption DEF Typed, Types, Seqs
      <3> QED BY <3>1
    <2> QED BY <1>2, <2>1, <2>2, <2>3 DEF Makes, Typed, Types, disk
  <1>3. CASE Tick
    <2>1. lease' \in [by : Procs \cup {Nobody, Dead}, left : Nat]
      <3>1. lease.left \in Nat /\ lease.left > 0 /\ lease' = [lease EXCEPT !.left = lease.left - 1]
        BY <1>3 DEF Tick, Typed, Types
      <3>2. lease.left - 1 \in Nat
        BY <3>1
      <3> QED BY <3>1, <3>2 DEF Typed, Types
    <2> QED BY <1>3, <2>1 DEF Tick, Typed, Types, disk, outer
  <1>4. CASE UNCHANGED vars
    BY <1>4 DEF vars, disk, outer, Typed, Types
  <1>5. CASE Removes
    BY <1>5, TypedReplaced
  <1>6. ASSUME NEW p \in Procs,
               Asks(p) \/ Serves(p) \/ Answers(p) \/ Commit(p) \/ Refused(p) \/ CommitFails(p)
                 \/ Releases(p) \/ Crashes(p) \/ Restores(p) \/ \E c \in Clients : Writes(p, c)
        PROVE  Typed'
    BY <1>6, TypedLoads, TypedEnds, TypedReplaced, TypedTells, TypedCommit DEF Serves
  <1> QED BY <1>1, <1>2, <1>3, <1>4, <1>5, <1>6 DEF Next

-----------------------------------------------------------------------------
(* Nobody is robbed of a lease that lasts.                                 *)

\* A write to the file leaves nobody who looked at the lease before it.
LEMMA WrittenAsks ==
  ASSUME NEW p, NEW m \in [Procs -> Stores], p \in Procs => m[p].at # "asked"
  PROVE  \A q \in Procs : Written(p, m)[q].at # "asked"
  <1>1. ASSUME NEW q \in Procs
        PROVE  Written(p, m)[q].at # "asked"
    <2>1. CASE Written(p, m)[q] = m[q] /\ (m[q].at = "asked" => q = p)
      BY <2>1
    <2>2. CASE m[q].at = "asked" /\ Written(p, m)[q] = [m[q] EXCEPT !.at = "stale"]
      <3>1. m[q] \in Stores
        OBVIOUS
      <3> QED BY <2>2, <3>1 DEF Stores
    <2> QED BY <2>1, <2>2, WrittenShape
  <1> QED BY <1>1

\* A step is a write, after which no process has looked at the lease and not taken it, or
\* leaves the lease, or takes time off it or its process.
LEMMA AskedSteps ==
  ASSUME Typed, [Next]_vars
  PROVE  \/ \A q \in Procs : mem'[q].at # "asked"
         \/ /\ lease'.by = lease.by \/ lease'.by = Dead
            /\ lease'.left <= lease.left
            /\ \A q \in Procs :
                 mem'[q].at = "asked" => \/ mem[q].at = "asked" /\ (lease'.by # lease.by => lease.by \in Procs \ {q})
                                         \/ mem[q].at = "none" /\ ~Locked(q) /\ lease' = lease
  <1> DEFINE Idle == \A q \in Procs : mem'[q].at # "asked"
  <1> DEFINE Easy == /\ lease'.by = lease.by \/ lease'.by = Dead
                     /\ lease'.left <= lease.left
                     /\ \A q \in Procs :
                          mem'[q].at = "asked" => \/ mem[q].at = "asked" /\ (lease'.by # lease.by => lease.by \in Procs \ {q})
                                                  \/ mem[q].at = "none" /\ ~Locked(q) /\ lease' = lease
  <1>1. mem \in [Procs -> Stores] /\ lease.left \in Nat
    BY DEF Typed, Types
  <1>2. ASSUME NEW p \in Procs, NEW s, s.at # "asked", mem' = [mem EXCEPT ![p] = s], lease' = lease
        PROVE  Easy
    BY <1>1, <1>2
  <1>3. ASSUME NEW p \in Procs, NEW s \in Stores, s.at # "asked", mem' = Written(p, [mem EXCEPT ![p] = s])
        PROVE  Idle
    <2> DEFINE m == [mem EXCEPT ![p] = s]
    <2>1. m \in [Procs -> Stores] /\ m[p].at # "asked"
      BY <1>1, <1>3
    <2> HIDE DEF m
    <2> QED BY <1>3, <2>1, WrittenAsks DEF m
  <1>4. NoStore \in Stores /\ NoStore.at = "none" /\ [NoStore EXCEPT !.at = "restores"] \in Stores
        /\ [NoStore EXCEPT !.at = "restores"].at = "restores"
    BY NoStoreType DEF Places
  <1>5. ASSUME NEW p \in Procs, NEW w \in {"took", "replaces"}, mem[p].at # "live", Taken(p, w)
        PROVE  Idle
    <2>1. PICK s \in Stores : s.at = w /\ At(p, w) = [mem EXCEPT ![p] = s]
      BY <1>5, AtType DEF Places
    <2> QED BY <1>3, <1>5, <2>1 DEF Taken
  <1>6. ASSUME NEW p \in Procs, Takes(p) \/ RestoreTakes(p)
        PROVE  Idle \/ Easy
    <2>1. CASE Takes(p) \/ ~Locked(p)
      BY <1>5, <1>6, <2>1 DEF Takes, RestoreTakes
    <2>2. CASE RestoreTakes(p) /\ Locked(p)
      <3>1. PICK s \in Stores : s.at = "none" /\ mem' = [mem EXCEPT ![p] = s]
        BY <2>2, AtType DEF RestoreTakes, Places
      <3> QED BY <1>2, <2>2, <3>1 DEF RestoreTakes
    <2> QED BY <1>6, <2>1, <2>2
  <1>7. ASSUME NEW p \in Procs, Asks(p)
        PROVE  Easy
    <2>1. \A q \in Procs : q # p => mem'[q] = mem[q]
      BY <1>1, <1>7 DEF Asks, At
    <2> QED BY <1>1, <1>7, <2>1 DEF Asks
  <1>8. ASSUME NEW p \in Procs, Busy(p) \/ ReadsMeta(p) \/ ReadsRows(p) \/ Refused(p)
        PROVE  Easy
    <2>1. CASE Busy(p)
      <3>1. PICK s \in Stores : s.at = "none" /\ mem' = [mem EXCEPT ![p] = s]
        BY <2>1, AtType DEF Busy, Places
      <3> QED BY <1>2, <2>1, <3>1 DEF Busy
    <2>2. CASE ReadsMeta(p)
      <3> DEFINE s == [NoStore EXCEPT !.at = "meta", !.ver = file.ver, !.ep = file.ep]
      <3>1. s.at = "meta" /\ mem' = [mem EXCEPT ![p] = s] /\ lease' = lease
        BY <1>4, <2>2 DEF ReadsMeta, Stores
      <3> HIDE DEF s
      <3> QED BY <1>2, <3>1
    <2>3. CASE ReadsRows(p)
      <3> DEFINE s == [mem[p] EXCEPT !.at = "live", !.row = file.row, !.seqs = file.seqs,
                                     !.log = Recent(file.log, mem[p].ver)]
      <3>1. s.at = "live" /\ mem' = [mem EXCEPT ![p] = s] /\ lease' = lease
        BY <1>1, <2>3 DEF ReadsRows, Stores
      <3> HIDE DEF s
      <3> QED BY <1>2, <3>1
    <2>4. CASE Refused(p)
      BY <1>2, <1>4, <2>4 DEF Refused
    <2> QED BY <1>8, <2>1, <2>2, <2>3, <2>4
  <1>9. ASSUME NEW p \in Procs, CommitFails(p) \/ Releases(p) \/ RestoreWrites(p) \/ Restores(p)
        PROVE  Idle
    BY <1>3, <1>4, <1>9 DEF CommitFails, Releases, RestoreWrites, Restores, Unloaded
  <1>10. ASSUME NEW p \in Procs, Crashes(p)
         PROVE  Easy
    <2>1. mem' = [mem EXCEPT ![p] = NoStore]
          /\ (IF lease.by = p THEN lease' = [lease EXCEPT !.by = Dead] ELSE lease' = lease)
      BY <1>10 DEF Crashes
    <2>2. \A q \in Procs : mem'[q].at = "asked" => q # p /\ mem[q].at = "asked"
      BY <1>1, <1>4, <2>1
    <2>3. CASE lease.by = p
      <3>1. lease'.by = Dead /\ lease'.left = lease.left
        BY <2>1, <2>3 DEF Typed, Types
      <3> QED BY <1>1, <2>2, <2>3, <3>1
    <2>4. CASE lease.by # p
      BY <1>1, <2>1, <2>2, <2>4
    <2> QED BY <2>3, <2>4
  <1>11. ASSUME NEW p \in Procs, Commit(p)
         PROVE  Idle
    <2> DEFINE s == [mem[p] EXCEPT !.todo = <<>>, !.owed = {}]
    <2>1. [mem EXCEPT ![p].todo = <<>>, ![p].owed = {}] = [mem EXCEPT ![p] = s]
      BY <1>1
    <2>2. mem[p] \in Stores /\ mem[p].at = "live" /\ <<>> \in Seq(Changes)
      BY <1>1, <1>11 DEF Commit
    <2>3. s \in Stores /\ s.at = "live"
      BY <2>2 DEF Stores
    <2>4. mem' = Written(p, [mem EXCEPT ![p] = s])
      BY <1>11, <2>1 DEF Commit
    <2> HIDE DEF s
    <2> QED BY <1>3, <2>3, <2>4
  <1>12. ASSUME NEW p \in Procs, Renew(p)
         PROVE  Idle
    <2>1. mem[p].at # "asked"
      BY <1>12 DEF Renew, Typed, Holding
    <2> QED BY <1>1, <1>12, <2>1, WrittenAsks DEF Renew
  <1>13. CASE Removes
    BY <1>1, <1>13, WrittenAsks, LeaseAssumption DEF Removes
  <1>14. ASSUME NEW p \in Procs, NEW s \in Stores, s.at = "live", NEW c, NEW n, Tell(p, s, c, n), lease' = lease
         PROVE  Easy
    <2>1. CASE s.todo = <<>>
      BY <1>2, <1>14, <2>1 DEF Tell
    <2>2. CASE s.todo # <<>>
      <3> DEFINE t == [s EXCEPT !.owed = @ \cup {[c |-> c, n |-> n, doc |-> Shown(s)]}]
      <3>1. t.at = "live" /\ mem' = [mem EXCEPT ![p] = t]
        BY <1>14, <2>2 DEF Tell, Stores
      <3> HIDE DEF t
      <3> QED BY <1>2, <1>14, <3>1
    <2> QED BY <2>1, <2>2
  <1>15. ASSUME NEW p \in Procs, Answers(p) \/ \E c \in Clients : Writes(p, c)
         PROVE  Easy
    <2>1. CASE Answers(p)
      BY <1>1, <1>14, <2>1 DEF Answers
    <2>2. ASSUME NEW c \in Clients, Writes(p, c)
          PROVE  Easy
      <3>1. made[c] \in 0 .. MaxOps /\ mem[p] \in Stores /\ mem[p].at = "live" /\ Fits(mem[p], made)
            /\ made \in Seqs
        BY <2>2 DEF Writes, Typed, Types, Seqs
      <3>2. Decided(mem[p], c, made[c]) \in Stores /\ Decided(mem[p], c, made[c]).at = "live"
        BY <3>1, DecidedTypes
      <3> QED BY <1>14, <2>2, <3>2 DEF Writes
    <2> QED BY <1>15, <2>1, <2>2
  <1>16. CASE Tick \/ (\E c \in Clients : Makes(c)) \/ UNCHANGED vars
    BY <1>1, <1>16 DEF Tick, Makes, vars, Typed, Types
  <1> QED BY <1>6, <1>7, <1>8, <1>9, <1>10, <1>11, <1>12, <1>13, <1>15, <1>16 DEF Next, Serves

\* Whoever looked at the lease, and has not taken it, could.
LEMMA AskedStep ==
  ASSUME Typed, AskedInTime, [Next]_vars
  PROVE  AskedInTime'
  <1>1. CASE \A q \in Procs : mem'[q].at # "asked"
    BY <1>1 DEF AskedInTime
  <1>2. CASE /\ lease'.by = lease.by \/ lease'.by = Dead
             /\ lease'.left <= lease.left
             /\ \A q \in Procs :
                  mem'[q].at = "asked" => \/ mem[q].at = "asked" /\ (lease'.by # lease.by => lease.by \in Procs \ {q})
                                          \/ mem[q].at = "none" /\ ~Locked(q) /\ lease' = lease
    <2> SUFFICES ASSUME NEW q \in Procs, mem'[q].at = "asked" PROVE ~Locked(q)'
      BY DEF AskedInTime
    <2>1. lease.left \in Nat /\ lease'.left \in Nat /\ Ahead(q) \in Nat
      BY TypedStep, LeaseAssumption DEF Typed, Types, Ahead
    <2>2. CASE mem[q].at = "none" /\ ~Locked(q) /\ lease' = lease
      BY <2>2 DEF Locked, Ahead
    <2>3. CASE mem[q].at = "asked" /\ (lease'.by # lease.by => lease.by \in Procs \ {q})
      <3>1. ~Locked(q)
        BY <2>3 DEF AskedInTime
      <3>2. lease'.left > Ahead(q) => lease.left > Ahead(q)
        BY <1>2, <2>1
      <3>3. CASE lease'.by = lease.by
        BY <3>1, <3>2, <3>3 DEF Locked, Ahead
      <3>4. CASE lease'.by # lease.by
        BY <1>2, <2>3, <3>1, <3>2, <3>4, LeaseAssumption DEF Locked, Ahead
      <3> QED BY <3>3, <3>4
    <2> QED BY <1>2, <2>2, <2>3
  <1> QED BY <1>1, <1>2, AskedSteps

\* 33-36: no process is robbed of a lease that lasts by every clock, whatever stalls, dies,
\* fails or is put back.
THEOREM Kept == Spec => NoneIsRobbed
  <1> DEFINE Robs ==
        \A p \in Procs :
          lease.by = p /\ p \in held /\ (\A q \in Procs : lease.left > Ahead(q)) /\ lease'.by # p
            => p \notin held' \/ file'.ep # file.ep
  <1>1. Init => Typed /\ AskedInTime
    <2>1. Init => AskedInTime
      BY DEF Init, AskedInTime, NoStore
    <2> QED BY <2>1, TypedInit
  <1>2. Typed /\ AskedInTime /\ [Next]_vars => (Typed /\ AskedInTime)'
    BY TypedStep, AskedStep
  <1>3. ASSUME Typed, AskedInTime, [Next]_vars
        PROVE  Robs
    <2> SUFFICES ASSUME NEW p \in Procs, lease.by = p, p \in held,
                        \A q \in Procs : lease.left > Ahead(q), lease'.by # p
                 PROVE  p \notin held' \/ file'.ep # file.ep
      OBVIOUS
    <2>1. \A q \in Procs : q # p => Locked(q)
      BY LeaseAssumption DEF Locked
    <2>2. ASSUME NEW q \in Procs, Takes(q) \/ RestoreTakes(q)
          PROVE  FALSE
      <3>1. (~Locked(q) /\ lease'.by = q) \/ lease' = lease
        BY <1>3, <2>2 DEF Takes, RestoreTakes, Taken, AskedInTime
      <3> QED BY <2>1, <3>1
    <2>3. ASSUME NEW q \in Procs, RestoreWrites(q)
          PROVE  p \notin held' \/ file'.ep # file.ep
      BY <1>3, <2>3, PutBackTypes DEF RestoreWrites, Typed, Types, Files
    <2>4. CASE Removes
      BY <1>3, <2>4, PutBackTypes DEF Removes, Typed, Types, Files
    <2>5. ASSUME NEW q \in Procs, Refused(q) \/ CommitFails(q) \/ Releases(q) \/ Crashes(q) \/ Restores(q)
          PROVE  p \notin held'
      BY <2>5 DEF Refused, CommitFails, Releases, Crashes, Restores, Unloaded, Given
    <2>6. ASSUME NEW q \in Procs,
                 Asks(q) \/ Busy(q) \/ ReadsMeta(q) \/ ReadsRows(q) \/ Answers(q) \/ \E c \in Clients : Writes(q, c)
          PROVE  FALSE
      BY <2>6 DEF Asks, Busy, ReadsMeta, ReadsRows, Answers, Writes
    <2>7. ASSUME NEW q \in Procs, Renew(q) \/ Commit(q)
          PROVE  FALSE
      BY <2>7 DEF Renew, Commit, Ours
    <2>8. CASE Tick \/ (\E c \in Clients : Makes(c)) \/ UNCHANGED vars
      BY <1>3, <2>8 DEF Tick, Makes, vars, Typed, Types
    <2> QED BY <1>3, <2>2, <2>3, <2>4, <2>5, <2>6, <2>7, <2>8 DEF Next, Serves
  <1>4. Typed /\ AskedInTime /\ [Next]_vars => [Robs]_vars
    BY <1>3
  <1> QED BY <1>1, <1>2, <1>4, PTL DEF Spec, NoneIsRobbed

-----------------------------------------------------------------------------
(* One history, as long as nobody stalls in the middle of a call.          *)

\* The record at a version, when an epoch begins with nothing.
LEMMA RowAtIs ==
  ASSUME Types, NEW v \in Nat
  PROVE  RowAt(v) = IF v = 0 THEN 0 ELSE Effect(hist[v][2], v)
  <1>1. base.ver = 0 /\ base.row = 0
    BY DEF Types, Blank
  <1> QED BY <1>1 DEF RowAt

\* A store that was decided one op more is in order yet.
LEMMA DecidedOrdered ==
  ASSUME NEW m \in Stores, NEW c \in Clients, NEW n \in 0 .. MaxOps, Ordered(m)
  PROVE  LET s == Decided(m, c, n) IN
         /\ Ordered(s) /\ s.ep = m.ep /\ n <= s.seqs[c]
         /\ s.todo # <<>> => s.todo[Len(s.todo)].ver = s.ver /\ s.todo[Len(s.todo)].row = s.row
         /\ s.todo = <<>> => s = m
  <1>1. m.ver \in Nat /\ m.todo \in Seq(Changes) /\ m.seqs \in [Clients -> 0 .. MaxOps] /\ n \in Nat
        /\ Len(m.todo) \in Nat /\ MaxOps \in Nat /\ m.log \in SUBSET Nat
    BY LeaseAssumption DEF Stores, Seqs
  <1>2. CASE n <= m.seqs[c]
    <2>1. Decided(m, c, n) = m
      BY <1>2 DEF Decided
    <2>2. m.todo # <<>> => m.todo[Len(m.todo)].ver = m.ver /\ m.todo[Len(m.todo)].row = m.row
      <3> SUFFICES ASSUME m.todo # <<>> PROVE m.todo[Len(m.todo)].ver = m.ver /\ m.todo[Len(m.todo)].row = m.row
        OBVIOUS
      <3>1. Len(m.todo) > 0 /\ Len(m.todo) \in 1 .. Len(m.todo)
        BY <1>1
      <3> QED BY <1>1, <3>1 DEF Ordered
    <2> QED BY <1>2, <2>1, <2>2
  <1>3. CASE ~(n <= m.seqs[c])
    <2> DEFINE s == Decided(m, c, n)
    <2> DEFINE new == NextChange(m, c, n)
    <2> DEFINE k == Len(m.todo)
    <2>1. /\ s.ver = m.ver + 1 /\ s.ep = m.ep /\ s.row = Effect(n, m.ver + 1)
          /\ s.seqs = [m.seqs EXCEPT ![c] = n] /\ s.log = NextLog(m)
          /\ s.todo = Append(m.todo, new) /\ s.owed = m.owed
      BY <1>3, DecidedShape
    <2>2. /\ new.ver = m.ver + 1 /\ new.row = Effect(n, m.ver + 1) /\ new.c = c /\ new.n = n
          /\ new.floor = Floor(NextLog(m)) /\ new \in Changes
      BY NextChangeType DEF NextChange
    <2>3. NextLog(m) = Reach(m.ver + 1)
      <3>1. m.log = Reach(m.ver)
        BY DEF Ordered
      <3> QED BY <1>1, <3>1, LeaseAssumption DEF NextLog, Recent, Reach
    <2>4. \A w \in Reach(m.ver + 1) : new.floor <= w
      BY <2>2, <2>3, NextLogShape
    <2> HIDE DEF s, new
    <2>5. Len(s.todo) = k + 1 /\ s.todo[k + 1] = new /\ (\A i \in 1 .. k : s.todo[i] = m.todo[i])
          /\ s.todo # <<>>
      BY SMTT(60), <1>1, <2>1, <2>2
    <2>6. \A i \in 1 .. k : m.todo[i] \in Changes /\ m.todo[i].c \in Clients /\ m.todo[i].n \in Nat
      <3> SUFFICES ASSUME NEW i \in 1 .. k
                   PROVE  m.todo[i] \in Changes /\ m.todo[i].c \in Clients /\ m.todo[i].n \in Nat
        OBVIOUS
      <3>1. m.todo[i] \in Changes
        BY <1>1
      <3>2. m.todo[i].c \in Clients /\ m.todo[i].n \in 0 .. MaxOps
        BY <3>1 DEF Changes
      <3>3. \A x \in 0 .. MaxOps : x \in Nat
        BY <1>1
      <3> QED BY <3>1, <3>2, <3>3
    <2>7. k <= m.ver /\ k \in Nat
      BY <1>1 DEF Ordered
    <2>8. \A d \in Clients : s.seqs[d] = IF d = c THEN n ELSE m.seqs[d]
      BY <1>1, <2>1
    <2>9. \A d \in Clients : m.seqs[d] <= s.seqs[d]
      BY <1>1, <1>3, <2>8
    <2>10. ASSUME NEW i \in 1 .. (k + 1)
           PROVE  /\ s.todo[i].ver = s.ver - (k + 1) + i
                  /\ s.todo[i].row = Effect(s.todo[i].n, s.todo[i].ver)
                  /\ \A w \in Reach(s.todo[i].ver) : s.todo[i].floor <= w
                  /\ s.todo[i].n <= s.seqs[s.todo[i].c]
      <3>1. CASE i = k + 1
        BY <1>1, <2>1, <2>2, <2>4, <2>5, <2>7, <2>8, <3>1
      <3>2. CASE i \in 1 .. k
        <4>1. /\ m.todo[i].ver = m.ver - k + i
              /\ m.todo[i].row = Effect(m.todo[i].n, m.todo[i].ver)
              /\ \A w \in Reach(m.todo[i].ver) : m.todo[i].floor <= w
              /\ m.todo[i].n <= m.seqs[m.todo[i].c]
          BY <3>2 DEF Ordered
        <4>2. m.seqs[m.todo[i].c] <= s.seqs[m.todo[i].c] /\ m.seqs[m.todo[i].c] \in Nat
              /\ s.seqs[m.todo[i].c] \in Nat /\ m.todo[i].n \in Nat
          <5>1. m.todo[i].c \in Clients /\ m.todo[i].n \in Nat
            BY <2>6, <3>2
          <5>2. \A d \in Clients : m.seqs[d] \in Nat
            <6>1. \A x \in 0 .. MaxOps : x \in Nat
              BY <1>1
            <6> QED BY <1>1, <6>1
          <5>3. \A d \in Clients : s.seqs[d] \in Nat
            BY <1>1, <2>8, <5>2
          <5> QED BY <2>9, <5>1, <5>2, <5>3
        <4>3. m.todo[i].n <= s.seqs[m.todo[i].c]
          BY <4>1, <4>2
        <4>4. m.ver - k + i = s.ver - (k + 1) + i
          BY <1>1, <2>1, <2>7
        <4> QED BY <2>5, <3>2, <4>1, <4>3, <4>4
      <3> QED BY <2>7, <3>1, <3>2
    <2>11. ASSUME NEW i \in 1 .. (k + 1), NEW j \in 1 .. (k + 1), i < j, s.todo[i].c = s.todo[j].c
           PROVE  s.todo[i].n < s.todo[j].n
      <3>1. i \in 1 .. k
        BY <2>7, <2>11
      <3>2. CASE j \in 1 .. k
        BY <2>5, <2>11, <3>1, <3>2 DEF Ordered
      <3>3. CASE j = k + 1
        <4>1. m.todo[i].n <= m.seqs[m.todo[i].c]
          BY <3>1 DEF Ordered
        <4>2. m.todo[i].c = c /\ s.todo[j].n = n
          BY <2>2, <2>5, <2>11, <3>1, <3>3
        <4> QED BY SMTT(60), <1>1, <1>3, <2>5, <2>6, <3>1, <4>1, <4>2
      <3> QED BY <2>7, <3>2, <3>3
    <2>12. ASSUME NEW o \in s.owed
           PROVE  /\ o.n <= s.seqs[o.c] /\ o.doc.ep = s.ep
                  /\ \E i \in 1 .. (k + 1) : o.doc.ver = s.todo[i].ver /\ o.doc.row = s.todo[i].row
      <3>1. o \in m.owed /\ o.c \in Clients /\ o.n \in Nat
        BY <1>1, <2>1 DEF Stores, Owings
      <3>2. o.n <= m.seqs[o.c] /\ o.doc.ep = m.ep
        BY <3>1 DEF Ordered
      <3>3. PICK i \in 1 .. k : o.doc.ver = m.todo[i].ver /\ o.doc.row = m.todo[i].row
        BY <3>1 DEF Ordered
      <3>4. o.n <= s.seqs[o.c]
        BY <1>1, <2>8, <2>9, <3>1, <3>2
      <3>5. i \in 1 .. (k + 1) /\ o.doc.ver = s.todo[i].ver /\ o.doc.row = s.todo[i].row
        BY <2>5, <2>7, <3>3
      <3> QED BY <2>1, <3>2, <3>4, <3>5
    <2>13. s.log = Reach(s.ver) /\ k + 1 <= s.ver
      BY <1>1, <2>1, <2>3, <2>7
    <2>14. s.row = s.todo[k + 1].row /\ s.ver = s.todo[k + 1].ver
      BY <2>1, <2>2, <2>5
    <2>15. Ordered(s)
      <3> HIDE DEF k
      <3> QED BY <2>5, <2>10, <2>11, <2>12, <2>13, <2>14 DEF Ordered
    <2>16. n <= s.seqs[c]
      BY <1>1, <2>8
    <2> QED BY <2>1, <2>5, <2>14, <2>15, <2>16 DEF s
  <1> QED BY <1>2, <1>3

\* And as far ahead of the file as its changes to be stored.
LEMMA DecidedContinues ==
  ASSUME NEW m \in Stores, NEW c \in Clients, NEW n \in 0 .. MaxOps, Ordered(m), Types, Continues(m)
  PROVE  Continues(Decided(m, c, n))
  <1>1. m.ver \in Nat /\ m.todo \in Seq(Changes) /\ m.seqs \in [Clients -> 0 .. MaxOps] /\ n \in Nat
        /\ Len(m.todo) \in Nat /\ MaxOps \in Nat /\ file.ver \in Nat /\ file.seqs \in [Clients -> 0 .. MaxOps]
    <2>1. m.ver \in Nat /\ m.todo \in Seq(Changes) /\ m.seqs \in [Clients -> 0 .. MaxOps]
      BY DEF Stores, Seqs
    <2>2. file.ver \in Nat /\ file.seqs \in [Clients -> 0 .. MaxOps]
      <3>1. file \in Files
        BY DEF Types
      <3> QED BY <3>1 DEF Files, Seqs
    <2>3. MaxOps \in Nat /\ n \in Nat
      BY LeaseAssumption
    <2>4. Len(m.todo) \in Nat
      BY <2>1
    <2> QED BY <2>1, <2>2, <2>3, <2>4
  <1>2. CASE n <= m.seqs[c]
    BY <1>2 DEF Decided
  <1>3. CASE ~(n <= m.seqs[c])
    <2> DEFINE s == Decided(m, c, n)
    <2> DEFINE new == NextChange(m, c, n)
    <2> DEFINE k == Len(m.todo)
    <2>1. /\ s.ver = m.ver + 1 /\ s.ep = m.ep
          /\ s.seqs = [m.seqs EXCEPT ![c] = n] /\ s.todo = Append(m.todo, new)
      BY <1>3, DecidedShape
    <2>2. new.c = c /\ new.n = n /\ new \in Changes
      BY NextChangeType DEF NextChange
    <2> HIDE DEF s, new
    <2>3. Len(s.todo) = k + 1 /\ s.todo[k + 1] = new /\ (\A i \in 1 .. k : s.todo[i] = m.todo[i])
      BY <1>1, <2>1, <2>2
    <2>4. \A d \in Clients : s.seqs[d] = IF d = c THEN n ELSE m.seqs[d]
      BY <1>1, <2>1
    <2>5. s.ep = file.ep /\ s.ver = file.ver + (k + 1)
      BY <1>1, <2>1 DEF Continues
    <2>6. file.seqs[c] <= m.seqs[c]
      <3>1. CASE m.seqs[c] = file.seqs[c]
        BY <1>1, <3>1
      <3>2. CASE \E i \in 1 .. k : m.todo[i].c = c /\ m.todo[i].n = m.seqs[c]
        BY <1>1, <3>2 DEF Continues
      <3> QED BY <3>1, <3>2 DEF Continues
    <2>7. ASSUME NEW i \in 1 .. (k + 1)
          PROVE  s.todo[i].n > file.seqs[s.todo[i].c]
      <3>1. CASE i = k + 1
        BY <1>1, <1>3, <2>2, <2>3, <2>6, <3>1
      <3>2. CASE i \in 1 .. k
        BY <2>3, <3>2 DEF Continues
      <3> QED BY <1>1, <3>1, <3>2
    <2>8. ASSUME NEW d \in Clients
          PROVE  \/ s.seqs[d] = file.seqs[d] /\ \A i \in 1 .. (k + 1) : s.todo[i].c # d
                 \/ \E i \in 1 .. (k + 1) : s.todo[i].c = d /\ s.todo[i].n = s.seqs[d]
      <3>1. CASE d = c
        <4>1. k + 1 \in 1 .. (k + 1) /\ s.todo[k + 1].c = d /\ s.todo[k + 1].n = s.seqs[d]
          BY <1>1, <2>2, <2>3, <2>4, <3>1
        <4> QED BY <4>1
      <3>2. CASE d # c /\ m.seqs[d] = file.seqs[d] /\ \A i \in 1 .. k : m.todo[i].c # d
        <4>1. \A i \in 1 .. (k + 1) : i = k + 1 \/ i \in 1 .. k
          BY <1>1
        <4> QED BY <2>2, <2>3, <2>4, <3>2, <4>1
      <3>3. CASE d # c /\ \E i \in 1 .. k : m.todo[i].c = d /\ m.todo[i].n = m.seqs[d]
        <4>1. PICK i \in 1 .. k : m.todo[i].c = d /\ m.todo[i].n = m.seqs[d]
          BY <3>3
        <4>2. i \in 1 .. (k + 1) /\ s.todo[i].c = d /\ s.todo[i].n = s.seqs[d]
          BY SMTT(60), <1>1, <2>3, <2>4, <3>3, <4>1
        <4> QED BY <4>2
      <3> QED BY <3>1, <3>2, <3>3 DEF Continues
    <2>9. Len(s.todo) # 0
      BY <1>1, <2>3
    <2> HIDE DEF k
    <2> QED BY <2>3, <2>5, <2>7, <2>8, <2>9 DEF Continues, s
  <1> QED BY <1>2, <1>3

\* A store in a process, with what is owed put off: in order, and as far ahead as before.
LEMMA OwedOrdered ==
  ASSUME NEW s \in Stores, Ordered(s), s.todo # <<>>, NEW c \in Clients, NEW n \in 0 .. MaxOps, n <= s.seqs[c],
         s.todo[Len(s.todo)].ver = s.ver, s.todo[Len(s.todo)].row = s.row
  PROVE  LET t == [s EXCEPT !.owed = @ \cup {[c |-> c, n |-> n, doc |-> Shown(s)]}] IN
         Ordered(t) /\ t.ver = s.ver /\ t.ep = s.ep /\ t.todo = s.todo /\ t.row = s.row /\ t.seqs = s.seqs
         /\ t.log = s.log /\ t.at = s.at
  <1> DEFINE o == [c |-> c, n |-> n, doc |-> Shown(s)]
  <1> DEFINE t == [s EXCEPT !.owed = @ \cup {o}]
  <1>1. t.ver = s.ver /\ t.ep = s.ep /\ t.todo = s.todo /\ t.row = s.row /\ t.seqs = s.seqs /\ t.log = s.log
        /\ t.owed = s.owed \cup {o} /\ t.at = s.at
    BY DEF Stores
  <1>2. Len(s.todo) \in 1 .. Len(s.todo)
    BY DEF Stores
  <1>3. o.n <= s.seqs[o.c] /\ o.doc.ep = s.ep /\ o.doc.ver = s.ver /\ o.doc.row = s.row
    BY DEF Shown
  <1> HIDE DEF o, t
  <1>4. Ordered(t)
    BY <1>1, <1>2, <1>3 DEF Ordered
  <1> QED BY <1>1, <1>4 DEF o, t

\* Two sequences in one.
LEMMA ConcatAt ==
  ASSUME NEW S, NEW a \in Seq(S), NEW b \in Seq(S)
  PROVE  /\ Len(a \o b) = Len(a) + Len(b)
         /\ \A i \in 1 .. Len(a) : (a \o b)[i] = a[i]
         /\ \A i \in 1 .. Len(b) : (a \o b)[Len(a) + i] = b[i]
  <1>1. Len(a \o b) = Len(a) + Len(b) /\ Len(a) \in Nat /\ Len(b) \in Nat
    BY ConcatProperties
  <1>2. ASSUME NEW i \in 1 .. Len(a)
        PROVE  (a \o b)[i] = a[i]
    BY ConcatProperties
  <1>3. ASSUME NEW i \in 1 .. Len(b)
        PROVE  (a \o b)[Len(a) + i] = b[i]
    BY ConcatProperties
  <1> QED BY <1>1, <1>2, <1>3

\* A place in two sequences is one in the first, or in the second.
LEMMA PlaceIn ==
  ASSUME NEW a \in Nat, NEW b \in Nat, NEW i \in 1 .. (a + b)
  PROVE  i \in 1 .. a \/ \E j \in 1 .. b : i = a + j
  <1>1. CASE i <= a
    BY <1>1
  <1>2. CASE ~(i <= a)
    <2>1. i - a \in 1 .. b /\ i = a + (i - a)
      BY <1>2
    <2> QED BY <2>1
  <1> QED BY <1>1, <1>2

\* What a commit makes of the history and of the file, when the store continues the file.
LEMMA CommitShape ==
  ASSUME Typed, OneHistory, NEW p \in Procs, Commit(p), Ordered(mem[p]), Continues(mem[p])
  PROVE  LET m == mem[p]
             n == Len(m.todo)
         IN
         /\ n \in Nat /\ n > 0 /\ Len(hist') = Len(hist) + n
         /\ \A i \in 1 .. Len(hist) : hist'[i] = hist[i]
         /\ \A i \in 1 .. n : hist'[Len(hist) + i] = <<m.todo[i].c, m.todo[i].n>>
         /\ file'.ver = m.ver /\ m.ver = Len(hist) + n /\ file'.row = m.row /\ file'.ep = m.ep
         /\ m.ep = file.ep /\ base' = Blank
         /\ \A c \in Clients : file'.seqs[c] = m.seqs[c] /\ file.seqs[c] <= m.seqs[c]
  <1> DEFINE m == mem[p]
  <1> DEFINE n == Len(m.todo)
  <1> DEFINE new == [i \in 1 .. n |-> <<m.todo[i].c, m.todo[i].n>>]
  <1> DEFINE floor == m.todo[n].floor
  <1> DEFINE fl == IF Prunes(p, floor) THEN floor ELSE 0
  <1>1. /\ m \in Stores /\ m.todo \in Seq(Changes) /\ m.todo # <<>> /\ m.ver \in Nat
        /\ m.seqs \in [Clients -> 0 .. MaxOps] /\ file.seqs \in [Clients -> 0 .. MaxOps] /\ file.ver \in Nat
    BY DEF Typed, Types, Stores, Commit, Files, Seqs
  <1>2. n \in Nat /\ n > 0 /\ n \in 1 .. n
    BY <1>1
  <1>3. /\ hist' = hist \o new /\ file' = Merged(file, m.todo, m.ep, fl) /\ base' = Blank
    BY DEF Commit, Typed, Types
  <1>4. ASSUME NEW i \in 1 .. n
        PROVE  <<m.todo[i].c, m.todo[i].n>> \in Clients \X (0 .. MaxOps)
    <2>1. m.todo[i] \in Changes
      BY <1>1
    <2> QED BY <2>1 DEF Changes
  <1>5. new \in Seq(Clients \X (0 .. MaxOps)) /\ Len(new) = n /\ \A i \in 1 .. n : new[i] = <<m.todo[i].c, m.todo[i].n>>
    BY <1>2, <1>4
  <1>6. /\ Len(hist') = Len(hist) + n
        /\ \A i \in 1 .. Len(hist) : hist'[i] = hist[i]
        /\ \A i \in 1 .. n : hist'[Len(hist) + i] = <<m.todo[i].c, m.todo[i].n>>
    <2>1. hist \in Seq(Clients \X (0 .. MaxOps))
      BY DEF Typed, Types
    <2>2. hist' = hist \o new
      BY <1>3
    <2> HIDE DEF new
    <2> DEFINE S == Clients \X (0 .. MaxOps)
    <2>3. hist \in Seq(S) /\ new \in Seq(S)
      BY <1>5, <2>1
    <2> HIDE DEF S, n
    <2>4. /\ Len(hist \o new) = Len(hist) + Len(new)
          /\ \A i \in 1 .. Len(hist) : (hist \o new)[i] = hist[i]
          /\ \A i \in 1 .. Len(new) : (hist \o new)[Len(hist) + i] = new[i]
      BY <2>3, ConcatAt
    <2> QED BY <1>5, <2>2, <2>4
  <1> HIDE DEF new
  <1>7. m.ver = Len(hist) + n /\ m.ep = file.ep
    BY DEF Continues, OneHistory
  <1>8. file'.ver = m.ver /\ file'.row = m.row /\ file'.ep = m.ep
    <2>1. m.todo[n].ver = m.ver - n + n /\ m.todo[n].row = m.row
      BY <1>2 DEF Ordered
    <2>2. m.ver - n + n = m.ver
      BY <1>1, <1>2
    <2> QED BY <1>3, <2>1, <2>2 DEF Merged
  <1>9. ASSUME NEW c \in Clients
        PROVE  file'.seqs[c] = m.seqs[c] /\ file.seqs[c] <= m.seqs[c]
    <2>1. file'.seqs[c] = IF Mine(m.todo, c) = {} THEN file.seqs[c] ELSE m.todo[Latest(Mine(m.todo, c))].n
      BY <1>3 DEF Merged
    <2>2. CASE m.seqs[c] = file.seqs[c] /\ \A i \in 1 .. n : m.todo[i].c # c
      <3>1. Mine(m.todo, c) = {}
        BY <2>2 DEF Mine
      <3> QED BY <1>1, <2>1, <2>2, <3>1
    <2>3. CASE \E i \in 1 .. n : m.todo[i].c = c /\ m.todo[i].n = m.seqs[c]
      <3>1. PICK i \in 1 .. n : m.todo[i].c = c /\ m.todo[i].n = m.seqs[c]
        BY <2>3
      <3>2. Mine(m.todo, c) # {}
        BY <3>1 DEF Mine
      <3> DEFINE l == Latest(Mine(m.todo, c))
      <3>3. l \in 1 .. n /\ m.todo[l].c = c /\ i <= l
        BY <1>1, <3>1, <3>2, MineLatest
      <3> HIDE DEF l
      <3>4. m.todo[l].n <= m.seqs[c] /\ m.todo[i].n > file.seqs[c] /\ (i < l => m.todo[i].n < m.todo[l].n)
        BY <3>1, <3>3 DEF Ordered, Continues
      <3>5. m.todo[l].n \in 0 .. MaxOps /\ m.todo[i].n \in 0 .. MaxOps
        BY <1>4, <3>1, <3>3
      <3>6. i = l
        BY <1>1, <1>2, <3>1, <3>3, <3>4, <3>5, LeaseAssumption
      <3> QED BY <1>1, <2>1, <3>1, <3>2, <3>4, <3>5, <3>6, LeaseAssumption DEF l
    <2> QED BY <2>2, <2>3 DEF Continues
  <1> QED BY <1>2, <1>3, <1>6, <1>7, <1>8, <1>9

\* The history goes on, and what it was it stays.
LEMMA CommitHistory ==
  ASSUME Typed, OneHistory, NEW p \in Procs, Commit(p), Ordered(mem[p]), Continues(mem[p])
  PROVE  /\ OneHistory'
         /\ \A v \in 0 .. file.ver : RowAt(v)' = RowAt(v)
         /\ \A v \in Nat, i \in 1 .. Len(mem[p].todo) :
              v = mem[p].todo[i].ver => RowAt(v)' = mem[p].todo[i].row
  <1> DEFINE m == mem[p]
  <1> DEFINE n == Len(m.todo)
  <1>1. /\ m.todo \in Seq(Changes) /\ m.todo # <<>> /\ m.ver \in Nat
        /\ m.seqs \in [Clients -> 0 .. MaxOps] /\ file.seqs \in [Clients -> 0 .. MaxOps]
        /\ file.ver \in Nat /\ Len(hist) \in Nat /\ MaxOps \in Nat
    <2>1. mem[p] \in Stores /\ file \in Files /\ hist \in Seq(Clients \X (0 .. MaxOps)) /\ MaxOps \in Nat
      BY LeaseAssumption DEF Typed, Types
    <2> QED BY SMTT(60), <2>1 DEF Stores, Commit, Files, Seqs
  <1>2. /\ n \in Nat /\ n > 0 /\ Len(hist') = Len(hist) + n
        /\ \A i \in 1 .. Len(hist) : hist'[i] = hist[i]
        /\ \A i \in 1 .. n : hist'[Len(hist) + i] = <<m.todo[i].c, m.todo[i].n>>
        /\ file'.ver = m.ver /\ m.ver = Len(hist) + n /\ file'.row = m.row
        /\ \A c \in Clients : file'.seqs[c] = m.seqs[c] /\ file.seqs[c] <= m.seqs[c]
    BY CommitShape
  <1>3. ASSUME NEW i \in 1 .. Len(hist)
        PROVE  hist[i][1] \in Clients /\ hist[i][2] \in 0 .. MaxOps
    <2>1. hist[i] \in Clients \X (0 .. MaxOps)
      BY DEF Typed, Types
    <2> QED BY <2>1
  <1>4. ASSUME NEW i \in 1 .. n
        PROVE  /\ m.todo[i].c \in Clients /\ m.todo[i].n \in 0 .. MaxOps /\ m.todo[i].ver \in Nat
               /\ m.todo[i].ver = Len(hist) + i
               /\ m.todo[i].row = Effect(m.todo[i].n, m.todo[i].ver)
               /\ m.todo[i].n <= m.seqs[m.todo[i].c]
               /\ m.todo[i].n > file.seqs[m.todo[i].c]
    <2>1. m.todo[i] \in Changes
      BY <1>1
    <2>2. m.todo[i].ver = m.ver - n + i
      BY DEF Ordered
    <2>3. m.ver - n + i = Len(hist) + i
      BY <1>1, <1>2
    <2> QED BY <2>1, <2>2, <2>3 DEF Changes, Ordered, Continues
  <1>5. \A i \in 1 .. (Len(hist) + n) : i \in 1 .. Len(hist) \/ \E j \in 1 .. n : i = Len(hist) + j
    BY <1>1, <1>2, PlaceIn
  <1>6. Types'
    BY TypedCommit DEF Typed
  <1>7. \A v \in 0 .. file.ver : RowAt(v)' = RowAt(v)
    <2> SUFFICES ASSUME NEW v \in 0 .. file.ver PROVE RowAt(v)' = RowAt(v)
      OBVIOUS
    <2>1. base.ver = 0 /\ base'.ver = 0 /\ base.row = 0 /\ base'.row = 0
      BY <1>6 DEF Typed, Types, Blank
    <2>2. v # 0 => hist'[v] = hist[v]
      BY <1>1, <1>2 DEF OneHistory
    <2>3. RowAt(v)' = IF v <= 0 THEN 0 ELSE Effect(hist'[v - 0][2], v)
      BY <2>1 DEF RowAt, Effect
    <2>4. RowAt(v) = IF v <= 0 THEN 0 ELSE Effect(hist[v - 0][2], v)
      BY <2>1 DEF RowAt, Effect
    <2>5. v - 0 = v /\ (v <= 0 <=> v = 0)
      BY <1>1
    <2> QED BY <2>2, <2>3, <2>4, <2>5
  <1>8. ASSUME NEW v \in Nat, NEW i \in 1 .. n, v = m.todo[i].ver
        PROVE  RowAt(v)' = m.todo[i].row
    <2>1. v = Len(hist) + i /\ ~(v <= 0) /\ v - 0 = v
      BY <1>1, <1>2, <1>4, <1>8
    <2>2. base'.ver = 0
      BY <1>6 DEF Types, Blank
    <2>3. hist'[v] = <<m.todo[i].c, m.todo[i].n>>
      BY <1>2, <2>1
    <2>4. RowAt(v)' = Effect(hist'[v - 0][2], v)
      BY <2>1, <2>2 DEF RowAt, Effect
    <2>5. m.todo[i].row = Effect(m.todo[i].n, v)
      BY <1>4, <1>8
    <2> QED BY <2>1, <2>3, <2>4, <2>5
  <1>9. file'.row = RowAt(file.ver)'
    <2>1. n \in 1 .. n /\ m.row = m.todo[n].row /\ m.todo[n].ver = m.ver
      BY SMTT(60), <1>1, <1>2, <1>4 DEF Ordered
    <2>2. \A v \in Nat : v = m.ver => RowAt(v)' = m.row
      BY <1>8, <2>1
    <2>3. \A v \in Nat : v = file'.ver => file'.row = RowAt(v)'
      BY <1>2, <2>2
    <2>4. file'.ver \in Nat
      BY <1>1, <1>2
    <2> HIDE DEF m
    <2>5. PICK v \in Nat : v = file'.ver
      BY <2>4
    <2>6. RowAt(v)' = RowAt(file.ver)'
      BY <2>5 DEF RowAt
    <2> QED BY <2>3, <2>5, <2>6
  <1>10. ASSUME NEW i \in 1 .. Len(hist'), NEW j \in 1 .. Len(hist'), i < j, hist'[i][1] = hist'[j][1]
         PROVE  hist'[i][2] < hist'[j][2]
    <2>1. CASE i \in 1 .. Len(hist) /\ j \in 1 .. Len(hist)
      BY <1>2, <1>10, <2>1 DEF OneHistory
    <2>2. ASSUME i \in 1 .. Len(hist), NEW l \in 1 .. n, j = Len(hist) + l
          PROVE  hist'[i][2] < hist'[j][2]
      <3>1. hist[i][2] <= file.seqs[hist[i][1]] /\ hist[i][1] = m.todo[l].c
        BY <1>2, <1>10, <2>2 DEF OneHistory
      <3>2. hist'[i][2] = hist[i][2] /\ hist'[j][2] = m.todo[l].n
        BY <1>2, <2>2
      <3> HIDE DEF m, n
      <3>3. hist[i][2] \in Nat /\ m.todo[l].n \in Nat /\ file.seqs[m.todo[l].c] \in Nat
        <4>1. hist[i][2] \in 0 .. MaxOps /\ m.todo[l].n \in 0 .. MaxOps /\ m.todo[l].c \in Clients
          BY <1>3, <1>4, <2>2
        <4> QED BY SMTT(60), <1>1, <4>1
      <3>4. m.todo[l].n > file.seqs[m.todo[l].c]
        BY <1>4
      <3> QED BY <3>1, <3>2, <3>3, <3>4
    <2>3. ASSUME NEW k \in 1 .. n, NEW l \in 1 .. n, i = Len(hist) + k, j = Len(hist) + l
          PROVE  hist'[i][2] < hist'[j][2]
      <3>1. k < l
        BY <1>1, <1>2, <1>10, <2>3
      <3>2. m.todo[k].c = m.todo[l].c
        BY <1>2, <1>10, <2>3
      <3>3. m.todo[k].n < m.todo[l].n
        BY <3>1, <3>2 DEF Ordered
      <3>4. hist'[i] = <<m.todo[k].c, m.todo[k].n>> /\ hist'[j] = <<m.todo[l].c, m.todo[l].n>>
        BY <1>2, <2>3
      <3> HIDE DEF m, n
      <3> QED BY <3>3, <3>4
    <2>4. ASSUME NEW k \in 1 .. n, i = Len(hist) + k
          PROVE  j \notin 1 .. Len(hist)
      BY <1>1, <1>2, <1>10, <2>4
    <2> HIDE DEF m, n
    <2> QED BY <1>2, <1>5, <2>1, <2>2, <2>3, <2>4
  <1>11. ASSUME NEW i \in 1 .. Len(hist')
         PROVE  hist'[i][2] <= file'.seqs[hist'[i][1]]
    <2>1. CASE i \in 1 .. Len(hist)
      <3>1. hist[i][2] <= file.seqs[hist[i][1]] /\ hist'[i] = hist[i]
        BY <1>2, <2>1 DEF OneHistory
      <3>2. hist[i][1] \in Clients /\ hist[i][2] \in Nat
        BY <1>1, <1>3, <2>1
      <3> HIDE DEF m, n
      <3>3. /\ file.seqs[hist[i][1]] \in Nat /\ file'.seqs[hist[i][1]] \in Nat
            /\ file.seqs[hist[i][1]] <= file'.seqs[hist[i][1]]
        BY SMTT(60), <1>1, <1>2, <3>2
      <3> QED BY <3>1, <3>2, <3>3
    <2>2. ASSUME NEW k \in 1 .. n, i = Len(hist) + k
          PROVE  hist'[i][2] <= file'.seqs[hist'[i][1]]
      <3>1. hist'[i] = <<m.todo[k].c, m.todo[k].n>>
        BY <1>2, <2>2
      <3>2. m.todo[k].n <= m.seqs[m.todo[k].c] /\ m.todo[k].c \in Clients
        BY <1>4
      <3>3. file'.seqs[m.todo[k].c] = m.seqs[m.todo[k].c]
        BY <1>2, <3>2
      <3> HIDE DEF m, n
      <3> QED BY <3>1, <3>2, <3>3
    <2> HIDE DEF m, n
    <2> QED BY <1>2, <1>5, <2>1, <2>2
  <1>12. ASSUME NEW c \in Clients
         PROVE  \/ file'.seqs[c] = 0 /\ \A i \in 1 .. Len(hist') : hist'[i][1] # c
                \/ \E i \in 1 .. Len(hist') : hist'[i][1] = c /\ hist'[i][2] = file'.seqs[c]
    <2>1. CASE \E i \in 1 .. n : m.todo[i].c = c /\ m.todo[i].n = m.seqs[c]
      <3>1. PICK i \in 1 .. n : m.todo[i].c = c /\ m.todo[i].n = m.seqs[c]
        BY <2>1
      <3>2. Len(hist) + i \in 1 .. Len(hist') /\ hist'[Len(hist) + i] = <<m.todo[i].c, m.todo[i].n>>
        BY <1>1, <1>2
      <3>3. hist'[Len(hist) + i][1] = c /\ hist'[Len(hist) + i][2] = file'.seqs[c]
        BY <1>2, <3>1, <3>2
      <3> QED BY <3>2, <3>3
    <2>2. CASE m.seqs[c] = file.seqs[c] /\ \A i \in 1 .. n : m.todo[i].c # c
      <3>1. CASE file.seqs[c] = 0 /\ \A i \in 1 .. Len(hist) : hist[i][1] # c
        <4>1. ASSUME NEW i \in 1 .. Len(hist')
              PROVE  hist'[i][1] # c
          <5>1. CASE i \in 1 .. Len(hist)
            BY <1>2, <3>1, <5>1
          <5>2. ASSUME NEW j \in 1 .. n, i = Len(hist) + j
                PROVE  hist'[i][1] # c
            <6>1. hist'[i] = <<m.todo[j].c, m.todo[j].n>> /\ m.todo[j].c # c
              BY <1>2, <2>2, <5>2
            <6> HIDE DEF m, n
            <6> QED BY <6>1
          <5> HIDE DEF m, n
          <5> QED BY <1>2, <1>5, <5>1, <5>2
        <4> QED BY <1>2, <2>2, <3>1, <4>1
      <3>2. CASE \E i \in 1 .. Len(hist) : hist[i][1] = c /\ hist[i][2] = file.seqs[c]
        <4>1. PICK i \in 1 .. Len(hist) : hist[i][1] = c /\ hist[i][2] = file.seqs[c]
          BY <3>2
        <4>2. i \in 1 .. Len(hist') /\ hist'[i] = hist[i]
          BY <1>1, <1>2
        <4> QED BY <1>2, <2>2, <4>1, <4>2
      <3> QED BY <3>1, <3>2 DEF OneHistory
    <2> QED BY <2>1, <2>2 DEF Continues
  <1>13. file'.log \subseteq 1 .. file'.ver /\ Reach(file'.ver) \subseteq file'.log
    <2> DEFINE fl == IF Prunes(p, m.todo[n].floor) THEN m.todo[n].floor ELSE 0
    <2>1. file'.log = {v \in file.log \cup {m.todo[i].ver : i \in 1 .. n} : v >= fl}
      BY DEF Commit, Merged
    <2>2. file.ver = Len(hist)
      BY DEF OneHistory
    <2>3. file'.log \subseteq 1 .. file'.ver
      <3>1. file.log \subseteq 1 .. file.ver
        BY DEF OneHistory
      <3>2. \A i \in 1 .. n : m.todo[i].ver \in 1 .. m.ver
        BY <1>1, <1>2, <1>4
      <3> HIDE DEF m, n, fl
      <3> QED BY <1>1, <1>2, <2>1, <2>2, <3>1, <3>2
    <2>4. ASSUME NEW w \in Reach(m.ver)
          PROVE  w \in file'.log
      <3>1. w \in 1 .. m.ver /\ w > m.ver - DeltaLog
        BY DEF Reach
      <3>2. w >= fl
        <4>1. m.todo[n].ver = m.ver /\ n \in 1 .. n
          <5>1. n \in 1 .. n
            BY <1>2
          <5>2. m.todo[n].ver = Len(hist) + n
            BY <1>4, <5>1
          <5> QED BY <1>2, <5>1, <5>2
        <4>2. m.todo[n].floor <= w
          BY <4>1 DEF Ordered
        <4>3. m.todo[n].floor \in Nat
          <5>1. m.todo[n] \in Changes
            BY <1>1, <4>1
          <5> QED BY <5>1 DEF Changes
        <4> HIDE DEF m, n
        <4> QED BY <1>1, <3>1, <4>2, <4>3
      <3>3. CASE w <= file.ver
        <4>1. w \in Reach(file.ver)
          BY <1>1, <1>2, <2>2, <3>1, <3>3, LeaseAssumption DEF Reach
        <4>2. w \in file.log
          BY <4>1 DEF OneHistory
        <4> HIDE DEF m, n, fl
        <4> QED BY <2>1, <3>2, <4>2
      <3>4. CASE ~(w <= file.ver)
        <4>1. w - Len(hist) \in 1 .. n /\ Len(hist) + (w - Len(hist)) = w
          BY <1>1, <1>2, <2>2, <3>1, <3>4
        <4>2. m.todo[w - Len(hist)].ver = w
          <5>1. PICK j \in 1 .. n : j = w - Len(hist)
            BY <4>1
          <5>2. m.todo[j].ver = Len(hist) + j
            BY <1>4
          <5> QED BY <4>1, <5>1, <5>2
        <4>3. w \in {m.todo[i].ver : i \in 1 .. n}
          BY <4>1, <4>2
        <4> HIDE DEF m, n, fl
        <4> QED BY <2>1, <3>2, <4>3
      <3> QED BY <3>3, <3>4
    <2> HIDE DEF m, n, fl
    <2> QED BY <1>2, <2>3, <2>4
  <1>14. file'.ver = Len(hist')
    BY <1>2
  <1>15. OneHistory'
    <2> HIDE DEF m, n
    <2>1. Reach(file.ver)' \subseteq file'.log
      BY <1>13 DEF Reach
    <2> QED BY <1>9, <1>10, <1>11, <1>12, <1>13, <1>14, <2>1 DEF OneHistory
  <1> QED BY <1>7, <1>8, <1>15

\* A store that no step but a write to the file touches.
Near(q) == mem'[q] = mem[q] \/ (mem[q].at = "asked" /\ mem'[q] = [mem[q] EXCEPT !.at = "stale"])

\* What becomes of the stores when one of them moves.
LEMMA OthersNear ==
  ASSUME Typed, NEW p \in Procs, NEW s \in Stores,
         mem' = [mem EXCEPT ![p] = s] \/ mem' = Written(p, [mem EXCEPT ![p] = s])
  PROVE  mem'[p] = s /\ \A q \in Procs : q # p => Near(q)
  <1> DEFINE m == [mem EXCEPT ![p] = s]
  <1>1. m \in [Procs -> Stores] /\ m[p] = s /\ \A q \in Procs : q # p => m[q] = mem[q]
    BY DEF Typed, Types
  <1> HIDE DEF m
  <1>2. CASE mem' = m
    BY <1>1, <1>2 DEF Near
  <1>3. CASE mem' = Written(p, m)
    <2>1. \A q \in Procs :
              \/ mem'[q] = m[q] /\ (m[q].at = "asked" => q = p)
              \/ m[q].at = "asked" /\ q # p /\ mem'[q] = [m[q] EXCEPT !.at = "stale"]
      BY <1>1, <1>3, WrittenShape
    <2> QED BY <1>1, <2>1 DEF Near
  <1> QED BY <1>2, <1>3 DEF m

\* What a step makes of the store in a process.
LEMMA Moves ==
  ASSUME Typed, [Next]_vars, NEW q \in Procs
  PROVE  \/ Near(q)
         \/ /\ mem'[q].at \in {"none", "asked", "restores"}
            /\ mem'[q].ep = 0 \/ mem'[q].ep = mem[q].ep
         \/ /\ Takes(q) \/ (RestoreTakes(q) /\ ~Locked(q))
            /\ mem'[q].at \in {"took", "replaces"} /\ mem'[q].ep = mem[q].ep
         \/ ReadsMeta(q) \/ ReadsRows(q) \/ Answers(q) \/ \E c \in Clients : Writes(q, c)
         \/ Commit(q) /\ mem'[q] = [mem[q] EXCEPT !.todo = <<>>, !.owed = {}]
  <1> DEFINE Goal ==
         \/ Near(q)
         \/ /\ mem'[q].at \in {"none", "asked", "restores"}
            /\ mem'[q].ep = 0 \/ mem'[q].ep = mem[q].ep
         \/ /\ Takes(q) \/ (RestoreTakes(q) /\ ~Locked(q))
            /\ mem'[q].at \in {"took", "replaces"} /\ mem'[q].ep = mem[q].ep
         \/ ReadsMeta(q) \/ ReadsRows(q) \/ Answers(q) \/ \E c \in Clients : Writes(q, c)
         \/ Commit(q) /\ mem'[q] = [mem[q] EXCEPT !.todo = <<>>, !.owed = {}]
  <1>1. mem \in [Procs -> Stores] /\ mem[q] \in Stores
    BY DEF Typed, Types
  <1>2. /\ NoStore \in Stores /\ NoStore.at = "none" /\ NoStore.ep = 0
        /\ [NoStore EXCEPT !.at = "restores"] \in Stores
        /\ [NoStore EXCEPT !.at = "restores"].at = "restores" /\ [NoStore EXCEPT !.at = "restores"].ep = 0
    BY NoStoreType DEF Places, NoStore
  <1>3. ASSUME NEW p \in Procs, NEW w \in Places \ {"live"}, mem[p].at # "live",
               mem' = At(p, w) \/ mem' = Written(p, At(p, w))
        PROVE  IF p = q THEN mem'[q].at = w /\ mem'[q].ep = mem[q].ep ELSE Near(q)
    <2> DEFINE s == [mem[p] EXCEPT !.at = w]
    <2>1. s \in Stores /\ s.at = w /\ s.ep = mem[p].ep
      BY <1>1 DEF Stores
    <2>2. At(p, w) = [mem EXCEPT ![p] = s]
      BY DEF At
    <2> HIDE DEF s
    <2> QED BY ZenonT(60), <1>3, <2>1, <2>2, OthersNear
  <1>4. ASSUME NEW p \in Procs, Asks(p) \/ Takes(p) \/ Busy(p) \/ RestoreTakes(p)
        PROVE  Goal
    <2>1. CASE Asks(p)
      BY <1>3, <2>1 DEF Asks, Places
    <2>2. CASE Takes(p)
      BY <1>3, <2>2 DEF Takes, Taken, Places
    <2>3. CASE Busy(p)
      BY <1>3, <2>3 DEF Busy, Places
    <2>4. CASE RestoreTakes(p) /\ Locked(p)
      BY <1>3, <2>4 DEF RestoreTakes, Places
    <2>5. CASE RestoreTakes(p) /\ ~Locked(p)
      BY <1>3, <2>5 DEF RestoreTakes, Taken, Places
    <2> QED BY <1>4, <2>1, <2>2, <2>3, <2>4, <2>5
  <1>5. ASSUME NEW p \in Procs, ReadsMeta(p) \/ ReadsRows(p) \/ Answers(p) \/ \E c \in Clients : Writes(p, c)
        PROVE  Goal
    <2>1. CASE p = q
      BY <1>5, <2>1
    <2>2. CASE p # q
      <3>1. \E t : mem' = [mem EXCEPT ![p] = t]
        BY <1>5 DEF ReadsMeta, ReadsRows, Answers, Writes, Tell
      <3> QED BY <1>1, <2>2, <3>1 DEF Near
    <2> QED BY <2>1, <2>2
  <1>6. ASSUME NEW p \in Procs, Commit(p)
        PROVE  Goal
    <2> DEFINE s == [mem[p] EXCEPT !.todo = <<>>, !.owed = {}]
    <2>1. [mem EXCEPT ![p].todo = <<>>, ![p].owed = {}] = [mem EXCEPT ![p] = s]
      BY <1>1
    <2>2. mem[p] \in Stores /\ <<>> \in Seq(Changes)
      BY <1>1
    <2>3. s \in Stores
      BY <2>2 DEF Stores
    <2>4. mem' = Written(p, [mem EXCEPT ![p] = s])
      BY <1>6, <2>1 DEF Commit
    <2>5. mem'[p] = s /\ \A r \in Procs : r # p => Near(r)
      BY <2>3, <2>4, OthersNear
    <2> QED BY <1>6, <2>5
  <1>7. ASSUME NEW p \in Procs,
               Refused(p) \/ CommitFails(p) \/ Releases(p) \/ Crashes(p) \/ Restores(p) \/ RestoreWrites(p)
        PROVE  Goal
    <2>1. PICK s \in Stores : /\ s.at \in {"none", "restores"} /\ s.ep = 0
                              /\ mem' = [mem EXCEPT ![p] = s] \/ mem' = Written(p, [mem EXCEPT ![p] = s])
      BY <1>2, <1>7 DEF Refused, CommitFails, Releases, Crashes, Restores, RestoreWrites, Unloaded
    <2> QED BY <2>1, OthersNear
  <1>8. ASSUME NEW p, mem' = Written(p, mem)
        PROVE  Goal
    BY <1>1, <1>8, WrittenShape DEF Near
  <1>9. CASE (\E p \in Procs : Renew(p)) \/ Removes
    BY <1>8, <1>9 DEF Renew, Removes
  <1>10. CASE Tick \/ (\E c \in Clients : Makes(c)) \/ UNCHANGED vars
    BY <1>10 DEF Tick, Makes, vars, Near
  <1>11. ASSUME NEW p \in Procs,
                Asks(p) \/ Serves(p) \/ Renew(p) \/ Answers(p) \/ Commit(p) \/ Refused(p) \/ CommitFails(p)
                  \/ Releases(p) \/ Crashes(p) \/ Restores(p) \/ \E c \in Clients : Writes(p, c)
         PROVE  Goal
    <2>1. CASE Asks(p) \/ Serves(p)
      BY <1>4, <1>5, <1>7, <2>1 DEF Serves
    <2> QED BY <1>5, <1>6, <1>7, <1>9, <1>11, <2>1
  <1>12. Goal
    BY <1>9, <1>10, <1>11 DEF Next
  <1> QED BY <1>12

\* Whoever tells something serves the store yet.
LEMMA TellsLive ==
  ASSUME Typed, NEW p \in Procs, Answers(p) \/ \E c \in Clients : Writes(p, c)
  PROVE  mem'[p].at = "live" /\ mem[p].at = "live"
  <1>1. mem[p].at = "live" /\ mem[p] \in Stores /\ Fits(mem[p], made) /\ mem \in [Procs -> Stores]
    BY DEF Answers, Writes, Typed, Types
  <1>2. ASSUME NEW s \in Stores, s.at = "live", NEW c \in Clients, NEW n, Tell(p, s, c, n)
        PROVE  mem'[p].at = "live"
    <2>1. CASE s.todo = <<>>
      BY <1>1, <1>2, <2>1 DEF Tell
    <2>2. CASE s.todo # <<>>
      <3> DEFINE t == [s EXCEPT !.owed = @ \cup {[c |-> c, n |-> n, doc |-> Shown(s)]}]
      <3>1. t.at = "live" /\ mem' = [mem EXCEPT ![p] = t]
        BY <1>2, <2>2 DEF Tell, Stores
      <3> HIDE DEF t
      <3> QED BY <1>1, <3>1
    <2> QED BY <2>1, <2>2
  <1>3. CASE Answers(p)
    BY <1>1, <1>2, <1>3 DEF Answers
  <1>4. ASSUME NEW c \in Clients, Writes(p, c)
        PROVE  mem'[p].at = "live"
    <2>1. made[c] \in 0 .. MaxOps /\ made \in Seqs
      BY DEF Typed, Types, Seqs
    <2>2. Decided(mem[p], c, made[c]) \in Stores /\ Decided(mem[p], c, made[c]).at = "live"
      BY <1>1, <2>1, DecidedTypes
    <2> QED BY <1>2, <1>4, <2>2 DEF Writes
  <1> QED BY <1>1, <1>3, <1>4

\* A process in the middle of what it has the lease for.
Midway == {"took", "meta", "replaces"}

\* While a process is midway, nobody else has the lease, or takes it, or writes.
LEMMA MidwayStep ==
  ASSUME "stall" \notin Uses, Skew < Ttl, Typed, AskedInTime, Settled, [Next]_vars,
         NEW q \in Procs, mem[q].at \in Midway
  PROVE  /\ mem'[q].at \in Midway => lease'.by = q /\ lease'.left >= Ttl
         /\ mem'[q].at = "live" => lease' = lease
         /\ mem[q].at # "replaces" => UNCHANGED disk
         /\ \A r \in Procs : mem'[r].at # "asked"
  <1>1. /\ lease.by = q /\ lease.left >= Ttl /\ lease.left \in Nat
        /\ \A r \in Procs : mem[r].at # "asked"
    BY DEF Settled, Midway, Typed, Types
  <1>2. \A r \in Procs : r # q => Locked(r)
    <2> SUFFICES ASSUME NEW r \in Procs, r # q PROVE Locked(r)
      OBVIOUS
    <2>1. Ahead(r) \in Nat /\ lease.left > Ahead(r)
      BY <1>1, LeaseAssumption DEF Ahead
    <2> QED BY <1>1, <2>1, LeaseAssumption DEF Locked
  <1>3. ~Between /\ InCall(q)
    BY DEF Between, InCall, Midway
  <1>4. Ttl + Ahead(q) >= Ttl
    BY LeaseAssumption DEF Ahead
  <1>5. \A r \in Procs : mem'[r].at # "asked"
    BY <1>1, <1>2, AskedSteps DEF Midway
  <1> DEFINE Goal == /\ mem'[q].at \in Midway => lease'.by = q /\ lease'.left >= Ttl
                     /\ mem'[q].at = "live" => lease' = lease
                     /\ mem[q].at # "replaces" => UNCHANGED disk
  <1>6. ASSUME NEW p \in Procs, Asks(p) \/ Takes(p) \/ Busy(p)
        PROVE  Goal
    BY <1>1, <1>2, <1>6 DEF Asks, Takes, Busy, Midway
  <1>7. ASSUME NEW p \in Procs, ReadsMeta(p) \/ ReadsRows(p) \/ Answers(p) \/ \E c \in Clients : Writes(p, c)
        PROVE  Goal
    BY <1>1, <1>7 DEF ReadsMeta, ReadsRows, Answers, Writes
  <1>8. ASSUME NEW p \in Procs, RestoreTakes(p)
        PROVE  Goal
    BY <1>1, <1>2, <1>8 DEF RestoreTakes, Midway
  <1>9. ASSUME NEW p \in Procs, Renew(p)
        PROVE  Goal
    <2>1. mem' = Written(p, mem) /\ p = q /\ lease' = [by |-> q, left |-> Ttl + Ahead(q)] /\ UNCHANGED disk
      BY <1>1, <1>9 DEF Renew
    <2>2. mem'[q] = mem[q]
      BY <2>1, WrittenShape DEF Typed, Types
    <2> QED BY <1>4, <2>1, <2>2 DEF Midway
  <1>10. ASSUME NEW p \in Procs, Commit(p)
         PROVE  Goal
    BY <1>1, <1>10 DEF Commit, Ours, Midway
  <1>11. ASSUME NEW p \in Procs, Refused(p) \/ CommitFails(p) \/ Releases(p) \/ Restores(p)
         PROVE  Goal
    <2>1. p # q
      BY <1>11 DEF Refused, CommitFails, Releases, Restores, Midway
    <2> QED BY <1>1, <1>11, <2>1 DEF Refused, CommitFails, Releases, Restores, Unloaded, Given
  <1>12. ASSUME NEW p \in Procs, Crashes(p)
         PROVE  Goal
    <2>1. CASE p = q
      <3>1. mem'[q].at = "none"
        BY <1>12, <2>1, NoStoreType DEF Crashes, Typed, Types
      <3> QED BY <1>12, <3>1 DEF Crashes, Midway
    <2>2. CASE p # q
      BY <1>1, <1>12, <2>2 DEF Crashes
    <2> QED BY <2>1, <2>2
  <1>13. ASSUME NEW p \in Procs, RestoreWrites(p)
         PROVE  Goal
    <2>1. mem[p].at = "replaces" /\ p = q
      BY <1>1, <1>13 DEF RestoreWrites, Settled
    <2>2. mem'[q].at = "none"
      BY <1>13, <2>1, NoStoreType, OthersNear DEF RestoreWrites, Unloaded
    <2> QED BY <2>1, <2>2 DEF Midway
  <1>14. CASE Tick \/ Removes
    BY <1>3, <1>14 DEF Tick, Removes
  <1>15. CASE (\E c \in Clients : Makes(c)) \/ UNCHANGED vars
    BY <1>1, <1>15 DEF Makes, vars
  <1>16. ASSUME NEW p \in Procs,
                Asks(p) \/ Serves(p) \/ Renew(p) \/ Answers(p) \/ Commit(p) \/ Refused(p) \/ CommitFails(p)
                  \/ Releases(p) \/ Crashes(p) \/ Restores(p) \/ \E c \in Clients : Writes(p, c)
         PROVE  Goal
    <2>1. CASE Asks(p) \/ Serves(p)
      BY <1>6, <1>7, <1>8, <1>13, <2>1 DEF Serves
    <2> QED BY <1>7, <1>9, <1>10, <1>11, <1>12, <1>16, <2>1
  <1>17. Goal
    BY <1>14, <1>15, <1>16 DEF Next
  <1> QED BY <1>5, <1>17

\* Whoever is midway has the lease.
LEMMA SettledStep ==
  ASSUME "stall" \notin Uses, Skew < Ttl, Typed, AskedInTime, Settled, [Next]_vars
  PROVE  Settled'
  <1> SUFFICES ASSUME NEW q \in Procs, mem'[q].at \in Midway
               PROVE  lease'.by = q /\ lease'.left >= Ttl /\ \A r \in Procs : mem'[r].at # "asked"
    BY DEF Settled, Midway
  <1>1. CASE mem[q].at \in Midway
    BY <1>1, MidwayStep
  <1>2. CASE mem[q].at \notin Midway
    <2>1. ~Near(q)
      <3>1. mem[q] \in Stores
        BY DEF Typed, Types
      <3> QED BY <1>2, <3>1 DEF Near, Midway, Stores
    <2>2. ~(mem'[q].at \in {"none", "asked", "restores"})
      BY DEF Midway
    <2>3. ASSUME ReadsRows(q) \/ Answers(q) \/ (\E c \in Clients : Writes(q, c)) \/ ReadsMeta(q)
          PROVE  FALSE
      <3>1. mem[q].at = "live" /\ mem[q] \in Stores
        BY <1>2, <2>3 DEF ReadsRows, Answers, Writes, ReadsMeta, Midway, Typed, Types
      <3>2. mem'[q].at = "live"
        BY <1>2, <2>3, TellsLive DEF ReadsRows, ReadsMeta, Midway
      <3> QED BY <3>2 DEF Midway
    <2>4. ASSUME Commit(q), mem'[q] = [mem[q] EXCEPT !.todo = <<>>, !.owed = {}]
          PROVE  FALSE
      <3>1. mem[q].at = "live" /\ mem[q] \in Stores
        BY <2>4 DEF Commit, Typed, Types
      <3> QED BY <2>4, <3>1 DEF Midway, Stores
    <2>5. Takes(q) \/ (RestoreTakes(q) /\ ~Locked(q))
      BY <2>1, <2>2, <2>3, <2>4, Moves
    <2>6. \E w \in {"took", "replaces"} : Taken(q, w)
      BY <2>5 DEF Takes, RestoreTakes
    <2>7. lease' = [by |-> q, left |-> Ttl + Ahead(q)] /\ Ttl + Ahead(q) >= Ttl
      BY <2>6, LeaseAssumption DEF Taken, Ahead
    <2>8. \A r \in Procs : mem'[r].at # "asked"
      <3>1. PICK w \in {"took", "replaces"} : mem' = Written(q, At(q, w))
        BY <2>6 DEF Taken
      <3>2. mem[q] \in Stores /\ mem \in [Procs -> Stores]
        BY DEF Typed, Types
      <3>3. [mem[q] EXCEPT !.at = w] \in Stores /\ [mem[q] EXCEPT !.at = w].at = w
        BY <3>2 DEF Stores, Places
      <3>4. At(q, w) \in [Procs -> Stores] /\ At(q, w)[q].at # "asked"
        BY <3>2, <3>3 DEF At
      <3> QED BY <3>1, <3>4, WrittenAsks
    <2> QED BY <2>7, <2>8
  <1> QED BY <1>1, <1>2

\* The history begins anew when a document is put back.
LEMMA PutBackHistory ==
  ASSUME Typed, PutBack(Blank)
  PROVE  OneHistory' /\ file'.ep = file.ep + 1
  <1>1. /\ file' = [ver |-> 0, ep |-> file.ep + 1, row |-> 0, seqs |-> Blank.seqs, log |-> {}]
        /\ hist' = <<>> /\ base' = Blank /\ \A c \in Clients : Blank.seqs[c] = 0
        /\ base'.ver = 0 /\ base'.row = 0
    BY DEF PutBack, Blank
  <1>2. Len(hist') = 0
    BY <1>1
  <1>3. \A v \in Nat : v = 0 => RowAt(v)' = 0
    BY <1>1 DEF RowAt, Effect
  <1>4. RowAt(file.ver)' = 0
    BY <1>1 DEF RowAt, Effect
  <1>5. Reach(file.ver)' = {}
    BY <1>1 DEF Reach
  <1> QED BY <1>1, <1>2, <1>4, <1>5 DEF OneHistory

\* What the file has it keeps having, or the epoch is another.
LEMMA HistoryStep ==
  ASSUME Typed, Loaded, OneHistory, [Next]_vars
  PROVE  /\ OneHistory' /\ file.ep <= file'.ep
         /\ file'.ep = file.ep =>
              /\ file.ver <= file'.ver
              /\ \A v \in 0 .. file.ver : RowAt(v)' = RowAt(v)
              /\ \A c \in Clients : file.seqs[c] <= file'.seqs[c]
  <1>1. file.ep \in Nat /\ file.ver \in Nat /\ \A c \in Clients : file.seqs[c] \in Nat
    <2>1. file.ep \in Nat /\ file.ver \in Nat /\ file.seqs \in Seqs
      BY DEF Typed, Types, Files
    <2> QED BY <2>1, LeaseAssumption DEF Seqs
  <1>2. CASE UNCHANGED disk
    <2>1. OneHistory'
      BY <1>2 DEF OneHistory, RowAt, Reach, Effect, disk
    <2>2. \A v \in 0 .. file.ver : RowAt(v)' = RowAt(v)
      BY <1>2 DEF RowAt, Effect, disk
    <2>3. file' = file
      BY <1>2 DEF disk
    <2> QED BY <1>1, <2>1, <2>2, <2>3
  <1>3. ASSUME NEW p \in Procs, Commit(p)
        PROVE  /\ OneHistory' /\ file'.ep = file.ep
               /\ file.ver <= file'.ver
               /\ \A v \in 0 .. file.ver : RowAt(v)' = RowAt(v)
               /\ \A c \in Clients : file.seqs[c] <= file'.seqs[c]
    <2>1. Ordered(mem[p]) /\ Continues(mem[p])
      BY <1>3 DEF Commit, Ours, Loaded
    <2>2. /\ file'.ep = file.ep
          /\ \A c \in Clients : file.seqs[c] <= file'.seqs[c]
          /\ file'.ver = Len(hist) + Len(mem[p].todo) /\ Len(mem[p].todo) \in Nat
      BY <1>3, <2>1, CommitShape
    <2>3. file.ver = Len(hist)
      BY DEF OneHistory
    <2>4. OneHistory' /\ \A v \in 0 .. file.ver : RowAt(v)' = RowAt(v)
      BY <1>3, <2>1, CommitHistory
    <2> QED BY <1>1, <2>2, <2>3, <2>4
  <1>4. CASE PutBack(Blank)
    BY <1>1, <1>4, PutBackHistory
  <1>5. UNCHANGED disk \/ (\E p \in Procs : Commit(p)) \/ PutBack(Blank)
    <2>1. ASSUME NEW p \in Procs,
                 Asks(p) \/ Takes(p) \/ Busy(p) \/ ReadsMeta(p) \/ ReadsRows(p) \/ RestoreTakes(p)
                   \/ Renew(p) \/ Answers(p) \/ \E c \in Clients : Writes(p, c)
          PROVE  UNCHANGED disk
      BY <2>1 DEF Asks, Takes, Busy, ReadsMeta, ReadsRows, RestoreTakes, Taken, Renew, Answers, Writes
    <2>2. ASSUME NEW p \in Procs,
                 Refused(p) \/ CommitFails(p) \/ Releases(p) \/ Crashes(p) \/ Restores(p)
          PROVE  UNCHANGED disk
      BY <2>2 DEF Refused, CommitFails, Releases, Crashes, Restores
    <2>3. CASE (\E p \in Procs : RestoreWrites(p)) \/ Removes
      BY <2>3 DEF RestoreWrites, Removes
    <2>4. CASE Tick \/ (\E c \in Clients : Makes(c)) \/ UNCHANGED vars
      BY <2>4 DEF Tick, Makes, vars
    <2> QED BY <2>1, <2>2, <2>3, <2>4 DEF Next, Serves
  <1> QED BY <1>1, <1>2, <1>3, <1>4, <1>5

\* A store whose changes are stored stays one the file has had.
LEMMA WasStoredOn ==
  ASSUME Typed, Loaded, OneHistory, [Next]_vars, NEW m \in Stores, m.ep <= file.ep, WasStored(m)
  PROVE  m.ep <= file'.ep /\ WasStored(m)'
  <1>1. /\ file.ep <= file'.ep
        /\ file'.ep = file.ep =>
              /\ file.ver <= file'.ver
              /\ \A v \in 0 .. file.ver : RowAt(v)' = RowAt(v)
              /\ \A c \in Clients : file.seqs[c] <= file'.seqs[c]
    BY HistoryStep
  <1>2. file \in Files /\ file' \in Files
    BY TypedStep DEF Typed, Types
  <1>3. /\ m.ep \in Nat /\ file.ep \in Nat /\ file'.ep \in Nat /\ m.ver \in Nat /\ file.ver \in Nat /\ file'.ver \in Nat
        /\ m.seqs \in Seqs /\ file.seqs \in Seqs /\ file'.seqs \in Seqs
    BY <1>2 DEF Files, Stores
  <1>4. m.ep <= file'.ep
    BY <1>1, <1>3
  <1>5. ASSUME m.ep = file'.ep, m.todo = <<>>
        PROVE  /\ m.ver <= file'.ver /\ m.row = RowAt(m.ver)'
               /\ \A c \in Clients : m.seqs[c] <= file'.seqs[c]
    <2>1. m.ep = file.ep /\ file'.ep = file.ep
      BY <1>1, <1>3, <1>5
    <2>2. /\ m.ver <= file.ver /\ m.row = RowAt(m.ver)
          /\ \A c \in Clients : m.seqs[c] <= file.seqs[c]
      BY <1>5, <2>1 DEF WasStored
    <2>3. m.ver \in 0 .. file.ver
      BY <1>3, <2>2
    <2>4. \A c \in Clients : m.seqs[c] \in Nat /\ file.seqs[c] \in Nat /\ file'.seqs[c] \in Nat
      BY <1>3, LeaseAssumption DEF Seqs
    <2> QED BY <1>1, <1>3, <2>1, <2>2, <2>3, <2>4
  <1> QED BY <1>4, <1>5 DEF WasStored

\* Whoever serves the store and has the lease after a step had it before, and only its
\* commit wrote to the file.
LEMMA HolderStep ==
  ASSUME Typed, Settled, [Next]_vars, NEW q \in Procs, mem[q].at = "live", lease'.by = q
  PROVE  lease.by = q /\ (UNCHANGED disk \/ Commit(q))
  <1> DEFINE Goal == lease.by = q /\ (UNCHANGED disk \/ Commit(q))
  <1>1. Nobody # q /\ Dead # q /\ NoLease.by = Nobody
    BY LeaseAssumption DEF NoLease
  <1>2. ASSUME NEW p \in Procs, Takes(p) \/ RestoreTakes(p) \/ Renew(p)
        PROVE  Goal
    BY <1>2 DEF Takes, RestoreTakes, Taken, Renew
  <1>3. ASSUME NEW p \in Procs, Commit(p)
        PROVE  Goal
    BY <1>3 DEF Commit, Ours
  <1>4. ASSUME NEW p \in Procs, RestoreWrites(p)
        PROVE  Goal
    <2>1. lease.by = p /\ p \in held /\ lease' = Given(p)
      BY <1>4 DEF RestoreWrites, Unloaded, Settled, Typed, Holding
    <2> QED BY <1>1, <2>1 DEF Given
  <1>5. ASSUME NEW p \in Procs, Refused(p) \/ CommitFails(p) \/ Releases(p) \/ Restores(p)
        PROVE  Goal
    BY <1>1, <1>5 DEF Refused, CommitFails, Releases, Restores, Unloaded, Given
  <1>6. ASSUME NEW p \in Procs, Crashes(p)
        PROVE  Goal
    <2>1. lease' = (IF lease.by = p THEN [lease EXCEPT !.by = Dead] ELSE lease) /\ UNCHANGED disk
      BY <1>6 DEF Crashes
    <2>2. [lease EXCEPT !.by = Dead].by = Dead
      BY DEF Typed, Types
    <2> QED BY <1>1, <2>1, <2>2
  <1>7. ASSUME NEW p \in Procs,
               Asks(p) \/ Busy(p) \/ ReadsMeta(p) \/ ReadsRows(p) \/ Answers(p) \/ \E c \in Clients : Writes(p, c)
        PROVE  Goal
    BY <1>7 DEF Asks, Busy, ReadsMeta, ReadsRows, Answers, Writes
  <1>8. CASE Removes
    BY <1>1, <1>8 DEF Removes
  <1>9. CASE Tick \/ (\E c \in Clients : Makes(c)) \/ UNCHANGED vars
    BY <1>9 DEF Tick, Makes, vars, Typed, Types
  <1>10. ASSUME NEW p \in Procs,
                Asks(p) \/ Serves(p) \/ Renew(p) \/ Answers(p) \/ Commit(p) \/ Refused(p) \/ CommitFails(p)
                  \/ Releases(p) \/ Crashes(p) \/ Restores(p) \/ \E c \in Clients : Writes(p, c)
         PROVE  Goal
    <2>1. CASE Asks(p) \/ Serves(p)
      BY <1>2, <1>4, <1>7, <2>1 DEF Serves
    <2> QED BY <1>2, <1>3, <1>5, <1>6, <1>7, <1>10, <2>1
  <1>11. Goal
    BY <1>8, <1>9, <1>10 DEF Next
  <1> QED BY <1>11

\* What a process has after a step, store by store.
GoodStore(m) == Ordered(m) /\ WasStored(m)

\* A store read whole is the file's.
LEMMA ReadsRowsGood ==
  ASSUME Typed, Settled, Loaded, OneHistory, NEW q \in Procs, ReadsRows(q)
  PROVE  /\ mem'[q].at = "live" /\ mem'[q].ep = file.ep /\ file' = file
         /\ GoodStore(mem[q])' /\ Continues(mem[q])'
  <1> DEFINE s == [mem[q] EXCEPT !.at = "live", !.row = file.row, !.seqs = file.seqs,
                                 !.log = Recent(file.log, mem[q].ver)]
  <1>1. mem[q] \in Stores /\ mem[q].at = "meta" /\ mem \in [Procs -> Stores]
    BY DEF ReadsRows, Typed, Types
  <1>2. mem[q].ep = file.ep /\ mem[q].ver = file.ver /\ mem[q].todo = <<>> /\ mem[q].owed = {}
    BY <1>1 DEF Loaded, Typed, Fits
  <1>3. mem'[q] = s /\ UNCHANGED disk
    BY <1>1 DEF ReadsRows
  <1>4. /\ s.at = "live" /\ s.ver = file.ver /\ s.ep = file.ep /\ s.row = file.row /\ s.seqs = file.seqs
        /\ s.log = Recent(file.log, file.ver) /\ s.todo = <<>> /\ s.owed = {}
    BY <1>1, <1>2 DEF Stores
  <1>5. file.ver \in Nat /\ \A c \in Clients : file.seqs[c] \in Nat
    <2>1. file.ver \in Nat /\ file.seqs \in Seqs
      BY DEF Typed, Types, Files
    <2> QED BY <2>1, LeaseAssumption DEF Seqs
  <1>6. Recent(file.log, file.ver) = Reach(file.ver)
    <2>1. file.log \subseteq 1 .. file.ver /\ Reach(file.ver) \subseteq file.log
      BY DEF OneHistory
    <2> QED BY <1>5, <2>1 DEF Recent, Reach
  <1>7. /\ mem'[q].at = "live" /\ mem'[q].ver = file.ver /\ mem'[q].ep = file.ep /\ mem'[q].row = file.row
        /\ mem'[q].seqs = file.seqs
        /\ mem'[q].log = Reach(file.ver) /\ mem'[q].todo = <<>> /\ mem'[q].owed = {} /\ UNCHANGED disk
    BY <1>3, <1>4, <1>6
  <1> HIDE DEF s
  <1>8. Len(mem'[q].todo) = 0
    BY <1>7
  <1>9. Ordered(mem[q])'
    BY <1>5, <1>7, <1>8 DEF Ordered, Reach
  <1>10. file.row = RowAt(file.ver)
    BY DEF OneHistory
  <1>11. RowAt(mem[q].ver)' = RowAt(file.ver)
    BY <1>7 DEF RowAt, Effect, disk
  <1>12. WasStored(mem[q])'
    BY <1>5, <1>7, <1>10, <1>11 DEF WasStored, disk
  <1>13. Continues(mem[q])'
    BY <1>5, <1>7, <1>8 DEF Continues, disk
  <1> QED BY <1>7, <1>9, <1>12, <1>13 DEF GoodStore, disk

\* A store that is told of, or owes it, is as good as before, and so is what clients know.
LEMMA TellGood ==
  ASSUME Typed, NEW q \in Procs, NEW s \in Stores, s.at = "live", Ordered(s), WasStored(s), s.ep <= file.ep,
         lease.by = q => Continues(s),
         s.todo # <<>> => s.todo[Len(s.todo)].ver = s.ver /\ s.todo[Len(s.todo)].row = s.row,
         NEW c \in Clients, NEW n \in 0 .. MaxOps, n <= s.seqs[c],
         Tell(q, s, c, n), UNCHANGED disk
  PROVE  /\ mem'[q].at = "live" /\ mem'[q].ep <= file.ep /\ GoodStore(mem[q])'
         /\ lease.by = q => Continues(mem[q])'
         /\ Remembered => Remembered'
  <1>1. mem \in [Procs -> Stores] /\ s.ep \in Nat /\ s.ver \in Nat /\ s.seqs \in Seqs /\ file \in Files
        /\ file.seqs \in Seqs /\ acked \in [Clients -> [ep : Nat, n : 0 .. MaxOps]]
    BY DEF Typed, Types, Stores, Files
  <1>2. ASSUME NEW t \in Stores, t.at = "live", t.ep = s.ep, t.ver = s.ver, t.row = s.row, t.seqs = s.seqs,
               t.todo = s.todo, Ordered(t), mem'[q] = t
        PROVE  /\ mem'[q].at = "live" /\ mem'[q].ep <= file.ep /\ GoodStore(mem[q])'
               /\ lease.by = q => Continues(mem[q])'
    <2>1. WasStored(t)'
      BY <1>2 DEF WasStored, RowAt, Effect, disk
    <2>2. WasStored(mem[q])'
      BY <1>2, <2>1 DEF WasStored, RowAt
    <2>3. Ordered(mem[q])'
      BY SMTT(60), <1>2 DEF Ordered, Reach, Effect
    <2>4. lease.by = q => Continues(t)
      BY <1>2 DEF Continues
    <2>5. lease.by = q => Continues(mem[q])'
      BY <1>2, <2>4 DEF Continues, disk
    <2> QED BY <1>2, <2>2, <2>3, <2>5 DEF GoodStore
  <1>3. CASE s.todo = <<>>
    <2>1. mem'[q] = s /\ told' = told \cup {Shown(s)}
      BY <1>1, <1>3 DEF Tell
    <2>2. s.ep = file.ep => /\ s.ver <= file.ver /\ s.row = RowAt(s.ver)
                            /\ \A d \in Clients : s.seqs[d] <= file.seqs[d]
      BY <1>3 DEF WasStored
    <2>3. \A t \in told' : t \in told \/ (t.ep = s.ep /\ t.ver = s.ver /\ t.row = s.row)
      BY <2>1 DEF Shown
    <2>4. ASSUME Remembered
          PROVE  Remembered'
      <3>1. ASSUME NEW t \in told'
            PROVE  t.ep <= file'.ep /\ (t.ep = file'.ep => t.ver <= file'.ver /\ t.row = RowAt(t.ver)')
        <4>1. t.ep <= file.ep /\ (t.ep = file.ep => t.ver <= file.ver /\ t.row = RowAt(t.ver))
          BY <2>2, <2>3, <2>4 DEF Remembered
        <4>2. RowAt(t.ver)' = RowAt(t.ver)
          BY DEF RowAt, Effect, disk
        <4> QED BY <4>1, <4>2 DEF disk
      <3>2. ASSUME NEW d \in Clients
            PROVE  acked'[d].ep <= file'.ep /\ (acked'[d].ep = file'.ep => acked'[d].n <= file'.seqs[d])
        <4>1. acked[d].ep <= file.ep /\ (acked[d].ep = file.ep => acked[d].n <= file.seqs[d])
          BY <2>4 DEF Remembered
        <4>2. file' = file
          BY DEF disk
        <4>3. CASE acked'[d] = acked[d]
          BY <4>1, <4>2, <4>3
        <4>4. CASE acked'[d] # acked[d]
          <5>1. d = c /\ acked'[d] = [ep |-> s.ep, n |-> n]
            BY <1>1, <1>3, <4>4 DEF Tell
          <5>2. s.ep = file.ep => n <= file.seqs[c]
            <6>1. s.seqs[c] \in Nat /\ file.seqs[c] \in Nat /\ n \in Nat
              BY <1>1, LeaseAssumption DEF Seqs
            <6> QED BY <2>2, <6>1
          <5> QED BY <4>2, <5>1, <5>2
        <4> QED BY <4>3, <4>4
      <3> QED BY <3>1, <3>2 DEF Remembered
    <2> QED BY <1>2, <2>1, <2>4
  <1>4. CASE s.todo # <<>>
    <2> DEFINE t == [s EXCEPT !.owed = @ \cup {[c |-> c, n |-> n, doc |-> Shown(s)]}]
    <2>1. mem'[q] = t /\ acked' = acked /\ told' = told
      BY <1>1, <1>4 DEF Tell
    <2>2. /\ Ordered(t) /\ t.ver = s.ver /\ t.ep = s.ep /\ t.todo = s.todo /\ t.row = s.row /\ t.seqs = s.seqs
          /\ t.at = "live"
      BY <1>4, OwedOrdered
    <2>3. t \in Stores
      <3>1. [c |-> c, n |-> n, doc |-> Shown(s)] \in Owings
        BY <1>1 DEF Owings, Shown, Docs, Stores
      <3> QED BY <3>1 DEF Stores
    <2> HIDE DEF t
    <2>4. Remembered => Remembered'
      <3>1. \A v \in Nat : RowAt(v)' = RowAt(v)
        BY DEF RowAt, Effect, disk
      <3>2. \A u \in told : u.ver \in Nat
        BY DEF Typed, Types, Docs
      <3> QED BY <2>1, <3>1, <3>2 DEF Remembered, disk
    <2> QED BY <1>2, <2>1, <2>2, <2>3, <2>4
  <1> QED BY <1>3, <1>4

\* Whether a client writes or asks.
LEMMA TellsGood ==
  ASSUME Typed, Loaded, NEW q \in Procs, Answers(q) \/ \E c \in Clients : Writes(q, c)
  PROVE  /\ mem'[q].at = "live" /\ mem'[q].ep <= file.ep /\ GoodStore(mem[q])'
         /\ lease.by = q => Continues(mem[q])'
         /\ Remembered => Remembered'
         /\ UNCHANGED <<disk, lease>>
  <1>1. /\ mem[q].at = "live" /\ mem[q] \in Stores /\ Ordered(mem[q]) /\ WasStored(mem[q]) /\ mem[q].ep <= file.ep
        /\ lease.by = q => Continues(mem[q])
        /\ UNCHANGED <<disk, lease>>
    BY DEF Answers, Writes, Typed, Types, Loaded
  <1>2. CASE Answers(q)
    <2>1. PICK c \in Clients : Tell(q, mem[q], c, 0)
      BY <1>2 DEF Answers
    <2>2. 0 \in 0 .. MaxOps /\ 0 <= mem[q].seqs[c]
      BY <1>1, LeaseAssumption DEF Stores, Seqs
    <2>3. Decided(mem[q], c, 0) = mem[q]
      BY <2>2 DEF Decided
    <2>4. mem[q].todo # <<>> => mem[q].todo[Len(mem[q].todo)].ver = mem[q].ver
                                /\ mem[q].todo[Len(mem[q].todo)].row = mem[q].row
      BY <1>1, <2>2, <2>3, DecidedOrdered
    <2> QED BY <1>1, <2>1, <2>2, <2>4, TellGood
  <1>3. ASSUME NEW c \in Clients, Writes(q, c)
        PROVE  /\ mem'[q].at = "live" /\ mem'[q].ep <= file.ep /\ GoodStore(mem[q])'
               /\ lease.by = q => Continues(mem[q])'
               /\ Remembered => Remembered'
    <2> DEFINE s == Decided(mem[q], c, made[c])
    <2>1. made[c] \in 0 .. MaxOps /\ made \in Seqs /\ Fits(mem[q], made)
      BY DEF Typed, Types, Seqs
    <2>2. s \in Stores /\ s.at = "live"
      BY <1>1, <2>1, DecidedTypes
    <2>3. /\ Ordered(s) /\ s.ep = mem[q].ep /\ made[c] <= s.seqs[c]
          /\ s.todo # <<>> => s.todo[Len(s.todo)].ver = s.ver /\ s.todo[Len(s.todo)].row = s.row
          /\ s.todo = <<>> => s = mem[q]
      BY <1>1, <2>1, DecidedOrdered
    <2>4. lease.by = q => Continues(s)
      BY <1>1, <2>1, DecidedContinues DEF Typed
    <2>5. Tell(q, s, c, made[c])
      BY <1>3 DEF Writes
    <2> HIDE DEF s
    <2>6. WasStored(s)
      BY <1>1, <2>3 DEF WasStored
    <2> QED BY <1>1, <2>1, <2>2, <2>3, <2>4, <2>5, <2>6, TellGood
  <1> QED BY <1>1, <1>2, <1>3

\* What was told stays so, whatever the step: the file keeps what it has.
LEMMA ToldStays ==
  ASSUME Typed, Loaded, OneHistory, Remembered, [Next]_vars
  PROVE  /\ \A c \in Clients : acked[c].ep <= file'.ep /\ (acked[c].ep = file'.ep => acked[c].n <= file'.seqs[c])
         /\ \A t \in told :
              t.ep <= file'.ep /\ (t.ep = file'.ep => t.ver <= file'.ver /\ t.row = RowAt(t.ver)')
  <1>1. /\ file.ep <= file'.ep
        /\ file'.ep = file.ep =>
              /\ file.ver <= file'.ver
              /\ \A v \in 0 .. file.ver : RowAt(v)' = RowAt(v)
              /\ \A c \in Clients : file.seqs[c] <= file'.seqs[c]
    BY HistoryStep
  <1>2. file \in Files /\ file' \in Files
    BY TypedStep DEF Typed, Types
  <1>3. /\ file.ep \in Nat /\ file'.ep \in Nat /\ file.ver \in Nat /\ file'.ver \in Nat
        /\ file.seqs \in Seqs /\ file'.seqs \in Seqs
    BY <1>2 DEF Files
  <1>4. ASSUME NEW c \in Clients
        PROVE  acked[c].ep <= file'.ep /\ (acked[c].ep = file'.ep => acked[c].n <= file'.seqs[c])
    <2>1. acked[c].ep \in Nat /\ acked[c].n \in 0 .. MaxOps
      BY DEF Typed, Types
    <2>2. acked[c].n \in Nat /\ file.seqs[c] \in Nat /\ file'.seqs[c] \in Nat
      BY <1>3, <2>1, LeaseAssumption DEF Seqs
    <2>3. acked[c].ep <= file.ep /\ (acked[c].ep = file.ep => acked[c].n <= file.seqs[c])
      BY DEF Remembered
    <2> QED BY <1>1, <1>3, <2>1, <2>2, <2>3
  <1>5. ASSUME NEW t \in told
        PROVE  t.ep <= file'.ep /\ (t.ep = file'.ep => t.ver <= file'.ver /\ t.row = RowAt(t.ver)')
    <2>1. t.ep \in Nat /\ t.ver \in Nat
      BY DEF Typed, Types, Docs
    <2>2. t.ep <= file.ep /\ (t.ep = file.ep => t.ver <= file.ver /\ t.row = RowAt(t.ver))
      BY DEF Remembered
    <2>3. t.ep <= file'.ep
      BY <1>1, <1>3, <2>1, <2>2
    <2>4. ASSUME t.ep = file'.ep
          PROVE  t.ver <= file'.ver /\ t.row = RowAt(t.ver)'
      <3>1. t.ep = file.ep /\ file'.ep = file.ep
        BY <1>1, <1>3, <2>1, <2>2, <2>4
      <3>2. t.ver \in 0 .. file.ver /\ t.row = RowAt(t.ver)
        BY <1>3, <2>1, <2>2, <3>1
      <3> QED BY <1>1, <1>3, <2>1, <3>1, <3>2
    <2> QED BY <2>3, <2>4
  <1> QED BY <1>4, <1>5

\* A store after its commit is the file's, and what was owed is so.
LEMMA CommitGood ==
  ASSUME Typed, Loaded, OneHistory, NEW q \in Procs, Commit(q),
         mem'[q] = [mem[q] EXCEPT !.todo = <<>>, !.owed = {}], [Next]_vars
  PROVE  /\ mem'[q].at = "live" /\ mem'[q].ep <= file'.ep /\ GoodStore(mem[q])' /\ Continues(mem[q])'
         /\ Remembered => Remembered'
  <1> DEFINE m == mem[q]
  <1>1. m \in Stores /\ m.at = "live" /\ Ordered(m) /\ Continues(m)
    BY DEF Commit, Ours, Loaded, Typed, Types
  <1>2. /\ mem'[q].at = "live" /\ mem'[q].ep = m.ep /\ mem'[q].ver = m.ver /\ mem'[q].row = m.row
        /\ mem'[q].seqs = m.seqs /\ mem'[q].log = m.log /\ mem'[q].todo = <<>> /\ mem'[q].owed = {}
    BY <1>1 DEF Stores
  <1>3. /\ file'.ver = m.ver /\ file'.row = m.row /\ file'.ep = m.ep
        /\ \A c \in Clients : file'.seqs[c] = m.seqs[c]
    BY <1>1, CommitShape
  <1>4. /\ OneHistory'
        /\ \A v \in Nat, i \in 1 .. Len(m.todo) : v = m.todo[i].ver => RowAt(v)' = m.todo[i].row
    BY <1>1, CommitHistory
  <1>5. /\ m.ver \in Nat /\ m.ep \in Nat /\ m.seqs \in Seqs /\ m.todo \in Seq(Changes)
        /\ \A c \in Clients : m.seqs[c] \in Nat
    <2>1. m.ver \in Nat /\ m.ep \in Nat /\ m.seqs \in Seqs /\ m.todo \in Seq(Changes)
      BY <1>1 DEF Stores
    <2> QED BY <2>1, LeaseAssumption DEF Seqs
  <1>6. Len(mem'[q].todo) = 0
    BY <1>2
  <1>7. Ordered(mem[q])'
    <2>1. m.log = Reach(m.ver) /\ 0 <= m.ver
      BY <1>1, <1>5 DEF Ordered
    <2> HIDE DEF m
    <2> QED BY <1>2, <1>6, <2>1 DEF Ordered, Reach
  <1>8. file'.row = RowAt(file.ver)'
    BY <1>4 DEF OneHistory
  <1>9. RowAt(mem[q].ver)' = RowAt(file.ver)'
    BY <1>2, <1>3 DEF RowAt
  <1>10. WasStored(mem[q])'
    <2> HIDE DEF m
    <2> QED BY <1>2, <1>3, <1>5, <1>8, <1>9 DEF WasStored
  <1>11. Continues(mem[q])'
    <2> HIDE DEF m
    <2> QED BY <1>2, <1>3, <1>5, <1>6 DEF Continues
  <1>12. ASSUME Remembered
         PROVE  Remembered'
    <2>1. /\ \A c \in Clients : acked[c].ep <= file'.ep /\ (acked[c].ep = file'.ep => acked[c].n <= file'.seqs[c])
          /\ \A t \in told :
               t.ep <= file'.ep /\ (t.ep = file'.ep => t.ver <= file'.ver /\ t.row = RowAt(t.ver)')
      BY <1>12, ToldStays
    <2>2. ASSUME NEW c \in Clients
          PROVE  acked'[c].ep <= file'.ep /\ (acked'[c].ep = file'.ep => acked'[c].n <= file'.seqs[c])
      <3>1. acked'[c] = IF Acks(m.owed, c) = {} THEN acked[c] ELSE [ep |-> m.ep, n |-> Latest(Acks(m.owed, c))]
        BY DEF Commit
      <3>2. CASE Acks(m.owed, c) = {}
        BY <2>1, <3>1, <3>2
      <3>3. CASE Acks(m.owed, c) # {}
        <4>1. PICK o \in m.owed : o.c = c /\ Latest(Acks(m.owed, c)) = o.n
          BY <1>1, <3>3, AcksLatest
        <4>2. o.n <= m.seqs[c]
          BY <1>1, <4>1 DEF Ordered
        <4>3. acked'[c].ep = m.ep /\ acked'[c].n = o.n
          BY <3>1, <3>3, <4>1
        <4> HIDE DEF m
        <4> QED BY <1>3, <1>5, <4>2, <4>3
      <3> QED BY <3>2, <3>3
    <2>3. ASSUME NEW o \in m.owed
          PROVE  /\ o.doc.ep <= file'.ep /\ o.doc.ver <= file'.ver
                 /\ o.doc.row = RowAt(o.doc.ver)'
      <3>1. o.doc \in Docs
        BY <1>1 DEF Stores, Owings
      <3>2. o.doc.ep = m.ep
        BY <1>1 DEF Ordered
      <3>3. PICK i \in 1 .. Len(m.todo) : o.doc.ver = m.todo[i].ver /\ o.doc.row = m.todo[i].row
        BY <1>1 DEF Ordered
      <3>4. m.todo[i].ver = m.ver - Len(m.todo) + i
        BY <1>1 DEF Ordered
      <3>5. Len(m.todo) \in Nat
        BY <1>5
      <3>6. o.doc.ver \in Nat
        BY <3>1 DEF Docs
      <3>7. PICK v \in Nat : v = o.doc.ver
        BY <3>6
      <3>8. RowAt(v)' = o.doc.row
        BY <1>4, <3>3, <3>7
      <3>9. o.doc.ver <= m.ver
        BY <1>5, <3>3, <3>4, <3>5
      <3> HIDE DEF m
      <3> QED BY <1>3, <1>5, <3>2, <3>7, <3>8, <3>9 DEF RowAt
    <2>4. ASSUME NEW t \in told'
          PROVE  t.ep <= file'.ep /\ (t.ep = file'.ep => t.ver <= file'.ver /\ t.row = RowAt(t.ver)')
      <3>1. t \in told \/ \E o \in m.owed : t = o.doc
        BY DEF Commit
      <3>2. CASE t \in told
        BY <2>1, <3>2
      <3>3. ASSUME NEW o \in m.owed, t = o.doc
            PROVE  t.ep <= file'.ep /\ t.ver <= file'.ver /\ t.row = RowAt(t.ver)'
        BY <2>3, <3>3
      <3> QED BY <3>1, <3>2, <3>3
    <2> QED BY <2>2, <2>4 DEF Remembered
  <1> QED BY <1>2, <1>3, <1>5, <1>7, <1>10, <1>11, <1>12 DEF GoodStore

\* What a process has of the file, after a step.
LEMMA LoadedStep ==
  ASSUME "stall" \notin Uses, Skew < Ttl, Typed, AskedInTime, Settled, Loaded, OneHistory, [Next]_vars
  PROVE  Loaded'
  <1> SUFFICES ASSUME NEW q \in Procs
               PROVE  /\ mem'[q].ep <= file'.ep
                      /\ mem'[q].at = "meta" => mem'[q].ep = file'.ep /\ mem'[q].ver = file'.ver
                      /\ mem'[q].at = "live" => Ordered(mem[q])' /\ WasStored(mem[q])'
                      /\ mem'[q].at = "live" /\ lease'.by = q => Continues(mem[q])'
    BY DEF Loaded
  <1> DEFINE Goal == /\ mem'[q].ep <= file'.ep
                     /\ mem'[q].at = "meta" => mem'[q].ep = file'.ep /\ mem'[q].ver = file'.ver
                     /\ mem'[q].at = "live" => Ordered(mem[q])' /\ WasStored(mem[q])'
                     /\ mem'[q].at = "live" /\ lease'.by = q => Continues(mem[q])'
  <1>1. /\ mem[q] \in Stores /\ mem[q].ep <= file.ep /\ file.ep <= file'.ep
        /\ mem[q].ep \in Nat /\ file.ep \in Nat /\ file'.ep \in Nat
    <2>1. file \in Files /\ file' \in Files /\ mem[q] \in Stores
      BY TypedStep DEF Typed, Types
    <2>2. file.ep <= file'.ep
      BY HistoryStep
    <2> QED BY <2>1, <2>2 DEF Files, Stores, Loaded
  <1>2. 0 <= file'.ep /\ mem[q].ep <= file'.ep
    BY <1>1
  <1>3. CASE mem'[q] = mem[q]
    <2>1. CASE mem[q].at = "live"
      <3>1. PICK m \in Stores : m = mem[q]
        BY <1>1
      <3>2. m.at = "live" /\ Ordered(m) /\ WasStored(m) /\ m.ep <= file.ep
        BY <1>1, <2>1, <3>1 DEF Loaded
      <3>3. WasStored(m)'
        BY <3>2, WasStoredOn
      <3>4. Ordered(mem[q])' /\ WasStored(mem[q])'
        BY <1>3, <3>1, <3>2, <3>3 DEF Ordered, Reach, Effect, WasStored, RowAt
      <3>5. ASSUME lease'.by = q
            PROVE  Continues(mem[q])'
        <4>1. lease.by = q /\ (UNCHANGED disk \/ Commit(q))
          BY <2>1, <3>5, HolderStep
        <4>2. Continues(m)
          BY <2>1, <3>1, <4>1 DEF Loaded
        <4>3. CASE UNCHANGED disk
          BY <1>3, <3>1, <4>2, <4>3 DEF Continues, disk
        <4>4. CASE Commit(q)
          <5>1. m.todo # <<>> /\ mem' = Written(q, [mem EXCEPT ![q].todo = <<>>, ![q].owed = {}])
            BY <3>1, <4>4 DEF Commit
          <5> DEFINE s == [m EXCEPT !.todo = <<>>, !.owed = {}]
          <5>2. s \in Stores /\ s.todo = <<>>
            <6>1. m \in Stores /\ <<>> \in Seq(Changes)
              BY <3>1
            <6> QED BY <6>1 DEF Stores
          <5>3. [mem EXCEPT ![q].todo = <<>>, ![q].owed = {}] = [mem EXCEPT ![q] = s]
            BY <3>1 DEF Typed, Types
          <5> HIDE DEF s
          <5>4. mem'[q] = s
            BY <5>1, <5>2, <5>3, OthersNear
          <5> QED BY <1>3, <3>1, <5>1, <5>2, <5>4
        <4> QED BY <4>1, <4>3, <4>4
      <3> QED BY <1>2, <1>3, <2>1, <3>4, <3>5
    <2>2. CASE mem[q].at = "meta"
      <3>1. UNCHANGED disk
        BY <2>2, MidwayStep DEF Midway
      <3> QED BY <1>2, <1>3, <2>2, <3>1 DEF Loaded, disk
    <2>3. CASE mem[q].at # "live" /\ mem[q].at # "meta"
      BY <1>2, <1>3, <2>3
    <2> QED BY <2>1, <2>2, <2>3
  <1>4. CASE mem[q].at = "asked" /\ mem'[q] = [mem[q] EXCEPT !.at = "stale"]
    <2>1. mem'[q].at = "stale" /\ mem'[q].ep = mem[q].ep
      BY <1>1, <1>4 DEF Stores
    <2> QED BY <1>2, <2>1
  <1>5. CASE mem'[q].at \in {"none", "asked", "restores"} /\ (mem'[q].ep = 0 \/ mem'[q].ep = mem[q].ep)
    BY <1>2, <1>5
  <1>6. CASE mem'[q].at \in {"took", "replaces"} /\ mem'[q].ep = mem[q].ep
    BY <1>2, <1>6
  <1>7. CASE ReadsMeta(q)
    <2> DEFINE s == [NoStore EXCEPT !.at = "meta", !.ver = file.ver, !.ep = file.ep]
    <2>1. mem' = [mem EXCEPT ![q] = s] /\ UNCHANGED disk
      BY <1>7 DEF ReadsMeta
    <2>2. s.at = "meta" /\ s.ver = file.ver /\ s.ep = file.ep
      BY DEF NoStore
    <2>3. mem'[q] = s
      BY <2>1 DEF Typed, Types
    <2> HIDE DEF s
    <2> QED BY <1>1, <2>1, <2>2, <2>3 DEF disk
  <1>8. CASE ReadsRows(q)
    <2>1. /\ mem'[q].at = "live" /\ mem'[q].ep = file.ep /\ file' = file
          /\ GoodStore(mem[q])' /\ Continues(mem[q])'
      BY <1>8, ReadsRowsGood
    <2> QED BY <1>1, <2>1 DEF GoodStore
  <1>9. CASE Answers(q) \/ \E c \in Clients : Writes(q, c)
    <2>1. /\ mem'[q].at = "live" /\ mem'[q].ep <= file.ep /\ GoodStore(mem[q])'
          /\ lease.by = q => Continues(mem[q])'
          /\ UNCHANGED <<disk, lease>>
      BY <1>9, TellsGood
    <2> QED BY <2>1 DEF GoodStore, disk
  <1>10. CASE Commit(q) /\ mem'[q] = [mem[q] EXCEPT !.todo = <<>>, !.owed = {}]
    <2>1. mem'[q].at = "live" /\ mem'[q].ep <= file'.ep /\ GoodStore(mem[q])' /\ Continues(mem[q])'
      BY <1>10, CommitGood
    <2> QED BY <2>1 DEF GoodStore
  <1>11. \/ mem'[q] = mem[q]
         \/ mem[q].at = "asked" /\ mem'[q] = [mem[q] EXCEPT !.at = "stale"]
         \/ mem'[q].at \in {"none", "asked", "restores"} /\ (mem'[q].ep = 0 \/ mem'[q].ep = mem[q].ep)
         \/ mem'[q].at \in {"took", "replaces"} /\ mem'[q].ep = mem[q].ep
         \/ ReadsMeta(q) \/ ReadsRows(q) \/ Answers(q) \/ (\E c \in Clients : Writes(q, c))
         \/ Commit(q) /\ mem'[q] = [mem[q] EXCEPT !.todo = <<>>, !.owed = {}]
    BY Moves DEF Near
  <1> QED BY <1>3, <1>4, <1>5, <1>6, <1>7, <1>8, <1>9, <1>10, <1>11

\* What clients were told, after a step.
LEMMA RememberedStep ==
  ASSUME Typed, Loaded, OneHistory, Remembered, [Next]_vars
  PROVE  Remembered'
  <1>1. CASE acked' = acked /\ told' = told
    BY <1>1, ToldStays DEF Remembered
  <1>2. ASSUME NEW q \in Procs, Answers(q) \/ \E c \in Clients : Writes(q, c)
        PROVE  Remembered'
    BY <1>2, TellsGood
  <1>3. ASSUME NEW q \in Procs, Commit(q)
        PROVE  Remembered'
    <2> DEFINE s == [mem[q] EXCEPT !.todo = <<>>, !.owed = {}]
    <2>1. mem[q] \in Stores /\ mem \in [Procs -> Stores]
      BY DEF Typed, Types
    <2>2. s \in Stores /\ [mem EXCEPT ![q].todo = <<>>, ![q].owed = {}] = [mem EXCEPT ![q] = s]
      <3>1. mem[q] \in Stores /\ <<>> \in Seq(Changes)
        BY <2>1
      <3>2. s \in Stores
        BY <3>1 DEF Stores
      <3>3. [mem EXCEPT ![q].todo = <<>>, ![q].owed = {}] = [mem EXCEPT ![q] = s]
        BY <2>1
      <3> QED BY <3>2, <3>3
    <2>3. mem' = Written(q, [mem EXCEPT ![q] = s])
      BY <1>3, <2>2 DEF Commit
    <2>4. mem'[q] = s
      BY <2>2, <2>3, OthersNear
    <2> QED BY <1>3, <2>4, CommitGood
  <1>4. ASSUME NEW p \in Procs,
               Asks(p) \/ Serves(p) \/ Renew(p) \/ Refused(p) \/ CommitFails(p) \/ Releases(p) \/ Crashes(p)
                 \/ Restores(p)
        PROVE  acked' = acked /\ told' = told
    <2>1. CASE Asks(p) \/ Serves(p)
      BY <2>1 DEF Asks, Serves, Takes, Busy, ReadsMeta, ReadsRows, RestoreTakes, RestoreWrites, Taken, outer
    <2> QED BY <1>4, <2>1 DEF Renew, Refused, CommitFails, Releases, Crashes, Restores, outer
  <1>5. CASE (\E c \in Clients : Makes(c)) \/ Tick \/ Removes \/ UNCHANGED vars
    BY <1>1, <1>5 DEF Makes, Tick, Removes, vars, outer
  <1> QED BY <1>1, <1>2, <1>3, <1>4, <1>5 DEF Next

\* The invariant holds at first.
LEMMA LedgerInit == Init => Ledger
  <1> SUFFICES ASSUME Init PROVE Ledger
    OBVIOUS
  <1>1. Typed
    BY TypedInit
  <1>2. \A p \in Procs : mem[p] = NoStore
    BY DEF Init
  <1>3. NoStore.at = "none" /\ NoStore.ep = 0 /\ file.ep = 0 /\ 0 <= 0
    BY DEF NoStore, Init
  <1>4. AskedInTime /\ Settled /\ Loaded
    BY <1>2, <1>3 DEF AskedInTime, Settled, Loaded
  <1>5. /\ file.ver = 0 /\ file.row = 0 /\ file.log = {} /\ hist = <<>> /\ Len(hist) = 0 /\ told = {}
        /\ \A c \in Clients : file.seqs[c] = 0 /\ acked[c].ep = 0 /\ acked[c].n = 0
    BY DEF Init, Blank
  <1>6. RowAt(0) = 0
    BY <1>1, RowAtIs DEF Typed
  <1>7. OneHistory
    BY <1>5, <1>6 DEF OneHistory, Reach
  <1>8. Remembered
    BY <1>3, <1>5 DEF Remembered
  <1> QED BY <1>1, <1>4, <1>7, <1>8 DEF Ledger

\* And after each step.
LEMMA LedgerStep ==
  ASSUME "stall" \notin Uses, Skew < Ttl, Ledger, [Next]_vars
  PROVE  Ledger'
  <1>1. Typed /\ AskedInTime /\ Settled /\ Loaded /\ OneHistory /\ Remembered
    BY DEF Ledger
  <1> QED BY <1>1, TypedStep, AskedStep, SettledStep, LoadedStep, HistoryStep, RememberedStep DEF Ledger

-----------------------------------------------------------------------------
(* What the invariant says.                                                *)

\* The file and what a store is about to store make the store.
LEMMA MergedCurrent ==
  ASSUME Typed, OneHistory, NEW p \in Procs, mem[p].todo # <<>>, Ordered(mem[p]), Continues(mem[p])
  PROVE  LET m == mem[p]
             f == Merged(file, m.todo, file.ep, 0)
         IN f.ver = m.ver /\ f.row = m.row /\ f.seqs = m.seqs /\ Recent(f.log, f.ver) = Reach(m.ver)
  <1> DEFINE m == mem[p]
  <1> DEFINE n == Len(m.todo)
  <1> DEFINE f == Merged(file, m.todo, file.ep, 0)
  <1>1. /\ m.todo \in Seq(Changes) /\ m.ver \in Nat
        /\ m.seqs \in [Clients -> 0 .. MaxOps] /\ file.seqs \in [Clients -> 0 .. MaxOps]
        /\ file.ver \in Nat /\ Len(hist) \in Nat /\ MaxOps \in Nat /\ DeltaLog \in Nat /\ DeltaLog > 0
    <2>1. m \in Stores /\ file \in Files /\ hist \in Seq(Clients \X (0 .. MaxOps)) /\ MaxOps \in Nat
      BY LeaseAssumption DEF Typed, Types
    <2> HIDE DEF m
    <2>2. m.todo \in Seq(Changes) /\ m.ver \in Nat /\ m.seqs \in [Clients -> 0 .. MaxOps]
      BY <2>1 DEF Stores, Seqs
    <2>3. file.seqs \in [Clients -> 0 .. MaxOps] /\ file.ver \in Nat
      BY <2>1 DEF Files, Seqs
    <2>4. Len(hist) \in Nat
      BY <2>1
    <2>5. DeltaLog \in Nat /\ DeltaLog > 0
      BY LeaseAssumption
    <2> QED BY <2>1, <2>2, <2>3, <2>4, <2>5
  <1>2. n \in Nat /\ n > 0 /\ n \in 1 .. n
    BY <1>1
  <1>3. ASSUME NEW i \in 1 .. n
        PROVE  m.todo[i].n \in 0 .. MaxOps /\ m.todo[i].ver = file.ver + i
    <2>1. m.todo[i] \in Changes
      BY <1>1
    <2>2. m.todo[i].ver = m.ver - n + i /\ m.ver = file.ver + n
      BY DEF Ordered, Continues
    <2>3. m.ver - n + i = file.ver + i
      BY <1>1, <1>2, <2>2
    <2> QED BY <2>1, <2>2, <2>3 DEF Changes
  <1>4. f.ver = m.ver /\ f.row = m.row
    <2>1. m.todo[n].ver = m.ver - n + n /\ m.todo[n].row = m.row
      BY <1>2 DEF Ordered
    <2>2. m.ver - n + n = m.ver
      BY <1>1, <1>2
    <2> QED BY <2>1, <2>2 DEF Merged
  <1>5. ASSUME NEW c \in Clients
        PROVE  f.seqs[c] = m.seqs[c]
    <2>1. f.seqs[c] = IF Mine(m.todo, c) = {} THEN file.seqs[c] ELSE m.todo[Latest(Mine(m.todo, c))].n
      BY DEF Merged
    <2>2. CASE m.seqs[c] = file.seqs[c] /\ \A i \in 1 .. n : m.todo[i].c # c
      <3>1. Mine(m.todo, c) = {}
        BY <2>2 DEF Mine
      <3> QED BY <2>1, <2>2, <3>1
    <2>3. CASE \E i \in 1 .. n : m.todo[i].c = c /\ m.todo[i].n = m.seqs[c]
      <3>1. PICK i \in 1 .. n : m.todo[i].c = c /\ m.todo[i].n = m.seqs[c]
        BY <2>3
      <3>2. Mine(m.todo, c) # {}
        BY <3>1 DEF Mine
      <3> DEFINE l == Latest(Mine(m.todo, c))
      <3>3. l \in 1 .. n /\ m.todo[l].c = c /\ i <= l
        BY <1>1, <3>1, <3>2, MineLatest
      <3> HIDE DEF l
      <3>4. m.todo[l].n <= m.seqs[c] /\ (i < l => m.todo[i].n < m.todo[l].n)
        BY <3>1, <3>3 DEF Ordered
      <3>5. m.todo[l].n \in 0 .. MaxOps /\ m.todo[i].n \in 0 .. MaxOps
        BY <1>3, <3>1, <3>3
      <3>6. i = l
        BY <1>1, <1>2, <3>1, <3>3, <3>4, <3>5
      <3> QED BY <2>1, <3>1, <3>2, <3>6 DEF l
    <2> QED BY <2>2, <2>3 DEF Continues
  <1>6. f.seqs = m.seqs
    <2>1. \E g : f.seqs = [c \in Clients |-> g[c]]
      <3> DEFINE g == [c \in Clients |-> IF Mine(m.todo, c) = {} THEN file.seqs[c]
                                          ELSE m.todo[Latest(Mine(m.todo, c))].n]
      <3>1. f.seqs = g
        BY DEF Merged
      <3>2. g = [c \in Clients |-> g[c]]
        OBVIOUS
      <3> QED BY <3>1, <3>2
    <2> HIDE DEF f, m
    <2> QED BY <1>1, <1>5, <2>1
  <1>7. Recent(f.log, f.ver) = Reach(m.ver)
    <2>1. f.log = {v \in file.log \cup {m.todo[i].ver : i \in 1 .. n} : v >= 0}
      BY DEF Merged
    <2>2. file.log \subseteq 1 .. file.ver /\ Reach(file.ver) \subseteq file.log
      BY DEF OneHistory
    <2>3. m.ver = file.ver + n
      BY DEF Continues
    <2>4. ASSUME NEW w \in Recent(f.log, f.ver)
          PROVE  w \in Reach(m.ver)
      <3>1. w \in file.log \/ \E i \in 1 .. n : w = m.todo[i].ver
        BY <2>1, <2>4 DEF Recent
      <3>2. w \in 1 .. m.ver
        BY SMTT(60), <1>1, <1>2, <1>3, <2>2, <2>3, <3>1
      <3>3. w > m.ver - DeltaLog
        BY <1>4, <2>4 DEF Recent
      <3> QED BY <3>2, <3>3 DEF Reach
    <2>5. ASSUME NEW w \in Reach(m.ver)
          PROVE  w \in Recent(f.log, f.ver)
      <3>1. w \in 1 .. m.ver /\ w > m.ver - DeltaLog
        BY <2>5 DEF Reach
      <3>2. w \in file.log \cup {m.todo[i].ver : i \in 1 .. n}
        <4>1. CASE w <= file.ver
          <5>1. w \in Reach(file.ver)
            BY <1>1, <1>2, <2>3, <3>1, <4>1 DEF Reach
          <5> QED BY <2>2, <5>1
        <4>2. CASE ~(w <= file.ver)
          <5>1. w - file.ver \in 1 .. n /\ file.ver + (w - file.ver) = w
            BY SMTT(60), <1>1, <1>2, <2>3, <3>1, <4>2
          <5>2. PICK j \in 1 .. n : j = w - file.ver
            BY <5>1
          <5>3. m.todo[j].ver = w
            BY <1>3, <5>1, <5>2
          <5> QED BY <5>3
        <4> QED BY <4>1, <4>2
      <3> HIDE DEF m
      <3>3. w \in f.log
        BY <1>1, <2>1, <3>1, <3>2
      <3> QED BY <1>1, <1>4, <3>1, <3>3 DEF Recent
    <2> QED BY <2>4, <2>5
  <1> QED BY <1>4, <1>6, <1>7

\* The file is one history.
LEMMA LedgerFile == Ledger => FileIsOne
  <1> SUFFICES ASSUME Ledger PROVE FileIsOne
    OBVIOUS
  <1>1. Typed /\ OneHistory
    BY DEF Ledger
  <1>2. base.ver = 0 /\ (\A c \in Clients : base.seqs[c] = 0) /\ file.ver \in Nat /\ Len(hist) \in Nat
        /\ file.seqs \in Seqs
    BY <1>1 DEF Typed, Types, Blank, Files
  <1>3. file.ver = base.ver + Len(hist)
    BY <1>1, <1>2 DEF OneHistory
  <1>4. ASSUME NEW c \in Clients
        PROVE  IF Of(hist, c) = {} THEN file.seqs[c] = base.seqs[c]
               ELSE \E i \in Of(hist, c) : file.seqs[c] = hist[i][2] /\ \A j \in Of(hist, c) : j <= i
    <2>1. CASE file.seqs[c] = 0 /\ \A i \in 1 .. Len(hist) : hist[i][1] # c
      <3>1. Of(hist, c) = {}
        BY <2>1 DEF Of
      <3> QED BY <1>2, <2>1, <3>1
    <2>2. CASE \E i \in 1 .. Len(hist) : hist[i][1] = c /\ hist[i][2] = file.seqs[c]
      <3>1. PICK i \in 1 .. Len(hist) : hist[i][1] = c /\ hist[i][2] = file.seqs[c]
        BY <2>2
      <3>2. i \in Of(hist, c)
        BY <3>1 DEF Of
      <3>3. ASSUME NEW j \in Of(hist, c)
            PROVE  j <= i
        <4>1. j \in 1 .. Len(hist) /\ hist[j][1] = c
          BY DEF Of
        <4>2. hist[j][2] <= file.seqs[c] /\ (i < j => hist[i][2] < hist[j][2])
          BY <1>1, <3>1, <4>1 DEF OneHistory
        <4>3. hist[j][2] \in 0 .. MaxOps /\ file.seqs[c] \in 0 .. MaxOps /\ MaxOps \in Nat
          <5>1. hist[j] \in Clients \X (0 .. MaxOps)
            BY <1>1, <4>1 DEF Typed, Types
          <5> QED BY <1>2, <5>1, LeaseAssumption DEF Seqs
        <4> QED BY <1>2, <3>1, <4>1, <4>2, <4>3
      <3> QED BY <3>1, <3>2, <3>3
    <2> QED BY <1>1, <2>1, <2>2 DEF OneHistory
  <1>5. file.log \subseteq (base.ver + 1) .. file.ver
    BY <1>1, <1>2 DEF OneHistory
  <1>6. \A v \in (base.ver + 1) .. file.ver : v > file.ver - DeltaLog => v \in file.log
    BY <1>1, <1>2 DEF OneHistory, Reach
  <1> QED BY <1>1, <1>3, <1>4, <1>5, <1>6 DEF FileIsOne, OneHistory

\* Whoever has the lease has the store as the file has it.
LEMMA LedgerHolder == Ledger => HolderIsCurrent
  <1> SUFFICES ASSUME Ledger, NEW p \in Live, lease.by = p
               PROVE  LET m == mem[p]
                          f == IF m.todo = <<>> THEN file ELSE Merged(file, m.todo, file.ep, 0)
                      IN  /\ m.ep = file.ep /\ m.ver = f.ver /\ m.row = f.row /\ m.seqs = f.seqs
                          /\ m.log = Recent(f.log, f.ver)
    BY DEF HolderIsCurrent
  <1>1. p \in Procs /\ Typed /\ OneHistory /\ Ordered(mem[p]) /\ Continues(mem[p])
    BY DEF Ledger, Loaded, Live
  <1>2. mem[p].ep = file.ep /\ mem[p].log = Reach(mem[p].ver)
    BY <1>1 DEF Ordered, Continues
  <1>3. CASE mem[p].todo # <<>>
    BY <1>1, <1>2, <1>3, MergedCurrent
  <1>4. CASE mem[p].todo = <<>>
    <2>1. /\ file.ver \in Nat /\ mem[p].seqs \in [Clients -> 0 .. MaxOps] /\ file.seqs \in [Clients -> 0 .. MaxOps]
      BY <1>1 DEF Typed, Types, Files, Stores, Seqs
    <2>2. Len(mem[p].todo) = 0
      BY <1>4
    <2>3. mem[p].ver = file.ver /\ mem[p].row = file.row
      BY <1>1, <2>1, <2>2 DEF Continues
    <2>4. \A c \in Clients : mem[p].seqs[c] = file.seqs[c]
      BY <1>1, <2>2 DEF Continues
    <2>5. mem[p].seqs = file.seqs
      BY <2>1, <2>4
    <2>6. Recent(file.log, file.ver) = Reach(file.ver)
      <3>1. file.log \subseteq 1 .. file.ver /\ Reach(file.ver) \subseteq file.log
        BY <1>1 DEF OneHistory
      <3> QED BY <2>1, <3>1 DEF Recent, Reach
    <2> QED BY <1>2, <1>4, <2>3, <2>5, <2>6
  <1> QED BY <1>3, <1>4

\* The types, as the runs check them.
LEMMA LedgerTypes == Ledger => TypeOK
  <1> SUFFICES ASSUME Ledger PROVE TypeOK
    OBVIOUS
  <1>1. Typed /\ Loaded
    BY DEF Ledger
  <1>2. /\ file.ver \in Nat /\ file.ep \in Nat /\ file.seqs \in Seqs /\ file.row \in 0 .. file.ver
        /\ lease.by \in Procs \cup {Nobody, Dead} /\ lease.left \in Nat
        /\ made \in Seqs /\ \A c \in Clients : acked[c].n <= made[c]
    <2>1. file.ver \in Nat /\ file.row \in Nat /\ file.row <= file.ver
      BY <1>1 DEF Typed, Types, Files
    <2>2. file.row \in 0 .. file.ver
      BY <2>1
    <2> QED BY <1>1, <2>2 DEF Typed, Types, Files
  <1>3. ASSUME NEW p \in Procs
        PROVE  /\ mem[p].at \in {"none", "asked", "stale", "took", "meta", "live", "restores", "replaces"}
               /\ mem[p].ep \in 0 .. file.ep /\ mem[p].seqs \in Seqs
               /\ mem[p].at # "live" => mem[p].todo = <<>> /\ mem[p].owed = {}
               /\ mem[p].todo = <<>> => mem[p].owed = {}
               /\ mem[p].at \in {"meta", "live", "took", "replaces"} <=> p \in held
    <2>1. mem[p] \in Stores /\ Fits(mem[p], made) /\ (mem[p].at \in Holding <=> p \in held) /\ mem[p].ep <= file.ep
      BY <1>1 DEF Typed, Types, Loaded
    <2>2. mem[p].ep \in Nat /\ mem[p].at \in Places /\ mem[p].seqs \in Seqs
      BY <2>1 DEF Stores
    <2>3. mem[p].ep \in 0 .. file.ep
      BY <1>2, <2>1, <2>2
    <2> QED BY <2>1, <2>2, <2>3 DEF Fits, Holding, Places
  <1> QED BY <1>2, <1>3 DEF TypeOK

-----------------------------------------------------------------------------
(* What holds as long as no process is stalled in the middle of a call and *)
(* no clock is ahead of the file's by a lease or more.  With a process     *)
(* stalled between its look at the lease and its write, or with a clock    *)
(* that far ahead, another process takes the lease in between.             *)

\* The invariant, in every state of such a system.
LEMMA LedgerAlways ==
  ASSUME "stall" \notin Uses, Skew < Ttl
  PROVE  Spec => []Ledger
  <1>1. Init => Ledger
    BY LedgerInit
  <1>2. Ledger /\ [Next]_vars => Ledger'
    BY LedgerStep
  <1> QED BY <1>1, <1>2, PTL DEF Spec

\* The file, its lease and the stores in memory stay within their types; no store in
\* memory is of an epoch the file has not come to (sqlite-shared.js 328-335).
THEOREM TypeCorrect ==
  ASSUME "stall" \notin Uses, Skew < Ttl
  PROVE  Spec => []TypeOK
  BY LedgerAlways, LedgerTypes, PTL

\* 26-44: what the processes wrote is one history, each op once and in its order, however
\* often the lease changes hands, a process dies, a commit fails or the storage is put back.
THEOREM OneFile ==
  ASSUME "stall" \notin Uses, Skew < Ttl
  PROVE  Spec => []FileIsOne
  BY LedgerAlways, LedgerFile, PTL

\* 33-36: whoever has the lease has the store as the file has it, but for what it is about
\* to store.
THEOREM Current ==
  ASSUME "stall" \notin Uses, Skew < Ttl
  PROVE  Spec => []HolderIsCurrent
  BY LedgerAlways, LedgerHolder, PTL

\* store.js 29-34: an op that was acknowledged is in the file, whichever process serves the
\* store by now.
THEOREM Acknowledged ==
  ASSUME "stall" \notin Uses, Skew < Ttl
  PROVE  Spec => []AckedIsStored
  <1>1. Ledger => AckedIsStored
    BY DEF Ledger, Remembered, AckedIsStored
  <1> QED BY <1>1, LedgerAlways, PTL

\* store.js 29-34: whatever a session was told, by a process that lost its lease and does
\* not know too, the file has held.
THEOREM History ==
  ASSUME "stall" \notin Uses, Skew < Ttl
  PROVE  Spec => []ToldIsHistory
  <1>1. Ledger => ToldIsHistory
    BY DEF Ledger, Remembered, ToldIsHistory
  <1> QED BY <1>1, LedgerAlways, PTL
=============================================================================
