---------------------------- MODULE Histories ----------------------------
(***************************************************************************)
(* What a store's state amounts to.  A HISTORY is the changes that landed, *)
(* oldest first: as long as the store's version, and the records are what  *)
(* it makes of them.  An IMAGE is a history with what else is stored: the  *)
(* last op decided for each replica (`seq') and the replicas somebody owns *)
(* (`owned', server/store.js:452-503).                                     *)
(***************************************************************************)
EXTENDS Naturals, Sequences

CONSTANTS
  Peers,   \* the clients, one replica each
  Server   \* the author of the store's own writes

Ops == (Peers \cup {Server}) \X Nat
Image == [log : Seq(Ops), seq : [Peers -> Nat], owned : SUBSET Peers]

Blank == [log |-> <<>>, seq |-> [p \in Peers |-> 0], owned |-> {}]

\* History a is where history b was, or is.
Before(a, b) == Len(a) <= Len(b) /\ \A i \in 1 .. Len(a) : a[i] = b[i]

\* Image a is where image b was, or is.
Precedes(a, b) ==
  /\ Before(a.log, b.log)
  /\ \A p \in Peers : a.seq[p] <= b.seq[p]
  /\ a.owned \subseteq b.owned

\* No op is in the history twice.
Once(log) == \A i, j \in 1 .. Len(log) : i # j => log[i] # log[j]
===========================================================================
