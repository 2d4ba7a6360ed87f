--------------------------- MODULE DurableStore ---------------------------
(***************************************************************************)
(* What a store promises those outside it (server/store.js:29-34): what is *)
(* stored only grows, each op lands in it at most once, and whatever any   *)
(* client is told is stored already.  Nothing is said of how: turns,       *)
(* groups, queues, failures and crashes are not seen here.                 *)
(***************************************************************************)
EXTENDS Histories

VARIABLES
  stored,   \* the image the storage holds
  heard,    \* the history the last message told of
  acked     \* the last op each replica was told is decided

Init ==
  /\ stored = Blank
  /\ heard = <<>>
  /\ acked = [p \in Peers |-> 0]

\* Changes reach the storage, some at a time.
Store ==
  /\ stored' \in Image
  /\ Precedes(stored, stored')
  /\ Once(stored'.log)
  /\ UNCHANGED <<heard, acked>>

\* A client is told of a history, and of an op decided.
Tell ==
  /\ heard' \in Seq(Ops) /\ Before(heard', stored.log)
  /\ acked' \in [Peers -> Nat]
  /\ \A p \in Peers : acked[p] <= acked'[p] /\ acked'[p] <= stored.seq[p]
  /\ UNCHANGED stored

Spec == Init /\ [][Store \/ Tell]_<<stored, heard, acked>>
===========================================================================
