---------------------------- MODULE OpDelivery ----------------------------
(***************************************************************************)
(* What a client's edits come to (docs/offline.md, docs/protocol.md:12-18):*)
(* an op waits in the outbox until the store has decided it, or a newer op *)
(* of the client took its place; and the store decides each op at most     *)
(* once, in the order they were made.  Nothing is said of sockets, hellos, *)
(* resends or restarts.  Refusals are left out: a rule refuses no op here. *)
(***************************************************************************)
EXTENDS Naturals

VARIABLES
  made,      \* the ops the client made so far
  pending,   \* those in its outbox
  decided    \* those the store decided

Init ==
  /\ made = 0
  /\ pending = {}
  /\ decided = {}

Make ==
  /\ made' = made + 1
  /\ \E moot \in SUBSET pending : pending' = (pending \ moot) \cup {made'}
  /\ UNCHANGED decided

Decide ==
  /\ \E s \in 1 .. made :
       /\ \A d \in decided : d < s
       /\ decided' = decided \cup {s}
  /\ UNCHANGED <<made, pending>>

Settle ==
  /\ \E done \in SUBSET decided : pending' = pending \ done
  /\ UNCHANGED <<made, decided>>

Spec == Init /\ [][Make \/ Decide \/ Settle]_<<made, pending, decided>>
===========================================================================
