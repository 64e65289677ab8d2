------------------------------ MODULE MCOutbox ------------------------------
(* Small instances of Outbox for TLC. *)
EXTENDS Outbox

Symmetry ==
  Permutations(Pollers) \union Permutations(Events) \union Permutations(Channels)
=============================================================================
