----------------------------- MODULE MCLeaderLock -----------------------------
(* A small instance of LeaderLock for TLC. *)
EXTENDS LeaderLock

EverywhereChecked == [m \in Monitors |-> Regions]
=============================================================================
