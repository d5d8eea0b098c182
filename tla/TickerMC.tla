------------------------------ MODULE TickerMC ------------------------------
(* Instances of Ticker for TLC. *)
EXTENDS Ticker, TLC

Symmetry == Permutations(Timers) \cup Permutations(Tags)
=============================================================================
