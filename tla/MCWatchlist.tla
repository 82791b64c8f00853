----------------------------- MODULE MCWatchlist -----------------------------
(* Instances of Watchlist for TLC. *)
EXTENDS Watchlist

MCResult == {[status |-> "clean", count |-> 0], [status |-> "exposed", count |-> 1]}
=============================================================================
