---------------------------- MODULE MC_RateLimiter ----------------------------
(***************************************************************************)
(* Small instances of RateLimiter for TLC: the window is shorter than the  *)
(* time that passes, so attempts expire, also between two steps of one     *)
(* thread, and exactly at the boundary.                                    *)
(***************************************************************************)
EXTENDS RateLimiter, TLC

Symmetry == Permutations(Threads)

===============================================================================
