----------------------------- MODULE MCPlayout -----------------------------
(* Playout on one station: one selection of each kind that matters and two  *)
(* attempts at a leader.                                                    *)
EXTENDS Playout, TLC
CONSTANTS a1, l1, l2, m1, c1
=============================================================================
