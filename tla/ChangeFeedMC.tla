----------------------------- MODULE ChangeFeedMC -----------------------------
(* A small instance of ChangeFeed for TLC.                                  *)
EXTENDS ChangeFeed

CONSTANTS w1, w2, r1, t1, t2
=============================================================================
