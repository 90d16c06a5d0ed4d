------------------------------- MODULE Ordered -------------------------------
(***************************************************************************)
(* Finite sets of numbers, listed in their order.  The k-th number is      *)
(* chosen by its rank, not found by recursion, so that what the lists hold *)
(* can be proved (OrderedProofs).                                          *)
(***************************************************************************)
EXTENDS Naturals, FiniteSets

\* The number of which k numbers of S are not greater.
Kth(S, k) == CHOOSE n \in S : Cardinality({m \in S : m <= n}) = k

Ascending(S)  == [k \in 1..Cardinality(S) |-> Kth(S, k)]
Descending(S) == [k \in 1..Cardinality(S) |-> Kth(S, Cardinality(S) + 1 - k)]
=============================================================================
