---------------------------- MODULE ProjectScopeMC ----------------------------
(* ProjectScope on small instances. *)
EXTENDS ProjectScope, TLC

CONSTANTS k1, k2, s1, s2, ta

\* Two checkouts of one name; the key of the second is restricted to a tenant.
OneName  == [k \in Checkout |-> "name"]
OneReach == [k \in Checkout |-> IF k = k2 THEN {ta} ELSE {}]

Symmetry == Permutations(Slot)
=============================================================================
