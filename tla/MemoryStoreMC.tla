---------------------------- MODULE MemoryStoreMC ----------------------------
(* Small instances of MemoryStore for TLC.                                  *)
EXTENDS MemoryStore, TLC

CONSTANTS t1, t2, e1, e2, e3, e4, e5, p1, p2

\* One open entry of the project, one archived before the migration.
OneChainHome == (e1 :> p1) @@ (e2 :> p1)

\* Two open entries of the project.
TwoChainsHome == (e1 :> p1) @@ (e2 :> p1)

\* An open entry that has no project yet.
UnscopedHome == (e1 :> None) @@ (e2 :> p1)

TwoLinked == {<<e1, e2>>}
NoLinks == {}

RequestSymmetry == Permutations({t1, t2})
IdSymmetry4 == Permutations({t1, t2}) \cup Permutations({e3, e4})
IdSymmetry5 == Permutations({t1, t2}) \cup Permutations({e3, e4, e5})
=============================================================================
