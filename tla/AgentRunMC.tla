----------------------------- MODULE AgentRunMC -----------------------------
(* Two agents at home in one project: the key of the first reaches only that *)
(* project, the key of the second every project.                             *)
EXTENDS AgentRun

CONSTANTS a1, a2, p1, p2, x

HomeOfBoth == [a \in {a1, a2} |-> p1]
ReachOfOne == [a \in {a1, a2} |-> {p1}]
Neighbours == [p \in {p1, p2} |-> IF p = p1 THEN {p2} ELSE {}]

\* One entry in none, of the text that runs write.
OneEntry == << [project |-> None, current |-> TRUE, text |-> x, supersedes |-> 0, copyOf |-> 0] >>
=============================================================================
