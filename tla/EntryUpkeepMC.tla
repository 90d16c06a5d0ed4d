---------------------------- MODULE EntryUpkeepMC ----------------------------
(* EntryUpkeep on small instances. *)
EXTENDS EntryUpkeep, TLC

CONSTANTS r1, r2

Aged(e, kind, uses, doc) ==
  [kind |-> kind, root |-> e, current |-> TRUE, usage |-> uses, old |-> TRUE, aged |-> TRUE, doc |-> doc]

\* An imported entry of low quality that has been retrieved once.
Imported(e, q) == Aged(e, "imported", 1, [NoDoc EXCEPT !.quality = q, !.review = TRUE])

\* The event after so many imports.
Event(e, runs) == Aged(e, "event", 0, [NoDoc EXCEPT !.runs = runs, !.history = [n \in 1..runs |-> 0]])
Closed(v) == [v EXCEPT !.current = FALSE]

\* Two decisions of which the first contradicts the second; the event of two
\* imports and a worthless entry; a poor entry and a note; the event of two
\* imports, a revision of that of the first, and an archived event.
OldEntries ==
  { << Aged(1, "decision", 0, [NoDoc EXCEPT !.status = "active", !.conflicts = {2}, !.pending = TRUE]),
       Aged(2, "decision", 0, [NoDoc EXCEPT !.status = "active"]) >>,
    << Event(1, 2), Imported(2, 0) >>,
    << Imported(1, 1), Aged(2, "note", 0, NoDoc) >>,
    << Closed(Event(1, 1)), Event(1, 2), Closed(Event(3, 1)) >> }

Symmetry == Permutations(Request)
=============================================================================
