---------------------------- MODULE MemoryHistory ----------------------------
(***************************************************************************)
(* What the memory store promises its clients: semantic writes that take   *)
(* effect one at a time on linear chains of revisions, each with its       *)
(* events appended to the project's numbered change feed in the same step. *)
(* MemoryStore, where requests interleave statement by statement,          *)
(* implements this specification.                                          *)
(***************************************************************************)
EXTENDS MemoryRecords

CONSTANTS
  Time,          \* clock values
  InitialRows    \* the table when the change feed came in

VARIABLES
  rows,          \* memory_entries
  feed,          \* last sequence number of each project
  events         \* memory_change_events

vars == <<rows, feed, events>>

Init ==
  /\ rows = InitialRows
  /\ feed = [p \in Project |-> 0]
  /\ events = {}

Succeeded(e) == \E s \in Entry : rows[s] # None /\ rows[s].supersedes = e

\* The events of one write: what happened to which entries, numbered on from
\* the last sequence number of their project.
What(x) == [project |-> x.project, kind |-> x.kind,
            entry |-> x.entry, previous |-> x.previous]

Append(facts) ==
  LET new == events' \ events
      real == {f \in facts : f.project # None}
  IN
  /\ events \subseteq events'
  /\ {What(x) : x \in new} = real
  /\ \A x, y \in new : What(x) = What(y) => x = y
  /\ DOMAIN feed' = Project
  /\ \A p \in Project :
       /\ feed'[p] >= feed[p]
       /\ {x.seq : x \in {y \in new : y.project = p}} = (feed[p] + 1) .. feed'[p]
       /\ \A x, y \in new : x.project = p /\ y.project = p /\ x.seq = y.seq => x = y

Fact(p, kind, e, previous) ==
  [project |-> p, kind |-> kind, entry |-> e, previous |-> previous]

Create(n, p, from) ==
  /\ rows[n] = None
  /\ rows' = [rows EXCEPT ![n] = NewRow(p, from, None)]
  /\ Append({Fact(p, "created", n, None)})

Revise(e, n, at) ==
  /\ rows[e] # None /\ IsOpen(rows[e]) /\ ~Succeeded(e)
  /\ rows[n] = None
  /\ at > rows[e].validFrom
  /\ rows' = [rows EXCEPT ![e] = Close(@, at),
                          ![n] = NewRow(rows[e].project, at, e)]
  /\ Append({Fact(rows[e].project, "revised", n, e)})

\* One entry, or the entries of one maintenance run.
Archive(S) ==
  /\ \A e \in S : rows[e] # None /\ IsOpen(rows[e]) /\ ~Succeeded(e)
  /\ rows' = [e \in Entry |-> IF e \in S THEN Close(rows[e], rows'[e].validTo)
                                          ELSE rows[e]]
  /\ \A e \in S : rows'[e].validTo \in Time /\ IntervalHolds(rows'[e])
  /\ Append({Fact(rows[e].project, "archived", e, None) : e \in S})

\* The end of the chain, current or archived, gets a successor with the
\* content of an earlier (or the archived) revision.
Restore(l, s, n, at) ==
  /\ rows[l] # None /\ rows[s] # None /\ rows[n] = None
  /\ rows[l].history /\ rows[s].history
  /\ Roots(rows)[l] = Roots(rows)[s] /\ ~Succeeded(l)
  /\ IF IsOpen(rows[l]) THEN s # l /\ at > rows[l].validFrom
                        ELSE rows[l].archived /\ at >= rows[l].validTo
  /\ rows' = [rows EXCEPT ![l] = IF IsOpen(@) THEN Close(@, at) ELSE @,
                          ![n] = NewRow(rows[l].project, at, l)]
  /\ Append({Fact(rows[l].project, "restored", n, l)})

\* An entry without project and predecessor becomes one of a project.
Assign(e, n, p, at) ==
  /\ rows[e] # None /\ IsOpen(rows[e])
  /\ rows[e].project = None /\ rows[e].supersedes = None
  /\ rows[n] = None
  /\ at > rows[e].validFrom
  /\ rows' = [rows EXCEPT ![e] = Close(@, at), ![n] = NewRow(p, at, None)]
  /\ Append({Fact(p, "created", n, None)})

Next ==
  \/ \E n \in Entry, p \in Project \cup {None}, from \in Time : Create(n, p, from)
  \/ \E e, n \in Entry, at \in Time : Revise(e, n, at)
  \/ \E S \in SUBSET Entry : Archive(S)
  \/ \E l, s, n \in Entry, at \in Time : Restore(l, s, n, at)
  \/ \E e, n \in Entry, p \in Project, at \in Time : Assign(e, n, p, at)

Spec == Init /\ [][Next]_vars
=============================================================================
