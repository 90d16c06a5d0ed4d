---------------------------- MODULE MemoryRecords ----------------------------
(***************************************************************************)
(* The rows of memory_entries and memory_change_events, reduced to the     *)
(* columns that validity, lineage and the change feed depend on, and the   *)
(* predicates the repository states over them.                             *)
(***************************************************************************)
EXTENDS Integers, FiniteSets

CONSTANTS
  Entry,     \* ids a memory entry can get
  Project,   \* projects, each with its change feed
  None       \* NULL

Open == -1       \* valid_to IS NULL

Row == [project    : Project \cup {None},
        validFrom  : Nat,
        validTo    : Nat \cup {Open},
        archived   : BOOLEAN,
        supersedes : Entry \cup {None},
        history    : BOOLEAN]

Kinds == {"created", "revised", "archived", "restored"}

Event == [project  : Project,
          seq      : Nat,
          kind     : Kinds,
          entry    : Entry,
          previous : Entry \cup {None}]

ASSUME NoneAssumption ==
  None \notin Entry /\ None \notin Project /\ None \notin Row

\* An id is a UUID of 128 bits.
ASSUME EntryAssumption == IsFiniteSet(Entry)

\* The columns that revise, restore, archive and assign check.
IsOpen(r) == ~r.archived /\ r.validTo = Open

\* current_predicate
IsCurrent(r, at) ==
  /\ r.validFrom <= at
  /\ r.validTo = Open \/ r.validTo > at
  /\ ~r.archived

\* Mutant: a closed entry is still valid at valid_to.
IsValidAtInclusive(r, at) ==
  r.history /\ r.validFrom <= at /\ (r.validTo = Open \/ r.validTo >= at)

\* historical_predicate
IsValidAt(r, at) ==
  /\ r.history
  /\ r.validFrom <= at
  /\ r.validTo = Open \/ r.validTo > at

\* ck_memory_valid_interval
IntervalHolds(r) == r.validTo = Open \/ r.validTo > r.validFrom

Close(r, at) == [r EXCEPT !.validTo = at, !.archived = TRUE]

NewRow(p, from, parent) ==
  [project |-> p, validFrom |-> from, validTo |-> Open, archived |-> FALSE,
   supersedes |-> parent, history |-> TRUE]

\* The start of each entry's chain in a table, following supersedes_id.
Roots(table) ==
  LET walk[n \in 0..Cardinality(Entry)] ==
        [e \in Entry |->
           IF n = 0 \/ table[e] = None \/ table[e].supersedes = None THEN e
           ELSE walk[n - 1][table[e].supersedes]]
  IN walk[Cardinality(Entry)]
=============================================================================
