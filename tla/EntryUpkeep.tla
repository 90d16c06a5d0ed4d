----------------------------- MODULE EntryUpkeep -----------------------------
(***************************************************************************)
(* The upkeep of entries: what retrieval, the review queues, the lifecycle *)
(* and compaction runs, imports and revisions write into the metadata and  *)
(* the usage counter of entries other requests are using.                  *)
(*                                                                         *)
(* A request is one transaction at READ COMMITTED.  It reads the entries   *)
(* it works on into its session, decides what to write, and writes entry   *)
(* by entry; metadata is one JSON column, read, changed in memory and      *)
(* written back whole.  An UPDATE takes the row's lock until the end of    *)
(* the transaction and changes only its own columns of the latest version. *)
(* Archiving, revising and restoring lock the row and read it again first. *)
(*                                                                         *)
(* Links, the change feed and the order of revisions are in MemoryStore;   *)
(* texts are kept only as far as an import finds its entry by them.        *)
(***************************************************************************)
EXTENDS Naturals, Sequences, FiniteSets, Ordered

CONSTANTS
  Request,      \* request slots
  Seeds,        \* the entries there may be at the start, by id 1..Len(seed)
  MaxEntries,   \* bound on the ids of entries
  MaxRequests,  \* bound on the requests started
  HistoryCap    \* import_history keeps the last so many runs (10 in the code)

Id    == 1..MaxEntries
Kinds == {"decision", "imported", "event", "note"}
Modes == {"create", "skip", "update"}
Stati == {"none", "active", "superseded", "rejected"}

\* Quality is 2 when it needs no review, 1 above and 0 below the threshold
\* of the lifecycle run.
Docs == [quality : 0..2, review : BOOLEAN, overdue : BOOLEAN, pending : BOOLEAN,
         conflicts : SUBSET Id, status : Stati, into : Id \cup {0},
         runs : Nat, history : Seq(Nat)]

\* root is the entry whose revisions, revisions of these, and so on it is one of.
Row == [kind : Kinds, root : Id, current : BOOLEAN, usage : Nat, old : BOOLEAN, aged : BOOLEAN, doc : Docs]

ASSUME UpkeepAssumption ==
  /\ MaxEntries \in Nat /\ MaxRequests \in Nat /\ HistoryCap \in Nat \ {0}
  /\ \A seed \in Seeds : seed \in Seq(Row) /\ Len(seed) <= MaxEntries

\* The project was imported at most HistoryCap times, always in one mode that
\* goes on with its event and its entry.
ASSUME SeedAssumption ==
  \A seed \in Seeds : \A e \in DOMAIN seed :
    /\ seed[e].kind = "event" =>
         seed[e].doc.runs = Len(seed[e].doc.history) /\ Len(seed[e].doc.history) <= HistoryCap
    /\ \A f \in DOMAIN seed : seed[e].current /\ seed[f].current /\ seed[e].kind = seed[f].kind
         => seed[e].kind \notin {"event", "imported"} \/ e = f

VARIABLES
  row,      \* memory_entries as committed: a function on the ids in use
  req,      \* the running requests
  started,  \* number of requests started, and the id of the newest import run
  told,     \* history: what committed requests told each entry
  raced,    \* history: entries written by a request that had read an older version
  log,      \* history: the import runs an event stands for, in order
  retired,  \* history: <<summary, entry>> archived by a compaction
  twins     \* history: kinds an import or a restoration made another one of

vars == <<row, req, started, told, raced, log, retired, twins>>

Idle == [pc |-> "idle"]

-----------------------------------------------------------------------------
(* The database as a request sees it                                        *)

Dirty(r)     == IF req[r].pc = "idle" THEN << >> ELSE req[r].dirty
Locked(r, e) == \E u \in Request \ {r} : e \in DOMAIN Dirty(u)

\* The version a statement of r that locks e reads or changes.
Latest(r, e) == IF e \in DOMAIN Dirty(r) THEN Dirty(r)[e] ELSE row[e]

Put(f, e, v) == [x \in DOMAIN f \cup {e} |-> IF x = e THEN v ELSE f[x]]

Patched(doc, keys) == [k \in DOMAIN doc |-> IF k \in DOMAIN keys THEN keys[k] ELSE doc[k]]

Used == DOMAIN row \cup UNION {DOMAIN Dirty(r) : r \in Request}
\* Ids are given in the order of creation.
Free == {e \in Id : \A u \in Used : u < e}
NewId == CHOOSE e \in Free : \A f \in Free : e <= f

\* current_predicate, for the entries r sees.
Current(r) == {e \in DOMAIN row \cup DOMAIN Dirty(r) : Latest(r, e).current}

Newest(S) == CHOOSE e \in S : \A f \in S : f <= e

\* The revisions of e that r sees; they share its type.
Chain(r, e) ==
  {x \in DOMAIN row \cup DOMAIN Dirty(r) : /\ Latest(r, x).root = Latest(r, e).root
                                         /\ Latest(r, x).kind = Latest(r, e).kind}

\* The last runs of a history.
LastRuns(s) == SubSeq(s, (IF Len(s) > HistoryCap THEN Len(s) - HistoryCap ELSE 0) + 1, Len(s))

-----------------------------------------------------------------------------
(* Statements of a handler                                                  *)

Patch(e, keys)   == [do |-> "patch", id |-> e, keys |-> keys]
Use(e)           == [do |-> "use", id |-> e]
Archive(e)       == [do |-> "archive", id |-> e]
\* update_memory: a revision that patches these keys, of a quality the gate
\* lets through.
Revise(e, keys, lowest) == [do |-> "revise", id |-> e, keys |-> keys, lowest |-> lowest]
\* restore: the revision s of e is put on top of the chain again.
Restore(e, s)    == [do |-> "restore", id |-> e, source |-> s]
Create(kind, keys) == [do |-> "create", kind |-> kind, keys |-> keys]
Match            == [do |-> "match"]

\* Id 0 in a statement is the entry that the request created last.
Target(r, e) == IF e = 0 THEN req[r].fresh ELSE e

\* One statement for each entry of a list; the repository lists the newest first.
Each(statement) == [n \in 1..Cardinality(DOMAIN statement) |-> statement[Descending(DOMAIN statement)[n]]]

NoDoc == [quality |-> 2, review |-> FALSE, overdue |-> FALSE, pending |-> FALSE,
          conflicts |-> {}, status |-> "none", into |-> 0, runs |-> 0, history |-> << >>]

-----------------------------------------------------------------------------
(* What the handlers decide from what they read                             *)

\* lifecycle: decay, mark overdue, archive, each over the whole list.
Decays(S)   == {e \in S : row[e].current /\ row[e].kind = "imported" /\ row[e].old}
Overdue(S)  == {e \in S : row[e].current /\ row[e].aged /\ row[e].doc.pending /\ ~row[e].doc.overdue}

\* Mutant: the score may fall below zero.
DecayedBelowZero(e) == row[e].doc.quality - 1

\* One step down the scale, never below zero.
Decayed(e) == IF row[e].doc.quality > 0 THEN row[e].doc.quality - 1 ELSE 0

\* Mutant: entries are archived however often they are used.
WorthlessHoweverUsed(S) ==
  {e \in S : /\ row[e].current /\ row[e].kind = "imported"
             /\ (IF e \in Decays(S) THEN Decayed(e) ELSE row[e].doc.quality) = 0}

\* Of little importance, poor, and hardly ever retrieved.
Worthless(S) ==
  {e \in S : /\ row[e].current /\ row[e].kind = "imported" /\ row[e].usage <= 1
             /\ (IF e \in Decays(S) THEN Decayed(e) ELSE row[e].doc.quality) = 0}

LifecyclePlan ==
  LET S == DOMAIN row
  IN    Each([e \in Decays(S) |-> Patch(e, [quality |-> Decayed(e)])])
     \o Each([e \in Overdue(S) |-> Patch(e, [overdue |-> TRUE])])
     \o Each([e \in Worthless(S) |-> Archive(e)])

\* resolve_decision_conflict of entry e with o.
Settled == [pending |-> FALSE, conflicts |-> {}]
ResolvePlan(e, o, action) ==
  LET Entry(keys) == Patch(e, keys)
      Other == Patch(o, [status |-> row[o].doc.status, pending |-> row[o].doc.pending,
                         conflicts |-> row[o].doc.conflicts])
  IN CASE action = "supersede" ->
            << Entry([status |-> "active", pending |-> FALSE, conflicts |-> {}]),
               Patch(o, [status |-> "superseded", pending |-> FALSE, conflicts |-> {}]),
               Archive(o) >>
       [] action = "reject_new" ->
            << Entry([status |-> "rejected", pending |-> FALSE, conflicts |-> {}]), Other, Archive(e) >>
       [] action = "keep_both" -> << Entry(Settled), Other >>
       [] action = "needs_changes" -> << Entry([pending |-> TRUE, conflicts |-> row[e].doc.conflicts]), Other >>

\* resolve_quality_review; false_positive is an approval with a flag more.
ReviewPlan(e, action) ==
  CASE action = "approve" ->
         << Patch(e, [review |-> FALSE, overdue |-> FALSE, quality |-> row[e].doc.quality]) >>
    [] action = "archive" ->
         << Patch(e, [review |-> FALSE, overdue |-> FALSE, quality |-> row[e].doc.quality]), Archive(e) >>
    [] action = "needs_changes" ->
         << Patch(e, [review |-> TRUE, overdue |-> FALSE, quality |-> row[e].doc.quality]) >>

\* compaction: the summary, then entry by entry in the order given.
CompactPlan(e, o, archive) ==
  LET Mark(x) == << Patch(x, [into |-> 0]) >> \o (IF archive THEN << Archive(x) >> ELSE << >>)
  IN << Create("note", [quality |-> 2]) >> \o Mark(e) \o Mark(o)

\* The event of earlier imports, which an import in mode update goes on with.
ActiveEvents == {e \in DOMAIN row : row[e].current /\ row[e].kind = "event"}

\* Mutant: the history keeps its first runs.
AccountFirst(doc, n) ==
  [runs |-> doc.runs + 1, history |-> SubSeq(Append(doc.history, n), 1,
     IF Len(doc.history) < HistoryCap THEN Len(doc.history) + 1 ELSE HistoryCap)]

\* import_runs_count and import_history after run n.
Account(doc, n) == [runs |-> doc.runs + 1, history |-> LastRuns(Append(doc.history, n))]

\* What the event read says of its compaction goes into the patch of its revision.
Carried(doc) == IF doc.into = 0 THEN << >> ELSE [into |-> doc.into]

ImportPlan(mode, changed, n) ==
  LET e == Newest(ActiveEvents)
  IN (IF mode # "update" \/ ActiveEvents = {} THEN << Create("event", Account(NoDoc, n)) >>
      ELSE IF changed THEN << Revise(e, Carried(row[e].doc), 0), Patch(0, Account(row[e].doc, n)) >>
      ELSE << Patch(e, Account(row[e].doc, n)) >>)
     \o << Match >>

Plan(r) ==
  LET q == req[r] IN
  CASE q.op = "retrieve"  -> << Use(q.e) >>
    [] q.op = "lifecycle" -> LifecyclePlan
    [] q.op = "resolve"   -> ResolvePlan(q.e, q.o, q.action)
    [] q.op = "review"    -> ReviewPlan(q.e, q.action)
    [] q.op = "compact"   -> CompactPlan(q.e, q.o, q.action = "archive")
    [] q.op = "import"    -> ImportPlan(q.action, q.changed, q.n)
    [] q.op = "revise"    -> << Revise(q.e, << >>, 1) >>
    [] q.op = "archive"   -> << Archive(q.e) >>
    [] q.op = "restore"   -> << Restore(q.e, q.o) >>

-----------------------------------------------------------------------------
(* Requests                                                                 *)

Do(op, e, o, action) == [op |-> op, e |-> e, o |-> o, action |-> action, changed |-> FALSE]

\* An import in a mode, or the server's own scan of the project's source path
\* (reimport_project_scan), with a text changed since the last one or not.
Imports ==
  {[Do("import", 1, 1, m) EXCEPT !.changed = c] : m \in Modes, c \in BOOLEAN}

Commands ==
  LET D == DOMAIN row
      Decisions == {e \in D : row[e].kind = "decision"}
  IN {Do("retrieve", e, e, "none") : e \in {x \in D : row[x].current}}
     \cup {Do("lifecycle", 1, 1, "none")}
     \cup {Do("resolve", p[1], p[2], a) : p \in {x \in Decisions \X Decisions : x[1] # x[2]},
             a \in {"supersede", "reject_new", "keep_both", "needs_changes"}}
     \cup {Do("review", e, e, a) : e \in D, a \in {"approve", "archive", "needs_changes"}}
     \cup {Do("compact", p[1], p[2], a) : p \in {x \in D \X D : x[1] # x[2]}, a \in {"archive", "keep"}}
     \cup Imports
     \cup {Do(op, e, e, "none") : e \in D, op \in {"revise", "archive"}}
     \cup {Do("restore", p[1], p[2], "none") : p \in {x \in D \X D : row[x[1]].root = row[x[2]].root}}

\* A request reads its clock; what is committed later may begin after it.
Begin(r) ==
  /\ req[r].pc = "idle" /\ started < MaxRequests
  /\ \E c \in Commands :
       req' = [req EXCEPT ![r] =
                [pc |-> "read", op |-> c.op, e |-> c.e, o |-> c.o, action |-> c.action,
                 changed |-> c.changed, n |-> started + 1, known |-> {},
                 base |-> << >>, dirty |-> << >>, todo |-> << >>, fresh |-> 0,
                 gave |-> << >>, stale |-> {}, born |-> {}, heard |-> << >>]]
  /\ started' = started + 1
  /\ UNCHANGED <<row, told, raced, log, retired, twins>>

\* The entries are loaded and the writes decided.
Read(r) ==
  /\ req[r].pc = "read"
  /\ req' = [req EXCEPT ![r].pc = "write", ![r].base = row, ![r].known = DOMAIN row,
                        ![r].todo = Plan(r)]
  /\ UNCHANGED <<row, started, told, raced, log, retired, twins>>

\* An exception, a deadlock or a refused statement rolls the request back.
Abort(r) ==
  /\ req[r].pc # "idle"
  /\ req' = [req EXCEPT ![r] = Idle]
  /\ UNCHANGED <<row, started, told, raced, log, retired, twins>>

Rest(r) == Tail(req[r].todo)
Now(r) == Head(req[r].todo)
Doing(r, what) == req[r].pc = "write" /\ req[r].todo # << >> /\ Now(r).do = what

Gave(r, e, keys) == Put(req[r].gave, e, keys \cup (IF e \in DOMAIN req[r].gave THEN req[r].gave[e] ELSE {}))

\* The document of e in the session of r: as read, with what r has written.
Session(r, e) ==
  IF e \in DOMAIN req[r].base /\ e \notin DOMAIN req[r].dirty THEN req[r].base[e].doc
  ELSE Latest(r, e).doc

\* Mutant: only the patch is written.
WrittenPatchOnly(r, e, keys) == Patched(NoDoc, keys)

\* update_operational_fields: the whole document of the session, patched.
Written(r, e, keys) == Patched(Session(r, e), keys)

PatchEntry(r) ==
  /\ Doing(r, "patch")
  /\ LET e    == Target(r, Now(r).id)
         keys == IF "into" \in DOMAIN Now(r).keys THEN [into |-> req[r].fresh] ELSE Now(r).keys
     IN /\ ~Locked(r, e)
        /\ req' = [req EXCEPT ![r].todo = Rest(r),
                              ![r].dirty = Put(Dirty(r), e, [Latest(r, e) EXCEPT !.doc = Written(r, e, keys)]),
                              ![r].gave = Gave(r, e, DOMAIN keys),
                              ![r].stale = IF e \in DOMAIN row /\ row[e] # req[r].base[e]
                                           THEN @ \cup {e} ELSE @]
  /\ UNCHANGED <<row, started, told, raced, log, retired, twins>>

\* increment_usage: one more than was read.
UseEntry(r) ==
  /\ Doing(r, "use")
  /\ LET e == Now(r).id IN
     /\ ~Locked(r, e)
     /\ req' = [req EXCEPT ![r].todo = Rest(r),
                           ![r].dirty = Put(Dirty(r), e, [Latest(r, e) EXCEPT !.usage = req[r].base[e].usage + 1,
                                                                              !.old = FALSE]),
                           ![r].gave = Gave(r, e, {"usage"}),
                           ![r].stale = IF row[e] # req[r].base[e] THEN @ \cup {e} ELSE @]
  /\ UNCHANGED <<row, started, told, raced, log, retired, twins>>

\* Mutant: what is no longer current is closed again.
StillCurrentIgnored(r, e) == TRUE

\* get_for_update reads the row again.
StillCurrent(r, e) == Latest(r, e).current

\* archive_memory.  A clock read before the entry began violates the
\* interval check: the request ends by Abort.
ArchiveEntry(r) ==
  /\ Doing(r, "archive")
  /\ LET e == Now(r).id IN
     /\ ~Locked(r, e) /\ StillCurrent(r, e)
     /\ req' = [req EXCEPT ![r].todo = Rest(r),
                           ![r].dirty = Put(Dirty(r), e, [Latest(r, e) EXCEPT !.current = FALSE])]
  /\ UNCHANGED <<row, started, told, raced, log, retired, twins>>

\* The decisions a new text can contradict.
Contradicted(r, e) ==
  {o \in Current(r) \ {e} : /\ Latest(r, o).kind = "decision"
                            /\ Latest(r, o).doc.status \in {"none", "active"}}

\* The document of a text of this quality: assessed, and a decision compared
\* with the decisions it may contradict.
Assessed(r, e, kind, doc, q, clash) ==
  LET found == IF clash THEN Contradicted(r, e) ELSE {}
      graded == Patched(doc, [quality |-> q, review |-> q < 2])
  IN IF kind # "decision" THEN graded
     ELSE Patched(graded, [status |-> IF doc.status = "none" THEN "active" ELSE doc.status,
                           conflicts |-> found, pending |-> doc.pending \/ found # {}])

Verdicts(kind, lowest) == {x \in (lowest..2) \X BOOLEAN : x[2] => kind = "decision"}

\* revise: the row is closed and its successor begins with its document.
ReviseEntry(r) ==
  /\ Doing(r, "revise") /\ Free # {}
  /\ LET e == Now(r).id
         f == NewId
     IN /\ ~Locked(r, e) /\ StillCurrent(r, e)
        /\ \E v \in Verdicts(Latest(r, e).kind, Now(r).lowest) :
             LET new == [kind |-> Latest(r, e).kind, root |-> Latest(r, e).root, current |-> TRUE, usage |-> 0, old |-> FALSE, aged |-> FALSE,
                         doc |-> Assessed(r, e, Latest(r, e).kind, Patched(Latest(r, e).doc, Now(r).keys), v[1], v[2])]
             IN req' = [req EXCEPT ![r].todo = Rest(r),
                                   ![r].dirty = Put(Put(Dirty(r), e, [Latest(r, e) EXCEPT !.current = FALSE]), f, new),
                                   ![r].fresh = f,
                                   ![r].stale = IF e \in raced \/ row[e] # req[r].base[e] THEN @ \cup {f} ELSE @]
  /\ UNCHANGED <<row, started, told, raced, log, retired, twins>>

\* restore, without the quality gate: the chain gets a successor with the
\* document of the source, its last revision is closed if it still was open.
\* The source is read early, unless it is one of the two rows that are locked.
RestoreEntry(r) ==
  /\ Doing(r, "restore") /\ Free # {}
  /\ LET e    == Now(r).id
         s    == Now(r).source
         leaf == Newest(Chain(r, e))
         open == Latest(r, leaf).current
         f    == NewId
     IN /\ ~Locked(r, e) /\ ~Locked(r, leaf)
        /\ s \in Chain(r, e) /\ ~(open /\ s = leaf)
        /\ LET new == [kind |-> Latest(r, s).kind, root |-> Latest(r, leaf).root, current |-> TRUE, usage |-> 0,
                       old |-> FALSE, aged |-> FALSE,
                       doc |-> IF s \in {e, leaf} THEN Latest(r, s).doc ELSE req[r].base[s].doc]
           IN req' = [req EXCEPT
                ![r].todo = Rest(r),
                ![r].dirty = Put(Put(Put(Dirty(r), e, Latest(r, e)), leaf, [Latest(r, leaf) EXCEPT !.current = FALSE]),
                                 f, new),
                ![r].fresh = f,
                ![r].stale = IF s \in raced \/ row[s] # req[r].base[s] THEN @ \cup {f} ELSE @,
                ![r].born  = IF open THEN @ ELSE @ \cup {Latest(r, s).kind},
                ![r].heard = log[s]]
  /\ UNCHANGED <<row, started, told, raced, log, retired, twins>>

\* create_memory, by an import or a compaction without the quality gate.
CreateEntry(r) ==
  /\ Doing(r, "create") /\ Free # {}
  /\ LET f == NewId
         kind == Now(r).kind
     IN \E q \in (IF kind = "imported" THEN {0, 2} ELSE {2}) :
          req' = [req EXCEPT ![r].todo = Rest(r),
                             ![r].dirty = Put(Dirty(r), f,
                                [kind |-> kind, root |-> f, current |-> TRUE, usage |-> 0, old |-> FALSE, aged |-> FALSE,
                                 doc |-> Patched(Assessed(r, f, kind, NoDoc, q, FALSE), Now(r).keys)]),
                             ![r].fresh = f,
                             ![r].born = @ \cup {kind}]
  /\ UNCHANGED <<row, started, told, raced, log, retired, twins>>

\* find_import_match, read when the event is written: the entry of the
\* import is created, skipped, or revised when its text has changed.
MatchEntry(r) ==
  /\ Doing(r, "match")
  /\ LET found == {e \in Current(r) : Latest(r, e).kind = "imported"} IN
     req' = [req EXCEPT
       ![r].base = [e \in DOMAIN row |-> IF e \in DOMAIN @ THEN @[e] ELSE row[e]],
       ![r].todo =
         IF req[r].action = "create" \/ found = {} THEN << Create("imported", [into |-> 0]) >>
         ELSE IF req[r].action = "update" /\ req[r].changed THEN << Revise(Newest(found), << >>, 0) >>
         ELSE << >>]
  /\ UNCHANGED <<row, started, told, raced, log, retired, twins>>

\* The event an import has written, and the event it went on from.
EventOf(r) == {e \in DOMAIN Dirty(r) : Dirty(r)[e].kind = "event" /\ Dirty(r)[e].current}

Commit(r) ==
  /\ req[r].pc = "write" /\ req[r].todo = << >>
  /\ LET d == Dirty(r)
         q == req[r]
         new == DOMAIN d \ DOMAIN row
         previous == {e \in DOMAIN d \cap DOMAIN row : row[e].kind = "event"}
     IN
     /\ row' = [e \in DOMAIN row \cup DOMAIN d |-> IF e \in DOMAIN d THEN d[e] ELSE row[e]]
     /\ told' = [e \in DOMAIN row \cup DOMAIN d |->
                   IF e \in new THEN [doc |-> d[e].doc, uses |-> 0]
                   ELSE IF e \notin DOMAIN q.gave THEN told[e]
                   ELSE [doc  |-> Patched(told[e].doc, [k \in q.gave[e] \cap DOMAIN d[e].doc |-> d[e].doc[k]]),
                         uses |-> told[e].uses + IF "usage" \in q.gave[e] THEN 1 ELSE 0]]
     /\ raced' = raced \cup q.stale
     /\ log' = [e \in DOMAIN row \cup DOMAIN d |->
                  IF q.op = "import" /\ e \in EventOf(r)
                  THEN Append(IF previous = {} THEN << >> ELSE log[Newest(previous)], q.n)
                  ELSE IF q.op = "restore" /\ e \in new THEN q.heard
                  ELSE IF e \in new THEN (IF d[e].kind = "event" /\ previous # {} THEN log[Newest(previous)] ELSE << >>)
                  ELSE log[e]]
     /\ retired' = IF q.op = "compact" /\ q.action = "archive"
                   THEN retired \cup {<<q.fresh, e>> : e \in {q.e, q.o}} ELSE retired
     /\ twins' = twins \cup {k \in q.born : \/ q.op = "restore"
                                            \/ q.op = "import" /\ q.action = "create"
                                            \/ q.op = "import" /\ q.action = "skip" /\ k = "event"
                                            \/ \E e \in DOMAIN row \ q.known : row[e].kind = k /\ row[e].current}
     /\ req' = [req EXCEPT ![r] = Idle]
  /\ UNCHANGED started

Init ==
  /\ row \in Seeds
  /\ req = [r \in Request |-> Idle]
  /\ started = 0
  /\ told = [e \in DOMAIN row |-> [doc |-> row[e].doc, uses |-> row[e].usage]]
  /\ raced = {} /\ retired = {} /\ twins = {}
  /\ log = [e \in DOMAIN row |-> row[e].doc.history]

Step(r) == \/ Begin(r) \/ Read(r) \/ PatchEntry(r) \/ UseEntry(r) \/ ArchiveEntry(r)
           \/ ReviseEntry(r) \/ RestoreEntry(r) \/ CreateEntry(r) \/ MatchEntry(r) \/ Commit(r) \/ Abort(r)

Next == \E r \in Request : Step(r)

Spec == Init /\ [][Next]_vars

-----------------------------------------------------------------------------
(* Properties                                                               *)

\* Every row, committed or not, and the bookkeeping keep their types.
TypeOK ==
  /\ DOMAIN row \subseteq Id /\ \A e \in DOMAIN row : row[e] \in Row
  /\ \A r \in Request : \A e \in DOMAIN Dirty(r) : Dirty(r)[e] \in Row
  /\ \A r, u \in Request : r # u => DOMAIN Dirty(r) \cap DOMAIN Dirty(u) = {}
  /\ DOMAIN told = DOMAIN row /\ DOMAIN log = DOMAIN row

\* What a committed request told an entry (a mark of the lifecycle, the
\* resolution of a review or a conflict, the summary it was compacted into,
\* the account of an import, a retrieval) is in the entry until another
\* request says otherwise; it is lost only when a request wrote the entry
\* that had read it before.
UpdatesLostOnlyByOverlap ==
  \A e \in DOMAIN row \ raced : row[e].doc = told[e].doc /\ row[e].usage = told[e].uses

\* An entry is archived into one summary only, and is not current afterwards,
\* however many compactions and revisions wanted it at once.
CompactedOnce ==
  \A p, q \in retired : p[2] = q[2] => p = q /\ ~row[p[2]].current

\* Every version of an event gives account of the imports it stands for, their
\* number and the last ones in order, through revisions and restorations of the
\* event, refused imports and whatever else is written meanwhile; one that an
\* import wrote from an outdated reading (raced: two imports at once lose a
\* run), and what comes of it, is excepted.  Imports keep one event and one
\* entry, except where (twins) one ran in mode create, or, for the event, in
\* mode skip, which always makes another; where one found none and another
\* request committed one before it; or where a restoration opened one again.
ImportsCounted ==
  /\ \A e \in DOMAIN row \ raced : row[e].kind = "event" =>
       row[e].doc.runs = Len(log[e]) /\ row[e].doc.history = LastRuns(log[e])
  /\ \A k \in {"event", "imported"} \ twins :
       Cardinality({e \in DOMAIN row : row[e].kind = k /\ row[e].current}) <= 1

\* A lifecycle run never archives an entry that has been retrieved twice,
\* unless a retrieval overlapped the run or another retrieval.
UsedEntriesSurvive ==
  [][\A r \in Request, e \in DOMAIN row :
       req[r].pc = "write" /\ req[r].op = "lifecycle" /\ row[e].current /\ ~row'[e].current
       /\ req'[r].pc = "idle" /\ e \notin raced /\ row[e] = req[r].base[e]
       => told[e].uses <= 1]_vars
=============================================================================
