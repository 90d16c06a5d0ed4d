----------------------------- MODULE MemoryStore -----------------------------
(***************************************************************************)
(* The temporal memory store: the semantic writes of MemoryService and     *)
(* MemoryRevisionService (create, revise, archive, restore, assignment of  *)
(* an initial project, archive_stale), run by concurrent requests.         *)
(*                                                                         *)
(* A request is one database transaction (app/database.py, get_db): it     *)
(* commits when the handler returns and rolls back when it raises.  The    *)
(* database is PostgreSQL at READ COMMITTED: a statement sees the rows     *)
(* committed when it starts and the request's own writes, SELECT ... FOR   *)
(* UPDATE waits for the row and then reads its latest version, and a row   *)
(* lock is held until the transaction ends.  One step of a request here is *)
(* one statement (or a run of statements on rows it holds) of the handler. *)
(*                                                                         *)
(* An entry's text, type, title, metadata and usage counters are left out: *)
(* none of them decides what these operations do to validity, lineage,     *)
(* links or the change feed.  Validation of a payload, tenant access, the  *)
(* quality gate and failures of any other kind are Abort.                  *)
(***************************************************************************)
EXTENDS MemoryRecords

CONSTANTS
  Tx,            \* request slots: each runs one request at a time
  Migrated,      \* entries that were current when the temporal columns came in
  Legacy,        \* entries archived before that: their history is unknown
  Home,          \* the project (or None) of each entry of the two sets
  SeedLinks,     \* links between those entries
  Given,         \* valid_from values an import or admin client may supply
  MaxTime,       \* bound on the clock
  MaxAutoLinks,  \* settings.auto_link_max_links (0: auto_link_on_create off)
  MaxLinks,      \* bound: clients create links only below this number
  Ops            \* the operations the clients of this instance use

OpNames == {"create", "revise", "archive", "restore", "assign", "stale",
            "link", "unlink"}

PCs == {"idle", "insert", "lock", "check", "chain", "walk", "lockleaf",
        "write", "readlinks", "inherit", "autolink", "emit", "next", "commit"}

Request == [pc      : PCs,
            op      : OpNames \cup {None},
            target  : Entry \cup {None},
            source  : Entry \cup {None},
            leaf    : Entry \cup {None},
            project : Project \cup {None},
            fresh   : Entry \cup {None},
            pending : SUBSET (Entry \X Entry),
            todo    : SUBSET Entry]

ASSUME ConstantsAssumption ==
  /\ None \notin Tx \cup OpNames
  /\ Migrated \subseteq Entry /\ Legacy \subseteq Entry
  /\ Migrated \cap Legacy = {}
  /\ Home \in [Migrated \cup Legacy -> Project \cup {None}]
  /\ SeedLinks \subseteq Migrated \X Migrated
  /\ MaxTime \in Nat \ {0} /\ MaxAutoLinks \in Nat /\ MaxLinks \in Nat
  /\ Given \subseteq Nat
  /\ Ops \subseteq OpNames

VARIABLES
  db,        \* committed memory_entries
  links,     \* committed memory_links, as <<from_entry_id, to_entry_id>>
  feed,      \* committed memory_change_feed_states.sequence
  events,    \* committed memory_change_events
  now,       \* the server clock
  req,       \* the handler's local state
  dirty,     \* row versions a transaction has written and not committed
  dlinks,    \* links it has inserted
  devents,   \* events it has inserted
  dseq,      \* the sequence it has written to feed states it holds
  rowLock,   \* holder of FOR UPDATE on a row
  keyShare,  \* rows a transaction holds FOR KEY SHARE (foreign key checks)
  feedLock   \* holder of FOR UPDATE on a feed state

tables  == <<db, links, feed, events>>
uncommitted == <<dirty, dlinks, devents, dseq>>
locks   == <<rowLock, keyShare, feedLock>>
vars    == <<tables, now, req, uncommitted, locks>>

-----------------------------------------------------------------------------
(* Rows as a transaction sees them.                                         *)

Idle == [pc |-> "idle", op |-> None, target |-> None, source |-> None,
         leaf |-> None, project |-> None, fresh |-> None,
         pending |-> {}, todo |-> {}]

\* The version of row e that a statement of t reads.
View(t, e) == IF dirty[t][e] # None THEN dirty[t][e] ELSE db[e]

\* Mutant: get_successor and its unique index skip archived successors.
IsLiveSuccessor(t, s, e) ==
  View(t, s) # None /\ ~View(t, s).archived /\ View(t, s).supersedes = e

\* get_successor: an entry whose supersedes_id is e.
IsSuccessor(t, s, e) == View(t, s) # None /\ View(t, s).supersedes = e
HasSuccessor(t, e)   == \E s \in Entry : IsSuccessor(t, s, e)

\* An id that no committed or uncommitted row has: uuid4.
Unused(e) == db[e] = None /\ \A t \in Tx : dirty[t][e] = None

\* uq_memory_single_successor: another transaction's uncommitted row makes
\* the insert wait, a visible row makes it fail.
IndexWaits(t, e) ==
  \E u \in Tx \ {t}, s \in Entry : dirty[u][s] # None /\ dirty[u][s].supersedes = e
IndexFails(t, e) == HasSuccessor(t, e)

\* Mutant: any entry passes for a revision of the chain.
AnyEntry(t, e) == {s \in Entry : View(t, s) # None}

\* history: the entries of the chain of e.
ChainOf(t, e) ==
  LET root == Roots([s \in Entry |-> View(t, s)]) IN
  {s \in Entry : View(t, s) # None /\ root[s] = root[e]}

-----------------------------------------------------------------------------
(* Row locks.  FOR UPDATE conflicts with FOR UPDATE and FOR KEY SHARE.      *)

\* Mutant: entries are read without FOR UPDATE.
UpdateLockIgnored(t, e) == \A u \in Tx \ {t} : e \notin keyShare[u]

UpdateLockFree(t, e) ==
  /\ rowLock[e] \in {None, t}
  /\ \A u \in Tx \ {t} : e \notin keyShare[u]

ShareLockFree(t, e) == rowLock[e] \in {None, t}

\* Mutant: the feed state is read without FOR UPDATE.
FeedLockIgnored(t, p) == TRUE

FeedLockFree(t, p) == feedLock[p] \in {None, t}

\* The end of a transaction drops its locks and its request.
EndTx(t) ==
  /\ req'      = [req EXCEPT ![t] = Idle]
  /\ dirty'    = [dirty EXCEPT ![t] = [e \in Entry |-> None]]
  /\ dlinks'   = [dlinks EXCEPT ![t] = {}]
  /\ devents'  = [devents EXCEPT ![t] = {}]
  /\ dseq'     = [dseq EXCEPT ![t] = [p \in Project |-> 0]]
  /\ rowLock'  = [e \in Entry |-> IF rowLock[e] = t THEN None ELSE rowLock[e]]
  /\ keyShare' = [keyShare EXCEPT ![t] = {}]
  /\ feedLock' = [p \in Project |-> IF feedLock[p] = t THEN None ELSE feedLock[p]]

\* Mutant: get_db does not roll back when the handler raises.
RollbackForgotten(t) ==
  /\ req' = [req EXCEPT ![t] = Idle]
  /\ UNCHANGED <<tables, now, uncommitted, locks>>

Rollback(t) == EndTx(t) /\ UNCHANGED <<tables, now>>

At(t, pc) == req[t].pc = pc

Goto(t, pc) == req' = [req EXCEPT ![t].pc = pc]

-----------------------------------------------------------------------------
(* Requests arrive.                                                         *)

Begin(t, r) ==
  /\ At(t, "idle")
  /\ r.op \in Ops
  /\ req' = [req EXCEPT ![t] = r]
  /\ UNCHANGED <<tables, now, uncommitted, locks>>

\* Bound: a request that inserts a row arrives only while an id is left for it.
IdsLeft(t) ==
  Cardinality({u \in Tx \ {t} : ~At(u, "idle") /\ req[u].fresh = None})
    < Cardinality({e \in Entry : Unused(e)})

BeginCreate(t) ==
  \E p \in Project \cup {None} : IdsLeft(t) /\
    Begin(t, [Idle EXCEPT !.pc = "insert", !.op = "create", !.project = p])

BeginRevise(t) ==
  \E e \in Entry : db[e] # None /\ IdsLeft(t) /\
    Begin(t, [Idle EXCEPT !.pc = "lock", !.op = "revise", !.target = e])

BeginArchive(t) ==
  \E e \in Entry : db[e] # None /\
    Begin(t, [Idle EXCEPT !.pc = "lock", !.op = "archive", !.target = e])

BeginRestore(t) ==
  \E e, s \in Entry : db[e] # None /\ db[s] # None /\ IdsLeft(t) /\
    Begin(t, [Idle EXCEPT !.pc = "lock", !.op = "restore",
                          !.target = e, !.source = s])

BeginAssign(t) ==
  \E e \in Entry, p \in Project : db[e] # None /\ IdsLeft(t) /\
    Begin(t, [Idle EXCEPT !.pc = "lock", !.op = "assign",
                          !.target = e, !.project = p])

\* archive_stale reads its candidates once.  Age, usage and importance decide
\* which of the current entries they are.
BeginStale(t) ==
  \E S \in SUBSET {e \in Entry : db[e] # None /\ IsCurrent(db[e], now)} :
    Begin(t, [Idle EXCEPT !.pc = "next", !.op = "stale", !.todo = S])

-----------------------------------------------------------------------------
(* create_memory                                                            *)

CreateInsert(t, n) ==
  /\ At(t, "insert")
  /\ Unused(n)
  /\ \E from \in Given \cup {now} :
       dirty' = [dirty EXCEPT ![t][n] = NewRow(req[t].project, from, None)]
  /\ req' = [req EXCEPT ![t].pc = "autolink", ![t].fresh = n]
  /\ UNCHANGED <<tables, now, dlinks, devents, dseq, locks>>

\* AutoLinkService.link_entry: similarity picks some current entries of the
\* project (of any project when the entry has none), one link each; the
\* foreign key check locks the linked entry FOR KEY SHARE.
AutoLink(t, c) ==
  LET n == req[t].fresh
      p == req[t].project
  IN
  /\ At(t, "autolink")
  /\ c # n /\ View(t, c) # None /\ IsCurrent(View(t, c), now)
  /\ p = None \/ View(t, c).project = p
  /\ Cardinality(dlinks[t]) < MaxAutoLinks
  /\ <<n, c>> \notin dlinks[t]
  /\ ShareLockFree(t, c)
  /\ keyShare' = [keyShare EXCEPT ![t] = @ \cup {c}]
  /\ dlinks' = [dlinks EXCEPT ![t] = @ \cup {<<n, c>>}]
  /\ UNCHANGED <<tables, now, req, dirty, devents, dseq, rowLock, feedLock>>

AutoLinkDone(t) ==
  /\ At(t, "autolink")
  /\ Goto(t, "emit")
  /\ UNCHANGED <<tables, now, uncommitted, locks>>

-----------------------------------------------------------------------------
(* get_for_update on the entry a request names.                             *)

LockTarget(t) ==
  /\ At(t, "lock")
  /\ UpdateLockFree(t, req[t].target)
  /\ rowLock' = [rowLock EXCEPT ![req[t].target] = t]
  /\ Goto(t, IF req[t].op = "restore" THEN "chain" ELSE "check")
  /\ UNCHANGED <<tables, now, uncommitted, keyShare, feedLock>>

\* revise, archive_memory: 409 unless the entry is open and has no successor.
\* assign_initial_project_scope: also no project and no predecessor.
MayClose(t) ==
  LET r == View(t, req[t].target) IN
  /\ IsOpen(r)
  /\ IF req[t].op = "assign" THEN r.project = None /\ r.supersedes = None
     ELSE ~HasSuccessor(t, req[t].target)

CheckTarget(t) ==
  /\ At(t, "check") /\ req[t].op # "restore"
  /\ MayClose(t)
  /\ Goto(t, "write")
  /\ UNCHANGED <<tables, now, uncommitted, locks>>

\* One clock value closes the old row and opens its successor.
ReviseWrite(t, n) ==
  LET e == req[t].target
      closed == Close(View(t, e), now)
  IN
  /\ At(t, "write") /\ req[t].op = "revise"
  /\ Unused(n)
  /\ IntervalHolds(closed) /\ ~IndexWaits(t, e) /\ ~IndexFails(t, e)
  /\ dirty' = [dirty EXCEPT ![t][e] = closed,
                            ![t][n] = NewRow(closed.project, now, e)]
  /\ req' = [req EXCEPT ![t].pc = "readlinks", ![t].fresh = n, ![t].leaf = e]
  /\ UNCHANGED <<tables, now, dlinks, devents, dseq, locks>>

ArchiveWrite(t) ==
  LET e == req[t].target
      closed == Close(View(t, e), now)
  IN
  /\ At(t, "write") /\ req[t].op \in {"archive", "stale"}
  /\ IntervalHolds(closed)
  /\ dirty' = [dirty EXCEPT ![t][e] = closed]
  /\ Goto(t, "emit")
  /\ UNCHANGED <<tables, now, dlinks, devents, dseq, locks>>

\* The unscoped row is closed; its copy in the project starts a new chain.
AssignWrite(t, n) ==
  LET e == req[t].target
      closed == Close(View(t, e), now)
  IN
  /\ At(t, "write") /\ req[t].op = "assign"
  /\ Unused(n)
  /\ IntervalHolds(closed)
  /\ dirty' = [dirty EXCEPT ![t][e] = closed,
                            ![t][n] = NewRow(req[t].project, now, None)]
  /\ req' = [req EXCEPT ![t].pc = "autolink", ![t].fresh = n]
  /\ UNCHANGED <<tables, now, dlinks, devents, dseq, locks>>

-----------------------------------------------------------------------------
(* restore                                                                  *)

\* Mutant: history_available is not checked.
MayRestoreUnknown(t) == req[t].source \in ChainOf(t, req[t].target)

MayRestore(t) ==
  /\ View(t, req[t].target).history /\ View(t, req[t].source).history
  /\ req[t].source \in ChainOf(t, req[t].target)

CheckChain(t) ==
  /\ At(t, "chain")
  /\ MayRestore(t)
  /\ Goto(t, "walk")
  /\ UNCHANGED <<tables, now, uncommitted, locks>>

\* The walk ends at the entry of the chain that had no successor when it was
\* read.  It takes one query per entry; chains only grow at their end, so the
\* last query alone decides where it stops.
WalkToLeaf(t) ==
  /\ At(t, "walk")
  /\ \E l \in ChainOf(t, req[t].target) :
       /\ ~HasSuccessor(t, l)
       /\ req' = [req EXCEPT ![t].pc = "lockleaf", ![t].leaf = l]
  /\ UNCHANGED <<tables, now, uncommitted, locks>>

LockLeaf(t) ==
  /\ At(t, "lockleaf")
  /\ UpdateLockFree(t, req[t].leaf)
  /\ rowLock' = [rowLock EXCEPT ![req[t].leaf] = t]
  /\ Goto(t, "check")
  /\ UNCHANGED <<tables, now, uncommitted, keyShare, feedLock>>

\* 409 when another request appended to the chain first, when the leaf is
\* neither current nor archived, or when the source is the current leaf.
LeafUsable(t) ==
  LET r == View(t, req[t].leaf) IN
  /\ ~HasSuccessor(t, req[t].leaf)
  /\ IsOpen(r) \/ (r.validTo # Open /\ r.archived)
  /\ ~(IsOpen(r) /\ req[t].source = req[t].leaf)

CheckLeaf(t) ==
  /\ At(t, "check") /\ req[t].op = "restore"
  /\ LeafUsable(t)
  /\ Goto(t, "write")
  /\ UNCHANGED <<tables, now, uncommitted, locks>>

RestoreWrite(t, n) ==
  LET l == req[t].leaf
      old == View(t, l)
      closed == IF IsOpen(old) THEN Close(old, now) ELSE old
  IN
  /\ At(t, "write") /\ req[t].op = "restore"
  /\ Unused(n)
  /\ IntervalHolds(closed) /\ ~IndexWaits(t, l) /\ ~IndexFails(t, l)
  /\ dirty' = [dirty EXCEPT ![t][l] = closed,
                            ![t][n] = NewRow(View(t, req[t].source).project, now, l)]
  /\ req' = [req EXCEPT ![t].pc = "readlinks", ![t].fresh = n]
  /\ UNCHANGED <<tables, now, dlinks, devents, dseq, locks>>

-----------------------------------------------------------------------------
(* inherit_for_revision: every link of the closed entry is copied with the  *)
(* new revision on the closed side.                                         *)

\* Mutant: only outgoing links are copied.
InheritedOutgoing(old, new, ls) == {<<new, l[2]>> : l \in {k \in ls : k[1] = old}}

Inherited(old, new, ls) ==
  {<<new, l[2]>> : l \in {k \in ls : k[1] = old}} \cup
  {<<l[1], new>> : l \in {k \in ls : k[2] = old}}

AfterLinks(pending) == IF pending = {} THEN "emit" ELSE "inherit"

ReadLinks(t) ==
  LET todo == Inherited(req[t].leaf, req[t].fresh, links) IN
  /\ At(t, "readlinks")
  /\ req' = [req EXCEPT ![t].pending = todo, ![t].pc = AfterLinks(todo)]
  /\ UNCHANGED <<tables, now, uncommitted, locks>>

\* Each copy's foreign keys lock the opposite entry FOR KEY SHARE.
InheritLink(t, l) ==
  LET opposite == IF l[1] = req[t].fresh THEN l[2] ELSE l[1]
      rest == req[t].pending \ {l}
  IN
  /\ At(t, "inherit")
  /\ l \in req[t].pending
  /\ ShareLockFree(t, opposite)
  /\ keyShare' = [keyShare EXCEPT ![t] = @ \cup {opposite}]
  /\ dlinks' = [dlinks EXCEPT ![t] = @ \cup {l}]
  /\ req' = [req EXCEPT ![t].pending = rest, ![t].pc = AfterLinks(rest)]
  /\ UNCHANGED <<tables, now, dirty, devents, dseq, rowLock, feedLock>>

-----------------------------------------------------------------------------
(* MemoryChangeService.emit: lock the feed state, number and insert the     *)
(* event.  An entry without a project has no feed.                          *)

\* The entry the event is about, its kind and its previous_entry_id.
EmitEntry(t) == IF req[t].op \in {"archive", "stale"} THEN req[t].target ELSE req[t].fresh

\* Mutant: the operation's name goes into event_kind.
EmitKindOfRequest(t) == req[t].op

EmitKind(t) == CASE req[t].op = "revise" -> "revised"
                 [] req[t].op = "restore" -> "restored"
                 [] req[t].op \in {"archive", "stale"} -> "archived"
                 [] OTHER -> "created"

\* Mutant: restore does not name the revision it closes.
EmitPreviousOfRevise(t) == IF req[t].op = "revise" THEN req[t].leaf ELSE None

EmitPrevious(t) == IF req[t].op \in {"revise", "restore"} THEN req[t].leaf ELSE None

\* state.sequence as the transaction reads it once it holds the row.
SequenceOf(t, p) == IF feedLock[p] = t THEN dseq[t][p] ELSE feed[p]

AfterEmit(t) == IF req[t].op = "stale" THEN "next" ELSE "commit"

EmitNothing(t) ==
  /\ At(t, "emit")
  /\ View(t, EmitEntry(t)).project = None
  /\ Goto(t, AfterEmit(t))
  /\ UNCHANGED <<tables, now, uncommitted, locks>>

Emit(t, p) ==
  LET s == SequenceOf(t, p) + 1 IN
  /\ At(t, "emit")
  /\ View(t, EmitEntry(t)).project = p
  /\ FeedLockFree(t, p)
  /\ feedLock' = [feedLock EXCEPT ![p] = t]
  /\ dseq' = [dseq EXCEPT ![t][p] = s]
  /\ devents' = [devents EXCEPT ![t] = @ \cup
       {[project |-> p, seq |-> s, kind |-> EmitKind(t),
         entry |-> EmitEntry(t), previous |-> EmitPrevious(t)]}]
  /\ Goto(t, AfterEmit(t))
  /\ UNCHANGED <<tables, now, dirty, dlinks, rowLock, keyShare>>

\* archive_stale archives its candidates one after the other.
NextStale(t) ==
  /\ At(t, "next")
  /\ \/ /\ req[t].todo = {}
        /\ Goto(t, "commit")
     \/ \E e \in req[t].todo :
          req' = [req EXCEPT ![t].pc = "lock", ![t].target = e, ![t].todo = @ \ {e}]
  /\ UNCHANGED <<tables, now, uncommitted, locks>>

-----------------------------------------------------------------------------
(* The end of a request.                                                    *)

Commit(t) ==
  /\ At(t, "commit")
  /\ db'     = [e \in Entry |-> View(t, e)]
  /\ links'  = links \cup dlinks[t]
  /\ events' = events \cup devents[t]
  /\ feed'   = [p \in Project |-> SequenceOf(t, p)]
  /\ EndTx(t)
  /\ UNCHANGED now

\* A check fails (404 or 409) or the database refuses the write
\* (IntegrityError: 409 in revise and restore, 500 in archive and assign).
Refuse(t) ==
  /\ \/ At(t, "check") /\ req[t].op # "restore" /\ ~MayClose(t)
     \/ At(t, "chain") /\ ~MayRestore(t)
     \/ At(t, "check") /\ req[t].op = "restore" /\ ~LeafUsable(t)
     \/ /\ At(t, "write") /\ req[t].op \in {"revise", "archive", "stale", "assign"}
        /\ ~IntervalHolds(Close(View(t, req[t].target), now))
     \/ /\ At(t, "write") /\ req[t].op = "restore" /\ IsOpen(View(t, req[t].leaf))
        /\ ~IntervalHolds(Close(View(t, req[t].leaf), now))
     \/ /\ At(t, "write") /\ req[t].op \in {"revise", "restore"}
        /\ IndexFails(t, IF req[t].op = "revise" THEN req[t].target ELSE req[t].leaf)
  /\ Rollback(t)

\* A request may fail at any statement: invalid payload, no access, quality
\* gate, lost connection, a process that dies.
Abort(t) == ~At(t, "idle") /\ Rollback(t)

\* t waits for a lock that u holds.
WaitsFor(t, u) ==
  /\ t # u
  /\ \/ At(t, "lock") /\ (rowLock[req[t].target] = u \/ req[t].target \in keyShare[u])
     \/ At(t, "lockleaf") /\ (rowLock[req[t].leaf] = u \/ req[t].leaf \in keyShare[u])
     \/ /\ At(t, "inherit")
        /\ \A l \in req[t].pending :
             rowLock[IF l[1] = req[t].fresh THEN l[2] ELSE l[1]] \notin {None, t}
        /\ \E l \in req[t].pending :
             rowLock[IF l[1] = req[t].fresh THEN l[2] ELSE l[1]] = u
     \/ /\ At(t, "emit")
        /\ \E p \in Project : View(t, EmitEntry(t)).project = p /\ feedLock[p] = u

Knot(S) == S # {} /\ \A t \in S : \E u \in S : WaitsFor(t, u)

\* PostgreSQL's deadlock detector ends one transaction of a waiting cycle.
DeadlockVictim(t) ==
  /\ \E S \in SUBSET Tx :
       /\ t \in S /\ Knot(S)
       /\ \A R \in SUBSET S : Knot(R) => R = S
  /\ Rollback(t)

-----------------------------------------------------------------------------
(* Link requests: one insert or delete, in a transaction of its own.        *)

CreateLink(a, b) ==
  /\ "link" \in Ops
  /\ db[a] # None /\ db[b] # None
  /\ Cardinality(links) < MaxLinks
  /\ rowLock[a] = None /\ rowLock[b] = None
  /\ links' = links \cup {<<a, b>>}
  /\ UNCHANGED <<db, feed, events, now, req, uncommitted, locks>>

DeleteLink(l) ==
  /\ "unlink" \in Ops
  /\ l \in links
  /\ links' = links \ {l}
  /\ UNCHANGED <<db, feed, events, now, req, uncommitted, locks>>

Tick ==
  /\ now < MaxTime
  /\ now' = now + 1
  /\ UNCHANGED <<tables, req, uncommitted, locks>>

-----------------------------------------------------------------------------

Cutover == 1     \* migration_cutover_at

\* The migration dates every entry from its creation and closes the archived
\* ones, of which it keeps no history.
MigratedTable ==
  [e \in Entry |->
     CASE e \in Migrated -> NewRow(Home[e], 0, None)
       [] e \in Legacy ->
            [Close(NewRow(Home[e], 0, None), Cutover) EXCEPT !.history = FALSE]
       [] OTHER -> None]

Init ==
  /\ db = MigratedTable
  /\ links = SeedLinks
  /\ feed = [p \in Project |-> 0]
  /\ events = {}
  /\ now = Cutover
  /\ req = [t \in Tx |-> Idle]
  /\ dirty = [t \in Tx |-> [e \in Entry |-> None]]
  /\ dlinks = [t \in Tx |-> {}]
  /\ devents = [t \in Tx |-> {}]
  /\ dseq = [t \in Tx |-> [p \in Project |-> 0]]
  /\ rowLock = [e \in Entry |-> None]
  /\ keyShare = [t \in Tx |-> {}]
  /\ feedLock = [p \in Project |-> None]

Arrive(t) == \/ BeginCreate(t)  \/ BeginRevise(t) \/ BeginArchive(t)
             \/ BeginRestore(t) \/ BeginAssign(t) \/ BeginStale(t)

\* The statements a running request executes.
Run(t) ==
  \/ \E n \in Entry : \/ CreateInsert(t, n) \/ ReviseWrite(t, n)
                      \/ AssignWrite(t, n)  \/ RestoreWrite(t, n)
                      \/ AutoLink(t, n)
  \/ AutoLinkDone(t) \/ LockTarget(t) \/ CheckTarget(t) \/ ArchiveWrite(t)
  \/ CheckChain(t) \/ WalkToLeaf(t) \/ LockLeaf(t) \/ CheckLeaf(t)
  \/ ReadLinks(t)
  \/ \E l \in Entry \X Entry : InheritLink(t, l)
  \/ EmitNothing(t)
  \/ \E p \in Project : Emit(t, p)
  \/ NextStale(t) \/ Commit(t) \/ Refuse(t) \/ DeadlockVictim(t)

Next ==
  \/ \E t \in Tx : Arrive(t) \/ Run(t) \/ Abort(t)
  \/ \E a, b \in Entry : CreateLink(a, b)
  \/ \E l \in links : DeleteLink(l)
  \/ Tick

Spec == Init /\ [][Next]_vars

\* PostgreSQL queues the waiters of a row lock, so a request that can again
\* and again take its next step takes it; clients, clocks and failures owe
\* nothing.
FairSpec == Spec /\ \A t \in Tx : SF_vars(Run(t))

-----------------------------------------------------------------------------
(* Properties.                                                              *)

\* Types of all variables.
TypeOK ==
  /\ db \in [Entry -> Row \cup {None}]
  /\ links \subseteq Entry \X Entry
  /\ feed \in [Project -> Nat]
  /\ events \subseteq Event
  /\ now \in Nat
  /\ req \in [Tx -> Request]
  /\ dirty \in [Tx -> [Entry -> Row \cup {None}]]
  /\ dlinks \in [Tx -> SUBSET (Entry \X Entry)]
  /\ devents \in [Tx -> SUBSET Event]
  /\ dseq \in [Tx -> [Project -> Nat]]
  /\ rowLock \in [Entry -> Tx \cup {None}]
  /\ keyShare \in [Tx -> SUBSET Entry]
  /\ feedLock \in [Project -> Tx \cup {None}]

Exists(e) == db[e] # None

\* The first entry of each committed chain.
RootOf == Roots(db)

IsSuperseded(e) == \E s \in Entry : db[s] # None /\ db[s].supersedes = e

\* The linear chain promised by restore and by GET /memory/{id}/history: no
\* entry has two successors, and a superseded entry is closed no later than
\* its successor begins, whatever revise, restore and archive requests
\* interleave.
LinearHistory ==
  \A a, b \in Entry : Exists(b) /\ db[b].supersedes = a =>
    /\ Exists(a) /\ db[a].archived /\ db[a].validTo # Open
    /\ db[a].validTo <= db[b].validFrom
    /\ \A c \in Entry : Exists(c) /\ db[c].supersedes = a => c = b

\* archived and valid_to are set together and valid_to lies after valid_from,
\* so restore's memory_restore_chain_state_invalid (neither current nor
\* archived) never happens.
ClosedMeansArchived ==
  \A e \in Entry : Exists(e) =>
    /\ db[e].archived <=> db[e].validTo # Open
    /\ IntervalHolds(db[e])

\* The history of every entry is one well-formed line: GET /memory/{id}/history
\* and restore walk it from any revision of it and meet each state once.
HistoryWellFormed == LinearHistory /\ ClosedMeansArchived

\* The row locks alone keep two requests from appending to one entry: when
\* revise or restore writes, no committed or uncommitted row succeeds the
\* entry it closes, so uq_memory_single_successor never decides a race.
LeafIsMine ==
  \A t \in Tx : At(t, "write") /\ req[t].op \in {"revise", "restore"} =>
    LET e == IF req[t].op = "revise" THEN req[t].target ELSE req[t].leaf
    IN ~IndexWaits(t, e) /\ ~IndexFails(t, e)

\* As-of reads are unambiguous: at no moment are two entries of one chain
\* both valid under historical_predicate.
OneRevisionAsOf ==
  \A at \in 0..MaxTime, a, b \in Entry :
    /\ Exists(a) /\ Exists(b) /\ a # b
    /\ IsValidAt(db[a], at) /\ IsValidAt(db[b], at)
    => RootOf[a] # RootOf[b]

\* Every revision of a chain stays in the project of its first entry, though
\* restore copies the project of a source it reads without a lock.
ChainKeepsProject ==
  \A e \in Entry : Exists(e) => db[e].project = db[RootOf[e]].project

\* Sequence numbers of a project's committed events are 1 .. state.sequence
\* without gap or repetition, in spite of rollbacks and concurrent emits.
FeedGapFree ==
  \A p \in Project :
    /\ {ev.seq : ev \in {x \in events : x.project = p}} = 1..feed[p]
    /\ \A x, y \in events : x.project = p /\ y.project = p /\ x.seq = y.seq => x = y

\* A client that replays the feed over the entries that existed before it
\* has exactly the project's open entries: no event is missing, superfluous
\* or about an entry that was never committed.
FeedReplaysProject ==
  \A p \in Project :
    LET mine == {ev \in events : ev.project = p}
        opened == {ev.entry : ev \in {x \in mine : x.kind # "archived"}}
        closed == {ev.entry : ev \in {x \in mine : x.kind = "archived"}}
                  \cup {ev.previous : ev \in {x \in mine : x.previous # None}}
        before == {e \in Migrated : Home[e] = p}
    IN {e \in Entry : Exists(e) /\ db[e].project = p /\ IsOpen(db[e])}
         = (before \cup opened) \ closed

\* The feed tells a chain's story in order: the event that closes or
\* supersedes an entry follows the event that brought it in.
FeedOrdersLineage ==
  \A x, y \in events :
    /\ x.project = y.project
    /\ x.kind # "archived"
    /\ (y.previous = x.entry \/ (y.kind = "archived" /\ y.entry = x.entry))
    => x.seq < y.seq

\* A client that knows a project by its feed alone knows what became of every
\* entry, and in which order.
FeedTellsHistory == FeedReplaysProject /\ FeedOrdersLineage

\* History is immutable: a committed row never disappears, a closed row never
\* changes, and an open row changes only by being closed.
HistoryImmutable ==
  [][\A e \in Entry : Exists(e) =>
       /\ db'[e] # None
       /\ \/ db'[e] = db[e]
          \/ IsOpen(db[e]) /\ db'[e] = Close(db[e], db'[e].validTo)]_vars

\* Two different chains whose latest revisions are linked stay linked at their latest
\* revisions whatever revisions and restores of the two ends interleave;
\* only deleting a link takes the relation away (inherit_for_revision and
\* the foreign key locks behind it).
LinkedRoots ==
  {{RootOf[l[1]], RootOf[l[2]]} :
     l \in {k \in links : ~IsSuperseded(k[1]) /\ ~IsSuperseded(k[2]) /\ k[1] # k[2]}}

LinksSurviveRevision ==
  [][links \subseteq links' => LinkedRoots \subseteq LinkedRoots']_vars

\* Committed state only ever changes by one of the atomic writes that
\* MemoryHistory promises: every interleaving of requests is equivalent to
\* running the committed ones in the order of their commits.
History == INSTANCE MemoryHistory
             WITH rows <- db, Time <- 0..MaxTime \cup Given, InitialRows <- MigratedTable

ImplementsHistory == History!Spec

\* Every request ends, though maintenance and linked revisions lock rows in
\* opposite orders: the deadlock detector breaks each cycle.
RequestsEnd == \A t \in Tx : ~At(t, "idle") ~> At(t, "idle")
=============================================================================
