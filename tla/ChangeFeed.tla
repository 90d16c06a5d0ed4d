------------------------------ MODULE ChangeFeed ------------------------------
(***************************************************************************)
(* The change feed of one project: MemoryChangeService and its repository. *)
(*                                                                         *)
(* Writers are semantic transactions that emit one or more events; readers *)
(* are clients that poll GET /memory/changes with the cursor of their last *)
(* page.  The feed's state row does not exist until the first of them asks *)
(* for it, and a reader's poll creates it as well as a writer's emit.      *)
(* PATCH /projects moves a project that has no entries to another tenant,  *)
(* and a cursor is good for the tenant it was signed under only.           *)
(* Every action is one SQL statement or the end of one request; a request  *)
(* sees what was committed when its statement starts and its own writes    *)
(* (READ COMMITTED), and its response leaves after its commit.             *)
(***************************************************************************)
EXTENDS Integers, FiniteSets

CONSTANTS
  Writer,     \* semantic transactions, one slot each
  Reader,     \* polling clients
  Tenant,     \* tenants of the project, "__global__" among them
  None,       \* NULL, and "no row"
  Epoch,      \* values uuid4 gives to feed_epoch
  Limit,      \* page size
  MaxSeq      \* bound on the sequence

Proc == Writer \cup Reader

StateRow == [epoch : Epoch, seq : Nat]      \* memory_change_feed_states
Event    == [epoch : Epoch, seq : Nat]      \* memory_change_events
Cursor   == [tenant : Tenant, epoch : Epoch, seq : Nat]  \* signed text

ASSUME FeedAssumption ==
  /\ Writer \cap Reader = {}
  /\ None \notin Writer \cup Reader \cup Tenant
  /\ None \notin StateRow /\ None \notin Cursor
  /\ Limit \in Nat \ {0}
  /\ MaxSeq \in Nat

VARIABLES
  state,      \* the committed feed state, or None
  log,        \* committed events
  holder,     \* transaction that has locked or inserted the state row
  mine,       \* the state row as that transaction has written it
  pending,    \* events a writer has inserted and not committed
  used,       \* epochs given to an inserted state row
  pc,
  tenant,     \* the project's committed tenant
  patching,   \* tenants that PATCHes past their check will write
  scope,      \* the project's tenant as a poll has loaded it
  seen,       \* feed epoch and high watermark a poll has read
  page,       \* events a poll has read
  cursor,     \* a client's checkpoint; sequence 0 before the first page
  got         \* events a client has been handed

vars == <<state, log, holder, mine, pending, used, pc, tenant, patching,
          scope, seen, page, cursor, got>>

writerVars == <<log, pending>>
readerVars == <<scope, seen, page, cursor, got>>
tenantVars == <<tenant, patching>>

PCs == {"idle", "select", "insert", "reselect", "append", "commit",
        "check", "page", "respond", "rejected"}

-----------------------------------------------------------------------------

Init ==
  /\ tenant \in Tenant
  /\ patching = {}
  /\ scope = [r \in Reader |-> None]
  /\ state = None
  /\ log = {}
  /\ holder = None
  /\ mine = None
  /\ pending = [w \in Writer |-> {}]
  /\ used = {}
  /\ pc = [x \in Proc |-> "idle"]
  /\ seen = [r \in Reader |-> None]
  /\ page = [r \in Reader |-> {}]
  /\ cursor = [r \in Reader |-> None]
  /\ got = [r \in Reader |-> {}]

Goto(x, next) == pc' = [pc EXCEPT ![x] = next]

\* Where a request goes on when it has its feed state: a writer to its event,
\* a reader to the validation of its cursor.
AfterState(x) == IF x \in Writer THEN "append" ELSE "check"

\* A poll keeps what it read of the state; a writer locks the row.
ReadState(x, row) ==
  IF x \in Writer
  THEN holder' = x /\ mine' = row /\ UNCHANGED seen
  ELSE seen' = [seen EXCEPT ![x] = row] /\ UNCHANGED <<holder, mine>>

-----------------------------------------------------------------------------
(* get_or_create_state                                                      *)

\* A semantic transaction reaches emit, or a client polls: the route loads the
\* project first.
Begin(x) ==
  /\ pc[x] = "idle"
  /\ x \in Writer /\ state # None => state.seq < MaxSeq
  /\ scope' = IF x \in Reader THEN [scope EXCEPT ![x] = tenant] ELSE scope
  /\ Goto(x, "select")
  /\ UNCHANGED <<state, holder, mine, used, writerVars, tenantVars, seen, page, cursor, got>>

\* SELECT, with FOR UPDATE for a writer, finds the row.
Select(x) ==
  /\ pc[x] \in {"select", "reselect"}
  /\ state # None
  /\ x \in Writer => holder = None
  /\ ReadState(x, state)
  /\ Goto(x, AfterState(x))
  /\ UNCHANGED <<state, used, writerVars, tenantVars, scope, page, cursor, got>>

\* SELECT finds no committed row.
SelectNothing(x) ==
  /\ pc[x] = "select"
  /\ state = None
  /\ Goto(x, "insert")
  /\ UNCHANGED <<state, holder, mine, used, writerVars, readerVars, tenantVars>>

\* Mutant: the insert replaces a row committed since the SELECT.
InsertOverwrites(x) ==
  /\ pc[x] = "insert"
  /\ holder = None
  /\ \E ep \in Epoch \ used :
       /\ used' = used \cup {ep}
       /\ mine' = [epoch |-> ep, seq |-> 0]
       /\ seen' = IF x \in Reader THEN [seen EXCEPT ![x] = mine'] ELSE seen
  /\ holder' = x
  /\ Goto(x, AfterState(x))
  /\ UNCHANGED <<state, writerVars, tenantVars, scope, page, cursor, got>>

\* The savepoint's INSERT waits while another transaction has inserted the
\* row and not ended.
Insert(x) ==
  /\ pc[x] = "insert"
  /\ state = None /\ holder = None
  /\ \E ep \in Epoch \ used :
       /\ used' = used \cup {ep}
       /\ mine' = [epoch |-> ep, seq |-> 0]
       /\ seen' = IF x \in Reader THEN [seen EXCEPT ![x] = mine'] ELSE seen
  /\ holder' = x
  /\ Goto(x, AfterState(x))
  /\ UNCHANGED <<state, writerVars, tenantVars, scope, page, cursor, got>>

\* IntegrityError: the savepoint is rolled back and the row read again; the
\* session forgets (expire_all) the project it has loaded.
InsertConflict(x) ==
  /\ pc[x] = "insert"
  /\ state # None
  /\ scope' = IF x \in Reader THEN [scope EXCEPT ![x] = None] ELSE scope
  /\ Goto(x, "reselect")
  /\ UNCHANGED <<state, holder, mine, used, writerVars, tenantVars, seen, page, cursor, got>>

-----------------------------------------------------------------------------
(* emit, and the end of the transaction                                     *)

\* Mutant: the event gets the sequence from before the increment.
AppendBeforeIncrement(w) ==
  /\ pc[w] \in {"append", "commit"}
  /\ mine.seq < MaxSeq
  /\ mine' = [mine EXCEPT !.seq = @ + 1]
  /\ pending' = [pending EXCEPT ![w] = @ \cup {mine}]
  /\ Goto(w, "commit")
  /\ UNCHANGED <<state, log, holder, used, readerVars, tenantVars>>

\* A maintenance transaction emits again; the lock is already its own.
AppendEvent(w) ==
  /\ pc[w] \in {"append", "commit"}
  /\ mine.seq < MaxSeq
  /\ mine' = [mine EXCEPT !.seq = @ + 1]
  /\ pending' = [pending EXCEPT ![w] = @ \cup {[epoch |-> mine.epoch, seq |-> mine.seq + 1]}]
  /\ Goto(w, "commit")
  /\ UNCHANGED <<state, log, holder, used, readerVars, tenantVars>>

CommitWriter(w) ==
  /\ pc[w] = "commit"
  /\ state' = mine
  /\ log' = log \cup pending[w]
  /\ holder' = None
  /\ mine' = None
  /\ pending' = [pending EXCEPT ![w] = {}]
  /\ Goto(w, "idle")
  /\ UNCHANGED <<used, readerVars, tenantVars>>

\* A row inserted by a transaction that rolls back never existed.  Bound: the
\* last epoch is not thrown away.
DropHold(x) ==
  /\ holder = x /\ state = None => used # Epoch
  /\ IF holder = x THEN holder' = None /\ mine' = None
                   ELSE UNCHANGED <<holder, mine>>

\* Any later statement of the semantic transaction may fail.
AbortWriter(w) ==
  /\ pc[w] # "idle"
  /\ DropHold(w)
  /\ pending' = [pending EXCEPT ![w] = {}]
  /\ Goto(w, "idle")
  /\ UNCHANGED <<state, log, used, readerVars, tenantVars>>

-----------------------------------------------------------------------------
(* update_project, where it changes the tenant                              *)

\* The PATCH finds that the project has no connector binding, which this model
\* has none of, and no entries: each came with an event of its transaction.
BeginPatch(t) ==
  /\ log = {}
  /\ t # tenant
  /\ patching' = patching \cup {t}
  /\ UNCHANGED <<state, log, holder, mine, pending, used, pc, tenant, readerVars>>

\* Nothing locks the project between that check and the update's commit.
CommitPatch(t) ==
  /\ t \in patching
  /\ tenant' = t
  /\ patching' = patching \ {t}
  /\ UNCHANGED <<state, log, holder, mine, pending, used, pc, readerVars>>

-----------------------------------------------------------------------------
(* list_changes                                                             *)

\* What _decode reads in the signed cursor of the last page, 0 without one; it
\* refuses any other text, which no client of this model sends.
After(r) == IF cursor[r] = None THEN 0 ELSE cursor[r].seq

\* The project's tenant, loaded anew where the session has forgotten it.
Scope(r) == IF scope[r] = None THEN tenant ELSE scope[r]

\* Mutant: the checkpoint must be below the watermark.
CursorBelowWatermark(r) ==
  /\ cursor[r] # None => cursor[r].tenant = Scope(r) /\ cursor[r].epoch = seen[r].epoch
  /\ After(r) < seen[r].seq

\* The cursor must be of the project's tenant and of this feed epoch, and not
\* beyond the watermark.
CursorAccepted(r) ==
  /\ cursor[r] # None => cursor[r].tenant = Scope(r) /\ cursor[r].epoch = seen[r].epoch
  /\ After(r) <= seen[r].seq

CheckCursor(r) ==
  /\ pc[r] = "check"
  /\ scope' = [scope EXCEPT ![r] = Scope(r)]
  /\ Goto(r, IF CursorAccepted(r) THEN "page" ELSE "rejected")
  /\ UNCHANGED <<state, holder, mine, used, writerVars, tenantVars, seen, page, cursor, got>>

\* Mutant: the event at the watermark waits for the next one.
WindowBelowWatermark(r) ==
  {ev \in log : /\ ev.epoch = seen[r].epoch
               /\ After(r) < ev.seq /\ ev.seq < seen[r].seq}

\* The events after the cursor up to the watermark.
Window(r) ==
  {ev \in log : /\ ev.epoch = seen[r].epoch
               /\ After(r) < ev.seq /\ ev.seq <= seen[r].seq}

\* Mutant: list_page has no ORDER BY.
ListPageUnordered(r) ==
  /\ pc[r] = "page"
  /\ \E S \in SUBSET Window(r) :
       Cardinality(S) <= Limit /\ page' = [page EXCEPT ![r] = S]
  /\ Goto(r, "respond")
  /\ UNCHANGED <<state, holder, mine, used, writerVars, tenantVars, scope, seen, cursor, got>>

\* list_page: the first Limit of them by sequence.
ListPage(r) ==
  /\ pc[r] = "page"
  /\ page' = [page EXCEPT ![r] =
       {ev \in Window(r) : Cardinality({o \in Window(r) : o.seq < ev.seq}) < Limit}]
  /\ Goto(r, "respond")
  /\ UNCHANGED <<state, holder, mine, used, writerVars, tenantVars, scope, seen, cursor, got>>

\* Mutant: an empty page has no last event.
LastOfEvents(r) ==
  IF page[r] = {} THEN None
  ELSE (CHOOSE ev \in page[r] : \A other \in page[r] : other.seq <= ev.seq).seq

\* The sequence of the page's last event, or the old checkpoint.
LastOf(r) ==
  IF page[r] = {} THEN After(r)
  ELSE (CHOOSE ev \in page[r] : \A other \in page[r] : other.seq <= ev.seq).seq

\* The request's session ends.
ForgetPoll(r) ==
  /\ scope' = [scope EXCEPT ![r] = None]
  /\ seen' = [seen EXCEPT ![r] = None]
  /\ page' = [page EXCEPT ![r] = {}]
  /\ Goto(r, "idle")

\* The poll commits (with the state row, if it inserted it) and answers.
EndPoll(r) ==
  /\ IF holder = r THEN state' = mine /\ holder' = None /\ mine' = None
                   ELSE UNCHANGED <<state, holder, mine>>
  /\ ForgetPoll(r)
  /\ UNCHANGED <<used, writerVars, tenantVars>>

\* next_cursor is signed with the tenant the poll has loaded.
Respond(r) ==
  /\ pc[r] = "respond"
  /\ cursor' = [cursor EXCEPT ![r] =
       [tenant |-> scope[r], epoch |-> seen[r].epoch, seq |-> LastOf(r)]]
  /\ got' = [got EXCEPT ![r] = @ \cup page[r]]
  /\ EndPoll(r)

\* The response is lost: the client polls again from its old checkpoint.
LoseResponse(r) ==
  /\ pc[r] = "respond"
  /\ EndPoll(r)
  /\ UNCHANGED <<cursor, got>>

\* The poll ends without a page and rolls back.
RollBackPoll(r) ==
  /\ DropHold(r)
  /\ ForgetPoll(r)
  /\ UNCHANGED <<state, used, writerVars, tenantVars, cursor, got>>

AbortPoll(r) == pc[r] \notin {"idle", "rejected"} /\ RollBackPoll(r)

\* The 422 of a refused cursor; the client keeps the cursor and polls again.
Refuse(r) == pc[r] = "rejected" /\ RollBackPoll(r)

-----------------------------------------------------------------------------

GetState(x) == Select(x) \/ SelectNothing(x) \/ Insert(x) \/ InsertConflict(x)

Next ==
  \/ \E x \in Proc : Begin(x) \/ GetState(x)
  \/ \E w \in Writer : AppendEvent(w) \/ CommitWriter(w) \/ AbortWriter(w)
  \/ \E r \in Reader : \/ CheckCursor(r) \/ ListPage(r) \/ Respond(r)
                       \/ LoseResponse(r) \/ AbortPoll(r) \/ Refuse(r)
  \/ \E t \in Tenant : BeginPatch(t) \/ CommitPatch(t)

Spec == Init /\ [][Next]_vars

\* A client keeps polling and not all its polls fail or lose their answer; a
\* transaction that has begun ends.  Writers need not begin and PATCHes need
\* not commit.
Fairness ==
  /\ \A r \in Reader :
       /\ WF_vars(Begin(r)) /\ SF_vars(GetState(r))
       /\ SF_vars(CheckCursor(r)) /\ SF_vars(ListPage(r)) /\ SF_vars(Respond(r))
       /\ WF_vars(Refuse(r))
  /\ \A w \in Writer : SF_vars(GetState(w)) /\ WF_vars(CommitWriter(w) \/ AbortWriter(w))

FairSpec == Spec /\ Fairness

-----------------------------------------------------------------------------
(* Properties                                                               *)

\* Types of all variables.
TypeOK ==
  /\ state \in StateRow \cup {None}
  /\ log \subseteq Event
  /\ holder \in Proc \cup {None}
  /\ mine \in StateRow \cup {None}
  /\ pending \in [Writer -> SUBSET Event]
  /\ used \subseteq Epoch
  /\ pc \in [Proc -> PCs]
  /\ tenant \in Tenant
  /\ patching \subseteq Tenant
  /\ scope \in [Reader -> Tenant \cup {None}]
  /\ seen \in [Reader -> StateRow \cup {None}]
  /\ page \in [Reader -> SUBSET Event]
  /\ cursor \in [Reader -> Cursor \cup {None}]
  /\ got \in [Reader -> SUBSET Event]

\* The committed log is exactly the events 1 .. state.sequence of the feed's
\* epoch: none is missing, none beyond the high watermark is visible.
LogMatchesState ==
  log = IF state = None THEN {} ELSE [epoch : {state.epoch}, seq : 1..state.seq]

\* A client holds exactly the committed events up to its cursor.  As its
\* cursor is durable, an event that commits later with a lower sequence would
\* be lost to it: emit numbers events under the lock it holds to commit.
CursorSkipsNothing ==
  \A r \in Reader :
    got[r] = IF cursor[r] = None THEN {}
             ELSE {ev \in log : ev.seq <= cursor[r].seq}

\* A cursor the server issued is refused only to a poll that finds the project
\* under another tenant than the poll that issued it: never as beyond the high
\* watermark and never as of another epoch, though the state row is created by
\* whichever request comes first and may be rolled back with it.
IssuedCursorAccepted ==
  \A r \in Reader :
    pc[r] = "rejected" => cursor[r] # None /\ cursor[r].tenant # scope[r]

\* A page never holds an event that its client has been handed before, though
\* lost responses and failed polls make the client ask again.
NoRedelivery == \A r \in Reader : page[r] \cap got[r] = {}

\* A client that follows its cursor is handed every committed event once and
\* in order, and is turned away for a change of the project's tenant only.
DeliveryExact == CursorSkipsNothing /\ IssuedCursorAccepted /\ NoRedelivery

\* Once created the feed keeps its epoch and its sequence never goes back.
FeedNeverRestarts ==
  [][state # None => /\ state' # None
                     /\ state'.epoch = state.epoch
                     /\ state'.seq >= state.seq]_vars

\* The client holds a cursor of a tenant that is not the project's.
Stranded(r) == cursor[r] # None /\ cursor[r].tenant # tenant

\* Every committed event reaches every client that keeps polling, except one
\* whose cursor a PATCH of the tenant has outdated for good; the check of that
\* PATCH came before the project's first write.
EventsArrive ==
  \A r \in Reader, n \in 1..MaxSeq :
    (\E ev \in log : ev.seq = n) ~> ((\E ev \in got[r] : ev.seq = n) \/ []Stranded(r))
=============================================================================
