# TLA+ verification of memory-bank

memory-bank ("Memlayer") is a memory service for coding agents: a FastAPI
application over PostgreSQL that keeps *memory entries* with a temporal
history and a change feed, a connector that installs it in a project
directory, shell scripts for agents that may be offline, and release scripts.
This directory holds TLA+ specifications of the parts whose correctness
depends on the order of steps, TLC configurations that check them on small
instances, and TLAPS proofs.

Paths below are relative to the repository root.

## 1. Inventory

| Component | State | Operations | Interacts with | What is hard | What makes it correct | Module |
|---|---|---|---|---|---|---|
| **Temporal memory store** (`app/services/memory_service.py`, `memory_revision_service.py`, `app/repositories/memory_repository.py`) | `memory_entries`: project, `valid_from`, `valid_to`, archived flag, `supersedes_id`, `history_available` | create, revise, archive, restore, assign a first project, `archive_stale` | feed (one event per write, same transaction), links (inherited by a revision, made on creation), maintenance runs (callers) | interleaved requests at READ COMMITTED; reads taken before a lock; long mixes of calls; the half-open validity interval in one clock tick | linear chains, immutable history, one revision valid at any moment, closed means archived, chains stay in their project | `MemoryStore` |
| **Change feed** (`memory_change_service.py`, `memory_change_repository.py`) | `memory_change_feed_states` (epoch, sequence), `memory_change_events`, the client's cursor | `get_or_create_state`, `emit`, `list_page`, `list_changes` | every semantic write; polling clients | numbering before commit, the race that creates the state row, lost responses, cursors that outlive the tenant they were signed for | gap-free numbers, no cursor ever passes an uncommitted event, no redelivery, a cursor refused for a changed tenant only, everything arrives | `ChangeFeed` |
| **Links** (`link_repository.py`, `auto_link_service.py`) | `memory_links` | create, delete, auto-link, inherit for a revision, graph walk | store, agents | foreign key locks in opposite orders; both ends revised at once | the latest revisions stay linked; no hung request; provenance stays true | `MemoryStore`, `AgentRun` |
| **Upkeep** (`lifecycle_service.py`, `compaction_service.py`, `memory_hygiene_service.py`, `admin_observability_service.py`, `update_operational_fields`, `increment_usage`) | `metadata_json`, `usage_count` | retrieval counts, review and conflict resolution, decay and archiving, merging, project assignment | store; requests that use the entries meanwhile | one JSON document read, changed and written back without a lock; many entries in one transaction; decisions taken on a list read earlier | an update is lost only to an overlapping one; nothing is merged twice; what had been retrieved twice when a run read it is not archived by it | `EntryUpkeep` |
| **Project import** (`import_service.py`, `scripts/onboard_memlayer_project.py`, `import_project_cli.py`) | an entry per imported text, an event with an account of the runs, the project id in the checkout's configuration | find the project, find or make the event, match, skip, revise or create, reimport | store, projects, upkeep | two imports match before either commits; restored events; reruns after lost answers and crashes | a true account, one event where nothing asks for another, one project per checkout | `EntryUpkeep`, `ProjectScope` |
| **Projects and tenants** (`project_repository.py`, `update_project`) | `projects` | create, patch (tenant, path), delete | store, registration, import | tenant checked before, changed after | a project in use keeps its tenant | `ProjectScope` |
| **Connector registration** (`project_connector_service.py`, `memlayer_connector/client.py`) | `project_connector_identities` | resolve (idempotent create or bind), verify, read back; retried after a timeout | projects, connector on disk | unique index raced; a timed-out call that committed; patches meanwhile | one project per identity, no project left by a lost race, what is recorded can be verified | `ProjectScope` |
| **Connector on disk** (`memlayer_connector/service.py`, `cli.py`, `manifest.py`, `filesystem.py`, `doctor.py`) | managed files, manifest with hashes, configuration | plan, connect, register, disconnect, doctor | registration; the user's editor | crash or failure between two file operations, user edits | user content survives; rollback restores; the next command is accepted; disconnect removes what connect wrote | `ConnectorFiles` |
| **Offline queue** (`templates/project_root_pack/memlayer_write.sh.tmpl`, `memlayer_sync.sh.tmpl`) | queue file, `.sent`, `.remaining` | write live or enqueue, drain | the HTTP API | enqueue during a drain, a drain that dies | no entry lost, none sent twice but after a failure | `OfflineQueue` |
| **Agent protocol** (`memorybank_sdk/agent_protocol.py`, `client.py`) | the run: context, scopes used, linked ids; `memory_access_logs`, `task_logs` | read scope after scope, act, write, link, evaluate, log | search, store, links, everyone who writes meanwhile | each step is a request of its own; refused, lost and late ones; reruns | provenance links lead to what was read, logs are true, no rerun stores an answer twice without an overlap | `AgentRun` |
| **Search, context, scoring** | none | filter, rank | agents | scope and access of a key | only current entries in reach | `AgentRun` (the ranking is any choice) |
| **Quality, evidence, decisions** | none | validate and score one text against what is stored | store, upkeep | a check of what others have not committed | sequential, unit tested, but for the race | `EntryUpkeep`, `AgentRun` (the verdict) |
| **Schema migrations** (`alembic/versions`) | the tables | upgrade | store: its starting state | legacy rows without history | restorable history never invents a predecessor | `MemoryStore` (`Init`) |
| **Release rollout, migration drill** (`scripts/rollout_release_image.sh`, `release_lock.sh`) | lock directory, running image, schema version | acquire, migrate, switch, verify, roll back | docker compose | death between steps, failed rollback | no two rollouts; a failed one leaves a safe version | not modelled |
| **Query lint, metrics, admin console, public site** | none, or append-only rows | static analysis, aggregates, static pages | API | none that interleaves | - | not modelled |

`PROJECT.json` lists the hazards one by one, each at its line, with the
properties that cover it.

## 2. Plan

Written, in this order: `MemoryRecords`, `MemoryHistory` (what the store
promises), `MemoryStore` (what it does), `ChangeFeed`, `ChangeFeedProofs`,
`MemoryStoreProofs`, `OfflineQueue`, `OfflineQueueProofs`, `ConnectorFiles`,
`EntryUpkeep`, `ProjectScope`, `AgentRun`, the proofs of the last three with
`Ordered`, which they share, and `ConnectorFilesProofs`.

No module composes all of them. `MemoryStore` composes store, links and feed;
`ProjectScope` composes registration, import and the other clients of
projects; `AgentRun` composes the protocol with the store's operations as
atomic steps, which `ImplementsHistory` justifies; `EntryUpkeep` composes the
maintenance runs, reviews and imports over the columns they share.

Every safety property that a passing run checks is a theorem, the two
liveness properties are not (section 5). Worth modelling next, of what section 6
lists: weak-link deletion and relinking by hygiene, and the links between the
entries of an import.

## 3. The modules

### MemoryRecords

The columns of `memory_entries` and `memory_change_events` that validity,
lineage and the feed depend on, with the repository's predicates:
`IsCurrent` (`current_predicate`), `IsValidAt` (`historical_predicate`),
`IntervalHolds` (the check constraint `ck_memory_valid_interval`), `Close` and
`NewRow` (what a revision writes). `Open` stands for `valid_to IS NULL`.
`Roots` maps each entry of a table to the start of its chain, by as many steps
along `supersedes_id` as there are ids.

### MemoryHistory: the promise

Five atomic operations on three variables (`rows`, `feed`, `events`): an entry
is created, revised, archived (alone or in a batch), restored, or assigned to
a project, and the events of the operation are numbered on in the same step.
There are no requests, locks, links or failures in it.

### MemoryStore: what the code does

Each element of `Tx` is a request slot; a request is one database transaction
(`app/database.py`, `get_db`, commits after the handler and rolls back on an
exception, before the response leaves).

| Variables | Code |
|---|---|
| `db`, `links`, `feed`, `events` | the committed tables |
| `dirty`, `dlinks`, `devents`, `dseq` | what a transaction has written and not committed |
| `rowLock`, `keyShare`, `feedLock` | `SELECT ... FOR UPDATE` on entries, `FOR KEY SHARE` taken by foreign key checks, `FOR UPDATE` on the feed state |
| `req` | the handler's position and locals: named entry, source, leaf, new id, links left to copy, stale candidates left |
| `now` | the clock |

| Request | Steps |
|---|---|
| create | `BeginCreate`, `CreateInsert`, `AutoLink`*, `AutoLinkDone`, `Emit`, `Commit` |
| revise | `BeginRevise`, `LockTarget`, `CheckTarget`, `ReviseWrite`, `ReadLinks`, `InheritLink`*, `Emit`, `Commit` |
| archive | `BeginArchive`, `LockTarget`, `CheckTarget`, `ArchiveWrite`, `Emit`, `Commit` |
| restore | `BeginRestore`, `LockTarget`, `CheckChain`, `WalkToLeaf`, `LockLeaf`, `CheckLeaf`, `RestoreWrite`, `ReadLinks`, `InheritLink`*, `Emit`, `Commit` |
| assign | `BeginAssign`, `LockTarget`, `CheckTarget`, `AssignWrite`, `AutoLink`*, `AutoLinkDone`, `Emit`, `Commit` |
| archive_stale | `BeginStale`, then per candidate `NextStale`, `LockTarget`, `CheckTarget`, `ArchiveWrite`, `Emit`; `Commit` |

`Refuse` is a 404, a 409 or a constraint the database enforces; `Abort` is any
other failure, at any statement; `DeadlockVictim` is PostgreSQL ending one
transaction of a waiting cycle. `CreateLink` and `DeleteLink` are the one-row
transactions of the link router.

Init is a state the temporal migration leaves: entries current at the cutover
(`Migrated`), and entries archived before it whose history is unknown
(`Legacy`). Every project has its feed state there; the race that creates the
row is the subject of `ChangeFeed`.

The deletion of a project, which sets `project_id` of its entries to NULL
(`memory_entry.py:20-22`) and removes its feed, is not a request here: projects
exist throughout, and the properties are about entries and feeds of such
projects. It is modelled in `AgentRun` and `ProjectScope`.

`AutoLink` links to entries that are current when the link is inserted; the code
takes them from a list it read once before (`auto_link_service.py:32-54`), so
it may also link to one that has been revised since. Such a link, to an entry
that is no latest revision, is none `LinksSurviveRevision` speaks of.

Two facts of PostgreSQL carry the argument and are modelled explicitly. A
`FOR UPDATE` lock conflicts with the `FOR KEY SHARE` lock of a foreign key
check, so inheriting a link waits for a concurrent revision of its other end:
that is why linked chains stay linked, and also why two revisions of linked
entries can wait for each other. And the transaction that has incremented the
feed's sequence keeps the state row locked until it ends.

### ChangeFeed

One project's feed from before its state row exists: writers run
`get_or_create_state` (`Select`, `SelectNothing`, `Insert`, `InsertConflict`)
and `emit` (`AppendEvent`, several times in a maintenance transaction), then
commit or roll back; clients poll with their cursor (`CheckCursor`,
`ListPage`), and the answer arrives (`Respond`) or is lost (`LoseResponse`).
Beside them the project's tenant is patched (`BeginPatch`, `CommitPatch`), which
`update_project` allows while the project has no entries and no binding; nothing
locks the project between that check and the commit. A cursor carries the
tenant the poll had loaded when it began (`scope`); a later poll that finds the
project under another one refuses it with 422 (`Refuse`), as the design document
says it must. The client keeps its cursor and polls on.
`holder` and `mine` are the transaction that has locked or inserted the state
row and its uncommitted version; `seen` is the high watermark a poll read,
`got` what a client has been handed.

### OfflineQueue

Runs of `memlayer_write.sh` (one per element of `Item`) and of
`memlayer_sync.sh` (slots of `Pass`) on the files of a project's `.memlayer`
directory. There is no lock; every process may die between two commands.

| Variables | Code |
|---|---|
| `queue`, `remaining` | the lines of `memlayer.offline.queue.jsonl` and of its `.remaining` |
| `writer`, `pass`, `left` | where each script is; the lines a pass has read and not finished |
| `unlinked` | writers whose open file `mv` has replaced: their line goes to a file without name |
| `stored` | how often the service carried out a write (twice stands for more) |
| `overlapped`, `refused`, `late`, `deaths` | what has gone wrong so far, for the properties |

| Command | Action |
|---|---|
| `memlayer_api.sh POST` | `Post`, with every outcome: not reached, carried out, HTTP error, carried out but answered too late |
| `memlayer_write.sh` 128-130, 148, 149 | `Write`, `OpenQueue`, `AppendLine`, `WriterDies` |
| `memlayer_sync.sh` 12-22, 41, 44, 48, 49, 51 | `StartPass`, `PostLine`, `KeepLine`, `FinishLines`, `MoveRemaining`, `Truncate`, `PassDies` |

A pass that dies leaves `.remaining` and the whole queue behind, and the next
one starts from both. The installer creates the queue file, so it always exists.

### ConnectorFiles

`memlayer connect --apply`, `--register-project` and `disconnect --apply` on
the files of one project, one command at a time, one file operation per
action. `Registry` and `Mode` are the artifacts with their ownership
(`artifacts.py`); a file is what it holds of the user's, of the connector's
and of the connector's outside its part.

| Variables | Code |
|---|---|
| `file`, `manifest` | the managed files and `connection-manifest.json` |
| `bound` | the project the service has bound to each identity |
| `pc`, `at`, `run` | the command, the artifact it is at, its plan and locals |
| `kept` | `snapshots`: what it captured, in order |
| `touched`, `raced`, `hurt`, `unresolved`, `original` | edits of the user, edits too late for the command to see, commands that died or could not restore, files a failed restore left, for the properties |

| Command | Actions |
|---|---|
| connect | `PlanConnect`, `Observe`, `Check`, `ApplyStep`*, `WriteManifest`; on failure `RestoreStep`*, `Restored` |
| registration | `Resolve`, `PersistConfig`, `PersistManifest`; on failure `UndoConfig`, `UndoManifest` |
| disconnect | `PlanDisconnect`, `Recheck`, `RemoveStep`*, `RemoveManifest`; on failure `RestoreStep`*, `Restored` |
| anything | `UserEdit` between any two steps, `Die` at any step |

Every step has three outcomes: done, failed without effect, failed with its
effect there (the rename is done and syncing the directory fails). Init is a
project that is empty, has files of the user's, is a clone of a connected
project, holds the pack of the install script, or an installation of the prior
release. `doctor`'s local checks are `Drifted` and `LocallyConnected`.

### EntryUpkeep

Requests that write metadata, counters and the archived flag of entries others
use: retrieval, lifecycle run, conflict and quality resolution, compaction,
import, revision, restoration, archiving. A request reads its entries (`Read` keeps them in
`base`, the session), decides what to write (`Plan`, a list of statements),
and carries the statements out one by one (`PatchEntry`, `UseEntry`,
`ArchiveEntry`, `ReviseEntry`, `RestoreEntry`, `CreateEntry`, `MatchEntry`) in `dirty`, under
row locks, until `Commit` or `Abort`. Metadata is the record `Docs`, written
back whole from the session's version: that is where updates get lost.
Archiving and revising lock the row and read it again first
(`StillCurrent`). `told` is what committed requests told an entry, `raced` the
entries written by a request that had read an older version, `log` the runs an
import event stands for, `retired` who was compacted into what, `twins` the
kinds of which an import or a restoration has made a second one. `root` tells
which entries are revisions of one another, of which a restoration may put any
on top again; a compaction names different entries.

### ProjectScope

Projects, their connector bindings and the checkouts that point to them. Each
`Slot` is a transaction of the server (`req`), each checkout has a command in
progress (`run`) and a configuration (`cfg`).

| Request | Steps |
|---|---|
| `POST /projects/resolve` | `ResolveLookup`, `ResolveSearch`, `Bind` (the savepoint), `ResolveWinner` after an integrity error, `Commit` |
| `POST`, `PATCH`, `DELETE` of a project, a new entry | `Create`; `UpdateRead`, `UpdateCheck`, `UpdateWrite`; `Delete`; `EntryInsert`; `Commit` |
| `POST /imports/project-scan` | `ImportFind`, (`UpdateCheck`, `UpdateWrite`), `ImportInsert`, `Commit` |

| Command of a checkout | Steps |
|---|---|
| `connect --register-project` | `Register`, answer, `ReadBack`; `Timeout` at any time, and again |
| onboarding | `Onboard`, answer, `Persist`; `DieWriting` before or after |

`VerifyBinding` and `LiveReadVerified` are what the service and `doctor` check
later. A request whose client gave up goes on in its slot.

### AgentRun

`MemoryAwareAgent.run` as one request after another (`ReadScope` per scope,
`Act`, then the post in `Assess` and `Insert`, `LinkItem` per item, `Evaluate`,
`LogRun`), beside revisions, restorations, archiving, imports, compactions,
project assignment by hygiene and the deletion of a project, one step each (an
import is one step per entry it creates or revises). Imports, compactions,
restorations and hygiene do not ask the quality gate (`PastGate` notes in
`forced` where it would have refused). `Stop` is a refused or lost request, a failing handler
or a death; a post whose agent has stopped waiting goes on in `posts`. What a
search returns is any choice, in any order, of the current entries in the
scope of the request and in reach of the key. `links` are the `derived_from`
links that runs make, with what revisions inherit of them; the links a
compaction makes from its entries to the summary (`compaction_service.py:84-95`),
links made by hand, and the deletion of a link are left out.

### Ordered

Finite sets of numbers as ascending or descending lists: the order in which the
repository lists entries and in which the model lists what an agent has linked.
The k-th number is chosen by its rank, not found by recursion, so that
`OrderedProofs` can say what the lists hold.

### The proof modules

`MemoryStoreProofs`, `ChangeFeedProofs`, `OfflineQueueProofs`,
`EntryUpkeepProofs`, `ProjectScopeProofs`, `AgentRunProofs` and
`ConnectorFilesProofs` hold the theorems of section 5, each with its inductive
invariant, lemmas about the operators of its module, one lemma per action (and
layer), and the theorems at the end. `OrderedProofs` holds the lemmas about
numbers and lists of them that four of them cite.

### Operators marked "Mutant"

Some modules define, next to an operator, a variant marked `Mutant`. No
specification uses it. Each is a mistake the code could plausibly contain (a
dropped check, a lock not taken, a boundary moved); substituting it makes one
property fail, which shows that the property depends on that line of code.
`PROJECT.json` pairs them with the properties.

## 4. The runs

| Run | Instance | Checks |
|---|---|---|
| `memory_store_chain` | 2 requests, 5 ids, one current entry and one legacy entry of a project, clock 1..3; revise, archive, restore | `TypeOK`, `HistoryWellFormed`, `LeafIsMine`, `OneRevisionAsOf`, `FeedTellsHistory`, `ImplementsHistory` |
| `memory_store_scope` | 2 requests, 4 ids, 2 projects, an entry without project linked to one with, creation dated now or in the future, links that come and go; create, assign, revise, restore | `FeedGapFree`, `ChainKeepsProject`, `LinksSurviveRevision` |
| `memory_store_maintenance` | `archive_stale` over two linked entries beside revise, with fairness | `RequestsEnd` |
| `change_feed` | 2 writers, 1 client, page size 1, 2 events, 2 epochs, 2 tenants, with fairness | `TypeOK`, `LogMatchesState`, `DeliveryExact`, `FeedNeverRestarts`, `EventsArrive` |
| `offline_queue_two_passes` | 2 writers, 2 passes at once, one of which may die, every outcome of a post | `TypeOK`, `LossNeedsOverlap`, `DuplicateNeedsFailure`, `PassKeepsLines` |
| `connector_files` | one artifact of each ownership mode, 3 commands, 1 edit, 2 failures or deaths, 5 kinds of project | `TypeOK`, `NextCommandAccepted`, `DriftIsOfTheUser`, `DisconnectExact`, `UserContentKept`, `RollbackExact` |
| `entry_upkeep` | 2 requests over 4 sets of entries: contradicting decisions, an import event with a worthless entry, a poor entry with a note, an import event with a closed version of it and another, archived event | `TypeOK`, `UpdatesLostOnlyByOverlap`, `CompactedOnce`, `ImportsCounted`, `UsedEntriesSurvive` |
| `project_scope` | 2 checkouts of one name, one with a restricted key, 2 slots, 3 requests, 3 projects, 1 tenant or none | `TypeOK`, `RegistrationsExact`, `RegisteredIsBound`, `OneProjectPerPath`, `TenantFixedUnlessOverlap` |
| `agent_run` | 2 runs of 2 agents with different keys, 3 entries, 2 projects, one of which may be deleted, a text written twice | `TypeOK`, `DerivedFromWasRead`, `OneVersionInContext`, `LogTellsRun`, `DuplicateNeedsOverlap` |
| `offline_queue_overlap` (violation) | 2 writers, 1 pass, nothing dies, no HTTP errors | `NothingLost` |
| `offline_queue_http_error` (violation) | 1 writer, 1 pass, a service that always answers | `NothingLost` |
| `project_tenant` (violation) | as `project_scope`, 2 requests | `TenantImmutable` |

Three of the properties are conjunctions: `HistoryWellFormed` of
`LinearHistory` and `ClosedMeansArchived`, `FeedTellsHistory` of
`FeedReplaysProject` and `FeedOrdersLineage`, `DeliveryExact` of
`CursorSkipsNothing`, `IssuedCursorAccepted` and `NoRedelivery`.
`HistoryImmutable` follows from `ImplementsHistory` and is proved.

What they show, in words:

- Whatever revise, archive and restore requests interleave, an entry gets at
  most one successor, and never one that starts before it ends
  (`HistoryWellFormed`). The row locks alone achieve this: the unique index on
  `supersedes_id` never has to decide a race (`LeafIsMine`), which is stronger
  than the 409 the design document promises for the second of two concurrent
  revisions.
- `restore` reads its source, its project and the end of the chain without a
  lock; the check after it has locked the end makes that safe
  (`OneRevisionAsOf`, `ChainKeepsProject`).
- A client that replays the feed has the project's open entries and reads each
  chain's story in order (`FeedTellsHistory`), and finds no gaps
  (`FeedGapFree`).
- Concurrent requests are equivalent to the atomic operations of
  `MemoryHistory` in commit order (`ImplementsHistory`, by the refinement
  mapping `rows <- db`).
- A client holds every committed event up to its cursor, each handed out once,
  and a cursor the server issued is refused in one case only (`DeliveryExact`):
  the poll finds the project under another tenant than the poll that issued it.
  The creation of the state row by a poll, and its rollback, never do that. The
  case is real: a client may poll a project before it is used, and its tenant
  may then be patched; also when the patch had looked before the first entry and
  commits after it. Every committed event reaches every client that keeps
  polling, but for one that keeps such a cursor (`EventsArrive`).
- No death of a script, at any command, and no timeout makes the offline queue
  lose a write (`LossNeedsOverlap`, `PassKeepsLines`); what a death or a late
  answer costs is a write carried out twice (`DuplicateNeedsFailure`).
- The queue does lose writes in two ways, which `MEMLAYER.md` ("queued locally
  instead of lost") and the work log ("now queues failed write payloads")
  exclude. A line appended while a pass runs is erased at its end: the pass
  replaces the queue by what remains of the lines it read at its start
  (`offline_queue_overlap`). And `curl` is called without `--fail`, so a write
  answered with an HTTP error, by the service or by a proxy before it, counts
  as stored and is neither queued nor kept (`offline_queue_http_error`).
- The connector changes nothing of the user's, but where the user edits a file
  after the command has compared it (`UserContentKept`). A command that fails
  at any step, before or after the step's effect, leaves files and manifest as
  they were (`RollbackExact`); afterwards the next command is accepted, also
  after a death during a first connect (`NextCommandAccepted`), the doctor
  reports only the user's edits (`DriftIsOfTheUser`), and after a disconnect
  nothing of the connector is left in what it may remove (`DisconnectExact`).
  Section 7 lists the deaths from which the connector does not recover.
- Metadata and counters are lost only to a request that had read the entry
  before (`UpdatesLostOnlyByOverlap`): the second of two reviewers who resolve
  at once undoes the first, and two retrievals at once count as one. Archiving
  and merging are safe even then (`CompactedOnce`), because they lock the row
  and read it again.
- A lifecycle run does not archive an entry that has been retrieved twice, if
  the run and the retrievals do not overlap (`UsedEntriesSurvive`). It does
  archive one that is retrieved after the run has read its list
  (`lifecycle_service.py:83-90` compares the counts once), and one of whose two
  retrievals at once only one was counted.
- An import event tells the runs it stands for, over revisions and restorations
  of it (`ImportsCounted`). Excepted are events written from an outdated reading:
  two overlapping imports in mode `update` both read the old account, and the
  second to write it back loses a run (`memory_service.py:252-257`). There is one
  current event and one entry of an import, except that mode `create` makes both
  again, mode `skip` makes another event each time
  (`import_service.py:186-205`), overlapping first imports make one each, and a
  restoration opens an archived one beside its successor.
- A connector identity names one project through races, timeouts and
  retries (`RegistrationsExact`), and what a checkout has recorded can be
  verified by the doctor as long as the project exists (`RegisteredIsBound`).
  Onboarding again after a lost answer or a half-written configuration
  finds the same project (`OneProjectPerPath`); two first imports of one
  checkout that overlap do make two, and are excepted.
- The tenant of a project in use does change, when the patch had looked before
  the entry was committed: the design document says it is immutable
  (`project_tenant`). It does not change in any other way
  (`TenantFixedUnlessOverlap`).
- A `derived_from` link of a run leads to what the run had read, through any
  revisions and restorations of both ends (`DerivedFromWasRead`); a task log
  names the links its run made (`LogTellsRun`), and all it had to make.
- A context holds two versions of an entry only when the entry was replaced
  between two of the searches (`OneVersionInContext`). A restoration of an
  unscoped original that hygiene had moved into a project begins a second chain,
  current beside the one in the project; its versions count as another entry
  (`Before`).
- A repeated run stores its answer twice only when two writes overlap, or when
  the equal entry came in past the quality gate, by an import, a compaction, a
  restoration or hygiene (`DuplicateNeedsOverlap`). Archiving a result, running
  again and restoring the first gives two equal current entries, one request
  after the other.

### Bounds, and why they suffice

Two requests suffice for every race named in the code: each one is a read by
one request made stale by another. Deadlocks of the store are cycles of two.
Five ids let a chain of one entry grow to four revisions beside a legacy
entry, so that a restore can name a source in the middle, at the end and at
the start, and have the end move under it. Three clock ticks let an entry be
opened, closed and reopened in the same tick and in different ones. A page
size of 1 with 2 events makes a page partial; clients share
nothing but the creation of the state row, which one client and two writers
race for, and two tenants let a patch outdate a cursor and another make it good
again; the theorems cover any number. The clients' keys see all tenants, and
the project has no connector binding, which would lock its tenant. `Epoch` bounds
the number of state rows ever inserted, rolled back ones included; `MaxSeq`
the events; `MaxLinks` and `MaxAutoLinks` the links; `MaxTime` the clock.
Ids and requests are symmetric in the safety runs of the store.

The queue needs two passes for one to move or empty what the other has read,
and a second writer for a line appended meanwhile. `MaxLines` bounds the files
a pass may start on: with two passes they may double at each death. `MaxDeaths`
bounds the dying passes; one death leaves the `.remaining` that the next pass
appends to.

`ConnectorFiles`: three commands (`MaxRuns`) are connect, reconnect or
registration, and disconnect; two faults (`MaxFaults`) are a failed step and a
failed restore of it, or a death in each of two commands; one edit
(`MaxEdits`) can fall between any two steps. One artifact of each ownership
mode stands for the registry, in which files of one mode are treated alike.

`EntryUpkeep`: two requests (`MaxRequests`) as for the store, from entries that
earlier requests have left in the states that matter (in review, overdue, in
conflict, retrieved once, with two runs accounted for, `HistoryCap` of
them kept; 10 in the code). `MaxEntries` lets each request add what it can.

`ProjectScope`: three requests (`MaxRequests`) let a registration or an import
be repeated while a third client patches, fills or deletes the project.
`MaxProjects` counts ids, those of rolled-back rows reused.

`AgentRun`: two runs (`MaxRuns`), one at a time (`MaxBusy`) beside abandoned
posts, are a run and its repetition, by either agent. `MaxEntries` leaves two ids
for results, revisions, imports, summaries and moved entries beside the one
there is at the start, in no project and of the text that runs write: enough
to move it and to restore the original beside its copy, or to write an answer
twice. A limit of 2 with one item linked (`LinkCap`) makes both cuts of the code
happen, and a second project of which one agent knows nothing makes scope and
reach differ. With one item to link, a log after some links of several is left
to the theorem `LogsTellTheTruth`, which is for any `LinkCap`, and revisions of
both ends of a link to `ProvenanceWasRead`, which is for any number of entries.

Deadlock is checked where requests keep arriving. It is not checked in
`offline_queue_two_passes` (no pass may start when the files exceed
`MaxLines`), `memory_store_scope` (once all ids are taken no create can arrive),
`connector_files`, `entry_upkeep`, `project_scope` and `agent_run` (all
commands and requests that the bounds allow have ended).

### Fairness

- `MemoryStore!FairSpec`: strong fairness of `Run(t)`. PostgreSQL hands a row
  lock to its waiters in the order they came, so a request whose next
  statement can run again and again runs it. Nothing is assumed of clients, of
  the clock or of `Abort`.
- `ChangeFeed!FairSpec`: a client keeps polling, and not every one of its
  polls fails or loses its answer; a writer that has locked the feed state
  ends its transaction. Writers need not begin, patches need not commit. Without the assumption on
  polls nothing can arrive, and nothing in the server can change that.
- The other modules state safety only. Commands and runs are started by
  users and end at any failed request; nothing has to happen in them.

## 5. Proofs

`ChangeFeedProofs` proves, from `FeedAssumption` alone (writers and clients
are disjoint, `None` is neither a process, a tenant, a row nor a cursor, the page
size is a positive number), for any number of writers, clients and tenants, any
page size and any bound:

| Theorem | Statement |
|---|---|
| `TypeCorrect` | `Spec => []TypeOK` |
| `LogIsGapless` | `Spec => []LogMatchesState` |
| `NothingSkipped` | `Spec => []CursorSkipsNothing` |
| `CursorsStayValid` | `Spec => []IssuedCursorAccepted` |
| `DeliveredOnce` | `Spec => []NoRedelivery` |
| `DeliveryIsExact` | `Spec => []DeliveryExact`, the last three together |
| `FeedIsCreatedOnce` | `Spec => FeedNeverRestarts` |

None of these invariants is inductive by itself: that an event appended now
will not be skipped depends on which uncommitted numbers exist and who holds
the row. The inductive invariant `IInv` therefore adds

- `LockInv`: the state row has one holder, a writer between its first event
  and its end or the poll that inserted the row; the writer's uncommitted
  events are exactly the numbers between the committed sequence and its own;
- `LogInv`: the committed events are exactly 1 .. `state.seq` of the epoch;
- `PollInv`: the watermark a poll has read is committed (or its own
  uncommitted new row), a cursor is of the feed's epoch and never exceeds it, and
  a page is an initial segment of the window after the cursor. Of the three
  reasons to refuse a cursor that leaves the tenant.

There is one lemma per action, each with one step per conjunct, and
`Invariance` combines them; the action property `FeedNeverRestarts`
follows from the invariant and the step. `LastExists` (a finite non-empty set of events has a
last one) and `WindowFinite` carry `LastOf`.

`MemoryStoreProofs` proves, for any sets of entries, projects and requests and
any initial table of migrated and legacy rows:

| Theorem | Statement |
|---|---|
| `TypeCorrect` | `Spec => []TypeOK` |
| `FeedHasNoGaps` | `Spec => []FeedGapFree` |
| `ChainsAreLinear` | `Spec => []LinearHistory` |
| `RowsAreOpenOrClosed` | `Spec => []ClosedMeansArchived` |
| `HistoriesAreWellFormed` | `Spec => []HistoryWellFormed`, the last two together |
| `RowLockOrdersAppends` | `Spec => []LeafIsMine` |
| `HistoryNeverRewritten` | `Spec => HistoryImmutable` |
| `ChainsKeepTheirProject` | `Spec => []ChainKeepsProject` |
| `AsOfIsUnambiguous` | `Spec => []OneRevisionAsOf` |
| `StoreImplementsHistory` | `Spec => ImplementsHistory`, the refinement of `MemoryHistory` |
| `FeedTellsTheHistory` | `Spec => []FeedTellsHistory` |
| `RelationsSurvive` | `Spec => LinksSurviveRevision` |

It assumes `NoneAssumption` (NULL is no entry, project or row),
`EntryAssumption` (there are finitely many ids: they are 128-bit UUIDs) and
`ConstantsAssumption` (the two kinds of initial rows are disjoint sets of
entries, the bounds are numbers, NULL is no request or operation, and the
clock, which starts at `Cutover` = 1, may show that time: `MaxTime` is not 0).
`MaxLinks` and `MaxAutoLinks` may be any numbers and the proofs use none of
them; `MaxTime` may be any number above 0 and is used only to say that the
times of `MemoryHistory` are those of the clock. The argument has seven
layers, each of which uses those before it:

1. `TypeInv`. The types alone are not inductive: that a write finds a row to
   close depends on what the request has named. `PathOK` says which statements
   each operation goes through, `NamesOK` that what a request has named is
   committed, `CleanOK` that only `archive_stale` has written anything
   before it locks and checks.
2. `FeedInv`, on top of it: the transaction that holds a feed state has
   exactly the events between the committed sequence and its own (`FeedOK`),
   and the committed ones are numbered 1 .. `feed[p]` (`LogOK`).
3. `StoreInv`: from its first check on, a request holds the row it will close
   (`HoldOK`); every uncommitted version is either a new row of that
   transaction alone or the closed form of a row it has locked (`DirtyOK`);
   what a check has read is still so when the request writes (`WriteOK`); a
   new row succeeds a locked and closed entry that has no committed successor
   (`SuccOK`). A commit then inserts at most one row, behind an entry nobody
   else can have extended: `CommitLinear` is where linearity is won, and
   `CommitOthers` shows that the commit takes nothing from the other requests.
4. `ChainInv`: an entry has the project of the one it succeeds, and a row of
   unknown history is in no chain (`HeirsOK`); source and leaf of a restore
   are in the chain of its target (`SourceOK`), though it has read them
   without a lock; and what each operation has written once it has written
   (`WrittenOK`, a conjunct per operation).
5. `ReportInv`: a request has one event for each entry whose story it has told
   (`Told`, `ReportOK`), and its new row is dated by the clock or by the client
   (`DatedOK`).
6. The refinement. A step that commits nothing is a stutter of
   `MemoryHistory`; a commit appends the events of `Told` to the feeds in one
   step (`CommitAppends`) and is, for each operation, the atomic one of that
   name (`CreateCommit`, `ReviseCommit`, `AssignCommit`, `ArchiveCommit`,
   `RestoreCommit`). `FeedTellsHistory` is then proved of the abstract steps:
   `TellsInv` needs of the store only that events are of committed entries
   (`EventsExist`).
7. `LinkInv`: locks for update and for key share exclude each other
   (`Exclusive`); an uncommitted link holds the keys of its ends but for the
   new entry (`EndsOK`); what a revision has copied or has still to copy is
   every committed link of the entry it closes (`InheritOK`). A link that
   comes in later would need the key of an entry that the revision has locked
   (`NewLinks`).

`ChainKeepsProject`, `OneRevisionAsOf`, the refinement and
`LinksSurviveRevision` speak of the start of a chain, a recursive function.
What it computes is reached by least counterexamples over the length of the
walk (`LeastNumber`): what an entry has in common with its predecessor it has
in common with the start of its chain (`RootKeeps`); tables with the same
predecessors have the same starts (`SameRoots`, and from it `RootsKept`: a
commit moves none); of two entries with one start, one descends from the other
(`SameChain`); and since entries begin one after the other, the walk is long
enough for an entry and its predecessor to have one start (`RootStep`).

`DirtyOK` and `HoldOK` are also what makes `LeafIsMine` and `HistoryImmutable`
hold: a row changes only under the lock of the one transaction that commits it.

`OfflineQueueProofs` proves, for any number of writers and passes, any bounds
and any outcomes of posts (`QueueAssumption`):

| Theorem | Statement |
|---|---|
| `QueueTypeCorrect` | `Spec => []TypeOK` |
| `WritesLostOnlyByOverlap` | `Spec => []LossNeedsOverlap` |
| `PassesKeepLines` | `Spec => PassKeepsLines` |
| `CarriedOutOnce` | `Spec => []DuplicateNeedsFailure` |

`LossNeedsOverlap` is not inductive: it does not say which file holds a write
that a running pass is about to rewrite. Call a write *owed* (`Safe`) when its
script has ended well, it has not been carried out, and neither exception
applies to it. The invariant says that an owed write is in the queue file,
whatever a pass has done so far (`Queued`: that is why a death loses nothing);
that a running pass still has it to post or has put it back, and is not about
to empty the queue (`PassOwes`); that no two passes run while one is owed
(`PassAlone`); that a file open beside a pass is noted (`OpenNoted`); and that
lines come from scripts that have ended (`LinesDone`).

`DuplicateNeedsFailure` needs another invariant on top of it. Call a write
*clean* when none of its answers was late, no two passes ran over it and no
pass has died. A clean write has one line in each file and in what a pass has
left (`LinesOnce`); what has been carried out has left the queue when no pass
runs (`AtRest`), is not posted again by the one that runs (`ToPost`), and was
carried out once (`StoredOnce`).

`OrderedProofs` holds lemmas for the others: a non-empty set of numbers has a
least one (`LeastNumber`), and the lists of a finite set of numbers have each of
its members once, in order (`AscendingLists`, `DescendingLists`).
The induction is over the numbers, from `NatLessThanWellFounded` and the
minimum that a well-founded relation gives every set; the library's induction
theorem itself cannot be instantiated.

`AgentRunProofs` proves, for any agents, projects, texts and bounds, and any
starting table (`AgentAssumption`, `SeedAssumption`: entries present before the
runs are no revisions, and no project holds a text twice):

| Theorem | Statement |
|---|---|
| `AgentTypeCorrect` | `Spec => []TypeOK` |
| `OneVersionIsRead` | `Spec => []OneVersionInContext` |
| `ProvenanceWasRead` | `Spec => []DerivedFromWasRead` |
| `LogsTellTheTruth` | `Spec => []LogTellsRun` |
| `EqualEntriesOverlapped` | `Spec => []DuplicateNeedsOverlap` |

On top of the types (`TInv`, which also says that a run is one agent's or one
abandoned post's), each of the other theorems has a layer of its own:

- `CInv`: a row continues a closed one (`ChainsBack`); of all versions of an
  entry one has no successor (`OneLeaf`), and the context of an agent that still
  reads holds such rows only, unless an entry was replaced meanwhile
  (`ReadsLeaves`). A new row is put behind a leaf or behind none (`Grown`): that
  is what restoring an assigned original needs `Before` for, since the original
  has been continued in the project already;
- `PInv`: provenance is kept as versions are added at either end, since the
  versions of an entry only become more;
- `LInv`: what is linked so far begins the list of what is to be linked
  (`LinkedSoFar`), and a run with a log has ended (`LoggedOnce`);
- `DInv`: a post about to insert into a project has seen no equal entry there
  (`SeenNothing`); one that came meanwhile overlaps. What anyone else puts in has
  passed the gate or is in `forced` (`JudgedDuplicates`).

Revisions, imports that revise and restorations have one step in common, the
row that continues another (`Continues`), and so have imports and compactions
(`Added`): their lemmas are stated once.

The versions of an entry, `Versions` and `Akin`, are defined as what every set
closed under the succession holds, which makes them accessible to proof
without a walk along the chain.

`ProjectScopeProofs` proves, for any checkouts, slots, requests and any finite
set of tenants (`ScopeAssumption`):

| Theorem | Statement |
|---|---|
| `ScopeTypeCorrect` | `Spec => []TypeOK` |
| `RegistrationsAgree` | `Spec => []RegistrationsExact` |
| `RegisteredStayBound` | `Spec => []RegisteredIsBound` |
| `PathsAreExclusive` | `Spec => []OneProjectPerPath` |
| `SettledTenantFixed` | `Spec => TenantFixedUnlessOverlap` |

Its invariant has three parts:

- `Committed`: one binding per identity and scope, and every answer given is
  that binding (`Identities`); a path belongs to a project its checkout may see
  (`PathsInReach`); a named registration is bound under the tenant its project
  has (`Registered`);
- `RequestsOK`: what a transaction has read is still so where a lock or an index
  keeps it so (`TargetOK`, `IdentityOK`), and no two of them hold the same new
  id, row or index entry (`Apart`); the path and tenant it is about to write
  are those of the row it read (`PathOK`, `SettledOK`);
- `CommandsOK`: an answer that reaches a checkout is to its own request and
  names a binding under the only tenant its key allows.

`EntryUpkeepProofs` proves, for any entries at the start, requests and bounds
(`UpkeepAssumption`; only `ImportsAreCounted` uses `SeedAssumption`, by which
the accounts at the start are true and there is one event and one entry):

| Theorem | Statement |
|---|---|
| `UpkeepTypeCorrect` | `Spec => []TypeOK` |
| `UpdatesSurvive` | `Spec => []UpdatesLostOnlyByOverlap` |
| `CompactsOnce` | `Spec => []CompactedOnce` |
| `RetrievedEntriesSurvive` | `Spec => UsedEntriesSurvive` |
| `ImportsAreCounted` | `Spec => []ImportsCounted` |

That an update survives is not inductive: it must hold of what is about to be
committed. `DriftOK` says that an uncommitted version differs from the
committed one only in the keys its request gave, or has been written from an
older version, and is never current where the committed one is not; it is
stable because the row is locked (the `DOMAIN Dirty` of two requests are
disjoint). `CompactOK` says that a compaction has still to archive each of its
entries or has closed it while it was current; `SweepOK` that a lifecycle run
archives what it has read as hardly used. `AskOK`, `SessionOK` and `TodoOK`
type the statements still to do.

`ImportsCounted` has an invariant of its own on top of that one, `ImportsInv`.
It follows an import through its four phases: nothing done yet
(`PlannedImport`), its event revised but without the account of this run
(`RevisedImport`), its event written (`CountedImport`), its entry written too
(`FinishedImport`). In each it says which committed row the account in the
making goes on from, and that it is one run more than that row's
(`EventDone`) unless the row was read too early. A revision carries the account
along (`ReviseOK`), and what is restored has the account of its source, with the
runs that one stands for (`RestoreOK`); no other request gives or takes a key of it (`PlainOK`).
For the single event and entry, a request adds to a kind nothing, one entry in
place of the current one, or a first one where it knew of none (`Newcomers`);
with what commits meanwhile the last case is a twin, which `twins` records. So is
whatever a restoration opens again.
`LastRunsAgain` is the lemma on histories: the last runs of a list cut to its
last runs are those of the list. `ImportsInv` was checked with TLC on the
instance of `entry_upkeep` before it was proved.

`ConnectorFilesProofs` proves, for any registry of artifacts, whatever their
number and ownership, any projects and any number of commands, edits, failures
and deaths (`ConnectorAssumption`: every artifact occurs once in the registry,
the configuration is the one with managed keys, and none of them is the
manifest):

| Theorem | Statement |
|---|---|
| `TypeCorrect` | `Spec => []TypeOK` |
| `ContentIsKept` | `Spec => UserContentKept` |
| `RollbackIsExact` | `Spec => RollbackExact` |
| `DriftIsUsers` | `Spec => []DriftIsOfTheUser` |
| `CommandsAccepted` | `Spec => []NextCommandAccepted` |
| `DisconnectIsExact` | `Spec => []DisconnectExact` |

The invariant comes in five layers, each of which uses those before it:

1. `TInv`: the types, the shape of the command's locals at each point of it,
   and what may have been captured by then (`KeptOK`: an artifact the command
   has passed).
2. `UInv`: what the plan relies on is still so in every file that is not
   `raced` and not yet passed (`PlanFits`: a whole file is replaced only where
   it is a released one), and what was captured is the user's content as it is
   in the file (`KeptIsOfUser`). With it no step, and no restore, changes what
   is the user's.
3. `BInv`: while a command writes, a file is as it was when the writing began,
   or it is captured as it was then. When nothing captured is left, everything
   is back. A command that ends by restoring leaves that by its last step.
4. `MInv`: the files the user has not edited and the records of them. A file at
   rest is on record with its digest (`AtRest`), and so is every file with what
   a running command found (`FoundRecorded`), what it has installed
   (`JustInstalled`), and on both sides of a registration (`BothRecorded`).
   For a connect that may die, the files fit both the manifest it found and the
   one it writes (`RecordedNow`), but for an installation of the prior release,
   where an upgraded file is no longer the one on record: that is the
   exception in `NextCommandAccepted`.
5. `EInv`: a manifest says `created` of exactly what was not there before the
   first command (`FaithfulNow`, `FaithfulFound`), since connect adopts or
   upgrades what it finds with a manifest and keeps its record; disconnect has
   removed exactly what it had passed and planned to remove (`Cleared`).

For each layer there is one lemma per action, named for both (`ApplyStepT`,
`ApplyStepUB`, `ApplyStepM`, `ApplyStepE`). The layers were checked with TLC on
the instance of `connector_files` before they were proved.

Checked by TLC only:

- `RequestsEnd` and `EventsArrive`, the liveness properties, which the prover
  does not reach.

## 6. What is not modelled

- Release rollout and the migration drill. Their steps are `docker`, `compose`
  and `alembic` calls whose outcome depends on containers, images and volumes
  outside the repository; a model of the scripts would be one of docker's
  states, guessed. What is on the repository's side (one lock directory made
  by `mkdir`, kept after a failed rollback) is a handful of sequential lines.
- Scores: text similarity, embeddings, quality scoring, the ranking of a
  search, evaluation of an answer. Where control depends on one (auto-links,
  the quality gate, conflicts, what a search returns) the model takes any
  verdict. Payload validation and masking are `Abort`.
- Text, titles, types, tags and importance of an entry, but where
  `EntryUpkeep` and `AgentRun` need to tell entries apart.
- Cursor signing: a cursor is the value the server issued. A forged one is
  refused before the modelled code is reached.
- Weak-link deletion, relinking by hygiene, the graph walk, and links between
  the entries of an import.
- The scan of a source tree (`memorybank_sdk/importer.py`): an import has one
  text, changed or not; conflicts it finds are metadata of the new entry.
- Directories, file modes and symbolic links in the connector's project; two
  connector commands at once, which nothing in the code prevents or expects.
- The import command's `persist_project_id` (`scripts/import_project_cli.py:22`),
  which writes the project's identifier into `memlayer.config.json` and leaves
  the connector's manifest alone. Where that file is managed, the connector
  finds it changed, as after a user's edit: `ConnectorFiles` has the edit, and
  not its author.
- The smoke test and the snapshot of an onboarding, which write nothing an
  operation reads.
- SQLite, which the unit tests use: it serialises writers, so its behaviours
  are among those of the models.
- Metrics, the console, the public site and the query lint: reads, static
  pages and a static analysis.

## 7. Observations

Made while modelling, from the code. Most contradict no document; the
disagreements that are runs are the violation runs of section 4.

Store, feed and links:

- An entry dated in the future (`valid_from` of an import or admin client)
  cannot be closed before that date. `revise` answers 409 without naming a
  successor, since it reads any integrity error as a lost race; `archive` lets
  the integrity error through as a 500.
- Restoring the closed, unscoped original of an entry that was assigned to a
  project opens a second, unscoped chain with the same content: assignment
  starts a new chain, so the original is the end of its own.
- An entry linked to itself loses that relation between latest revisions when
  it is revised: the copy replaces one end only. `LinksSurviveRevision` is
  about links between different chains.
- Two revisions of entries linked to each other can deadlock; PostgreSQL ends
  one, and the client sees a 500 rather than a 409.

Upkeep and imports:

- Archiving an entry, writing the same text again and restoring the first gives
  two equal current entries without a race: restore opens no quality gate and
  looks for no duplicate. An import in mode `create` does the same.
- Resolving one conflict with `keep_both` or `supersede` removes all
  `decision_conflicts` of the entry, those with other decisions too.
- Any revision of a decision detects its conflicts again, so a resolution by
  `keep_both` is undone by the next change of its text. Restoring a superseded
  decision gives a current entry whose `decision_status` says superseded.
- Operational updates do not ask whether the entry is current: a review can be
  resolved on a closed row, and its successor does not learn of it.
- Two overlapping first imports create two events, and later ones go on with
  the newest.

Connector and installer:

- A reconnect with a manifest writes managed configuration keys over values
  the user has changed; without a manifest the same values are a conflict.
- A restore stops at the first file it cannot write and names only that one.
- A process that dies in disconnect after the configuration is gone, between
  the two writes of a registration, or in an upgrade of an older installation
  leaves a project that connect and disconnect both refuse.
- After a death in a first connect, the next one adopts what is there and
  records it as not created, so disconnect leaves those files.
- The heading of a created `AGENTS.md` and the configuration's
  `last_write_check` stay after a disconnect.
- `resolve_and_verify` retries after the built-in `TimeoutError`, while the
  client it is given raises `httpx.TimeoutException`; the design document says
  a timeout is retried. The model allows a retry after any timeout, which is
  what a second command does.
- `upsert_managed_section` of the install script drops what follows the
  managed block when it is installed again: the end it computes is not used.

Projects:

- A key without tenant restriction that resolves a project of a tenant by its
  id, without naming the tenant, binds it under the global key; `verify_binding`
  looks under the project's tenant and never finds it. `RegisteredIsBound` is
  about checkouts that named the tenant.
- Two checkouts of one directory name share the first one's project when they
  are onboarded: the project found by name gets the path of the last.
- Onboarding with the id of a deleted project fails until the id is removed
  from the configuration by hand.
- A project's metadata is one column too: a patch can take back a path or a
  tenant that changed after it had read the project.

Agents and scripts:

- `MemoryAwareAgent.run` raises when a link is refused after the result was
  saved; repeated, it is refused as a duplicate of its own result, which stays
  unlinked and unlogged. Evaluation and log are allowed to fail with an HTTP
  status, but not with a lost connection.
- A search takes its limit before entries out of reach are dropped, so a
  restricted key may get fewer items than it could.
- Hygiene moves an entry into a project without its links and without the
  duplicate gate.
- `append_csv_values` in `memlayer_api.sh` fills `ENDPOINTS` at the end of a
  pipeline, in a subshell: endpoints named in `MEMLAYER_EXTRA_URLS` are never
  tried.
- `memlayer_sync.sh` writes `.sent` and removes it without reading it, so a
  pass that dies sends again what it had already sent.
