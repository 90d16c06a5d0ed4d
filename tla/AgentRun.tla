------------------------------- MODULE AgentRun -------------------------------
(***************************************************************************)
(* The loop of an agent that uses the memory: READ -> ACT -> WRITE -> LINK,*)
(* then the evaluation and the log of the task.                            *)
(*                                                                         *)
(* Every arrow is an HTTP request, a transaction of its own; while a run   *)
(* goes on others revise, archive, restore, compact and move what it has   *)
(* read, and import entries of their own.  A run ends at the first request *)
(* that is refused or gets no answer, except that it does without an       *)
(* evaluation or a log that is refused.  A request whose client has stopped*)
(* waiting is still carried out.                                           *)
(*                                                                         *)
(* Requests are one step here, but for the write, whose quality gate looks *)
(* for duplicates before it inserts.  Scores are left out: a search returns*)
(* some of what it may return, in some order.  Links are those that runs   *)
(* make and what revisions inherit of them; that one can be deleted, and   *)
(* the links of a compaction, are left out.                                *)
(***************************************************************************)
EXTENDS Naturals, Sequences, FiniteSets, Ordered

CONSTANTS
  Agent,
  Project,
  Doomed,      \* the projects that may be deleted
  Home,        \* the project an agent names in its requests, or None
  Restricted,  \* the agents whose key is restricted to tenants ...
  Reach,       \* ... and the projects of those tenants
  Related,     \* the projects named in a project's related_projects
  Text,        \* texts that a run may write twice
  Limit,       \* default_limit
  MinItems,    \* min_context_items
  LinkCap,     \* the number of items linked (5 in the code)
  Seed,        \* the entries at the start, by id 1..Len(Seed)
  MaxEntries,  \* bound on the ids of entries
  MaxRuns,     \* bound on the runs started
  MaxBusy,     \* bound on the runs at a time; abandoned requests go on beside them
  None

Id  == 1..MaxEntries
Run == 1..MaxRuns

\* supersedes is the id the row supersedes, copyOf the unscoped entry it
\* replaces in a project, 0 if there is none; text None stands for texts no
\* other entry has.
Row == [project : Project \cup {None}, current : BOOLEAN, text : Text \cup {None},
        supersedes : Id \cup {0}, copyOf : Id \cup {0}]

Scopes == << "project", "related", "global" >>

ASSUME AgentAssumption ==
  /\ None \notin Project \cup Text /\ Doomed \subseteq Project
  /\ Home \in [Agent -> Project \cup {None}] /\ Restricted \subseteq Agent
  /\ Reach \in [Agent -> SUBSET Project] /\ Related \in [Project -> SUBSET Project]
  /\ {Limit, MinItems, LinkCap} \subseteq Nat \ {0} /\ {MaxEntries, MaxRuns, MaxBusy} \subseteq Nat
  /\ Seed \in Seq(Row) /\ Len(Seed) <= MaxEntries

\* No entry at the start goes back to another, and no project holds a text twice.
ASSUME SeedAssumption ==
  \A e \in DOMAIN Seed :
    /\ Seed[e].supersedes = 0 /\ Seed[e].copyOf = 0
    /\ \A f \in DOMAIN Seed :
         e # f /\ Seed[e].current /\ Seed[f].current /\ Seed[e].project # None /\ Seed[e].text # None
         => <<Seed[e].project, Seed[e].text>> # <<Seed[f].project, Seed[f].text>>

VARIABLES
  row,      \* memory_entries, a function on the ids in use
  exists,   \* projects
  access,   \* memory_access_logs: <<run, entry>>
  links,    \* memory_links of type derived_from that runs made: <<result, source>>
  logs,     \* task_logs
  agent,    \* the run of each agent
  posts,    \* POST /memory requests in progress
  runs,     \* number of runs started
  result,   \* history: the entry each run saved
  moved,    \* history: runs that were reading when an entry they had read was replaced
  rushed,   \* history: entries inserted while an equal one was, too
  forced    \* history: entries that came in where the gate, not asked, refuses

vars == <<row, exists, access, links, logs, agent, posts, runs, result, moved, rushed, forced>>

Idle == [pc |-> "idle"]

Items(s) == {s[n] : n \in DOMAIN s}
NewId == Cardinality(DOMAIN row) + 1
Add(rows, v) == [e \in 1..NewId |-> IF e = NewId THEN v ELSE rows[e]]

-----------------------------------------------------------------------------
(* Reading                                                                  *)

MayAccess(a, p) == a \in Restricted => p \in Reach[a] \cap exists

\* _can_access_entry
CanAccess(a, e) == MayAccess(a, row[e].project)

\* _resolve_scope_project_ids refuses a project that is gone or out of reach.
Resolves(a, scope) == scope = "global" \/ Home[a] = None \/ (Home[a] \in exists /\ MayAccess(a, Home[a]))

\* The projects of a scope; a request without a project, or global with a key
\* for all tenants, is not limited to any.
ScopeOf(a, scope) ==
  LET reachable == {p \in exists : MayAccess(a, p)} IN
  IF scope = "global" THEN IF a \in Restricted THEN reachable ELSE Project \cup {None}
  ELSE IF Home[a] = None THEN Project \cup {None}
  ELSE {Home[a]} \cup (IF scope = "related" THEN Related[Home[a]] \cap reachable ELSE {})

\* Mutant: the search takes closed entries, too.
SearchableEver(a, scope) == {e \in DOMAIN row : row[e].project \in ScopeOf(a, scope) /\ CanAccess(a, e)}

\* The entries a search may find, those the key may not see filtered out.
Searchable(a, scope) ==
  {e \in DOMAIN row : row[e].current /\ row[e].project \in ScopeOf(a, scope) /\ CanAccess(a, e)}

\* The entries a query may match, by its words or by their meaning.
Matching(S) == SUBSET S

\* The answers to a search: of the entries that match the best, in some order.
Found(S) ==
  {s \in UNION {[1..n -> S] : n \in 0..Limit} :
     Items(s) \in Matching(S) /\ \A m, n \in DOMAIN s : s[m] = s[n] => m = n}

\* The access log of a search.
Accessed(r, s) == {<<r, e>> : e \in Items(s)}

\* The items of an answer that are not in the context yet.
NewItems(context, s) ==
  LET fresh == {n \in DOMAIN s : s[n] \notin Items(context)}
  IN [k \in 1..Cardinality(fresh) |-> s[Ascending(fresh)[k]]]

\* Mutant: the context is not cut.
MergedWhole(context, s) == context \o NewItems(context, s)

\* What _read_context takes over from one scope.
Merged(context, s) ==
  LET all == context \o NewItems(context, s)
  IN SubSeq(all, 1, IF Len(all) < Limit THEN Len(all) ELSE Limit)

Enough(context) == Len(context) >= IF Limit < MinItems THEN Limit ELSE MinItems

Start(a) ==
  /\ agent[a].pc = "idle" /\ runs < MaxRuns
  /\ Cardinality({b \in Agent : agent[b].pc # "idle"}) < MaxBusy
  /\ runs' = runs + 1
  /\ agent' = [agent EXCEPT ![a] = [pc |-> "read", run |-> runs + 1, scope |-> 1, context |-> << >>, linked |-> << >>]]
  /\ result' = Append(result, 0)
  /\ UNCHANGED <<row, exists, access, links, logs, posts, moved, rushed, forced>>

\* A request is refused or lost, the handler fails or the agent dies: run raises.
Stop(a) ==
  /\ agent[a].pc # "idle"
  /\ agent' = [agent EXCEPT ![a] = Idle]
  /\ UNCHANGED <<row, exists, access, links, logs, posts, runs, result, moved, rushed, forced>>

\* POST /memory/relevant, for one scope after the other until there is enough.
ReadScope(a) ==
  /\ agent[a].pc = "read"
  /\ LET q == agent[a]
         scope == Scopes[q.scope]
     IN /\ Resolves(a, scope)
        /\ \E s \in Found(Searchable(a, scope)) :
             LET context == Merged(q.context, s) IN
             /\ access' = access \cup Accessed(q.run, s)
             /\ agent' = [agent EXCEPT ![a] =
                  IF Enough(context) \/ q.scope = Len(Scopes)
                  THEN [q EXCEPT !.context = context, !.pc = "act"]
                  ELSE [q EXCEPT !.context = context, !.scope = @ + 1]]
  /\ UNCHANGED <<row, exists, links, logs, posts, runs, result, moved, rushed, forced>>

-----------------------------------------------------------------------------
(* Writing                                                                  *)

\* The handler returns and its answer is posted.
Act(a) ==
  /\ agent[a].pc = "act"
  /\ \E t \in Text :
       posts' = posts \cup {[by |-> a, run |-> agent[a].run, project |-> Home[a], text |-> t,
                             pc |-> "begin", seen |-> {}]}
  /\ agent' = [agent EXCEPT ![a].pc = "save"]
  /\ UNCHANGED <<row, exists, access, links, logs, runs, result, moved, rushed, forced>>

\* create_memory's _validate_project.
MayWrite(q) ==
  IF q.project = None THEN q.by \notin Restricted
  ELSE q.project \in exists /\ MayAccess(q.by, q.project)

Equal(project, text) == {e \in DOMAIN row : row[e].current /\ row[e].project = project /\ row[e].text = text}

\* Mutant: the gate lets duplicates pass.
RefusedNever(project, text, except) == FALSE

\* The quality gate refuses what the project already holds.
RefusedAsDuplicate(project, text, except) ==
  project # None /\ text # None /\ Equal(project, text) \ except # {}

Assess(q) ==
  /\ q.pc = "begin" /\ MayWrite(q) /\ ~RefusedAsDuplicate(q.project, q.text, {})
  /\ posts' = (posts \ {q}) \cup {[q EXCEPT !.pc = "insert", !.seen = Equal(q.project, q.text)]}
  /\ UNCHANGED <<row, exists, access, links, logs, agent, runs, result, moved, rushed, forced>>

\* An entry that continues none.
Original(project, text) ==
  [project |-> project, current |-> TRUE, text |-> text, supersedes |-> 0, copyOf |-> 0]

Waits(a, q) == agent[a].pc = "save" /\ agent[a].run = q.run

\* The entry is inserted and committed, whether or not its agent still waits.
Insert(q) ==
  /\ q.pc = "insert" /\ NewId \in Id
  /\ q.project # None => q.project \in exists
  /\ LET e == NewId IN
     /\ row' = Add(row, Original(q.project, q.text))
     /\ result' = [result EXCEPT ![q.run] = e]
     /\ rushed' = IF Equal(q.project, q.text) \ q.seen # {} THEN rushed \cup {e} ELSE rushed
  /\ posts' = posts \ {q}
  /\ agent' = [a \in Agent |-> IF Waits(a, q) THEN [agent[a] EXCEPT !.pc = "link"] ELSE agent[a]]
  /\ UNCHANGED <<exists, access, links, logs, runs, moved, forced>>

\* Refused by a check or the gate, which judges more than duplicates, or failed.
RefusePost(q) ==
  /\ posts' = posts \ {q}
  /\ agent' = [a \in Agent |-> IF Waits(a, q) THEN Idle ELSE agent[a]]
  /\ UNCHANGED <<row, exists, access, links, logs, runs, result, moved, rushed, forced>>

-----------------------------------------------------------------------------
(* Linking, evaluating and logging                                          *)

\* Mutant: every item of the context is taken for linked.
LinkedAll(q) == q.context

\* The items run has linked: linked_ids.
LinkedIds(q) == q.linked

ToLink(q) == SubSeq(q.context, 1, IF Len(q.context) < LinkCap THEN Len(q.context) ELSE LinkCap)

\* create_link: both ends must be in reach, neither need be current.
MayLink(a, from, to) == CanAccess(a, from) /\ CanAccess(a, to)

\* POST /memory-links to the next item.
LinkItem(a) ==
  /\ agent[a].pc = "link"
  /\ LET q == agent[a]
         source == ToLink(q)[Len(q.linked) + 1]
     IN /\ Len(q.linked) < Len(ToLink(q))
        /\ MayLink(a, result[q.run], source)
        /\ links' = links \cup {<<result[q.run], source>>}
        /\ agent' = [agent EXCEPT ![a].linked = Append(@, source)]
  /\ UNCHANGED <<row, exists, access, logs, posts, runs, result, moved, rushed, forced>>

\* The evaluation changes nothing; without one the run goes on.
Evaluate(a) ==
  /\ agent[a].pc = "link" /\ Len(agent[a].linked) = Len(ToLink(agent[a]))
  /\ agent' = [agent EXCEPT ![a].pc = "log"]
  /\ UNCHANGED <<row, exists, access, links, logs, posts, runs, result, moved, rushed, forced>>

Entered(q) == [run |-> q.run, entry |-> result[q.run], used |-> q.context, linked |-> LinkedIds(q)]

\* POST /task-logs, accepted or refused; the run returns.
LogRun(a) ==
  /\ agent[a].pc = "log"
  /\ \E kept \in {{}, {Entered(agent[a])}} : logs' = logs \cup kept
  /\ agent' = [agent EXCEPT ![a] = Idle]
  /\ UNCHANGED <<row, exists, access, links, posts, runs, result, moved, rushed, forced>>

-----------------------------------------------------------------------------
(* Meanwhile                                                                *)

\* Runs still reading that have e in their context.
Reading(e) == {agent[a].run : a \in {b \in Agent : agent[b].pc = "read" /\ e \in Items(agent[b].context)}}

\* Mutant: the ends of the inherited links are exchanged.
InheritedBackwards(e, f) ==
  {<<l[2], f>> : l \in {k \in links : k[1] = e /\ k[2] # f}}
  \cup {<<f, l[1]>> : l \in {k \in links : k[2] = e /\ k[1] # f}}

\* inherit_for_revision
Inherited(e, f) ==
  {<<f, l[2]>> : l \in {k \in links : k[1] = e /\ k[2] # f}}
  \cup {<<l[1], f>> : l \in {k \in links : k[2] = e /\ k[1] # f}}

\* The leaf e of a chain is closed and a successor with its links follows it.
Continue(e, project, text) ==
  /\ NewId \in Id
  /\ row' = Add([row EXCEPT ![e].current = FALSE],
                [project |-> project, current |-> TRUE, text |-> text, supersedes |-> e, copyOf |-> 0])
  /\ links' = links \cup Inherited(e, NewId)
  /\ moved' = moved \cup Reading(e)
  /\ UNCHANGED <<exists, access, logs, agent, posts, runs, result, rushed>>

\* revise, through the gate.
Revise(e) ==
  /\ row[e].current
  /\ \E t \in Text \cup {None} :
       ~RefusedAsDuplicate(row[e].project, t, {e}) /\ Continue(e, row[e].project, t)
  /\ UNCHANGED forced

\* What comes in past the gate.
PastGate(project, text, except) ==
  IF RefusedAsDuplicate(project, text, except) THEN forced \cup {NewId} ELSE forced

\* An import in mode update revises past the gate what earlier ones made.
ReviseByImport(e) ==
  /\ row[e].current /\ row[e].project # None
  /\ \E t \in Text \cup {None} :
       Continue(e, row[e].project, t) /\ forced' = PastGate(row[e].project, t, {e})

\* The entry and those it goes back to by revision: what is in every set that
\* holds the entry and, with a row, the row it supersedes.
Versions(e) ==
  {f \in DOMAIN row :
     \A S \in SUBSET DOMAIN row :
       e \in S /\ (\A x \in S : row[x].supersedes # 0 => row[x].supersedes \in S) => f \in S}

\* restore: a version s of the chain with the leaf e, current or not, is put on
\* top again, past the gate.
Restore(e, s) ==
  /\ \A f \in DOMAIN row : row[f].supersedes # e
  /\ s \in Versions(e) /\ ~(row[e].current /\ s = e)
  /\ Continue(e, row[s].project, row[s].text)
  /\ forced' = PastGate(row[s].project, row[s].text, {e})

\* An import creates an entry past the gate.
Import(p, t) ==
  /\ NewId \in Id
  /\ row' = Add(row, Original(p, t)) /\ forced' = PastGate(p, t, {})
  /\ UNCHANGED <<exists, access, links, logs, agent, posts, runs, result, moved, rushed>>

\* A compaction creates the summary of S past the gate, in the project of the
\* first, and may archive S, which must be current then.
Compact(S, archived) ==
  /\ Cardinality(S) >= 2 /\ archived => \A e \in S : row[e].current
  /\ NewId \in Id
  /\ \E e \in S, t \in Text \cup {None} :
       /\ row' = Add([x \in DOMAIN row |-> IF archived /\ x \in S THEN [row[x] EXCEPT !.current = FALSE] ELSE row[x]],
                     Original(row[e].project, t))
       /\ forced' = PastGate(row[e].project, t, {})
  /\ UNCHANGED <<exists, access, links, logs, agent, posts, runs, result, moved, rushed>>

\* _match_project: a text may mention the path of any project.
MayMention(e, p) == p \in exists

\* memory-hygiene: an unscoped entry is closed and begins again in the project
\* whose path it mentions, without its links and past the gate.
Assign(e, p) ==
  /\ row[e].current /\ row[e].project = None /\ row[e].supersedes = 0
  /\ MayMention(e, p) /\ NewId \in Id
  /\ row' = Add([row EXCEPT ![e].current = FALSE],
                [project |-> p, current |-> TRUE, text |-> row[e].text, supersedes |-> 0, copyOf |-> e])
  /\ moved' = moved \cup Reading(e)
  /\ forced' = PastGate(p, row[e].text, {})
  /\ UNCHANGED <<exists, access, links, logs, agent, posts, runs, result, rushed>>

Archive(e) ==
  /\ row[e].current
  /\ row' = [row EXCEPT ![e].current = FALSE]
  /\ UNCHANGED <<exists, access, links, logs, agent, posts, runs, result, moved, rushed, forced>>

\* The entries of a deleted project stay, in none.
DeleteProject(p) ==
  /\ exists' = exists \ {p}
  /\ row' = [e \in DOMAIN row |-> IF row[e].project = p THEN [row[e] EXCEPT !.project = None] ELSE row[e]]
  /\ UNCHANGED <<access, links, logs, agent, posts, runs, result, moved, rushed, forced>>

-----------------------------------------------------------------------------

Init ==
  /\ row = Seed /\ exists = Project
  /\ access = {} /\ links = {} /\ logs = {}
  /\ agent = [a \in Agent |-> Idle] /\ posts = {}
  /\ runs = 0 /\ result = << >>
  /\ moved = {} /\ rushed = {} /\ forced = {}

AgentStep(a) ==
  \/ Start(a) \/ Stop(a) \/ ReadScope(a) \/ Act(a) \/ LinkItem(a) \/ Evaluate(a) \/ LogRun(a)

Next ==
  \/ \E a \in Agent : AgentStep(a)
  \/ \E q \in posts : Assess(q) \/ Insert(q) \/ RefusePost(q)
  \/ \E e \in DOMAIN row : Revise(e) \/ ReviseByImport(e) \/ Archive(e)
  \/ \E e, s \in DOMAIN row : Restore(e, s)
  \/ \E e \in DOMAIN row, p \in Project : Assign(e, p)
  \/ \E p \in exists, t \in Text \cup {None} : Import(p, t)
  \/ \E S \in SUBSET DOMAIN row, archived \in BOOLEAN : Compact(S, archived)
  \/ \E p \in exists \cap Doomed : DeleteProject(p)

Spec == Init /\ [][Next]_vars

-----------------------------------------------------------------------------
(* Properties                                                               *)

\* Rows, logs and runs keep their types; a context never exceeds the limit.
TypeOK ==
  /\ \A e \in DOMAIN row : row[e] \in Row
  /\ links \subseteq (DOMAIN row) \X (DOMAIN row) /\ access \subseteq Run \X (DOMAIN row)
  /\ \A l \in logs : l.run \in Run /\ l.entry \in DOMAIN row
  /\ \A a \in Agent : agent[a].pc # "idle" => Len(agent[a].context) <= Limit

\* Hygiene has moved e into a project.
Copied(e) == \E f \in DOMAIN row : row[f].copyOf = e

\* The row that e continues, by a revision or an assignment, 0 if none.  What
\* is restored on top of an original that hygiene had moved continues none: it
\* begins a second chain beside the one in the project.
Before(e) ==
  IF row[e].supersedes # 0 THEN IF Copied(row[e].supersedes) THEN 0 ELSE row[e].supersedes
  ELSE row[e].copyOf

\* Two rows of one entry: no set holds one without the other that holds, with
\* a row, the one it continues and the ones that continue it.
Akin(e, f) ==
  \A S \in SUBSET DOMAIN row :
    e \in S /\ (\A x \in DOMAIN row : Before(x) # 0 => (x \in S <=> Before(x) \in S)) => f \in S

\* Provenance holds what it says: whatever revisions the result and its
\* source go through and wherever the run stopped, a derived_from link that a
\* run made or a revision inherited leads from the result of a run to an entry
\* that run had read, and its reading is in the access log.
DerivedFromWasRead ==
  \A l \in links : \E r \in 1..runs :
    result[r] \in Versions(l[1]) /\ \E e \in Versions(l[2]) : <<r, e>> \in access

\* An agent that asks scope after scope is given no entry twice, and two
\* versions of one entry only if it was replaced between two of its requests.
\* The second chain that restoring a moved original begins is excepted: its
\* entry and the copy in the project are two that are current at once.
OneVersionInContext ==
  \A a \in Agent : agent[a].pc # "idle" =>
    LET c == agent[a].context IN
    \A m, n \in DOMAIN c : m # n =>
      c[m] # c[n] /\ (Akin(c[m], c[n]) => agent[a].run \in moved)

\* The log of a task is true and there is one: it names the entry the run
\* saved, what it had read, and the links it made, and it is written only
\* when the result is linked to all it had to be.
LogTellsRun ==
  \A x \in logs :
    /\ x.entry = result[x.run]
    /\ \A e \in Items(x.used) : <<x.run, e>> \in access
    /\ \A e \in Items(x.linked) : <<x.entry, e>> \in links
    /\ \A n \in DOMAIN x.used : n <= LinkCap => <<x.entry, x.used[n]>> \in links
    /\ \A y \in logs : y.run = x.run => y = x

\* A run that is repeated because its end was not seen does not save its
\* answer twice in a project: of equal current entries one was written by a run
\* while the other came in, or was put beside the other by what does not ask
\* the gate, which is an import, a compaction, a restoration or hygiene.
DuplicateNeedsOverlap ==
  \A e, f \in DOMAIN row :
    e # f /\ row[e].project # None /\ f \in Equal(row[e].project, row[e].text)
    /\ row[e].current /\ row[e].text # None
    => {e, f} \cap (rushed \cup forced) # {}
=============================================================================
