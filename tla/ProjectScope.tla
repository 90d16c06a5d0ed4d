----------------------------- MODULE ProjectScope -----------------------------
(***************************************************************************)
(* Projects, their tenant scope, and the checkouts that belong to them.    *)
(*                                                                         *)
(* A checkout registers its connector identity (resolve, then a read-back, *)
(* with a retry after a timeout) or is onboarded (the pack is installed,   *)
(* the scan imported); both keep the project they are told of in the       *)
(* checkout's configuration.  Meanwhile others write entries into projects,*)
(* patch them and delete them.                                             *)
(*                                                                         *)
(* A request is a transaction at READ COMMITTED: a read sees what is       *)
(* committed, a write waits for the rows and index entries other           *)
(* transactions hold.  A request the client gave up on goes on.            *)
(***************************************************************************)
EXTENDS Naturals, FiniteSets

CONSTANTS
  Checkout,     \* checkouts; also their paths and connector identities
  NameOf,       \* the directory name of each checkout
  Tenant,       \* tenants
  Reach,        \* the tenants the key of each checkout is restricted to, {} for any
  Slot,         \* request slots of the server
  MaxProjects,  \* bound on the project ids
  MaxRequests,  \* bound on the requests sent
  None          \* no tenant, no path, nobody

Pid == 1..MaxProjects
Scope == Tenant \cup {None}

Project == [name : {NameOf[k] : k \in Checkout}, tenant : Scope,
            path : Checkout \cup {None}, by : {"post", "resolve", "import"}]
Binding == [key : Scope, who : Checkout, project : Pid]

ASSUME ScopeAssumption ==
  /\ None \notin Tenant \cup Checkout /\ IsFiniteSet(Tenant)
  /\ DOMAIN NameOf = Checkout /\ Reach \in [Checkout -> SUBSET Tenant]
  /\ MaxProjects \in Nat \ {0} /\ MaxRequests \in Nat

VARIABLES
  project,  \* projects as committed, a function on the ids in use
  bound,    \* project_connector_identities as committed
  filled,   \* projects with memory entries
  req,      \* the transactions in progress
  run,      \* the command each checkout runs
  cfg,      \* the project and tenant in the configuration of each checkout
  sent,     \* number of requests sent
  ids,      \* ids the rows of projects have had
  said,     \* history: <<binding key, identity, project>> answered by a resolve
  torn,     \* history: projects whose tenant changed after they were in use
  raced     \* history: paths written by a transaction that had not seen the last writer

vars == <<project, bound, filled, req, run, cfg, sent, ids, said, torn, raced>>

Idle == [pc |-> "idle"]
NoCfg == [project |-> 0, tenant |-> None, named |-> FALSE]

-----------------------------------------------------------------------------
(* What the handlers compute                                                *)

Restricted(k) == k # None /\ Reach[k] # {}
MayAccess(k, tenant) == Restricted(k) => tenant \in Reach[k]

\* get_project, for the key of k.
Readable(k, p) == p \in DOMAIN project /\ MayAccess(k, project[p].tenant)

\* resolve_tenant_for_create: the scopes a request may be given, {} if refused.
TenantFor(k, asked) ==
  IF ~Restricted(k) THEN {asked}
  ELSE IF asked # None THEN {asked} \cap Reach[k]
  ELSE IF Cardinality(Reach[k]) = 1 THEN Reach[k] ELSE {}

InUse(p) == p \in filled \/ \E b \in bound : b.project = p

BoundTo(key, k) == {b.project : b \in {x \in bound : x.key = key /\ x.who = k}}

\* get_project_connector_identity
BindingExists(key, k, p) == [key |-> key, who |-> k, project |-> p] \in bound

Named(name, tenant) == {p \in DOMAIN project : project[p].name = name /\ project[p].tenant = tenant}

Newest(S) == CHOOSE p \in S : \A q \in S : q <= p

\* Mutant: an import never looks for an earlier project.
FoundForNobody(k) == {}

\* The project an import without an id goes to: by path, else by name, the
\* newest first.
FoundFor(k) ==
  LET seen == {p \in DOMAIN project : MayAccess(k, project[p].tenant)}
      here == {p \in seen : project[p].path = k}
      same == {p \in seen : project[p].name = NameOf[k]}
  IN IF here # {} THEN {Newest(here)} ELSE IF same # {} THEN {Newest(same)} ELSE {}

\* Locks other transactions hold.
Others(s) == {u \in Slot \ {s} : req[u].pc # "idle"}
Writing(s, p)  == \E u \in Others(s) : req[u].id = p /\ req[u].wrote
Dropping(s, p) == \E u \in Others(s) : req[u].id = p /\ req[u].drops
Using(s, p)    == \E u \in Others(s) : req[u].id = p /\ (req[u].binds \/ req[u].fills)
SameIdentity(s) == \E u \in Others(s) : req[u].binds /\ req[u].k = req[s].k /\ req[u].tenant = req[s].tenant

\* Project ids no row has had, committed or not.
Free  == (Pid \ ids) \ {req[s].id : s \in {u \in Slot : req[u].pc # "idle" /\ req[u].made}}
Fresh == CHOOSE p \in Free : \A q \in Free : p <= q

-----------------------------------------------------------------------------
(* Sending and answering                                                    *)

\* want is the project named in the request (0 if none), tenant its scope or
\* the tenant a patch asks for.
Request(op, k, tenant, want) ==
  [pc |-> "begin", op |-> op, k |-> k, tenant |-> tenant, want |-> want, id |-> 0,
   row |-> None, made |-> FALSE, wrote |-> FALSE, binds |-> FALSE, fills |-> FALSE,
   drops |-> FALSE, settled |-> FALSE, base |-> None, paths |-> {}]

Send(s, r) ==
  /\ req[s].pc = "idle" /\ sent < MaxRequests
  /\ req' = [req EXCEPT ![s] = r]
  /\ sent' = sent + 1

\* A command that waits for the answer to the request in slot s.
Waiting(s, op, scope) ==
  [pc |-> "wait", slot |-> s, op |-> op, scope |-> scope, project |-> 0, tenant |-> None]

\* The checkouts that wait for slot s stop waiting.
Released(s) == [k \in Checkout |-> IF run[k].pc = "wait" /\ run[k].slot = s THEN Idle ELSE run[k]]

\* Refusals and errors roll the transaction back; the client's command ends.
Refuse(s) ==
  /\ req' = [req EXCEPT ![s] = Idle]
  /\ run' = Released(s)
  /\ UNCHANGED <<project, bound, filled, cfg, sent, ids, said, torn, raced>>

\* What a request asks for is of use only at its beginning.
Step(s, r) ==
  /\ req' = [req EXCEPT ![s] = [r EXCEPT !.want = 0]]
  /\ UNCHANGED <<project, bound, filled, run, cfg, sent, ids, said, torn, raced>>

\* The transaction goes on with a new project of its own.
Make(s, r) ==
  /\ Free # {}
  /\ Step(s, [r EXCEPT !.id = Fresh, !.made = TRUE])

At(s, op, pc) == req[s].pc = pc /\ req[s].op = op

-----------------------------------------------------------------------------
(* POST /projects/resolve                                                   *)

ResolveLookup(s) ==
  /\ At(s, "resolve", "begin")
  /\ LET q == req[s]
         found == BoundTo(q.tenant, q.k)
     IN IF found # {}
        THEN \E p \in found : ~Dropping(s, p)
               /\ Step(s, [q EXCEPT !.pc = "commit", !.id = p, !.row = project[p]])
        ELSE IF q.want = 0
        THEN Step(s, [q EXCEPT !.pc = "search"])
        ELSE IF /\ Readable(q.k, q.want)
                /\ q.tenant # None => project[q.want].tenant = q.tenant
        THEN Step(s, [q EXCEPT !.pc = "bind", !.id = q.want, !.row = project[q.want]])
        ELSE Refuse(s)

ResolveSearch(s) ==
  /\ At(s, "resolve", "search")
  /\ LET q == req[s] IN
     IF Named(NameOf[q.k], q.tenant) # {} THEN Refuse(s)
     ELSE Make(s, [q EXCEPT !.pc = "bind", !.row = [name |-> NameOf[q.k], tenant |-> q.tenant,
                                                    path |-> None, by |-> "resolve"]])

\* Mutant: the identities are not unique.
UniqueNever(key, k) == TRUE

\* The unique index, for the binding about to be inserted.
UniqueHolds(key, k) == BoundTo(key, k) = {}

\* Mutant: no foreign key.
TargetAssumed(q) == TRUE

\* The foreign key of the binding, and of an entry.
TargetExists(q) == q.made \/ q.id \in DOMAIN project

\* The savepoint: the new project, then the binding; both or neither.
Bind(s) ==
  /\ At(s, "resolve", "bind")
  /\ LET q == req[s] IN
     /\ ~SameIdentity(s) /\ ~Dropping(s, q.id)
     /\ IF UniqueHolds(q.tenant, q.k) /\ TargetExists(q)
        THEN Step(s, [q EXCEPT !.pc = "commit", !.binds = TRUE])
        ELSE Step(s, [q EXCEPT !.pc = "winner", !.made = FALSE, !.id = 0])

\* After an IntegrityError the winner's binding is the answer.
ResolveWinner(s) ==
  /\ At(s, "resolve", "winner")
  /\ LET q == req[s]
         found == BoundTo(q.tenant, q.k)
     IN IF found = {} THEN Refuse(s)
        ELSE \E p \in found :
               Step(s, [q EXCEPT !.pc = "commit", !.id = p, !.row = project[p]])

-----------------------------------------------------------------------------
(* POST, PATCH and DELETE of a project, and new entries                     *)

Create(s) ==
  /\ At(s, "create", "begin")
  /\ \E k \in Checkout :
       Make(s, [req[s] EXCEPT !.pc = "commit",
                !.row = [name |-> NameOf[k], tenant |-> req[s].tenant, path |-> None, by |-> "post"]])

UpdateRead(s) ==
  /\ At(s, "update", "begin")
  /\ LET q == req[s] IN
     IF q.want \notin DOMAIN project THEN Refuse(s)
     ELSE Step(s, [q EXCEPT !.pc = "check", !.id = q.want, !.base = project[q.want],
                            !.settled = InUse(q.want),
                            !.row = [project[q.want] EXCEPT !.tenant = q.tenant]])

\* Mutant: only the binding is looked for.
LockedByBinding(p) == \E b \in bound : b.project = p

\* has_connector_binding or has_memory_entries.
ScopeLocked(p) == InUse(p)

\* A patch and the project of an import whose metadata changed.
UpdateCheck(s) ==
  /\ req[s].pc = "check"
  /\ LET q == req[s] IN
     IF q.row.tenant # q.base.tenant /\ ScopeLocked(q.id) THEN Refuse(s)
     ELSE Step(s, [q EXCEPT !.pc = "write"])

\* The UPDATE writes the metadata column whole.
UpdateWrite(s) ==
  /\ req[s].pc = "write"
  /\ LET q == req[s] IN
     /\ ~Writing(s, q.id) /\ ~Dropping(s, q.id)
     /\ IF q.id \notin DOMAIN project THEN Refuse(s)
        ELSE Step(s, [q EXCEPT !.pc = IF q.op = "import" THEN "insert" ELSE "commit", !.wrote = TRUE])

\* create_memory in a project.
EntryInsert(s) ==
  /\ At(s, "entry", "begin")
  /\ LET q == req[s] IN
     /\ ~Dropping(s, q.want)
     /\ IF q.want \notin DOMAIN project THEN Refuse(s)
        ELSE Step(s, [q EXCEPT !.pc = "commit", !.id = q.want, !.fills = TRUE])

\* DELETE waits for the rows that refer to the project.
Delete(s) ==
  /\ At(s, "delete", "begin")
  /\ LET q == req[s] IN
     /\ ~Writing(s, q.want) /\ ~Dropping(s, q.want) /\ ~Using(s, q.want)
     /\ IF q.want \notin DOMAIN project THEN Refuse(s)
        ELSE Step(s, [q EXCEPT !.pc = "commit", !.id = q.want, !.drops = TRUE])

-----------------------------------------------------------------------------
(* POST /imports/project-scan, as far as projects go                        *)

ImportFind(s) ==
  /\ At(s, "import", "begin")
  /\ LET q == req[s]
         paths == {p \in DOMAIN project : project[p].path = q.k}
     IN IF q.want # 0
        THEN IF Readable(q.k, q.want)
             THEN Step(s, [q EXCEPT !.pc = "insert", !.id = q.want, !.row = project[q.want]])
             ELSE Refuse(s)
        ELSE IF FoundFor(q.k) # {}
        THEN \E p \in FoundFor(q.k) :
               /\ Step(s, [q EXCEPT !.id = p, !.base = project[p], !.settled = InUse(p), !.paths = paths,
                                    !.row = [project[p] EXCEPT !.path = q.k],
                                    !.pc = IF project[p].path = q.k THEN "insert" ELSE "check"])
        ELSE IF TenantFor(q.k, None) = {} THEN Refuse(s)
        ELSE \E t \in TenantFor(q.k, None) :
               Make(s, [q EXCEPT !.pc = "insert", !.paths = paths,
                                 !.row = [name |-> NameOf[q.k], tenant |-> t, path |-> q.k, by |-> "import"]])

\* The event and the entries of the scan.
ImportInsert(s) ==
  /\ At(s, "import", "insert")
  /\ LET q == req[s] IN
     /\ ~Dropping(s, q.id)
     /\ IF TargetExists(q) THEN Step(s, [q EXCEPT !.pc = "commit", !.fills = TRUE]) ELSE Refuse(s)

-----------------------------------------------------------------------------
(* The end of a transaction                                                 *)

\* Answered with project p under the tenant the handler saw.
Answered(s, p) ==
  [k \in Checkout |->
     IF run[k].pc = "wait" /\ run[k].slot = s
     THEN [run[k] EXCEPT !.pc = "got", !.project = p, !.tenant = req[s].row.tenant] ELSE run[k]]

Commit(s) ==
  /\ req[s].pc = "commit"
  /\ LET q == req[s]
         p == q.id
         kept == DOMAIN project \ (IF q.drops THEN {p} ELSE {})
     IN
     /\ project' = [x \in kept \cup (IF q.made THEN {p} ELSE {}) |->
                      IF x # p THEN project[x]
                      ELSE IF q.made THEN q.row
                      ELSE IF q.wrote THEN [project[p] EXCEPT !.tenant = q.row.tenant, !.path = q.row.path]
                      ELSE project[p]]
     /\ bound' = {b \in bound : q.drops => b.project # p}
                 \cup (IF q.binds THEN {[key |-> q.tenant, who |-> q.k, project |-> p]} ELSE {})
     /\ filled' = (filled \cup (IF q.fills THEN {p} ELSE {})) \ (IF q.drops THEN {p} ELSE {})
     /\ said' = IF q.op = "resolve" THEN said \cup {<<q.tenant, q.k, p>>} ELSE said
     /\ torn' = IF q.wrote /\ InUse(p) /\ q.row.tenant # project[p].tenant THEN torn \cup {p} ELSE torn
     /\ raced' = raced \cup
          {k \in Checkout :
             \/ /\ q.wrote /\ k = q.row.path
                /\ project[p] # q.base
             \/ /\ q.wrote \/ q.made
                /\ q.op = "import" /\ k = q.k
                /\ {x \in DOMAIN project : project[x].path = k} # q.paths}
     /\ ids' = IF q.made THEN ids \cup {p} ELSE ids
     /\ run' = Answered(s, p)
     /\ req' = [req EXCEPT ![s] = Idle]
  /\ UNCHANGED <<cfg, sent>>

\* An error, a deadlock or a lost connection.
Abort(s) == req[s].pc # "idle" /\ Refuse(s)

-----------------------------------------------------------------------------
(* The commands of a checkout                                               *)

\* register-project: the scope asked for, or the configured one.
Register(k, asked, want, s) ==
  LET scope == IF asked # None THEN asked ELSE cfg[k].tenant IN
  /\ run[k].pc = "idle"
  /\ asked # None => cfg[k].tenant \in {None, asked}
  /\ \E t \in TenantFor(k, scope) : Send(s, Request("resolve", k, t, want))
  /\ run' = [run EXCEPT ![k] = Waiting(s, "resolve", scope)]
  /\ UNCHANGED <<project, bound, filled, cfg, ids, said, torn, raced>>

\* onboard: the pack is installed, keeping the project id of a configuration
\* that can be read, and the scan imported.
Onboard(k, s) ==
  /\ run[k].pc = "idle"
  /\ Send(s, Request("import", k, None, cfg[k].project))
  /\ run' = [run EXCEPT ![k] = Waiting(s, "import", None)]
  /\ UNCHANGED <<project, bound, filled, cfg, ids, said, torn, raced>>

\* No answer in time: the command ends.  The retry of resolve_and_verify
\* sends the same request again, as a Register of the same scope does.
Timeout(k) ==
  /\ run[k].pc = "wait" \/ (run[k].pc = "got" /\ run[k].op = "resolve")
  /\ run' = [run EXCEPT ![k] = Idle]
  /\ UNCHANGED <<project, bound, filled, req, cfg, sent, ids, said, torn, raced>>

\* Mutant: the read-back looks at the id only.
ReadBackHoldsById(k) == run[k].project \in DOMAIN project

\* The project read back is the one answered, in the scope answered and asked.
ReadBackHolds(k) ==
  /\ Readable(k, run[k].project)
  /\ run[k].tenant = project[run[k].project].tenant
  /\ run[k].scope # None => run[k].tenant = run[k].scope

\* Read back and persist the registration.
ReadBack(k) ==
  /\ run[k].pc = "got" /\ run[k].op = "resolve"
  /\ cfg' = IF ReadBackHolds(k)
            THEN [cfg EXCEPT ![k] = [project |-> run[k].project, tenant |-> run[k].tenant,
                                     named |-> run[k].tenant \in TenantFor(k, run[k].scope)]]
            ELSE cfg
  /\ run' = [run EXCEPT ![k] = Idle]
  /\ UNCHANGED <<project, bound, filled, req, sent, ids, said, torn, raced>>

\* verify_binding: the project, its tenant as asked, and the binding under it.
VerifyBinding(k, p, asked) ==
  /\ Readable(k, p)
  /\ asked # None => asked = project[p].tenant
  /\ BindingExists(project[p].tenant, k, p)

\* What the doctor reads live: the configured project in the configured tenant.
LiveReadVerified(k) ==
  LET p == cfg[k].project IN
  /\ Readable(k, p)
  /\ project[p].tenant = cfg[k].tenant
  /\ VerifyBinding(k, p, cfg[k].tenant)

\* persist_project_id after an import.
Persist(k) ==
  /\ run[k].pc = "got" /\ run[k].op = "import"
  /\ cfg' = [cfg EXCEPT ![k].project = run[k].project,
                        ![k].named = @ /\ run[k].project = cfg[k].project]
  /\ run' = [run EXCEPT ![k] = Idle]
  /\ UNCHANGED <<project, bound, filled, req, sent, ids, said, torn, raced>>

\* An onboarding that dies while it writes the configuration, before it
\* sends the scan or after it has the answer, leaves a file that is no longer
\* JSON: the next one starts from an empty configuration.
DieWriting(k) ==
  /\ run[k].pc = "idle" \/ (run[k].pc = "got" /\ run[k].op = "import")
  /\ cfg' = [cfg EXCEPT ![k] = NoCfg]
  /\ run' = [run EXCEPT ![k] = Idle]
  /\ UNCHANGED <<project, bound, filled, req, sent, ids, said, torn, raced>>

\* Other clients, whose keys reach every tenant.  A new project and a patch
\* name a tenant; a patch that names the project's own changes other metadata.
OthersSend(s) ==
  /\ \/ \E t \in Scope : Send(s, Request("create", None, t, 0))
     \/ \E p \in DOMAIN project :
       \/ \E t \in Scope : Send(s, Request("update", None, t, p))
       \/ Send(s, Request("entry", None, None, p))
       \/ Send(s, Request("delete", None, None, p))
  /\ UNCHANGED <<project, bound, filled, run, cfg, ids, said, torn, raced>>

\* No project, or one that a client created by POST.
Posted(k, t) == [p \in {1} |-> [name |-> NameOf[k], tenant |-> t, path |-> None, by |-> "post"]]

Init ==
  /\ project \in {[p \in {} |-> None]} \cup {Posted(k, t) : k \in Checkout, t \in Scope}
  /\ bound = {} /\ filled = {}
  /\ req = [s \in Slot |-> Idle]
  /\ run = [k \in Checkout |-> Idle]
  /\ cfg = [k \in Checkout |-> NoCfg]
  /\ sent = 0 /\ ids = DOMAIN project
  /\ said = {} /\ torn = {} /\ raced = {}

Server(s) ==
  \/ ResolveLookup(s) \/ ResolveSearch(s) \/ Bind(s) \/ ResolveWinner(s)
  \/ Create(s) \/ UpdateRead(s) \/ UpdateCheck(s) \/ UpdateWrite(s) \/ EntryInsert(s) \/ Delete(s)
  \/ ImportFind(s) \/ ImportInsert(s) \/ Commit(s) \/ Abort(s)

Client(k) ==
  \/ \E s \in Slot : \/ \E asked \in Scope, want \in DOMAIN project \cup {0} : Register(k, asked, want, s)
                     \/ Onboard(k, s)
  \/ Timeout(k) \/ ReadBack(k) \/ Persist(k) \/ DieWriting(k)

Next == (\E s \in Slot : Server(s) \/ OthersSend(s)) \/ \E k \in Checkout : Client(k)

Spec == Init /\ [][Next]_vars

-----------------------------------------------------------------------------
(* Properties                                                               *)

\* Rows, bindings and configurations keep their types, and what refers to a
\* project refers to one that exists.
TypeOK ==
  /\ DOMAIN project \subseteq ids /\ ids \subseteq Pid
  /\ \A p \in DOMAIN project : project[p] \in Project
  /\ bound \subseteq Binding /\ {b.project : b \in bound} \cup filled \subseteq DOMAIN project
  /\ cfg \in [Checkout -> [project : Pid \cup {0}, tenant : Scope, named : BOOLEAN]]

\* Every answer to a connector identity, over races, timeouts and retries,
\* names the same project for as long as it exists; and a registration that
\* lost a race leaves no project of its own behind.
RegistrationsExact ==
  /\ \A a, b \in said : a[1] = b[1] /\ a[2] = b[2] /\ {a[3], b[3]} \subseteq DOMAIN project => a[3] = b[3]
  /\ \A p \in DOMAIN project : project[p].by = "resolve" => \E b \in bound : b.project = p

\* A checkout that has registered under the tenant of its project (it asked
\* for that tenant, or its key has no other) is verified by every doctor for
\* as long as the project exists, unless the tenant changed while in use.
RegisteredIsBound ==
  \A k \in Checkout :
    cfg[k].named /\ cfg[k].project \in DOMAIN project \ torn => LiveReadVerified(k)

\* However often a checkout is onboarded, over lost answers, crashes and lost
\* configurations, one project carries its path, unless two imports of it (or
\* a patch with old metadata) overlapped.
OneProjectPerPath ==
  \A k \in Checkout \ raced : Cardinality({p \in DOMAIN project : project[p].path = k}) <= 1

\* The tenant of a project with a binding or an entry changes only through a
\* request that had read the project before it had either.
TenantFixedUnlessOverlap ==
  [][\A s \in Slot :
       req[s].pc = "commit" /\ req'[s].pc = "idle" /\ req[s].wrote /\ req[s].settled
       /\ req[s].id \notin torn /\ req[s].id \in DOMAIN project'
       => project'[req[s].id].tenant = project[req[s].id].tenant]_vars

\* "A project's tenant scope becomes immutable after its first connector
\* binding or memory entry": the design document, and the check of
\* update_project.
TenantImmutable ==
  [][\A p \in DOMAIN project \cap DOMAIN project' :
       InUse(p) => project'[p].tenant = project[p].tenant]_vars
=============================================================================
