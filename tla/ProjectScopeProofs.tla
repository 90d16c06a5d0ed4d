-------------------------- MODULE ProjectScopeProofs --------------------------
(***************************************************************************)
(* What holds of projects for every number of checkouts, tenants, slots    *)
(* and requests: references, registrations, paths and tenants.             *)
(***************************************************************************)
EXTENDS ProjectScope, OrderedProofs, TLAPS

-----------------------------------------------------------------------------
(* A transaction in progress: what it has read, and what it holds.          *)

Ops == {"resolve", "import", "create", "update", "entry", "delete"}
Pcs == {"begin", "search", "bind", "winner", "check", "write", "insert", "commit"}

Requests ==
  [pc : Pcs, op : Ops, k : Checkout \cup {None}, tenant : Scope, want : Pid \cup {0}, id : Pid \cup {0},
   row : Project \cup {None}, made : BOOLEAN, wrote : BOOLEAN, binds : BOOLEAN, fills : BOOLEAN,
   drops : BOOLEAN, settled : BOOLEAN, base : Project \cup {None}, paths : SUBSET Pid]

\* Which steps an operation takes, and with what in hand.
StepsOK(q) ==
  /\ q.op \in {"resolve", "import"} => q.k \in Checkout
  /\ q.pc \in {"search", "bind", "winner"} => q.op = "resolve"
  /\ q.pc \in {"check", "write"} => q.op \in {"update", "import"}
  /\ q.pc = "insert" => q.op = "import"
  /\ q.made => /\ q.op \in {"resolve", "import", "create"} /\ q.pc \in {"bind", "insert", "commit"}
               /\ ~q.wrote
  /\ q.wrote => q.op \in {"update", "import"} /\ q.pc \in {"insert", "commit"}
  /\ q.binds => q.op = "resolve" /\ q.pc = "commit"
  /\ q.fills => q.op \in {"import", "entry"} /\ q.pc = "commit"
  /\ q.drops => q.op = "delete" /\ q.pc = "commit"
  /\ q.settled => q.op \in {"update", "import"} /\ q.pc # "begin"
  /\ q.op = "resolve" /\ q.pc = "commit" /\ q.made => q.binds
  /\ q.op = "import" /\ q.pc = "commit" => q.fills
  /\ (\/ q.pc \in {"bind", "check", "write", "insert"} \/ q.made \/ q.wrote
      \/ q.op \in {"resolve", "import"} /\ q.pc = "commit") => q.row \in Project /\ q.id \in Pid

\* A new project has an id no project has had; any other was one.  What a
\* transaction refers to exists.
TargetOK(q) ==
  /\ IF q.made THEN q.id \in Pid \ ids ELSE q.id \in ids \cup {0}
  /\ q.binds \/ q.fills \/ q.wrote \/ q.drops => TargetExists(q)

\* A registration binds what is not bound, or answers what is.
IdentityOK(q) ==
  /\ q.binds => BoundTo(q.tenant, q.k) = {}
  /\ q.op = "resolve" /\ q.pc = "commit" /\ ~q.binds /\ q.id \in DOMAIN project => BindingExists(q.tenant, q.k, q.id)
  /\ q.made /\ q.row.by = "resolve" => q.op = "resolve"

\* An import that gives a project its path saw no project of that path; a
\* patch writes back the path it has read.
PathOK(q) ==
  /\ q.op = "import" /\ (q.made \/ q.wrote \/ q.pc \in {"check", "write"}) =>
       q.paths = {} /\ q.row.path = q.k /\ MayAccess(q.k, q.row.tenant)
  /\ q.op = "update" /\ (q.wrote \/ q.pc \in {"check", "write"}) =>
       /\ q.base \in Project /\ q.row.path = q.base.path
       /\ q.base.path # None /\ q.id \in DOMAIN project =>
            /\ q.id \in filled /\ MayAccess(q.base.path, q.base.tenant)
            /\ q.pc # "check" => q.row.tenant = q.base.tenant
  /\ q.op \in {"create", "resolve"} /\ q.made => q.row.path = None

\* The tenant of a project that was in use when it was read.
SettledOK(q) ==
  q.settled /\ q.id \in DOMAIN project \ torn =>
    /\ InUse(q.id) /\ project[q.id].tenant = q.base.tenant
    /\ q.pc # "check" => q.row.tenant = q.base.tenant

RequestOK(q) == q \in Requests /\ StepsOK(q) /\ TargetOK(q) /\ IdentityOK(q) /\ PathOK(q) /\ SettledOK(q)

\* What two transactions at a time do not share: new ids, and the rows and
\* index entries one of them holds.
Apart(q, r) ==
  /\ q.made /\ r.made => q.id # r.id
  /\ q.wrote /\ r.wrote => q.id # r.id
  /\ q.binds /\ r.binds => q.k # r.k \/ q.tenant # r.tenant
  /\ q.drops /\ (r.wrote \/ r.binds \/ r.fills \/ r.drops) => q.id # r.id
  /\ r.drops /\ (q.wrote \/ q.binds \/ q.fills \/ q.drops) => q.id # r.id

Active(s) == req[s].pc # "idle"

RequestsOK ==
  /\ req \in [Slot -> {Idle} \cup Requests]
  /\ \A s \in Slot : req[s] = Idle \/ RequestOK(req[s])
  /\ \A s, u \in Slot : s # u /\ Active(s) /\ Active(u) => Apart(req[s], req[u])

-----------------------------------------------------------------------------
(* The commands of a checkout.                                              *)

Commands == [pc : {"wait", "got"}, slot : Slot, op : {"resolve", "import"}, scope : Scope,
             project : Pid \cup {0}, tenant : Scope]

\* A command waits for its own request; the answer to a registration names a
\* binding under the only tenant the key allows for the scope asked.
CommandOK(k) ==
  /\ run[k] \in Commands
  /\ run[k].pc = "wait" =>
       LET q == req[run[k].slot] IN
       /\ Active(run[k].slot) /\ q.k = k /\ q.op = run[k].op
       /\ run[k].op = "resolve" => q.tenant \in TenantFor(k, run[k].scope)
  /\ run[k].pc = "got" =>
       /\ run[k].project \in ids
       /\ run[k].op = "resolve" /\ run[k].project \in DOMAIN project =>
            \E t \in TenantFor(k, run[k].scope) : BindingExists(t, k, run[k].project)

CommandsOK ==
  /\ run \in [Checkout -> {Idle} \cup Commands]
  /\ \A k \in Checkout : run[k] = Idle \/ CommandOK(k)

-----------------------------------------------------------------------------
(* What is committed.                                                       *)

Stored ==
  /\ TypeOK
  /\ \A k \in Checkout : cfg[k].project \in ids \cup {0}

\* One binding for an identity in a scope, and it is what was answered.
Identities ==
  /\ \A b, c \in bound : b.key = c.key /\ b.who = c.who => b = c
  /\ \A a \in said : a[3] \in ids /\ (a[3] \in DOMAIN project => BindingExists(a[1], a[2], a[3]))
  /\ \A p \in DOMAIN project : project[p].by = "resolve" => \E b \in bound : b.project = p

\* A project with a path has entries, and the checkout of the path may see it.
PathsInReach ==
  \A p \in DOMAIN project : project[p].path # None =>
    p \in filled /\ MayAccess(project[p].path, project[p].tenant)

OnePath ==
  \A p, q \in DOMAIN project :
    project[p].path = project[q].path /\ project[p].path \in Checkout \ raced => p = q

\* A checkout that registered under its project's tenant is bound under it.
Registered ==
  \A k \in Checkout : cfg[k].named /\ cfg[k].project \in DOMAIN project \ torn =>
    /\ project[cfg[k].project].tenant = cfg[k].tenant /\ MayAccess(k, cfg[k].tenant)
    /\ BindingExists(cfg[k].tenant, k, cfg[k].project)

Committed == Stored /\ Identities /\ PathsInReach /\ OnePath /\ Registered

IInv == Committed /\ RequestsOK /\ CommandsOK

-----------------------------------------------------------------------------
(* Lemmas about what the handlers compute.                                  *)

LEMMA Constants ==
  /\ MaxProjects \in Nat /\ None \notin Tenant /\ None \notin Checkout
  /\ \A k \in Checkout : Reach[k] \in SUBSET Tenant /\ IsFiniteSet(Reach[k])
<1>1. \A k \in Checkout : Reach[k] \in SUBSET Tenant
  BY ScopeAssumption
<1>2. \A k \in Checkout : IsFiniteSet(Reach[k])
  BY <1>1, ScopeAssumption, FS_Subset
<1> QED BY <1>1, <1>2, ScopeAssumption

\* A scope a request is given is the only one, and in reach.
LEMMA TenantForOne ==
  ASSUME NEW k \in Checkout, NEW asked \in Scope, NEW t \in TenantFor(k, asked)
  PROVE  t \in Scope /\ MayAccess(k, t) /\ \A u \in TenantFor(k, asked) : u = t
<1>1. k # None /\ Reach[k] \in SUBSET Tenant /\ IsFiniteSet(Reach[k])
  BY Constants
<1>2. CASE ~Restricted(k)
  BY <1>1, <1>2 DEF TenantFor, MayAccess, Scope
<1>3. CASE Restricted(k) /\ asked # None
  BY <1>1, <1>3 DEF TenantFor, MayAccess, Scope
<1>4. CASE Restricted(k) /\ asked = None
  <2>1. Cardinality(Reach[k]) = 1 /\ t \in Reach[k] /\ TenantFor(k, asked) = Reach[k]
    BY <1>4 DEF TenantFor
  <2>2. PICK x : Reach[k] = {x}
    BY <1>1, <2>1, FS_Singleton
  <2> QED BY <1>1, <2>1, <2>2 DEF MayAccess, Scope
<1> QED BY <1>2, <1>3, <1>4

LEMMA FreshIsFree ==
  ASSUME Free # {}
  PROVE  /\ Fresh \in Pid \ ids
         /\ \A s \in Slot : Active(s) /\ req[s].made => req[s].id # Fresh
<1>1. Free \in SUBSET Nat
  BY DEF Free, Pid
<1>2. \E p \in Free : \A q \in Free : p <= q
  BY <1>1, LeastNumber
<1>3. Fresh \in Free
  BY <1>2 DEF Fresh
<1> HIDE DEF Fresh
<1> QED BY <1>3 DEF Free, Active

LEMMA NewestIsOne ==
  ASSUME NEW S \in SUBSET Pid, S # {}
  PROVE  Newest(S) \in S
<1>1. MaxProjects \in Nat /\ S \in SUBSET (0..MaxProjects)
  BY Constants DEF Pid
<1>2. \E p \in S : \A q \in S : q <= p
  BY <1>1, GreatestNumber
<1> QED BY <1>2 DEF Newest

LEMMA ApartCommutes == \A q, r : Apart(q, r) <=> Apart(r, q)
BY DEF Apart

-----------------------------------------------------------------------------
(* Steps of a transaction.                                                  *)

LEMMA ActiveRequest ==
  ASSUME IInv, NEW s \in Slot, Active(s)
  PROVE  RequestOK(req[s])
BY DEF IInv, RequestsOK, Active, Idle

\* What a request is judged by.
LEMMA SameFacts ==
  ASSUME UNCHANGED <<project, bound, filled, ids, torn>>, NEW t
  PROVE  RequestOK(t) => RequestOK(t)'
<1>1. TargetOK(t) => TargetOK(t)'
  BY DEF TargetOK, TargetExists
<1>2. IdentityOK(t) => IdentityOK(t)'
  BY DEF IdentityOK, BoundTo, BindingExists
<1>3. PathOK(t) => PathOK(t)'
  BY DEF PathOK
<1>4. SettledOK(t) => SettledOK(t)'
  BY DEF SettledOK, InUse
<1>5. StepsOK(t) => StepsOK(t)'
  OBVIOUS
<1> QED BY <1>1, <1>2, <1>3, <1>4, <1>5 DEF RequestOK

LEMMA SameCommitted ==
  ASSUME Committed, UNCHANGED <<project, bound, filled, cfg, ids, said, torn, raced>>
  PROVE  Committed'
<1>1. Stored'
  BY DEF Committed, Stored, TypeOK
<1>2. Identities'
  BY DEF Committed, Identities, BindingExists
<1>3. PathsInReach' /\ OnePath'
  BY DEF Committed, PathsInReach, OnePath, MayAccess
<1>4. Registered'
  BY DEF Committed, Registered, BindingExists, MayAccess
<1> QED BY <1>1, <1>2, <1>3, <1>4 DEF Committed

\* The request in a slot is as in order as before.
LEMMA RequestsCarry ==
  ASSUME UNCHANGED <<project, bound, filled, ids, torn>>, NEW u, req'[u] = Idle \/ RequestOK(req'[u])
  PROVE  req'[u] = Idle \/ RequestOK(req[u])'
<1>1. PICK t : t = req'[u]
  OBVIOUS
<1>2. t = Idle \/ RequestOK(t)'
  BY <1>1, SameFacts
<1> QED BY <1>1, <1>2 DEF RequestOK, StepsOK, TargetOK, TargetExists, IdentityOK, PathOK, SettledOK

\* The command of a checkout that a step leaves alone, with its request.
LEMMA CommandCarries ==
  ASSUME NEW k, CommandOK(k), run'[k] = run[k],
         run[k].pc = "wait" =>
           LET q == req[run[k].slot]
               r == req'[run[k].slot]
           IN r.pc # "idle" /\ r.k = q.k /\ r.op = q.op /\ r.tenant = q.tenant,
         ids \subseteq ids', ids \cap DOMAIN project' \subseteq DOMAIN project,
         \A t, x : x \in DOMAIN project' /\ BindingExists(t, k, x) => BindingExists(t, k, x)'
  PROVE  CommandOK(k)'
<1>1. \A j, t : TenantFor(j, t)' = TenantFor(j, t)
  BY DEF TenantFor, Restricted
<1> QED BY <1>1 DEF CommandOK, Active

\* A step of one transaction keeps the invariant if what the transaction has
\* then is in order, and apart from the others.
LEMMA StepKeeps ==
  ASSUME IInv, NEW s \in Slot, NEW q, q = req[s], Active(s), NEW r \in Requests, Step(s, r),
         r.k = q.k, r.op = q.op, r.tenant = q.tenant,
         StepsOK(r), TargetOK(r), IdentityOK(r), PathOK(r), SettledOK(r),
         \A u \in Slot \ {s} : Active(u) => Apart(r, req[u])
  PROVE  IInv'
<1>1. PICK p : p = [r EXCEPT !.want = 0]
  OBVIOUS
<1>2. /\ p \in Requests /\ p.pc = r.pc /\ p.op = r.op /\ p.k = r.k /\ p.tenant = r.tenant /\ p.id = r.id
      /\ p.row = r.row /\ p.made = r.made /\ p.wrote = r.wrote /\ p.binds = r.binds /\ p.fills = r.fills
      /\ p.drops = r.drops /\ p.settled = r.settled /\ p.base = r.base /\ p.paths = r.paths
  BY <1>1 DEF Requests
<1>3. RequestOK(p)
  BY <1>2 DEF RequestOK, StepsOK, TargetOK, TargetExists, IdentityOK, PathOK, SettledOK
<1>4. /\ req' = [req EXCEPT ![s] = p]
      /\ UNCHANGED <<project, bound, filled, run, cfg, sent, ids, said, torn, raced>>
  BY <1>1 DEF Step
<1>5. \A u \in Slot \ {s} : Active(u) => Apart(p, req[u]) /\ Apart(req[u], p)
  <2>1. \A u \in Slot \ {s} : Active(u) => Apart(p, req[u])
    BY <1>2 DEF Apart
  <2> QED BY <2>1, ApartCommutes
<1>6. Committed'
  <2>1. Committed
    BY DEF IInv
  <2>2. Stored'
    BY <1>4, <2>1 DEF Committed, Stored, TypeOK
  <2>3. Identities'
    BY <1>4, <2>1 DEF Committed, Identities, BindingExists
  <2>4. PathsInReach' /\ OnePath'
    BY <1>4, <2>1 DEF Committed, PathsInReach, OnePath, MayAccess
  <2>5. Registered'
    BY <1>4, <2>1 DEF Committed, Registered, BindingExists, MayAccess
  <2> QED BY <2>2, <2>3, <2>4, <2>5 DEF Committed
<1>7. RequestsOK /\ CommandsOK
  BY DEF IInv
<1>8. /\ req' \in [Slot -> {Idle} \cup Requests] /\ req'[s] = p
      /\ \A u \in Slot \ {s} : req'[u] = req[u]
  BY <1>2, <1>4, <1>7 DEF RequestsOK
<1>9. \A t : RequestOK(t) => RequestOK(t)'
  BY <1>4, SameFacts
<1>10. RequestsOK'
  <2>1. ASSUME NEW u \in Slot PROVE req'[u] = Idle \/ RequestOK(req[u])'
    <3>1. PICK t : t = req'[u]
      OBVIOUS
    <3>2. t = Idle \/ RequestOK(t)
      BY <1>3, <1>7, <1>8, <3>1 DEF RequestsOK
    <3>3. t = Idle \/ RequestOK(t)'
      BY <1>9, <3>2
    <3> QED BY <3>1, <3>3 DEF RequestOK, StepsOK, TargetOK, TargetExists, IdentityOK, PathOK, SettledOK
  <2>2. ASSUME NEW u \in Slot, NEW v \in Slot, u # v, Active(u)', Active(v)'
        PROVE  Apart(req[u], req[v])'
    <3>1. u = s \/ (req'[u] = req[u] /\ Active(u))
      BY <1>8, <2>2 DEF Active
    <3>2. v = s \/ (req'[v] = req[v] /\ Active(v))
      BY <1>8, <2>2 DEF Active
    <3>3. Apart(req'[u], req'[v])
      BY <1>5, <1>7, <1>8, <2>2, <3>1, <3>2 DEF RequestsOK
    <3> QED BY <3>3 DEF Apart
  <2> QED BY <1>8, <2>1, <2>2 DEF RequestsOK
<1>11. CommandsOK'
  <2>1. Active(s)' /\ p.k = q.k /\ p.op = q.op /\ p.tenant = q.tenant
    BY <1>2, <1>8 DEF Active, Requests, Pcs
  <2>2. ASSUME NEW k \in Checkout, run[k] # Idle PROVE CommandOK(k)'
    <3>1. CommandOK(k)
      BY <1>7, <2>2 DEF CommandsOK
    <3>2. run[k].pc = "wait" =>
            /\ req'[run[k].slot].pc # "idle" /\ req'[run[k].slot].k = k /\ req'[run[k].slot].op = run[k].op
            /\ run[k].op = "resolve" => req'[run[k].slot].tenant \in TenantFor(k, run[k].scope)
      <4>1. run[k].slot \in Slot
        BY <3>1 DEF CommandOK, Commands
      <4>2. CASE run[k].slot = s
        BY <1>8, <2>1, <3>1, <4>2 DEF CommandOK, Active
      <4>3. CASE run[k].slot # s
        BY <1>8, <3>1, <4>1, <4>3 DEF CommandOK, Active
      <4> QED BY <4>2, <4>3
    <3>3. \A t, j, x : BindingExists(t, j, x)' <=> BindingExists(t, j, x)
      BY <1>4 DEF BindingExists
    <3>4. \A j, t : TenantFor(j, t)' = TenantFor(j, t)
      BY DEF TenantFor, Restricted
    <3> QED BY <1>4, <3>1, <3>2, <3>3, <3>4 DEF CommandOK, Active
  <2> QED BY <1>4, <1>7, <2>2 DEF CommandsOK
<1> QED BY <1>6, <1>10, <1>11 DEF IInv

\* The transaction is rolled back.
LEMMA RefuseKeeps ==
  ASSUME IInv, NEW s \in Slot, Refuse(s)
  PROVE  IInv'
<1>1. /\ req' = [req EXCEPT ![s] = Idle]
      /\ run' = [k \in Checkout |-> IF run[k].pc = "wait" /\ run[k].slot = s THEN Idle ELSE run[k]]
      /\ UNCHANGED <<project, bound, filled, cfg, sent, ids, said, torn, raced>>
  BY DEF Refuse, Released
<1>2. Committed /\ RequestsOK /\ CommandsOK
  BY DEF IInv
<1>3. Committed'
  BY <1>1, <1>2, SameCommitted
<1>4. req' \in [Slot -> {Idle} \cup Requests] /\ req'[s] = Idle /\ \A u \in Slot \ {s} : req'[u] = req[u]
  BY <1>1, <1>2 DEF RequestsOK
<1>5. RequestsOK'
  <2>1. ASSUME NEW u \in Slot PROVE req'[u] = Idle \/ RequestOK(req[u])'
    BY <1>1, <1>2, <1>4, RequestsCarry DEF RequestsOK
  <2>2. ASSUME NEW u \in Slot, NEW v \in Slot, u # v, Active(u)', Active(v)'
        PROVE  Apart(req[u], req[v])'
    <3>1. Apart(req'[u], req'[v])
      BY <1>2, <1>4, <2>2 DEF RequestsOK, Active, Idle
    <3> QED BY <3>1 DEF Apart
  <2> QED BY <1>4, <2>1, <2>2 DEF RequestsOK
<1>6. CommandsOK'
  <2>1. run' \in [Checkout -> {Idle} \cup Commands]
    BY <1>1, <1>2 DEF CommandsOK
  <2>2. ASSUME NEW k \in Checkout, run'[k] # Idle PROVE CommandOK(k)'
    <3>1. run'[k] = run[k] /\ CommandOK(k) /\ ~(run[k].pc = "wait" /\ run[k].slot = s)
      BY <1>1, <1>2, <2>2 DEF CommandsOK
    <3>2. run[k].pc = "wait" => run[k].slot \in Slot \ {s} /\ req'[run[k].slot] = req[run[k].slot]
      BY <1>4, <3>1 DEF CommandOK, Commands
    <3>3. \A t, x : BindingExists(t, k, x)' <=> BindingExists(t, k, x)
      BY <1>1 DEF BindingExists
    <3>4. run[k].pc = "wait" => req'[run[k].slot].pc # "idle"
      BY <3>1, <3>2 DEF CommandOK, Active
    <3> QED BY <1>1, <3>1, <3>2, <3>3, <3>4, CommandCarries
  <2> QED BY <2>1, <2>2 DEF CommandsOK
<1> QED BY <1>3, <1>5, <1>6 DEF IInv

-----------------------------------------------------------------------------
(* The steps one by one.                                                    *)

LEMMA BeginQuiet ==
  ASSUME NEW q, RequestOK(q), q.pc \in {"begin", "search", "winner"}
  PROVE  ~q.made /\ ~q.wrote /\ ~q.binds /\ ~q.fills /\ ~q.drops /\ ~q.settled
BY DEF RequestOK, Requests, StepsOK

LEMMA QuietApart ==
  ASSUME NEW r, ~r.made, ~r.wrote, ~r.binds, ~r.fills, ~r.drops
  PROVE  \A u : Apart(r, req[u])
BY DEF Apart

LEMMA BoundRow ==
  ASSUME Stored, NEW key, NEW k, NEW p \in BoundTo(key, k)
  PROVE  BindingExists(key, k, p) /\ p \in DOMAIN project /\ p \in ids /\ p \in Pid /\ project[p] \in Project
<1>1. PICK b \in bound : b.key = key /\ b.who = k /\ b.project = p
  BY DEF BoundTo
<1>2. b = [key |-> key, who |-> k, project |-> p] /\ p \in DOMAIN project
  BY <1>1 DEF Stored, TypeOK, Binding
<1>3. p \in ids /\ p \in Pid /\ project[p] \in Project
  BY <1>2 DEF Stored, TypeOK
<1> QED BY <1>1, <1>2, <1>3 DEF BindingExists

LEMMA ResolveLookupKeeps == ASSUME IInv, NEW s \in Slot, ResolveLookup(s) PROVE IInv'
<1>1. PICK q : q = req[s]
  OBVIOUS
<1>2. q.pc = "begin" /\ q.op = "resolve" /\ Active(s)
  BY <1>1 DEF ResolveLookup, At, Active
<1>3. RequestOK(q) /\ q \in Requests /\ StepsOK(q) /\ TargetOK(q) /\ Stored
  BY <1>1, <1>2, ActiveRequest DEF RequestOK, IInv, Committed
<1>4. ~q.made /\ ~q.wrote /\ ~q.binds /\ ~q.fills /\ ~q.drops /\ ~q.settled
  BY <1>2, <1>3, BeginQuiet
<1>5. ASSUME NEW p \in BoundTo(q.tenant, q.k), Step(s, [q EXCEPT !.pc = "commit", !.id = p, !.row = project[p]])
      PROVE  IInv'
  <2> DEFINE r == [q EXCEPT !.pc = "commit", !.id = p, !.row = project[p]]
  <2>1. BindingExists(q.tenant, q.k, p) /\ p \in DOMAIN project /\ p \in ids /\ p \in Pid /\ project[p] \in Project
    BY <1>3, BoundRow
  <2>2. /\ r \in Requests /\ r.pc = "commit" /\ r.op = "resolve" /\ r.id = p /\ r.row = project[p] /\ r.k = q.k
        /\ r.tenant = q.tenant /\ ~r.made /\ ~r.wrote /\ ~r.binds /\ ~r.fills /\ ~r.drops /\ ~r.settled
    BY <1>2, <1>3, <1>4, <2>1 DEF Requests, Pcs
  <2>3. Step(s, r)
    BY <1>5
  <2> HIDE DEF r
  <2>4. StepsOK(r) /\ TargetOK(r) /\ IdentityOK(r) /\ PathOK(r) /\ SettledOK(r)
    BY <1>2, <1>3, <2>1, <2>2 DEF StepsOK, TargetOK, IdentityOK, PathOK, SettledOK
  <2> QED BY <1>1, <1>2, <2>2, <2>3, <2>4, QuietApart, StepKeeps
<1>6. ASSUME Step(s, [q EXCEPT !.pc = "search"]) PROVE IInv'
  <2> DEFINE r == [q EXCEPT !.pc = "search"]
  <2>1. /\ r \in Requests /\ r.pc = "search" /\ r.op = "resolve" /\ r.id = q.id /\ r.k = q.k
        /\ r.tenant = q.tenant /\ ~r.made /\ ~r.wrote /\ ~r.binds /\ ~r.fills /\ ~r.drops /\ ~r.settled
    BY <1>2, <1>3, <1>4 DEF Requests, Pcs
  <2>2. Step(s, r)
    BY <1>6
  <2> HIDE DEF r
  <2>3. StepsOK(r) /\ TargetOK(r) /\ IdentityOK(r) /\ PathOK(r) /\ SettledOK(r)
    BY <1>2, <1>3, <1>4, <2>1 DEF StepsOK, TargetOK, IdentityOK, PathOK, SettledOK
  <2> QED BY <1>1, <1>2, <2>1, <2>2, <2>3, QuietApart, StepKeeps
<1>7. ASSUME Readable(q.k, q.want), Step(s, [q EXCEPT !.pc = "bind", !.id = q.want, !.row = project[q.want]])
      PROVE  IInv'
  <2> DEFINE r == [q EXCEPT !.pc = "bind", !.id = q.want, !.row = project[q.want]]
  <2>1. q.want \in DOMAIN project /\ q.want \in ids /\ q.want \in Pid /\ project[q.want] \in Project
    BY <1>3, <1>7 DEF Readable, Stored, TypeOK
  <2>2. /\ r \in Requests /\ r.pc = "bind" /\ r.op = "resolve" /\ r.id = q.want /\ r.row = project[q.want] /\ r.k = q.k
        /\ r.tenant = q.tenant /\ ~r.made /\ ~r.wrote /\ ~r.binds /\ ~r.fills /\ ~r.drops /\ ~r.settled
    BY <1>2, <1>3, <1>4, <2>1 DEF Requests, Pcs
  <2>3. Step(s, r)
    BY <1>7
  <2> HIDE DEF r
  <2>4. StepsOK(r) /\ TargetOK(r) /\ IdentityOK(r) /\ PathOK(r) /\ SettledOK(r)
    BY <1>2, <1>3, <2>1, <2>2 DEF StepsOK, TargetOK, IdentityOK, PathOK, SettledOK
  <2> QED BY <1>1, <1>2, <2>2, <2>3, <2>4, QuietApart, StepKeeps
<1>8. \/ Refuse(s)
      \/ \E p \in BoundTo(q.tenant, q.k) : Step(s, [q EXCEPT !.pc = "commit", !.id = p, !.row = project[p]])
      \/ Step(s, [q EXCEPT !.pc = "search"])
      \/ Readable(q.k, q.want) /\ Step(s, [q EXCEPT !.pc = "bind", !.id = q.want, !.row = project[q.want]])
  BY <1>1 DEF ResolveLookup
<1> QED BY <1>5, <1>6, <1>7, <1>8, RefuseKeeps

LEMMA ResolveSearchKeeps == ASSUME IInv, NEW s \in Slot, ResolveSearch(s) PROVE IInv'
<1>1. PICK q : q = req[s]
  OBVIOUS
<1>2. q.pc = "search" /\ q.op = "resolve" /\ Active(s)
  BY <1>1 DEF ResolveSearch, At, Active
<1>3. RequestOK(q) /\ q \in Requests /\ StepsOK(q) /\ q.k \in Checkout
  BY <1>1, <1>2, ActiveRequest DEF RequestOK, StepsOK
<1>4. ~q.made /\ ~q.wrote /\ ~q.binds /\ ~q.fills /\ ~q.drops /\ ~q.settled
  BY <1>2, <1>3, BeginQuiet
<1> DEFINE v == [name |-> NameOf[q.k], tenant |-> q.tenant, path |-> None, by |-> "resolve"]
           r == [[q EXCEPT !.pc = "bind", !.row = v] EXCEPT !.id = Fresh, !.made = TRUE]
<1>5. v \in Project /\ v.path = None
  BY <1>3 DEF Requests, Project
<1> HIDE DEF v
<1>6. Refuse(s) \/ (Free # {} /\ Step(s, r))
  BY <1>1 DEF ResolveSearch, Make, v
<1>7. CASE Free # {} /\ Step(s, r)
  <2>1. /\ Fresh \in Pid \ ids
        /\ \A u \in Slot : Active(u) /\ req[u].made => req[u].id # Fresh
    BY <1>7, FreshIsFree
  <2>2. /\ r \in Requests /\ r.pc = "bind" /\ r.op = "resolve" /\ r.id = Fresh /\ r.row = v /\ r.k = q.k
        /\ r.tenant = q.tenant /\ r.made /\ ~r.wrote /\ ~r.binds /\ ~r.fills /\ ~r.drops /\ ~r.settled
    BY <1>2, <1>3, <1>4, <1>5, <2>1 DEF Requests, Pcs
  <2> HIDE DEF r, Fresh
  <2>3. StepsOK(r) /\ TargetOK(r) /\ IdentityOK(r) /\ PathOK(r) /\ SettledOK(r)
    BY <1>2, <1>3, <1>5, <2>1, <2>2 DEF StepsOK, TargetOK, IdentityOK, PathOK, SettledOK
  <2>4. \A u \in Slot \ {s} : Active(u) => Apart(r, req[u])
    BY <2>1, <2>2 DEF Apart
  <2> QED BY <1>1, <1>2, <1>7, <2>2, <2>3, <2>4, StepKeeps
<1> QED BY <1>6, <1>7, RefuseKeeps

LEMMA BindKeeps == ASSUME IInv, NEW s \in Slot, Bind(s) PROVE IInv'
<1>1. PICK q : q = req[s]
  OBVIOUS
<1>2. q.pc = "bind" /\ q.op = "resolve" /\ Active(s)
  BY <1>1 DEF Bind, At, Active
<1>3. RequestOK(q) /\ q \in Requests /\ StepsOK(q) /\ TargetOK(q) /\ IdentityOK(q) /\ PathOK(q)
  BY <1>1, <1>2, ActiveRequest DEF RequestOK
<1>4. ~q.wrote /\ ~q.binds /\ ~q.fills /\ ~q.drops /\ ~q.settled /\ q.row \in Project /\ q.id \in Pid
  BY <1>2, <1>3 DEF StepsOK, Requests
<1>5. /\ \/ /\ UniqueHolds(q.tenant, q.k) /\ TargetExists(q)
            /\ Step(s, [q EXCEPT !.pc = "commit", !.binds = TRUE])
         \/ Step(s, [q EXCEPT !.pc = "winner", !.made = FALSE, !.id = 0])
      /\ ~SameIdentity(s) /\ ~Dropping(s, q.id)
  BY <1>1 DEF Bind
<1>6. CASE UniqueHolds(q.tenant, q.k) /\ TargetExists(q) /\ Step(s, [q EXCEPT !.pc = "commit", !.binds = TRUE])
  <2> DEFINE r == [q EXCEPT !.pc = "commit", !.binds = TRUE]
  <2>1. /\ r \in Requests /\ r.pc = "commit" /\ r.op = "resolve" /\ r.id = q.id /\ r.row = q.row /\ r.k = q.k
        /\ r.tenant = q.tenant /\ r.made = q.made /\ ~r.wrote /\ r.binds /\ ~r.fills /\ ~r.drops /\ ~r.settled
    BY <1>2, <1>3, <1>4 DEF Requests, Pcs
  <2>2. Step(s, r)
    BY <1>6
  <2> HIDE DEF r
  <2>3. StepsOK(r) /\ TargetOK(r) /\ IdentityOK(r) /\ PathOK(r) /\ SettledOK(r)
    BY <1>2, <1>3, <1>4, <1>6, <2>1 DEF StepsOK, TargetOK, TargetExists, IdentityOK, PathOK, SettledOK, UniqueHolds
  <2>4. ASSUME NEW u \in Slot \ {s}, Active(u) PROVE Apart(r, req[u])
    <3>1. Apart(q, req[u])
      BY <1>1, <1>2, <2>4 DEF IInv, RequestsOK
    <3>2. u \in Others(s)
      BY <2>4 DEF Others, Active
    <3>3. req[u].binds => req[u].k # q.k \/ req[u].tenant # q.tenant
      BY <1>1, <1>5, <3>2 DEF SameIdentity
    <3>4. req[u].drops => req[u].id # q.id
      BY <1>5, <3>2 DEF Dropping
    <3> QED BY <2>1, <3>1, <3>3, <3>4 DEF Apart
  <2> QED BY <1>1, <1>2, <2>1, <2>2, <2>3, <2>4, StepKeeps
<1>7. CASE Step(s, [q EXCEPT !.pc = "winner", !.made = FALSE, !.id = 0])
  <2> DEFINE r == [q EXCEPT !.pc = "winner", !.made = FALSE, !.id = 0]
  <2>1. /\ r \in Requests /\ r.pc = "winner" /\ r.op = "resolve" /\ r.id = 0 /\ r.k = q.k
        /\ r.tenant = q.tenant /\ ~r.made /\ ~r.wrote /\ ~r.binds /\ ~r.fills /\ ~r.drops /\ ~r.settled
    BY <1>2, <1>3, <1>4 DEF Requests, Pcs
  <2>2. Step(s, r)
    BY <1>7
  <2> HIDE DEF r
  <2>3. StepsOK(r) /\ TargetOK(r) /\ IdentityOK(r) /\ PathOK(r) /\ SettledOK(r)
    BY <1>2, <1>3, <1>4, <2>1 DEF StepsOK, TargetOK, IdentityOK, PathOK, SettledOK
  <2> QED BY <1>1, <1>2, <2>1, <2>2, <2>3, QuietApart, StepKeeps
<1> QED BY <1>5, <1>6, <1>7

LEMMA ResolveWinnerKeeps == ASSUME IInv, NEW s \in Slot, ResolveWinner(s) PROVE IInv'
<1>1. PICK q : q = req[s]
  OBVIOUS
<1>2. q.pc = "winner" /\ q.op = "resolve" /\ Active(s)
  BY <1>1 DEF ResolveWinner, At, Active
<1>3. RequestOK(q) /\ q \in Requests /\ StepsOK(q) /\ TargetOK(q) /\ Stored
  BY <1>1, <1>2, ActiveRequest DEF RequestOK, IInv, Committed
<1>4. ~q.made /\ ~q.wrote /\ ~q.binds /\ ~q.fills /\ ~q.drops /\ ~q.settled
  BY <1>2, <1>3, BeginQuiet
<1>5. ASSUME NEW p \in BoundTo(q.tenant, q.k), Step(s, [q EXCEPT !.pc = "commit", !.id = p, !.row = project[p]])
      PROVE  IInv'
  <2> DEFINE r == [q EXCEPT !.pc = "commit", !.id = p, !.row = project[p]]
  <2>1. BindingExists(q.tenant, q.k, p) /\ p \in DOMAIN project /\ p \in ids /\ p \in Pid /\ project[p] \in Project
    BY <1>3, BoundRow
  <2>2. /\ r \in Requests /\ r.pc = "commit" /\ r.op = "resolve" /\ r.id = p /\ r.row = project[p] /\ r.k = q.k
        /\ r.tenant = q.tenant /\ ~r.made /\ ~r.wrote /\ ~r.binds /\ ~r.fills /\ ~r.drops /\ ~r.settled
    BY <1>2, <1>3, <1>4, <2>1 DEF Requests, Pcs
  <2>3. Step(s, r)
    BY <1>5
  <2> HIDE DEF r
  <2>4. StepsOK(r) /\ TargetOK(r) /\ IdentityOK(r) /\ PathOK(r) /\ SettledOK(r)
    BY <1>2, <1>3, <2>1, <2>2 DEF StepsOK, TargetOK, IdentityOK, PathOK, SettledOK
  <2> QED BY <1>1, <1>2, <2>2, <2>3, <2>4, QuietApart, StepKeeps
<1>6. Refuse(s) \/ \E p \in BoundTo(q.tenant, q.k) : Step(s, [q EXCEPT !.pc = "commit", !.id = p, !.row = project[p]])
  BY <1>1 DEF ResolveWinner
<1> QED BY <1>5, <1>6, RefuseKeeps

\* A step that takes hold of nothing more.
LEMMA HoldsAsBefore ==
  ASSUME NEW q, NEW r, r.id = q.id, r.k = q.k, r.tenant = q.tenant, r.made = q.made, r.wrote = q.wrote,
         r.binds = q.binds, r.fills = q.fills, r.drops = q.drops
  PROVE  \A u : Apart(q, u) => Apart(r, u)
BY DEF Apart

LEMMA CreateKeeps == ASSUME IInv, NEW s \in Slot, Create(s) PROVE IInv'
<1>1. PICK q : q = req[s]
  OBVIOUS
<1>2. q.pc = "begin" /\ q.op = "create" /\ Active(s)
  BY <1>1 DEF Create, At, Active
<1>3. RequestOK(q) /\ q \in Requests /\ StepsOK(q)
  BY <1>1, <1>2, ActiveRequest DEF RequestOK
<1>4. ~q.made /\ ~q.wrote /\ ~q.binds /\ ~q.fills /\ ~q.drops /\ ~q.settled
  BY <1>2, <1>3, BeginQuiet
<1>5. PICK k \in Checkout :
        Make(s, [q EXCEPT !.pc = "commit",
                 !.row = [name |-> NameOf[k], tenant |-> q.tenant, path |-> None, by |-> "post"]])
  BY <1>1 DEF Create
<1> DEFINE v == [name |-> NameOf[k], tenant |-> q.tenant, path |-> None, by |-> "post"]
           r == [[q EXCEPT !.pc = "commit", !.row = v] EXCEPT !.id = Fresh, !.made = TRUE]
<1>6. v \in Project /\ v.path = None /\ v.by = "post"
  BY <1>3 DEF Requests, Project
<1> HIDE DEF v
<1>7. Free # {} /\ Step(s, r)
  BY <1>5 DEF Make, v
<1>8. /\ Fresh \in Pid \ ids
      /\ \A u \in Slot : Active(u) /\ req[u].made => req[u].id # Fresh
  BY <1>7, FreshIsFree
<1>9. /\ r \in Requests /\ r.pc = "commit" /\ r.op = "create" /\ r.id = Fresh /\ r.row = v /\ r.k = q.k
      /\ r.tenant = q.tenant /\ r.made /\ ~r.wrote /\ ~r.binds /\ ~r.fills /\ ~r.drops /\ ~r.settled
  BY SMT, ZenonT(60), <1>2, <1>3, <1>4, <1>6, <1>8 DEF Requests, Pcs
<1> HIDE DEF r, Fresh
<1>10. StepsOK(r) /\ TargetOK(r) /\ IdentityOK(r) /\ PathOK(r) /\ SettledOK(r)
  BY <1>2, <1>3, <1>6, <1>8, <1>9 DEF StepsOK, TargetOK, IdentityOK, PathOK, SettledOK
<1>11. \A u \in Slot \ {s} : Active(u) => Apart(r, req[u])
  BY <1>8, <1>9 DEF Apart
<1> QED BY <1>1, <1>2, <1>7, <1>9, <1>10, <1>11, StepKeeps

LEMMA UpdateReadKeeps == ASSUME IInv, NEW s \in Slot, UpdateRead(s) PROVE IInv'
<1>1. PICK q : q = req[s]
  OBVIOUS
<1>2. q.pc = "begin" /\ q.op = "update" /\ Active(s)
  BY <1>1 DEF UpdateRead, At, Active
<1>3. RequestOK(q) /\ q \in Requests /\ StepsOK(q) /\ Stored /\ PathsInReach
  BY <1>1, <1>2, ActiveRequest DEF RequestOK, IInv, Committed
<1>4. ~q.made /\ ~q.wrote /\ ~q.binds /\ ~q.fills /\ ~q.drops /\ ~q.settled
  BY <1>2, <1>3, BeginQuiet
<1>5. PICK p : p = q.want
  OBVIOUS
<1> DEFINE v == [project[p] EXCEPT !.tenant = q.tenant]
           r == [q EXCEPT !.pc = "check", !.id = p, !.base = project[p], !.settled = InUse(p), !.row = v]
<1>6. Refuse(s) \/ (p \in DOMAIN project /\ Step(s, r))
  BY <1>1, <1>5 DEF UpdateRead
<1>7. CASE p \in DOMAIN project /\ Step(s, r)
  <2>1. p \in ids /\ p \in Pid /\ project[p] \in Project /\ InUse(p) \in BOOLEAN
    BY <1>3, <1>7 DEF Stored, TypeOK, InUse
  <2>2. v \in Project /\ v.path = project[p].path /\ v.tenant = q.tenant
    BY <1>3, <2>1 DEF Requests, Project
  <2> HIDE DEF v
  <2>3. /\ r \in Requests /\ r.pc = "check" /\ r.op = "update" /\ r.id = p /\ r.row = v /\ r.base = project[p]
        /\ r.k = q.k /\ r.tenant = q.tenant /\ ~r.made /\ ~r.wrote /\ ~r.binds /\ ~r.fills /\ ~r.drops
        /\ r.settled = InUse(p)
    BY <1>2, <1>3, <1>4, <2>1, <2>2 DEF Requests, Pcs
  <2>4. Step(s, r)
    BY <1>7
  <2> HIDE DEF r
  <2>5. StepsOK(r) /\ TargetOK(r) /\ IdentityOK(r)
    BY <1>2, <1>3, <2>1, <2>2, <2>3 DEF StepsOK, TargetOK, IdentityOK
  <2>6. PathOK(r)
    BY <1>3, <1>7, <2>1, <2>2, <2>3 DEF PathOK, PathsInReach
  <2>7. SettledOK(r)
    BY <2>3 DEF SettledOK
  <2> QED BY <1>1, <1>2, <2>3, <2>4, <2>5, <2>6, <2>7, QuietApart, StepKeeps
<1> QED BY <1>6, <1>7, RefuseKeeps

LEMMA UpdateCheckKeeps == ASSUME IInv, NEW s \in Slot, UpdateCheck(s) PROVE IInv'
<1>1. PICK q : q = req[s]
  OBVIOUS
<1>2. q.pc = "check" /\ Active(s)
  BY <1>1 DEF UpdateCheck, Active
<1>3. /\ RequestOK(q) /\ q \in Requests /\ StepsOK(q) /\ TargetOK(q) /\ IdentityOK(q) /\ PathOK(q) /\ SettledOK(q)
      /\ q.op \in {"update", "import"}
  BY <1>1, <1>2, ActiveRequest DEF RequestOK, StepsOK
<1> DEFINE r == [q EXCEPT !.pc = "write"]
<1>4. Refuse(s) \/ (~(q.row.tenant # q.base.tenant /\ InUse(q.id)) /\ Step(s, r))
  BY <1>1 DEF UpdateCheck, ScopeLocked
<1>5. CASE ~(q.row.tenant # q.base.tenant /\ InUse(q.id)) /\ Step(s, r)
  <2>1. /\ r \in Requests /\ r.pc = "write" /\ r.op = q.op /\ r.id = q.id /\ r.row = q.row /\ r.base = q.base
        /\ r.k = q.k /\ r.tenant = q.tenant /\ r.made = q.made /\ r.wrote = q.wrote /\ r.binds = q.binds
        /\ r.fills = q.fills /\ r.drops = q.drops /\ r.settled = q.settled /\ r.paths = q.paths
    BY <1>3 DEF Requests, Pcs
  <2>2. Step(s, r)
    BY <1>5
  <2> HIDE DEF r
  <2>3. StepsOK(r) /\ TargetOK(r) /\ IdentityOK(r)
    BY <1>2, <1>3, <2>1 DEF StepsOK, TargetOK, TargetExists, IdentityOK
  <2>4. PathOK(r)
    BY <1>2, <1>3, <1>5, <2>1 DEF StepsOK, PathOK, InUse
  <2>5. SettledOK(r)
    BY <1>2, <1>3, <1>5, <2>1 DEF SettledOK
  <2>6. \A u \in Slot \ {s} : Active(u) => Apart(r, req[u])
    BY <1>1, <1>2, <2>1, HoldsAsBefore DEF IInv, RequestsOK
  <2> QED BY <1>1, <1>2, <2>1, <2>2, <2>3, <2>4, <2>5, <2>6, StepKeeps
<1> QED BY <1>4, <1>5, RefuseKeeps

LEMMA UpdateWriteKeeps == ASSUME IInv, NEW s \in Slot, UpdateWrite(s) PROVE IInv'
<1>1. PICK q : q = req[s]
  OBVIOUS
<1>2. q.pc = "write" /\ Active(s)
  BY <1>1 DEF UpdateWrite, Active
<1>3. /\ RequestOK(q) /\ q \in Requests /\ StepsOK(q) /\ TargetOK(q) /\ IdentityOK(q) /\ PathOK(q) /\ SettledOK(q)
      /\ q.op \in {"update", "import"}
  BY <1>1, <1>2, ActiveRequest DEF RequestOK, StepsOK
<1> DEFINE r == [q EXCEPT !.pc = IF q.op = "import" THEN "insert" ELSE "commit", !.wrote = TRUE]
<1>4. ~Writing(s, q.id) /\ ~Dropping(s, q.id) /\ (Refuse(s) \/ (q.id \in DOMAIN project /\ Step(s, r)))
  BY <1>1 DEF UpdateWrite
<1>5. CASE q.id \in DOMAIN project /\ Step(s, r)
  <2>1. /\ r \in Requests /\ r.pc = (IF q.op = "import" THEN "insert" ELSE "commit") /\ r.op = q.op /\ r.id = q.id
        /\ r.row = q.row /\ r.base = q.base /\ r.k = q.k /\ r.tenant = q.tenant /\ r.made = q.made /\ r.wrote
        /\ r.binds = q.binds /\ r.fills = q.fills /\ r.drops = q.drops /\ r.settled = q.settled /\ r.paths = q.paths
    BY SMT, ZenonT(60), <1>3 DEF Requests, Pcs
  <2>2. Step(s, r)
    BY <1>5
  <2> HIDE DEF r
  <2>3. StepsOK(r)
    BY <1>2, <1>3, <2>1 DEF StepsOK
  <2>4. TargetOK(r) /\ IdentityOK(r)
    BY <1>2, <1>3, <1>5, <2>1 DEF StepsOK, TargetOK, TargetExists, IdentityOK
  <2>5. PathOK(r)
    BY <1>2, <1>3, <2>1 DEF StepsOK, PathOK
  <2>6. SettledOK(r)
    BY <1>2, <1>3, <2>1 DEF SettledOK
  <2>7. ASSUME NEW u \in Slot \ {s}, Active(u) PROVE Apart(r, req[u])
    <3>1. Apart(q, req[u])
      BY <1>1, <1>2, <2>7 DEF IInv, RequestsOK
    <3>2. u \in Others(s)
      BY <2>7 DEF Others, Active
    <3>3. req[u].id = q.id => ~req[u].wrote /\ ~req[u].drops
      BY <1>4, <3>2 DEF Writing, Dropping
    <3> QED BY <2>1, <3>1, <3>3 DEF Apart
  <2> QED BY <1>1, <1>2, <2>1, <2>2, <2>3, <2>4, <2>5, <2>6, <2>7, StepKeeps
<1> QED BY <1>4, <1>5, RefuseKeeps

LEMMA EntryInsertKeeps == ASSUME IInv, NEW s \in Slot, EntryInsert(s) PROVE IInv'
<1>1. PICK q : q = req[s]
  OBVIOUS
<1>2. q.pc = "begin" /\ q.op = "entry" /\ Active(s)
  BY <1>1 DEF EntryInsert, At, Active
<1>3. RequestOK(q) /\ q \in Requests /\ StepsOK(q) /\ Stored
  BY <1>1, <1>2, ActiveRequest DEF RequestOK, IInv, Committed
<1>4. ~q.made /\ ~q.wrote /\ ~q.binds /\ ~q.fills /\ ~q.drops /\ ~q.settled
  BY <1>2, <1>3, BeginQuiet
<1> DEFINE r == [q EXCEPT !.pc = "commit", !.id = q.want, !.fills = TRUE]
<1>5. ~Dropping(s, q.want) /\ (Refuse(s) \/ (q.want \in DOMAIN project /\ Step(s, r)))
  BY <1>1 DEF EntryInsert
<1>6. CASE q.want \in DOMAIN project /\ Step(s, r)
  <2>1. q.want \in ids /\ q.want \in Pid
    BY <1>3, <1>6 DEF Stored, TypeOK
  <2>2. /\ r \in Requests /\ r.pc = "commit" /\ r.op = "entry" /\ r.id = q.want /\ r.k = q.k /\ r.tenant = q.tenant
        /\ ~r.made /\ ~r.wrote /\ ~r.binds /\ r.fills /\ ~r.drops /\ ~r.settled
    BY <1>2, <1>3, <1>4, <2>1 DEF Requests, Pcs
  <2>3. Step(s, r)
    BY <1>6
  <2> HIDE DEF r
  <2>4. StepsOK(r) /\ TargetOK(r) /\ IdentityOK(r) /\ PathOK(r) /\ SettledOK(r)
    BY <1>3, <1>6, <2>1, <2>2 DEF StepsOK, TargetOK, TargetExists, IdentityOK, PathOK, SettledOK
  <2>5. ASSUME NEW u \in Slot \ {s}, Active(u) PROVE Apart(r, req[u])
    <3>1. req[u].id = q.want => ~req[u].drops
      BY <1>5, <2>5 DEF Dropping, Others, Active
    <3> QED BY <2>2, <3>1 DEF Apart
  <2> QED BY <1>1, <1>2, <2>2, <2>3, <2>4, <2>5, StepKeeps
<1> QED BY <1>5, <1>6, RefuseKeeps

LEMMA DeleteKeeps == ASSUME IInv, NEW s \in Slot, Delete(s) PROVE IInv'
<1>1. PICK q : q = req[s]
  OBVIOUS
<1>2. q.pc = "begin" /\ q.op = "delete" /\ Active(s)
  BY <1>1 DEF Delete, At, Active
<1>3. RequestOK(q) /\ q \in Requests /\ StepsOK(q) /\ Stored
  BY <1>1, <1>2, ActiveRequest DEF RequestOK, IInv, Committed
<1>4. ~q.made /\ ~q.wrote /\ ~q.binds /\ ~q.fills /\ ~q.drops /\ ~q.settled
  BY <1>2, <1>3, BeginQuiet
<1> DEFINE r == [q EXCEPT !.pc = "commit", !.id = q.want, !.drops = TRUE]
<1>5. /\ ~Writing(s, q.want) /\ ~Dropping(s, q.want) /\ ~Using(s, q.want)
      /\ Refuse(s) \/ (q.want \in DOMAIN project /\ Step(s, r))
  BY <1>1 DEF Delete
<1>6. CASE q.want \in DOMAIN project /\ Step(s, r)
  <2>1. q.want \in ids /\ q.want \in Pid
    BY <1>3, <1>6 DEF Stored, TypeOK
  <2>2. /\ r \in Requests /\ r.pc = "commit" /\ r.op = "delete" /\ r.id = q.want /\ r.k = q.k /\ r.tenant = q.tenant
        /\ ~r.made /\ ~r.wrote /\ ~r.binds /\ ~r.fills /\ r.drops /\ ~r.settled
    BY <1>2, <1>3, <1>4, <2>1 DEF Requests, Pcs
  <2>3. Step(s, r)
    BY <1>6
  <2> HIDE DEF r
  <2>4. StepsOK(r) /\ TargetOK(r) /\ IdentityOK(r) /\ PathOK(r) /\ SettledOK(r)
    BY <1>3, <1>6, <2>1, <2>2 DEF StepsOK, TargetOK, TargetExists, IdentityOK, PathOK, SettledOK
  <2>5. ASSUME NEW u \in Slot \ {s}, Active(u) PROVE Apart(r, req[u])
    <3>1. req[u].id = q.want => ~req[u].wrote /\ ~req[u].drops /\ ~req[u].binds /\ ~req[u].fills
      BY <1>5, <2>5 DEF Writing, Dropping, Using, Others, Active
    <3> QED BY <2>2, <3>1 DEF Apart
  <2> QED BY <1>1, <1>2, <2>2, <2>3, <2>4, <2>5, StepKeeps
<1> QED BY <1>5, <1>6, RefuseKeeps

\* An import goes to a project of its path, and to another only if there is none.
LEMMA FoundForOne ==
  ASSUME Stored, PathsInReach, NEW k \in Checkout
  PROVE  /\ \A p \in FoundFor(k) :
              /\ p \in DOMAIN project /\ MayAccess(k, project[p].tenant)
              /\ project[p].path = k \/ {x \in DOMAIN project : project[x].path = k} = {}
         /\ FoundFor(k) = {} => {x \in DOMAIN project : project[x].path = k} = {}
<1> DEFINE seen == {p \in DOMAIN project : MayAccess(k, project[p].tenant)}
           here == {p \in seen : project[p].path = k}
           same == {p \in seen : project[p].name = NameOf[k]}
<1>1. here \in SUBSET Pid /\ same \in SUBSET Pid
  BY DEF Stored, TypeOK
<1>2. here = {x \in DOMAIN project : project[x].path = k}
  BY Constants DEF PathsInReach
<1>3. CASE here # {}
  <2>1. FoundFor(k) = {Newest(here)} /\ Newest(here) \in here
    BY <1>1, <1>3, NewestIsOne DEF FoundFor
  <2> QED BY <2>1
<1>4. CASE here = {} /\ same # {}
  <2>1. FoundFor(k) = {Newest(same)} /\ Newest(same) \in same
    BY <1>1, <1>4, NewestIsOne DEF FoundFor
  <2> QED BY <1>2, <1>4, <2>1
<1>5. CASE here = {} /\ same = {}
  BY <1>2, <1>5 DEF FoundFor
<1> QED BY <1>3, <1>4, <1>5

LEMMA ImportFindKeeps == ASSUME IInv, NEW s \in Slot, ImportFind(s) PROVE IInv'
<1>1. PICK q : q = req[s]
  OBVIOUS
<1>2. q.pc = "begin" /\ q.op = "import" /\ Active(s)
  BY <1>1 DEF ImportFind, At, Active
<1>3. RequestOK(q) /\ q \in Requests /\ StepsOK(q) /\ Stored /\ PathsInReach /\ q.k \in Checkout
  BY <1>1, <1>2, ActiveRequest DEF RequestOK, StepsOK, IInv, Committed
<1>4. ~q.made /\ ~q.wrote /\ ~q.binds /\ ~q.fills /\ ~q.drops /\ ~q.settled
  BY <1>2, <1>3, BeginQuiet
<1>5. PICK paths : paths = {x \in DOMAIN project : project[x].path = q.k}
  OBVIOUS
<1>6. paths \in SUBSET Pid
  BY <1>3, <1>5 DEF Stored, TypeOK
<1>7. \/ Refuse(s)
      \/ Readable(q.k, q.want) /\ Step(s, [q EXCEPT !.pc = "insert", !.id = q.want, !.row = project[q.want]])
      \/ \E p \in FoundFor(q.k) :
           Step(s, [q EXCEPT !.id = p, !.base = project[p], !.settled = InUse(p), !.paths = paths,
                             !.row = [project[p] EXCEPT !.path = q.k],
                             !.pc = IF project[p].path = q.k THEN "insert" ELSE "check"])
      \/ FoundFor(q.k) = {} /\ \E t \in TenantFor(q.k, None) :
           Make(s, [q EXCEPT !.pc = "insert", !.paths = paths,
                             !.row = [name |-> NameOf[q.k], tenant |-> t, path |-> q.k, by |-> "import"]])
  BY <1>1, <1>5 DEF ImportFind
<1>8. ASSUME Readable(q.k, q.want), Step(s, [q EXCEPT !.pc = "insert", !.id = q.want, !.row = project[q.want]])
      PROVE  IInv'
  <2> DEFINE r == [q EXCEPT !.pc = "insert", !.id = q.want, !.row = project[q.want]]
  <2>1. q.want \in DOMAIN project /\ q.want \in ids /\ q.want \in Pid /\ project[q.want] \in Project
    BY <1>3, <1>8 DEF Readable, Stored, TypeOK
  <2>2. /\ r \in Requests /\ r.pc = "insert" /\ r.op = "import" /\ r.id = q.want /\ r.row = project[q.want] /\ r.k = q.k
        /\ r.tenant = q.tenant /\ ~r.made /\ ~r.wrote /\ ~r.binds /\ ~r.fills /\ ~r.drops /\ ~r.settled
    BY <1>2, <1>3, <1>4, <2>1 DEF Requests, Pcs
  <2>3. Step(s, r)
    BY <1>8
  <2> HIDE DEF r
  <2>4. StepsOK(r) /\ TargetOK(r) /\ IdentityOK(r) /\ PathOK(r) /\ SettledOK(r)
    BY <1>2, <1>3, <2>1, <2>2 DEF StepsOK, TargetOK, IdentityOK, PathOK, SettledOK
  <2> QED BY <1>1, <1>2, <2>2, <2>3, <2>4, QuietApart, StepKeeps
<1>9. ASSUME NEW p \in FoundFor(q.k),
             Step(s, [q EXCEPT !.id = p, !.base = project[p], !.settled = InUse(p), !.paths = paths,
                               !.row = [project[p] EXCEPT !.path = q.k],
                               !.pc = IF project[p].path = q.k THEN "insert" ELSE "check"])
      PROVE  IInv'
  <2> DEFINE v == [project[p] EXCEPT !.path = q.k]
             r == [q EXCEPT !.id = p, !.base = project[p], !.settled = InUse(p), !.paths = paths, !.row = v,
                            !.pc = IF project[p].path = q.k THEN "insert" ELSE "check"]
  <2>1. p \in DOMAIN project /\ MayAccess(q.k, project[p].tenant) /\ (project[p].path = q.k \/ paths = {})
    BY <1>3, <1>5, FoundForOne
  <2>2. p \in ids /\ p \in Pid /\ project[p] \in Project /\ InUse(p) \in BOOLEAN
    BY <1>3, <2>1 DEF Stored, TypeOK, InUse
  <2>3. v \in Project /\ v.path = q.k /\ v.tenant = project[p].tenant
    BY <1>3, <2>2 DEF Project
  <2> HIDE DEF v
  <2>4. /\ r \in Requests /\ r.pc = (IF project[p].path = q.k THEN "insert" ELSE "check") /\ r.op = "import"
        /\ r.id = p /\ r.row = v /\ r.base = project[p] /\ r.k = q.k /\ r.tenant = q.tenant
        /\ ~r.made /\ ~r.wrote /\ ~r.binds /\ ~r.fills /\ ~r.drops /\ r.settled = InUse(p) /\ r.paths = paths
    BY SMT, ZenonT(60), <1>2, <1>3, <1>4, <1>6, <2>2, <2>3 DEF Requests, Pcs
  <2>5. Step(s, r)
    BY <1>9 DEF v
  <2> HIDE DEF r
  <2>6. StepsOK(r) /\ TargetOK(r) /\ IdentityOK(r)
    BY <1>3, <2>2, <2>3, <2>4 DEF StepsOK, TargetOK, IdentityOK
  <2>7. PathOK(r)
    BY <2>1, <2>3, <2>4 DEF PathOK
  <2>8. SettledOK(r)
    BY <2>3, <2>4 DEF SettledOK
  <2> QED BY <1>1, <1>2, <2>4, <2>5, <2>6, <2>7, <2>8, QuietApart, StepKeeps
<1>10. ASSUME FoundFor(q.k) = {}, NEW t \in TenantFor(q.k, None),
              Make(s, [q EXCEPT !.pc = "insert", !.paths = paths,
                                !.row = [name |-> NameOf[q.k], tenant |-> t, path |-> q.k, by |-> "import"]])
       PROVE  IInv'
  <2> DEFINE v == [name |-> NameOf[q.k], tenant |-> t, path |-> q.k, by |-> "import"]
             r == [[q EXCEPT !.pc = "insert", !.paths = paths, !.row = v] EXCEPT !.id = Fresh, !.made = TRUE]
  <2>1. t \in Scope /\ MayAccess(q.k, t)
    BY <1>3, TenantForOne DEF Scope
  <2>2. v \in Project /\ v.path = q.k /\ v.tenant = t /\ v.by = "import"
    BY <1>3, <2>1 DEF Project
  <2> HIDE DEF v
  <2>3. paths = {}
    BY <1>3, <1>5, <1>10, FoundForOne
  <2>4. Free # {} /\ Step(s, r)
    BY <1>10 DEF Make, v
  <2>5. /\ Fresh \in Pid \ ids
        /\ \A u \in Slot : Active(u) /\ req[u].made => req[u].id # Fresh
    BY <2>4, FreshIsFree
  <2>6. /\ r \in Requests /\ r.pc = "insert" /\ r.op = "import" /\ r.id = Fresh /\ r.row = v /\ r.k = q.k
        /\ r.tenant = q.tenant /\ r.made /\ ~r.wrote /\ ~r.binds /\ ~r.fills /\ ~r.drops /\ ~r.settled /\ r.paths = {}
    BY <1>2, <1>3, <1>4, <2>2, <2>3, <2>5 DEF Requests, Pcs
  <2> HIDE DEF r, Fresh
  <2>7. StepsOK(r) /\ TargetOK(r) /\ IdentityOK(r) /\ SettledOK(r)
    BY <1>3, <2>2, <2>5, <2>6 DEF StepsOK, TargetOK, IdentityOK, SettledOK
  <2>8. PathOK(r)
    BY <2>1, <2>2, <2>6 DEF PathOK
  <2>9. \A u \in Slot \ {s} : Active(u) => Apart(r, req[u])
    BY <2>5, <2>6 DEF Apart
  <2> QED BY <1>1, <1>2, <2>4, <2>6, <2>7, <2>8, <2>9, StepKeeps
<1> QED BY <1>7, <1>8, <1>9, <1>10, RefuseKeeps

LEMMA ImportInsertKeeps == ASSUME IInv, NEW s \in Slot, ImportInsert(s) PROVE IInv'
<1>1. PICK q : q = req[s]
  OBVIOUS
<1>2. q.pc = "insert" /\ q.op = "import" /\ Active(s)
  BY <1>1 DEF ImportInsert, At, Active
<1>3. RequestOK(q) /\ q \in Requests /\ StepsOK(q) /\ TargetOK(q) /\ IdentityOK(q) /\ PathOK(q) /\ SettledOK(q)
  BY <1>1, <1>2, ActiveRequest DEF RequestOK
<1> DEFINE r == [q EXCEPT !.pc = "commit", !.fills = TRUE]
<1>4. ~Dropping(s, q.id) /\ (Refuse(s) \/ (TargetExists(q) /\ Step(s, r)))
  BY <1>1 DEF ImportInsert
<1>5. CASE TargetExists(q) /\ Step(s, r)
  <2>1. /\ r \in Requests /\ r.pc = "commit" /\ r.op = q.op /\ r.id = q.id
        /\ r.row = q.row /\ r.base = q.base /\ r.k = q.k /\ r.tenant = q.tenant /\ r.made = q.made /\ r.wrote = q.wrote
        /\ r.binds = q.binds /\ r.fills /\ r.drops = q.drops /\ r.settled = q.settled /\ r.paths = q.paths
    BY <1>3 DEF Requests, Pcs
  <2>2. Step(s, r)
    BY <1>5
  <2> HIDE DEF r
  <2>3. StepsOK(r)
    BY <1>2, <1>3, <2>1 DEF StepsOK
  <2>4. TargetOK(r) /\ IdentityOK(r)
    BY <1>2, <1>3, <1>5, <2>1 DEF StepsOK, TargetOK, TargetExists, IdentityOK
  <2>5. PathOK(r)
    BY <1>2, <1>3, <2>1 DEF PathOK
  <2>6. SettledOK(r)
    BY <1>2, <1>3, <2>1 DEF SettledOK
  <2>7. ASSUME NEW u \in Slot \ {s}, Active(u) PROVE Apart(r, req[u])
    <3>1. Apart(q, req[u])
      BY <1>1, <1>2, <2>7 DEF IInv, RequestsOK
    <3>2. req[u].id = q.id => ~req[u].drops
      BY <1>4, <2>7 DEF Dropping, Others, Active
    <3> QED BY <2>1, <3>1, <3>2 DEF Apart
  <2> QED BY <1>1, <1>2, <2>1, <2>2, <2>3, <2>4, <2>5, <2>6, <2>7, StepKeeps
<1> QED BY <1>4, <1>5, RefuseKeeps

-----------------------------------------------------------------------------
(* The end of a transaction.                                                *)

\* What a commit of the transaction q in slot s leaves.
CommitEffect(s, q) ==
  /\ DOMAIN project' = (DOMAIN project \ (IF q.drops THEN {q.id} ELSE {})) \cup (IF q.made THEN {q.id} ELSE {})
  /\ \A x \in DOMAIN project' :
       project'[x] = IF x # q.id THEN project[x]
                     ELSE IF q.made THEN q.row
                     ELSE IF q.wrote THEN [project[x] EXCEPT !.tenant = q.row.tenant, !.path = q.row.path]
                     ELSE project[x]
  /\ bound' = {b \in bound : q.drops => b.project # q.id}
              \cup (IF q.binds THEN {[key |-> q.tenant, who |-> q.k, project |-> q.id]} ELSE {})
  /\ filled' = (filled \cup (IF q.fills THEN {q.id} ELSE {})) \ (IF q.drops THEN {q.id} ELSE {})
  /\ said' = IF q.op = "resolve" THEN said \cup {<<q.tenant, q.k, q.id>>} ELSE said
  /\ torn' = IF q.wrote /\ InUse(q.id) /\ q.row.tenant # project[q.id].tenant THEN torn \cup {q.id} ELSE torn
  /\ ids' = IF q.made THEN ids \cup {q.id} ELSE ids
  /\ run' = Answered(s, q.id)
  /\ req' = [req EXCEPT ![s] = Idle] /\ cfg' = cfg

\* What it does to a project that stays, its bindings and its entries.
RowsKept(q) ==
  /\ ids \subseteq ids' /\ ids \cap DOMAIN project' \subseteq DOMAIN project
  /\ DOMAIN project' \subseteq ids' /\ ids' \subseteq Pid
  /\ \A x \in DOMAIN project' : x \in DOMAIN project \/ (q.made /\ x = q.id)
  /\ \A x \in DOMAIN project : x \in DOMAIN project' <=> ~(q.drops /\ x = q.id)
  /\ q.made => q.id \notin DOMAIN project /\ ~q.drops /\ ~q.wrote
  /\ \A x \in DOMAIN project' :
       /\ x \in filled => x \in filled'
       /\ \A b \in bound : b.project = x => b \in bound'
  /\ \A x \in DOMAIN project \cap DOMAIN project' :
       project'[x] = IF x = q.id /\ q.wrote
                     THEN [project[x] EXCEPT !.tenant = q.row.tenant, !.path = q.row.path]
                     ELSE project[x]

LEMMA CommitStart ==
  ASSUME IInv, NEW s \in Slot, Commit(s)
  PROVE  /\ Active(s) /\ req[s].pc = "commit" /\ req[s] \in Requests
         /\ StepsOK(req[s]) /\ TargetOK(req[s]) /\ IdentityOK(req[s]) /\ PathOK(req[s]) /\ SettledOK(req[s])
         /\ Stored /\ Identities /\ PathsInReach /\ OnePath /\ Registered /\ RequestsOK /\ CommandsOK
<1>1. Active(s) /\ req[s].pc = "commit"
  BY DEF Commit, Active
<1>2. RequestOK(req[s])
  BY <1>1, ActiveRequest
<1> QED BY <1>1, <1>2 DEF RequestOK, IInv, Committed

LEMMA CommitDoes ==
  ASSUME NEW s \in Slot, Commit(s), NEW q, q = req[s]
  PROVE  CommitEffect(s, q)
<1>1. /\ project' = [x \in (DOMAIN project \ (IF q.drops THEN {q.id} ELSE {})) \cup (IF q.made THEN {q.id} ELSE {}) |->
                       IF x # q.id THEN project[x]
                       ELSE IF q.made THEN q.row
                       ELSE IF q.wrote THEN [project[q.id] EXCEPT !.tenant = q.row.tenant, !.path = q.row.path]
                       ELSE project[q.id]]
      /\ bound' = {b \in bound : q.drops => b.project # q.id}
                  \cup (IF q.binds THEN {[key |-> q.tenant, who |-> q.k, project |-> q.id]} ELSE {})
      /\ filled' = (filled \cup (IF q.fills THEN {q.id} ELSE {})) \ (IF q.drops THEN {q.id} ELSE {})
      /\ said' = IF q.op = "resolve" THEN said \cup {<<q.tenant, q.k, q.id>>} ELSE said
      /\ torn' = IF q.wrote /\ InUse(q.id) /\ q.row.tenant # project[q.id].tenant
                 THEN torn \cup {q.id} ELSE torn
      /\ ids' = IF q.made THEN ids \cup {q.id} ELSE ids
      /\ run' = Answered(s, q.id)
      /\ req' = [req EXCEPT ![s] = Idle] /\ cfg' = cfg
  BY DEF Commit
<1>2. DOMAIN project' = (DOMAIN project \ (IF q.drops THEN {q.id} ELSE {})) \cup (IF q.made THEN {q.id} ELSE {})
  BY <1>1
<1>3. \A x \in DOMAIN project' :
        project'[x] = IF x # q.id THEN project[x]
                      ELSE IF q.made THEN q.row
                      ELSE IF q.wrote THEN [project[x] EXCEPT !.tenant = q.row.tenant, !.path = q.row.path]
                      ELSE project[x]
  BY <1>1
<1> QED BY <1>1, <1>2, <1>3 DEF CommitEffect

LEMMA CommitKeepsRows ==
  ASSUME IInv, NEW s \in Slot, Commit(s), NEW q, q = req[s]
  PROVE  RowsKept(q)
<1>1. CommitEffect(s, q) /\ StepsOK(q) /\ TargetOK(q) /\ Stored
  BY CommitDoes, CommitStart
<1>2. /\ DOMAIN project \subseteq ids /\ ids \subseteq Pid
  BY <1>1 DEF Stored, TypeOK
<1>3. q.made => q.id \notin ids /\ q.id \in Pid /\ ~q.drops /\ ~q.wrote
  BY <1>1 DEF TargetOK, StepsOK
<1>4. /\ DOMAIN project' = (DOMAIN project \ (IF q.drops THEN {q.id} ELSE {})) \cup (IF q.made THEN {q.id} ELSE {})
      /\ ids' = IF q.made THEN ids \cup {q.id} ELSE ids
      /\ bound' = {b \in bound : q.drops => b.project # q.id}
                  \cup (IF q.binds THEN {[key |-> q.tenant, who |-> q.k, project |-> q.id]} ELSE {})
      /\ filled' = (filled \cup (IF q.fills THEN {q.id} ELSE {})) \ (IF q.drops THEN {q.id} ELSE {})
  BY <1>1 DEF CommitEffect
<1>5. \A x \in DOMAIN project' :
        /\ x \in filled => x \in filled'
        /\ \A b \in bound : b.project = x => b \in bound'
  BY <1>3, <1>4
<1>6. \A x \in DOMAIN project \cap DOMAIN project' :
        project'[x] = IF x = q.id /\ q.wrote
                      THEN [project[x] EXCEPT !.tenant = q.row.tenant, !.path = q.row.path]
                      ELSE project[x]
  BY <1>1, <1>2, <1>3 DEF CommitEffect
<1>7. \A x \in DOMAIN project : x \in DOMAIN project' <=> ~(q.drops /\ x = q.id)
  BY <1>2, <1>3, <1>4
<1>8. /\ ids \subseteq ids' /\ ids \cap DOMAIN project' \subseteq DOMAIN project
      /\ DOMAIN project' \subseteq ids' /\ ids' \subseteq Pid
      /\ \A x \in DOMAIN project' : x \in DOMAIN project \/ (q.made /\ x = q.id)
      /\ q.made => q.id \notin DOMAIN project /\ ~q.drops /\ ~q.wrote
  BY <1>2, <1>3, <1>4
<1> QED BY <1>5, <1>6, <1>7, <1>8 DEF RowsKept

LEMMA CommitStored ==
  ASSUME IInv, NEW s \in Slot, Commit(s)
  PROVE  Stored'
<1>1. PICK q : q = req[s]
  OBVIOUS
<1>c. CommitEffect(s, q) /\ RowsKept(q)
  BY <1>1, CommitDoes, CommitKeepsRows
<1>2. /\ Stored /\ StepsOK(q) /\ TargetOK(q) /\ q \in Requests /\ q.pc = "commit"
      /\ cfg' = cfg
      /\ bound' = {b \in bound : q.drops => b.project # q.id}
                  \cup (IF q.binds THEN {[key |-> q.tenant, who |-> q.k, project |-> q.id]} ELSE {})
      /\ filled' = (filled \cup (IF q.fills THEN {q.id} ELSE {})) \ (IF q.drops THEN {q.id} ELSE {})
  BY <1>1, CommitStart, <1>c DEF CommitEffect
<1>3. /\ ids \subseteq ids' /\ DOMAIN project' \subseteq ids' /\ ids' \subseteq Pid
      /\ \A x \in DOMAIN project' : x \in DOMAIN project \/ (q.made /\ x = q.id)
      /\ \A x \in DOMAIN project : x \in DOMAIN project' <=> ~(q.drops /\ x = q.id)
  BY <1>1, <1>c DEF RowsKept
<1>4. ASSUME NEW x \in DOMAIN project' PROVE project'[x] \in Project
  <2>1. CASE x \in DOMAIN project
    <3>1. project[x] \in Project /\ (q.wrote => q.row \in Project)
      BY <1>2, <2>1 DEF Stored, TypeOK, StepsOK
    <3>2. project'[x] = project[x] \/
            (q.wrote /\ project'[x] = [project[x] EXCEPT !.tenant = q.row.tenant, !.path = q.row.path])
      BY <1>1, <1>4, <2>1, <1>c DEF RowsKept
    <3> QED BY SMT, ZenonT(60), <3>1, <3>2 DEF Project
  <2>2. CASE q.made /\ x = q.id
    <3>1. project'[x] = q.row
      BY <1>1, <1>4, <2>2, CommitStart, <1>c DEF CommitEffect
    <3> QED BY <1>2, <2>2, <3>1 DEF StepsOK
  <2> QED BY <1>3, <1>4, <2>1, <2>2
<1>5. q.binds \/ q.fills => q.id \in DOMAIN project'
  <2>1. q.binds \/ q.fills => TargetExists(q) /\ ~q.drops
    BY <1>2 DEF TargetOK, StepsOK
  <2>2. q.made => q.id \in DOMAIN project'
    BY <1>1, CommitStart, <1>c DEF CommitEffect
  <2> QED BY <1>3, <2>1, <2>2 DEF TargetExists
<1>6. bound' \subseteq Binding
  <2>1. q.binds => [key |-> q.tenant, who |-> q.k, project |-> q.id] \in Binding
    BY <1>2 DEF StepsOK, Requests, Binding
  <2> QED BY <1>2, <2>1 DEF Stored, TypeOK
<1>7. {b.project : b \in bound'} \cup filled' \subseteq DOMAIN project'
  <2>1. \A b \in bound' : b.project \in DOMAIN project'
    <3> SUFFICES ASSUME NEW b \in bound' PROVE b.project \in DOMAIN project'
      OBVIOUS
    <3>1. CASE b \in bound /\ (q.drops => b.project # q.id)
      BY <1>2, <1>3, <3>1 DEF Stored, TypeOK
    <3>2. CASE q.binds /\ b = [key |-> q.tenant, who |-> q.k, project |-> q.id]
      BY <1>5, <3>2
    <3> QED BY <1>2, <3>1, <3>2
  <2>2. filled' \subseteq DOMAIN project'
    BY <1>2, <1>3, <1>5 DEF Stored, TypeOK
  <2> QED BY <2>1, <2>2
<1> QED BY <1>2, <1>3, <1>4, <1>6, <1>7 DEF Stored, TypeOK

\* The answer of a registration names its binding.
LEMMA CommitAnswers ==
  ASSUME IInv, NEW s \in Slot, Commit(s), NEW q, q = req[s], q.op \in {"resolve", "import"}
  PROVE  /\ q.id \in ids'
         /\ q.op = "resolve" /\ q.id \in DOMAIN project' => BindingExists(q.tenant, q.k, q.id)'
<1>c. CommitEffect(s, q) /\ RowsKept(q)
  BY CommitDoes, CommitKeepsRows
<1>1. /\ q.pc = "commit" /\ StepsOK(q) /\ TargetOK(q) /\ IdentityOK(q)
      /\ ids' = IF q.made THEN ids \cup {q.id} ELSE ids
      /\ bound' = {b \in bound : q.drops => b.project # q.id}
                  \cup (IF q.binds THEN {[key |-> q.tenant, who |-> q.k, project |-> q.id]} ELSE {})
  BY CommitStart, <1>c DEF CommitEffect
<1>2. q.id \in Pid /\ 0 \notin Pid
  BY <1>1 DEF StepsOK, Pid
<1>3. q.id \in ids'
  BY <1>1, <1>2 DEF TargetOK
<1>4. CASE q.binds
  BY <1>1, <1>3, <1>4 DEF BindingExists
<1>5. ASSUME ~q.binds, q.op = "resolve", q.id \in DOMAIN project' PROVE BindingExists(q.tenant, q.k, q.id)'
  <2>1. ~q.made
    BY <1>1, <1>5 DEF StepsOK
  <2>2. q.id \in DOMAIN project
    BY <1>5, <2>1, <1>c DEF RowsKept
  <2>3. BindingExists(q.tenant, q.k, q.id)
    BY <1>1, <1>5, <2>2 DEF IdentityOK
  <2>4. \A b \in bound : b.project = q.id => b \in bound'
    BY <1>5, <1>c DEF RowsKept
  <2> QED BY <2>3, <2>4 DEF BindingExists
<1> QED BY <1>3, <1>4, <1>5

LEMMA CommitIdentities ==
  ASSUME IInv, NEW s \in Slot, Commit(s)
  PROVE  Identities'
<1>1. PICK q : q = req[s]
  OBVIOUS
<1>c. CommitEffect(s, q) /\ RowsKept(q)
  BY <1>1, CommitDoes, CommitKeepsRows
<1>2. /\ Identities /\ q.pc = "commit" /\ StepsOK(q) /\ IdentityOK(q)
      /\ bound' = {b \in bound : q.drops => b.project # q.id}
                  \cup (IF q.binds THEN {[key |-> q.tenant, who |-> q.k, project |-> q.id]} ELSE {})
      /\ said' = IF q.op = "resolve" THEN said \cup {<<q.tenant, q.k, q.id>>} ELSE said
  BY <1>1, CommitStart, <1>c DEF CommitEffect
<1>3. /\ ids \subseteq ids' /\ ids \cap DOMAIN project' \subseteq DOMAIN project
      /\ \A x \in DOMAIN project' : \A b \in bound : b.project = x => b \in bound'
      /\ \A x \in DOMAIN project' : x \in DOMAIN project \/ (q.made /\ x = q.id)
  BY <1>1, <1>c DEF RowsKept
<1>4. ASSUME NEW b \in bound', NEW c \in bound', b.key = c.key, b.who = c.who PROVE b = c
  <2>1. q.binds => \A x \in bound : x.key # q.tenant \/ x.who # q.k
    BY <1>2 DEF IdentityOK, BoundTo
  <2>2. b \in bound \/ (q.binds /\ b = [key |-> q.tenant, who |-> q.k, project |-> q.id])
    BY <1>2
  <2>3. c \in bound \/ (q.binds /\ c = [key |-> q.tenant, who |-> q.k, project |-> q.id])
    BY <1>2
  <2> QED BY <1>2, <1>4, <2>1, <2>2, <2>3 DEF Identities
<1>5. ASSUME NEW a \in said' PROVE a[3] \in ids' /\ (a[3] \in DOMAIN project' => BindingExists(a[1], a[2], a[3])')
  <2>1. CASE a \in said
    BY <1>2, <1>3, <2>1 DEF Identities, BindingExists
  <2>2. CASE q.op = "resolve" /\ a = <<q.tenant, q.k, q.id>>
    <3>1. a[1] = q.tenant /\ a[2] = q.k /\ a[3] = q.id
      BY <2>2
    <3>2. q.id \in ids' /\ (q.id \in DOMAIN project' => BindingExists(q.tenant, q.k, q.id)')
      BY <1>1, <2>2, CommitAnswers
    <3> QED BY <3>1, <3>2 DEF BindingExists
  <2> QED BY <1>2, <1>5, <2>1, <2>2
<1>6. ASSUME NEW p \in DOMAIN project', project'[p].by = "resolve" PROVE \E b \in bound' : b.project = p
  <2>1. CASE p \in DOMAIN project
    <3>1. project'[p].by = project[p].by
      <4>1. project[p] \in Project
        BY <2>1, CommitStart, <1>c, <1>1 DEF CommitEffect, Stored, TypeOK
      <4>2. project'[p] = project[p] \/
              project'[p] = [project[p] EXCEPT !.tenant = q.row.tenant, !.path = q.row.path]
        BY <1>1, <1>6, <2>1, <1>c DEF RowsKept
      <4> QED BY <4>1, <4>2 DEF Project
    <3>2. PICK b \in bound : b.project = p
      BY <1>2, <1>6, <2>1, <3>1 DEF Identities
    <3> QED BY <1>3, <1>6, <3>2
  <2>2. CASE q.made /\ p = q.id
    <3>1. project'[p] = q.row
      BY <1>1, <1>6, <2>2, CommitStart, <1>c DEF CommitEffect
    <3>2. q.binds
      BY <1>2, <1>6, <2>2, <3>1 DEF IdentityOK, StepsOK
    <3>3. [key |-> q.tenant, who |-> q.k, project |-> q.id] \in bound'
      BY <1>2, <3>2
    <3> WITNESS [key |-> q.tenant, who |-> q.k, project |-> q.id] \in bound'
    <3> QED BY <2>2
  <2> QED BY <1>3, <1>6, <2>1, <2>2
<1> QED BY <1>4, <1>5, <1>6 DEF Identities, BindingExists

\* Where the path of a project in a commit comes from.
LEMMA CommitPaths ==
  ASSUME IInv, NEW s \in Slot, Commit(s), NEW q, q = req[s], NEW x \in DOMAIN project', project'[x].path # None
  PROVE  \/ x \in DOMAIN project /\ project'[x] = project[x]
         \/ /\ x = q.id /\ q.op = "import" /\ (q.made \/ q.wrote)
            /\ project'[x].path = q.row.path /\ project'[x].tenant = q.row.tenant
         \/ /\ x = q.id /\ x \in DOMAIN project /\ q.op = "update" /\ q.wrote
            /\ project'[x].path = q.row.path /\ project'[x].tenant = q.row.tenant
<1>c. CommitEffect(s, q) /\ RowsKept(q)
  BY CommitDoes, CommitKeepsRows
<1>1. StepsOK(q) /\ PathOK(q) /\ Stored
  BY CommitStart, <1>c DEF CommitEffect
<1>2. CASE x \in DOMAIN project
  <2>1. project[x] \in Project
    BY <1>1, <1>2 DEF Stored, TypeOK
  <2>2. project'[x] = project[x] \/
          (/\ x = q.id /\ q.wrote
           /\ project'[x] = [project[x] EXCEPT !.tenant = q.row.tenant, !.path = q.row.path])
    BY <1>2, <1>c DEF RowsKept
  <2>3. q.wrote => q.op \in {"update", "import"}
    BY <1>1 DEF StepsOK
  <2>4. PICK m : m = [project[x] EXCEPT !.tenant = q.row.tenant, !.path = q.row.path]
    OBVIOUS
  <2>5. m.tenant = q.row.tenant /\ m.path = q.row.path
    BY <2>1, <2>4 DEF Project
  <2> QED BY <1>2, <2>2, <2>3, <2>4, <2>5
<1>3. CASE q.made /\ x = q.id
  <2>1. project'[x] = q.row
    BY <1>3, CommitStart, <1>c DEF CommitEffect
  <2> QED BY <1>1, <1>3, <2>1 DEF StepsOK, PathOK
<1> QED BY <1>2, <1>3, <1>c DEF RowsKept

LEMMA CommitPathsInReach ==
  ASSUME IInv, NEW s \in Slot, Commit(s)
  PROVE  PathsInReach'
<1>1. PICK q : q = req[s]
  OBVIOUS
<1>c. CommitEffect(s, q) /\ RowsKept(q)
  BY <1>1, CommitDoes, CommitKeepsRows
<1>2. /\ PathsInReach /\ Stored /\ q.pc = "commit" /\ StepsOK(q) /\ PathOK(q)
      /\ filled' = (filled \cup (IF q.fills THEN {q.id} ELSE {})) \ (IF q.drops THEN {q.id} ELSE {})
  BY <1>1, CommitStart, <1>c DEF CommitEffect
<1>3. ASSUME NEW x \in DOMAIN project', project'[x].path # None
      PROVE  x \in filled' /\ MayAccess(project'[x].path, project'[x].tenant)
  <2>1. CASE x \in DOMAIN project /\ project'[x] = project[x]
    BY <1>1, <1>2, <1>3, <2>1, <1>c DEF RowsKept, PathsInReach
  <2>2. CASE /\ x = q.id /\ q.op = "import" /\ (q.made \/ q.wrote)
             /\ project'[x].path = q.row.path /\ project'[x].tenant = q.row.tenant
    <3>1. q.fills /\ ~q.drops
      BY <1>2, <2>2 DEF StepsOK
    <3>2. q.row.path = q.k /\ MayAccess(q.k, q.row.tenant)
      BY <1>2, <2>2 DEF PathOK
    <3> QED BY <1>2, <2>2, <3>1, <3>2
  <2>3. CASE /\ x = q.id /\ x \in DOMAIN project /\ q.op = "update" /\ q.wrote
             /\ project'[x].path = q.row.path /\ project'[x].tenant = q.row.tenant
    <3>1. x \in filled /\ MayAccess(q.base.path, q.base.tenant) /\ q.row.tenant = q.base.tenant /\ q.row.path = q.base.path
      BY <1>2, <1>3, <2>3 DEF PathOK
    <3>2. x \in filled'
      BY <1>1, <1>3, <3>1, <1>c DEF RowsKept
    <3> QED BY <2>3, <3>1, <3>2
  <2> QED BY <1>1, <1>3, <2>1, <2>2, <2>3, CommitPaths
<1> QED BY <1>3 DEF PathsInReach, MayAccess, Restricted

LEMMA CommitOnePath ==
  ASSUME IInv, NEW s \in Slot, Commit(s)
  PROVE  OnePath'
<1>1. PICK q : q = req[s]
  OBVIOUS
<1>c. CommitEffect(s, q) /\ RowsKept(q)
  BY <1>1, CommitDoes, CommitKeepsRows
<1>2. OnePath /\ Stored /\ q.pc = "commit" /\ StepsOK(q) /\ PathOK(q)
  BY <1>1, CommitStart, <1>c DEF CommitEffect
<1>3. raced' = raced \cup
        {k \in Checkout :
           \/ /\ q.wrote /\ k = q.row.path
              /\ project[q.id] # q.base
           \/ /\ q.wrote \/ q.made
              /\ q.op = "import" /\ k = q.k
              /\ {x \in DOMAIN project : project[x].path = k} # q.paths}
  BY <1>1 DEF Commit
<1>4. ASSUME NEW x \in DOMAIN project', NEW k \in Checkout \ raced', project'[x].path = k
      PROVE  \/ x \in DOMAIN project /\ project[x].path = k
             \/ x = q.id /\ {y \in DOMAIN project : project[y].path = k} = {}
  <2>1. project'[x].path # None
    BY <1>4, Constants
  <2>2. CASE x \in DOMAIN project /\ project'[x] = project[x]
    BY <1>4, <2>2
  <2>3. CASE /\ x = q.id /\ q.op = "import" /\ (q.made \/ q.wrote)
             /\ project'[x].path = q.row.path /\ project'[x].tenant = q.row.tenant
    <3>1. k = q.k /\ q.paths = {}
      BY <1>2, <1>4, <2>3 DEF PathOK
    <3> QED BY <1>3, <1>4, <2>3, <3>1
  <2>4. CASE /\ x = q.id /\ x \in DOMAIN project /\ q.op = "update" /\ q.wrote
             /\ project'[x].path = q.row.path /\ project'[x].tenant = q.row.tenant
    <3>1. k = q.row.path /\ q.row.path = q.base.path
      BY <1>2, <1>4, <2>4 DEF PathOK
    <3>2. project[q.id] = q.base
      BY <1>3, <1>4, <2>4, <3>1
    <3> QED BY <2>4, <3>1, <3>2
  <2> QED BY <1>1, <1>4, <2>1, <2>2, <2>3, <2>4, CommitPaths
<1>5. ASSUME NEW p \in DOMAIN project', NEW r \in DOMAIN project',
             project'[p].path = project'[r].path, project'[p].path \in Checkout \ raced'
      PROVE  p = r
  <2>1. PICK k \in Checkout \ raced' : k = project'[p].path
    BY <1>5
  <2>2. \/ p \in DOMAIN project /\ project[p].path = k
        \/ p = q.id /\ {y \in DOMAIN project : project[y].path = k} = {}
    BY <1>4, <1>5, <2>1
  <2>3. \/ r \in DOMAIN project /\ project[r].path = k
        \/ r = q.id /\ {y \in DOMAIN project : project[y].path = k} = {}
    BY <1>4, <1>5, <2>1
  <2>4. k \in Checkout \ raced
    BY <1>3, <2>1
  <2> QED BY <1>2, <2>2, <2>3, <2>4 DEF OnePath
<1> QED BY <1>5 DEF OnePath

\* A commit that changes the tenant of a project in use tears it.
LEMMA CommitTears ==
  ASSUME IInv, NEW s \in Slot, Commit(s),
         NEW x \in DOMAIN project \cap DOMAIN project', InUse(x), x \notin torn'
  PROVE  x \notin torn /\ project'[x].tenant = project[x].tenant
<1>1. PICK q : q = req[s]
  OBVIOUS
<1>c. CommitEffect(s, q) /\ RowsKept(q)
  BY <1>1, CommitDoes, CommitKeepsRows
<1>2. /\ torn' = IF q.wrote /\ InUse(q.id) /\ q.row.tenant # project[q.id].tenant
                 THEN torn \cup {q.id} ELSE torn
      /\ Stored
  BY <1>1, CommitStart, <1>c DEF CommitEffect
<1>3. project'[x] = IF x = q.id /\ q.wrote
                    THEN [project[x] EXCEPT !.tenant = q.row.tenant, !.path = q.row.path]
                    ELSE project[x]
  BY <1>1, <1>c DEF RowsKept
<1>4. project[x] \in Project
  BY <1>2 DEF Stored, TypeOK
<1>5. CASE x = q.id /\ q.wrote
  <2>1. project'[x].tenant = q.row.tenant
    BY <1>3, <1>4, <1>5 DEF Project
  <2> QED BY <1>2, <1>5, <2>1
<1> QED BY <1>2, <1>3, <1>5

LEMMA CommitRegistered ==
  ASSUME IInv, NEW s \in Slot, Commit(s)
  PROVE  Registered'
<1>1. PICK q : q = req[s]
  OBVIOUS
<1>c. CommitEffect(s, q) /\ RowsKept(q)
  BY <1>1, CommitDoes, CommitKeepsRows
<1>2. Registered /\ Stored /\ cfg' = cfg
  BY <1>1, CommitStart, <1>c DEF CommitEffect
<1>3. ASSUME NEW k \in Checkout, cfg[k].named, NEW c, c = cfg[k].project, c \in DOMAIN project' \ torn'
      PROVE  project'[c].tenant = cfg[k].tenant /\ MayAccess(k, cfg[k].tenant) /\ BindingExists(cfg[k].tenant, k, c)'
  <2>1. c \in DOMAIN project
    <3>1. c \in ids \cup {0} /\ 0 \notin Pid
      BY <1>2, <1>3 DEF Stored, Pid
    <3> QED BY <1>1, <1>3, <3>1, <1>c DEF RowsKept
  <2>2. c \notin torn
    BY <1>1, <1>3, CommitStart, <1>c DEF CommitEffect
  <2>3. project[c].tenant = cfg[k].tenant /\ MayAccess(k, cfg[k].tenant) /\ BindingExists(cfg[k].tenant, k, c)
    BY <1>2, <1>3, <2>1, <2>2 DEF Registered
  <2>4. InUse(c)
    BY <2>3 DEF BindingExists, InUse
  <2>5. BindingExists(cfg[k].tenant, k, c)'
    BY <1>1, <1>2, <1>3, <2>3, <1>c DEF RowsKept, BindingExists
  <2> QED BY <1>3, <2>1, <2>3, <2>4, <2>5, CommitTears
<1> QED BY <1>2, <1>3 DEF Registered, MayAccess, Restricted, BindingExists

\* A transaction that goes on past another's commit.
LEMMA CommitKeepsRequest ==
  ASSUME IInv, NEW s \in Slot, Commit(s), NEW t, RequestOK(t), Apart(req[s], t)
  PROVE  RequestOK(t)'
<1>1. PICK q : q = req[s]
  OBVIOUS
<1>c. CommitEffect(s, q) /\ RowsKept(q)
  BY <1>1, CommitDoes, CommitKeepsRows
<1>2. /\ t \in Requests /\ StepsOK(t) /\ TargetOK(t) /\ IdentityOK(t) /\ PathOK(t) /\ SettledOK(t)
      /\ Apart(q, t)
  BY <1>1 DEF RequestOK
<1>3. /\ ids' = IF q.made THEN ids \cup {q.id} ELSE ids
      /\ bound' = {b \in bound : q.drops => b.project # q.id}
                  \cup (IF q.binds THEN {[key |-> q.tenant, who |-> q.k, project |-> q.id]} ELSE {})
  BY <1>1, CommitStart, <1>c DEF CommitEffect
<1>4. /\ ids \subseteq ids' /\ ids \cap DOMAIN project' \subseteq DOMAIN project
      /\ DOMAIN project' \subseteq ids' /\ ids' \subseteq Pid
      /\ \A x \in DOMAIN project : x \in DOMAIN project' <=> ~(q.drops /\ x = q.id)
      /\ \A x \in DOMAIN project' :
           /\ x \in filled => x \in filled'
           /\ \A b \in bound : b.project = x => b \in bound'
  BY <1>1, <1>c DEF RowsKept
<1>5. TargetOK(t)'
  <2>1. IF t.made THEN t.id \in Pid \ ids' ELSE t.id \in ids' \cup {0}
    BY <1>2, <1>3 DEF TargetOK, Apart
  <2>2. t.binds \/ t.fills \/ t.wrote \/ t.drops => t.made \/ t.id \in DOMAIN project'
    BY <1>2, <1>4 DEF TargetOK, TargetExists, Apart
  <2> QED BY <2>1, <2>2 DEF TargetOK, TargetExists
<1>6. ~t.made /\ t.id \in DOMAIN project' => t.id \in DOMAIN project
  BY <1>2, <1>4 DEF TargetOK, Pid
<1>7. t.made => t.id \notin DOMAIN project'
  BY <1>4, <1>5 DEF TargetOK
<1>8. IdentityOK(t)'
  <2>1. t.binds => BoundTo(t.tenant, t.k)' = {}
    BY <1>2, <1>3 DEF IdentityOK, BoundTo, Apart
  <2>2. t.op = "resolve" /\ t.pc = "commit" /\ ~t.binds /\ t.id \in DOMAIN project' => BindingExists(t.tenant, t.k, t.id)'
    BY <1>2, <1>4, <1>6, <1>7 DEF IdentityOK, BindingExists
  <2> QED BY <1>2, <2>1, <2>2 DEF IdentityOK
<1>9. PathOK(t)'
  BY <1>2, <1>4, <1>6, <1>7 DEF PathOK, MayAccess, Restricted
<1>10. SettledOK(t)'
  <2> SUFFICES ASSUME t.settled, t.id \in DOMAIN project', t.id \notin torn'
               PROVE  /\ InUse(t.id)' /\ project'[t.id].tenant = t.base.tenant
                      /\ t.pc # "check" => t.row.tenant = t.base.tenant
    BY DEF SettledOK
  <2>1. t.id \in DOMAIN project
    BY <1>6, <1>7
  <2>2. t.id \notin torn
    BY <1>1, CommitStart, <1>c DEF CommitEffect
  <2>3. InUse(t.id) /\ project[t.id].tenant = t.base.tenant /\ (t.pc # "check" => t.row.tenant = t.base.tenant)
    BY <1>2, <2>1, <2>2 DEF SettledOK
  <2>4. project'[t.id].tenant = project[t.id].tenant
    BY <2>1, <2>3, CommitTears
  <2>5. InUse(t.id)'
    BY <1>4, <2>3 DEF InUse
  <2> QED BY <2>3, <2>4, <2>5
<1> QED BY <1>2, <1>5, <1>8, <1>9, <1>10 DEF RequestOK, StepsOK

LEMMA CommitRequests ==
  ASSUME IInv, NEW s \in Slot, Commit(s)
  PROVE  RequestsOK'
<1>1. RequestsOK /\ Active(s) /\ req' = [req EXCEPT ![s] = Idle]
  BY CommitStart, CommitDoes DEF CommitEffect
<1>2. req' \in [Slot -> {Idle} \cup Requests] /\ req'[s] = Idle /\ \A u \in Slot \ {s} : req'[u] = req[u]
  BY <1>1 DEF RequestsOK
<1>3. ASSUME NEW u \in Slot PROVE req'[u] = Idle \/ RequestOK(req[u])'
  <2>1. CASE req'[u] = Idle
    BY <2>1
  <2>2. CASE req'[u] # Idle
    <3>1. PICK t : t = req'[u]
      OBVIOUS
    <3>2. u # s /\ t = req[u] /\ RequestOK(t)
      BY <1>1, <1>2, <2>2, <3>1 DEF RequestsOK
    <3>3. Active(u)
      BY <3>2 DEF Active, RequestOK, Requests, Pcs
    <3>4. RequestOK(t)'
      BY <1>1, <3>2, <3>3, CommitKeepsRequest DEF RequestsOK
    <3> QED BY <3>1, <3>4 DEF RequestOK, StepsOK, TargetOK, TargetExists, IdentityOK, PathOK, SettledOK
  <2> QED BY <2>1, <2>2
<1>4. ASSUME NEW u \in Slot, NEW v \in Slot, u # v, Active(u)', Active(v)'
      PROVE  Apart(req[u], req[v])'
  <2>1. Apart(req'[u], req'[v])
    BY <1>1, <1>2, <1>4 DEF RequestsOK, Active, Idle
  <2> QED BY <2>1 DEF Apart
<1> QED BY <1>2, <1>3, <1>4 DEF RequestsOK

LEMMA CommitCommands ==
  ASSUME IInv, NEW s \in Slot, Commit(s)
  PROVE  CommandsOK'
<1>1. PICK q : q = req[s]
  OBVIOUS
<1>c. CommitEffect(s, q) /\ RowsKept(q)
  BY <1>1, CommitDoes, CommitKeepsRows
<1>2. /\ CommandsOK /\ RequestsOK /\ q \in Requests /\ StepsOK(q) /\ q.pc = "commit"
      /\ run' = Answered(s, q.id) /\ req' = [req EXCEPT ![s] = Idle]
  BY <1>1, CommitStart, <1>c DEF CommitEffect
<1>3. /\ ids \subseteq ids' /\ ids \cap DOMAIN project' \subseteq DOMAIN project
      /\ \A x \in DOMAIN project' : \A b \in bound : b.project = x => b \in bound'
  BY <1>1, <1>c DEF RowsKept
<1>4. \A k \in Checkout :
        run'[k] = IF run[k].pc = "wait" /\ run[k].slot = s
                  THEN [run[k] EXCEPT !.pc = "got", !.project = q.id, !.tenant = q.row.tenant] ELSE run[k]
  BY <1>1, <1>2 DEF Answered
<1>5. ASSUME NEW k \in Checkout, run[k].pc = "wait", run[k].slot = s PROVE run'[k] \in Commands /\ CommandOK(k)'
  <2>1. CommandOK(k) /\ run[k] \in Commands
    BY <1>2, <1>5 DEF CommandsOK, CommandOK, Idle
  <2>2. /\ q.k = k /\ q.op = run[k].op /\ q.op \in {"resolve", "import"}
        /\ run[k].op = "resolve" => q.tenant \in TenantFor(k, run[k].scope)
    BY <1>1, <1>5, <2>1 DEF CommandOK, Commands
  <2>3. q.row \in Project /\ q.id \in Pid
    BY <1>2, <2>2 DEF StepsOK
  <2>4. PICK m : m = [run[k] EXCEPT !.pc = "got", !.project = q.id, !.tenant = q.row.tenant]
    OBVIOUS
  <2>5. /\ m \in Commands /\ m.pc = "got" /\ m.project = q.id /\ m.op = run[k].op /\ m.scope = run[k].scope
    BY <2>1, <2>3, <2>4 DEF Commands, Project
  <2>6. run'[k] = m
    BY <1>4, <1>5, <2>4
  <2>7. q.id \in ids' /\ (q.op = "resolve" /\ q.id \in DOMAIN project' => BindingExists(q.tenant, q.k, q.id)')
    BY <1>1, <2>2, CommitAnswers
  <2>8. \A j, t : TenantFor(j, t)' = TenantFor(j, t)
    BY DEF TenantFor, Restricted
  <2>9. m.op = "resolve" /\ m.project \in DOMAIN project' =>
          \E t \in TenantFor(k, m.scope) : BindingExists(t, k, m.project)'
    BY <2>2, <2>5, <2>7 DEF BindingExists
  <2> QED BY <2>5, <2>6, <2>7, <2>8, <2>9 DEF CommandOK, BindingExists
<1>6. ASSUME NEW k \in Checkout, run[k] # Idle, ~(run[k].pc = "wait" /\ run[k].slot = s) PROVE CommandOK(k)'
  <2>1. run'[k] = run[k] /\ CommandOK(k)
    BY <1>2, <1>4, <1>6 DEF CommandsOK
  <2>2. run[k].pc = "wait" => run[k].slot \in Slot \ {s} /\ req'[run[k].slot] = req[run[k].slot]
    BY <1>2, <1>6, <2>1 DEF CommandOK, Commands, RequestsOK
  <2>3. run[k].pc = "wait" => req'[run[k].slot].pc # "idle"
    BY <2>1, <2>2 DEF CommandOK, Active
  <2>4. \A t, x : x \in DOMAIN project' /\ BindingExists(t, k, x) => BindingExists(t, k, x)'
    BY <1>3 DEF BindingExists
  <2> QED BY <1>3, <2>1, <2>2, <2>3, <2>4, CommandCarries
<1>7. run' \in [Checkout -> {Idle} \cup Commands]
  <2>1. run' = [k \in Checkout |-> run'[k]]
    BY <1>2 DEF Answered
  <2>2. \A k \in Checkout : run'[k] \in {Idle} \cup Commands
    BY <1>2, <1>4, <1>5 DEF CommandsOK
  <2> QED BY <2>1, <2>2
<1>8. \A k \in Checkout : run'[k] = Idle \/ CommandOK(k)'
  <2> SUFFICES ASSUME NEW k \in Checkout, run'[k] # Idle PROVE CommandOK(k)'
    OBVIOUS
  <2>1. CASE run[k].pc = "wait" /\ run[k].slot = s
    BY <1>5, <2>1
  <2>2. CASE ~(run[k].pc = "wait" /\ run[k].slot = s)
    BY <1>4, <1>6, <2>2
  <2> QED BY <2>1, <2>2
<1> QED BY <1>7, <1>8 DEF CommandsOK

LEMMA CommitKeeps == ASSUME IInv, NEW s \in Slot, Commit(s) PROVE IInv'
BY CommitStored, CommitIdentities, CommitPathsInReach, CommitOnePath, CommitRegistered,
   CommitRequests, CommitCommands DEF IInv, Committed

-----------------------------------------------------------------------------
(* Requests sent, and the end of a command.                                 *)

\* Nobody waits for a slot without a request.
LEMMA NobodyWaits ==
  ASSUME IInv, NEW s \in Slot, req[s].pc = "idle", NEW k \in Checkout
  PROVE  ~(run[k].pc = "wait" /\ run[k].slot = s)
BY DEF IInv, CommandsOK, CommandOK, Active, Idle

LEMMA NewRequest ==
  ASSUME NEW op \in Ops, NEW k \in Checkout \cup {None}, NEW t \in Scope, NEW want \in Pid \cup {0},
         op \in {"resolve", "import"} => k \in Checkout,
         NEW r, r = Request(op, k, t, want)
  PROVE  /\ RequestOK(r) /\ r.pc = "begin" /\ r.op = op /\ r.k = k /\ r.tenant = t
         /\ ~r.made /\ ~r.wrote /\ ~r.binds /\ ~r.fills /\ ~r.drops
<1>1. /\ r \in Requests /\ r.pc = "begin" /\ r.op = op /\ r.k = k /\ r.tenant = t /\ r.id = 0
      /\ ~r.made /\ ~r.wrote /\ ~r.binds /\ ~r.fills /\ ~r.drops /\ ~r.settled
  BY DEF Request, Requests, Pcs
<1>2. StepsOK(r) /\ TargetOK(r) /\ IdentityOK(r) /\ PathOK(r) /\ SettledOK(r)
  BY <1>1 DEF StepsOK, TargetOK, IdentityOK, PathOK, SettledOK
<1> QED BY <1>1, <1>2 DEF RequestOK

LEMMA SendKeepsRequests ==
  ASSUME IInv, NEW s \in Slot, NEW r, Send(s, r), RequestOK(r),
         ~r.made, ~r.wrote, ~r.binds, ~r.fills, ~r.drops,
         UNCHANGED <<project, bound, filled, ids, torn>>
  PROVE  RequestsOK'
<1>1. RequestsOK /\ req' = [req EXCEPT ![s] = r] /\ r \in Requests
  BY DEF IInv, Send, RequestOK
<1>2. req' \in [Slot -> {Idle} \cup Requests] /\ req'[s] = r /\ \A u \in Slot \ {s} : req'[u] = req[u]
  BY <1>1 DEF RequestsOK
<1>3. ASSUME NEW u \in Slot PROVE req'[u] = Idle \/ RequestOK(req[u])'
  BY <1>1, <1>2, RequestsCarry DEF RequestsOK
<1>4. ASSUME NEW u \in Slot, NEW v \in Slot, u # v, Active(u)', Active(v)'
      PROVE  Apart(req[u], req[v])'
  <2>1. (u # s => Apart(r, req[u])) /\ (v # s => Apart(r, req[v]))
    BY QuietApart
  <2>2. Apart(req'[u], req'[v])
    BY <1>1, <1>2, <1>4, <2>1, ApartCommutes DEF RequestsOK, Active
  <2> QED BY <2>2 DEF Apart
<1> QED BY <1>2, <1>3, <1>4 DEF RequestsOK

\* The commands that go on while a request is sent.
LEMMA SendKeepsCommands ==
  ASSUME IInv, NEW s \in Slot, NEW r, Send(s, r), UNCHANGED <<project, bound, ids>>,
         NEW k \in Checkout, run[k] # Idle, run'[k] = run[k]
  PROVE  CommandOK(k)'
<1>1. req[s].pc = "idle" /\ req' = [req EXCEPT ![s] = r] /\ RequestsOK /\ CommandOK(k)
  BY DEF Send, IInv, CommandsOK
<1>2. run[k].pc = "wait" => run[k].slot \in Slot \ {s}
  BY <1>1, NobodyWaits DEF CommandOK, Commands
<1>3. run[k].pc = "wait" => req'[run[k].slot] = req[run[k].slot] /\ req[run[k].slot].pc # "idle"
  BY <1>1, <1>2 DEF RequestsOK, CommandOK, Active
<1>4. \A t, x : BindingExists(t, k, x)' <=> BindingExists(t, k, x)
  BY DEF BindingExists
<1> QED BY <1>1, <1>3, <1>4, CommandCarries

LEMMA OthersSendKeeps == ASSUME IInv, NEW s \in Slot, OthersSend(s) PROVE IInv'
<1>1. UNCHANGED <<project, bound, filled, run, cfg, ids, said, torn, raced>>
  BY DEF OthersSend
<1>2. Committed /\ RequestsOK /\ CommandsOK /\ DOMAIN project \subseteq Pid
  BY DEF IInv, Committed, Stored, TypeOK
<1>3. PICK op \in {"create", "update", "entry", "delete"}, t \in Scope, want \in Pid \cup {0} :
        Send(s, Request(op, None, t, want))
  <2>1. None \in Scope
    BY DEF Scope
  <2> QED BY <1>2, <2>1 DEF OthersSend
<1>4. PICK r : r = Request(op, None, t, want)
  OBVIOUS
<1>5. RequestOK(r) /\ ~r.made /\ ~r.wrote /\ ~r.binds /\ ~r.fills /\ ~r.drops
  <2>1. op \in Ops /\ op \notin {"resolve", "import"}
    BY <1>3 DEF Ops
  <2> QED BY <1>4, <2>1, NewRequest
<1>6. Send(s, r)
  BY <1>3, <1>4
<1>7. RequestsOK'
  BY <1>1, <1>5, <1>6, SendKeepsRequests
<1>8. \A k \in Checkout : run[k] # Idle => CommandOK(k)'
  BY <1>1, <1>6, SendKeepsCommands
<1>9. CommandsOK'
  BY <1>1, <1>2, <1>8 DEF CommandsOK
<1> QED BY <1>1, <1>2, <1>7, <1>9, SameCommitted DEF IInv

\* A command of a checkout sends its request and waits.
LEMMA WaitKeeps ==
  ASSUME IInv, NEW k \in Checkout, NEW s \in Slot, NEW op \in {"resolve", "import"}, NEW t \in Scope,
         NEW want \in Pid \cup {0}, NEW scope \in Scope, op = "resolve" => t \in TenantFor(k, scope),
         run[k].pc = "idle", Send(s, Request(op, k, t, want)),
         run' = [run EXCEPT ![k] = Waiting(s, op, scope)],
         UNCHANGED <<project, bound, filled, cfg, ids, said, torn, raced>>
  PROVE  IInv'
<1>1. Committed /\ RequestsOK /\ CommandsOK
  BY DEF IInv
<1>2. PICK r : r = Request(op, k, t, want)
  OBVIOUS
<1>3. /\ RequestOK(r) /\ r.pc = "begin" /\ r.op = op /\ r.k = k /\ r.tenant = t
      /\ ~r.made /\ ~r.wrote /\ ~r.binds /\ ~r.fills /\ ~r.drops
  BY <1>2, NewRequest DEF Ops
<1>4. Send(s, r) /\ req'[s] = r
  BY <1>1, <1>2 DEF Send, RequestsOK
<1>5. RequestsOK'
  BY <1>3, <1>4, SendKeepsRequests
<1>6. PICK m : m = Waiting(s, op, scope)
  OBVIOUS
<1>7. m \in Commands /\ m.pc = "wait" /\ m.slot = s /\ m.op = op /\ m.scope = scope
  BY <1>6 DEF Waiting, Commands, Scope
<1>8. run' \in [Checkout -> {Idle} \cup Commands] /\ run'[k] = m /\ \A j \in Checkout \ {k} : run'[j] = run[j]
  BY <1>1, <1>6, <1>7 DEF CommandsOK
<1>9. CommandOK(k)'
  <2>1. TenantFor(k, scope)' = TenantFor(k, scope)
    BY DEF TenantFor, Restricted
  <2> QED BY <1>3, <1>4, <1>7, <1>8, <2>1 DEF CommandOK, Active
<1>10. \A j \in Checkout \ {k} : run[j] # Idle => CommandOK(j)'
  BY <1>4, <1>8, SendKeepsCommands
<1>11. CommandsOK'
  BY <1>8, <1>9, <1>10 DEF CommandsOK
<1> QED BY <1>1, <1>5, <1>11, SameCommitted DEF IInv

LEMMA RegisterKeeps ==
  ASSUME IInv, NEW k \in Checkout, NEW asked \in Scope, NEW want \in DOMAIN project \cup {0}, NEW s \in Slot,
         Register(k, asked, want, s)
  PROVE  IInv'
<1>1. PICK scope : scope = IF asked # None THEN asked ELSE cfg[k].tenant
  OBVIOUS
<1>2. scope \in Scope /\ want \in Pid \cup {0}
  BY <1>1 DEF IInv, Committed, Stored, TypeOK
<1>3. /\ run[k].pc = "idle"
      /\ \E t \in TenantFor(k, scope) : Send(s, Request("resolve", k, t, want))
      /\ run' = [run EXCEPT ![k] = Waiting(s, "resolve", scope)]
      /\ UNCHANGED <<project, bound, filled, cfg, ids, said, torn, raced>>
  BY <1>1 DEF Register
<1>4. PICK t \in TenantFor(k, scope) : Send(s, Request("resolve", k, t, want))
  BY <1>3
<1>5. t \in Scope
  BY <1>2, <1>4, TenantForOne
<1> QED BY <1>2, <1>3, <1>4, <1>5, WaitKeeps

LEMMA OnboardKeeps == ASSUME IInv, NEW k \in Checkout, NEW s \in Slot, Onboard(k, s) PROVE IInv'
<1>1. PICK want : want = cfg[k].project
  OBVIOUS
<1>2. want \in Pid \cup {0} /\ None \in Scope
  BY <1>1 DEF IInv, Committed, Stored, TypeOK, Scope
<1>3. /\ run[k].pc = "idle"
      /\ Send(s, Request("import", k, None, want))
      /\ run' = [run EXCEPT ![k] = Waiting(s, "import", None)]
      /\ UNCHANGED <<project, bound, filled, cfg, ids, said, torn, raced>>
  BY <1>1 DEF Onboard
<1> QED BY <1>2, <1>3, WaitKeeps

\* The command of a checkout ends, whatever it leaves in the configuration.
LEMMA EndKeeps ==
  ASSUME IInv, NEW k \in Checkout, run' = [run EXCEPT ![k] = Idle],
         UNCHANGED <<project, bound, filled, req, ids, said, torn, raced>>, Stored', Registered'
  PROVE  IInv'
<1>1. Committed /\ RequestsOK /\ CommandsOK
  BY DEF IInv
<1>2. Committed'
  <2>1. Identities'
    BY <1>1 DEF Committed, Identities, BindingExists
  <2>2. PathsInReach' /\ OnePath'
    BY <1>1 DEF Committed, PathsInReach, OnePath, MayAccess
  <2> QED BY <2>1, <2>2 DEF Committed
<1>3. RequestsOK'
  <2>1. \A u \in Slot : req'[u] = Idle \/ RequestOK(req[u])'
    BY <1>1, RequestsCarry DEF RequestsOK
  <2>2. ASSUME NEW u \in Slot, NEW v \in Slot, u # v, Active(u)', Active(v)'
        PROVE  Apart(req[u], req[v])'
    BY <1>1, <2>2 DEF RequestsOK, Active, Apart
  <2> QED BY <1>1, <2>1, <2>2 DEF RequestsOK
<1>4. run' \in [Checkout -> {Idle} \cup Commands] /\ run'[k] = Idle /\ \A j \in Checkout \ {k} : run'[j] = run[j]
  BY <1>1 DEF CommandsOK
<1>5. ASSUME NEW j \in Checkout, run'[j] # Idle PROVE CommandOK(j)'
  <2>1. run'[j] = run[j] /\ CommandOK(j)
    BY <1>1, <1>4, <1>5 DEF CommandsOK
  <2>2. run[j].pc = "wait" => req'[run[j].slot].pc # "idle"
    BY <2>1 DEF CommandOK, Active
  <2>3. \A t, x : BindingExists(t, j, x)' <=> BindingExists(t, j, x)
    BY DEF BindingExists
  <2> QED BY <2>1, <2>2, <2>3, CommandCarries
<1>6. CommandsOK'
  BY <1>4, <1>5 DEF CommandsOK
<1> QED BY <1>2, <1>3, <1>6 DEF IInv

\* A configuration that is written, for one checkout.
LEMMA ConfigKeeps ==
  ASSUME IInv, NEW k \in Checkout, NEW c \in [project : Pid \cup {0}, tenant : Scope, named : BOOLEAN],
         cfg' = [cfg EXCEPT ![k] = c], c.project \in ids \cup {0},
         c.named /\ c.project \in DOMAIN project \ torn =>
           /\ project[c.project].tenant = c.tenant /\ MayAccess(k, c.tenant)
           /\ BindingExists(c.tenant, k, c.project),
         UNCHANGED <<project, bound, filled, ids, torn>>
  PROVE  Stored' /\ Registered'
<1>1. Stored /\ Registered
  BY DEF IInv, Committed
<1>2. /\ cfg' \in [Checkout -> [project : Pid \cup {0}, tenant : Scope, named : BOOLEAN]]
      /\ \A j \in Checkout : cfg'[j] = IF j = k THEN c ELSE cfg[j]
  BY <1>1 DEF Stored, TypeOK
<1>3. Stored'
  BY <1>1, <1>2 DEF Stored, TypeOK
<1>4. \A j, t, x : BindingExists(t, j, x)' <=> BindingExists(t, j, x)
  BY DEF BindingExists
<1>5. ASSUME NEW j \in Checkout, NEW d, d = cfg'[j], d.named, d.project \in DOMAIN project \ torn
      PROVE  project[d.project].tenant = d.tenant /\ MayAccess(j, d.tenant) /\ BindingExists(d.tenant, j, d.project)
  BY <1>1, <1>2, <1>5 DEF Registered
<1> QED BY <1>3, <1>4, <1>5 DEF Registered, MayAccess, Restricted, BindingExists

LEMMA TimeoutKeeps == ASSUME IInv, NEW k \in Checkout, Timeout(k) PROVE IInv'
<1>1. /\ run' = [run EXCEPT ![k] = Idle]
      /\ UNCHANGED <<project, bound, filled, req, cfg, sent, ids, said, torn, raced>>
  BY DEF Timeout
<1>2. Stored' /\ Registered'
  <2>1. Committed'
    BY <1>1, SameCommitted DEF IInv
  <2> QED BY <2>1 DEF Committed
<1> QED BY <1>1, <1>2, EndKeeps

LEMMA ReadBackKeeps == ASSUME IInv, NEW k \in Checkout, ReadBack(k) PROVE IInv'
<1>1. PICK m : m = run[k]
  OBVIOUS
<1>2. /\ m.pc = "got" /\ m.op = "resolve" /\ run' = [run EXCEPT ![k] = Idle]
      /\ UNCHANGED <<project, bound, filled, req, sent, ids, said, torn, raced>>
      /\ cfg' = IF ReadBackHolds(k)
                THEN [cfg EXCEPT ![k] = [project |-> m.project, tenant |-> m.tenant,
                                         named |-> m.tenant \in TenantFor(k, m.scope)]]
                ELSE cfg
  BY <1>1 DEF ReadBack
<1>3. Stored' /\ Registered'
  <2>1. CASE ~ReadBackHolds(k)
    <3>1. Committed'
      BY <1>2, <2>1, SameCommitted DEF IInv
    <3> QED BY <3>1 DEF Committed
  <2>2. CASE ReadBackHolds(k)
    <3>1. m \in Commands /\ CommandOK(k)
      BY <1>1, <1>2 DEF IInv, CommandsOK, CommandOK, Idle
    <3>2. /\ m.project \in DOMAIN project /\ m.tenant = project[m.project].tenant
          /\ MayAccess(k, m.tenant)
      BY <1>1, <2>2 DEF ReadBackHolds, Readable
    <3>3. m.project \in ids /\ m.project \in Pid /\ m.tenant \in Scope /\ m.scope \in Scope
      BY <3>1, <3>2 DEF IInv, Committed, Stored, TypeOK, Commands
    <3>4. PICK t \in TenantFor(k, m.scope) : BindingExists(t, k, m.project)
      BY <1>1, <1>2, <3>1, <3>2 DEF CommandOK
    <3>5. m.tenant \in TenantFor(k, m.scope) => BindingExists(m.tenant, k, m.project)
      BY <3>3, <3>4, TenantForOne
    <3>6. PICK c : c = [project |-> m.project, tenant |-> m.tenant, named |-> m.tenant \in TenantFor(k, m.scope)]
      OBVIOUS
    <3>7. /\ c \in [project : Pid \cup {0}, tenant : Scope, named : BOOLEAN]
          /\ c.project = m.project /\ c.tenant = m.tenant /\ c.named = (m.tenant \in TenantFor(k, m.scope))
      BY <3>3, <3>6
    <3>8. cfg' = [cfg EXCEPT ![k] = c]
      BY <1>2, <2>2, <3>6
    <3> QED BY SMT, ZenonT(60), <1>2, <3>2, <3>3, <3>5, <3>7, <3>8, ConfigKeeps
  <2> QED BY <2>1, <2>2
<1> QED BY <1>2, <1>3, EndKeeps

LEMMA PersistKeeps == ASSUME IInv, NEW k \in Checkout, Persist(k) PROVE IInv'
<1>1. PICK m : m = run[k]
  OBVIOUS
<1>2. /\ m.pc = "got" /\ m.op = "import" /\ run' = [run EXCEPT ![k] = Idle]
      /\ UNCHANGED <<project, bound, filled, req, sent, ids, said, torn, raced>>
      /\ cfg' = [cfg EXCEPT ![k].project = m.project,
                            ![k].named = @ /\ m.project = cfg[k].project]
  BY <1>1 DEF Persist
<1>3. m.project \in ids /\ ids \subseteq Pid
  BY <1>1, <1>2 DEF IInv, CommandsOK, CommandOK, Idle, Committed, Stored, TypeOK
<1>4. cfg \in [Checkout -> [project : Pid \cup {0}, tenant : Scope, named : BOOLEAN]] /\ Registered
  BY DEF IInv, Committed, Stored, TypeOK
<1>5. PICK c : c = [project |-> m.project, tenant |-> cfg[k].tenant,
                    named |-> cfg[k].named /\ m.project = cfg[k].project]
  OBVIOUS
<1>6. /\ c \in [project : Pid \cup {0}, tenant : Scope, named : BOOLEAN]
      /\ c.project = m.project /\ c.tenant = cfg[k].tenant /\ c.named = (cfg[k].named /\ m.project = cfg[k].project)
  BY <1>3, <1>4, <1>5
<1>7. cfg' = [cfg EXCEPT ![k] = c]
  <2>1. cfg' = [cfg EXCEPT ![k] = [cfg[k] EXCEPT !.project = m.project,
                                                 !.named = @ /\ m.project = cfg[k].project]]
    BY <1>2, <1>4
  <2>2. [cfg[k] EXCEPT !.project = m.project, !.named = @ /\ m.project = cfg[k].project] = c
    <3>1. PICK d \in [project : Pid \cup {0}, tenant : Scope, named : BOOLEAN] : d = cfg[k]
      BY <1>4
    <3>2. PICK b \in BOOLEAN : b = (m.project = d.project)
      OBVIOUS
    <3>3. PICK n \in BOOLEAN : n = (d.named /\ b)
      OBVIOUS
    <3>4. [d EXCEPT !.project = m.project, !.named = n] = [project |-> m.project, tenant |-> d.tenant, named |-> n]
      <4>1. [d EXCEPT !.project = m.project, !.named = n] \in [project : Pid \cup {0}, tenant : Scope, named : BOOLEAN]
        BY <1>3
      <4>2. ASSUME NEW e \in [project : Pid \cup {0}, tenant : Scope, named : BOOLEAN],
                   e.project = m.project, e.tenant = d.tenant, e.named = n
            PROVE  e = [project |-> m.project, tenant |-> d.tenant, named |-> n]
        BY <4>2
      <4> QED BY <4>1, <4>2
    <3>5. c = [project |-> m.project, tenant |-> d.tenant, named |-> n]
      BY <1>5, <3>1, <3>2, <3>3
    <3>6. [d EXCEPT !.project = m.project, !.named = @ /\ m.project = d.project]
          = [d EXCEPT !.project = m.project, !.named = n]
      BY <3>2, <3>3
    <3> QED BY <3>1, <3>4, <3>5, <3>6
  <2> QED BY <2>1, <2>2
<1>8. c.named /\ c.project \in DOMAIN project \ torn =>
        /\ project[c.project].tenant = c.tenant /\ MayAccess(k, c.tenant)
        /\ BindingExists(c.tenant, k, c.project)
  BY <1>4, <1>6 DEF Registered
<1>9. Stored' /\ Registered'
  BY <1>2, <1>3, <1>6, <1>7, <1>8, ConfigKeeps
<1> QED BY <1>2, <1>9, EndKeeps

LEMMA DieWritingKeeps == ASSUME IInv, NEW k \in Checkout, DieWriting(k) PROVE IInv'
<1>1. /\ cfg' = [cfg EXCEPT ![k] = NoCfg] /\ run' = [run EXCEPT ![k] = Idle]
      /\ UNCHANGED <<project, bound, filled, req, sent, ids, said, torn, raced>>
  BY DEF DieWriting
<1>2. /\ NoCfg \in [project : Pid \cup {0}, tenant : Scope, named : BOOLEAN]
      /\ NoCfg.project = 0 /\ ~NoCfg.named
  BY DEF NoCfg, Scope
<1>3. Stored' /\ Registered'
  BY <1>1, <1>2, ConfigKeeps
<1> QED BY <1>1, <1>3, EndKeeps

-----------------------------------------------------------------------------
(* The invariant, and what it says.                                         *)

LEMMA InitHolds == ASSUME Init PROVE IInv
<1>1. /\ bound = {} /\ filled = {} /\ req = [s \in Slot |-> Idle] /\ run = [k \in Checkout |-> Idle]
      /\ cfg = [k \in Checkout |-> NoCfg] /\ ids = DOMAIN project /\ said = {} /\ torn = {} /\ raced = {}
  BY DEF Init
<1>2. /\ DOMAIN project \subseteq Pid
      /\ \A p \in DOMAIN project : project[p] \in Project /\ project[p].path = None /\ project[p].by = "post"
  <2>1. CASE project = [p \in {} |-> None]
    BY <2>1
  <2>2. CASE \E k \in Checkout, t \in Scope : project = Posted(k, t)
    <3>1. PICK k \in Checkout, t \in Scope : project = Posted(k, t)
      BY <2>2
    <3>2. PICK v : v = [name |-> NameOf[k], tenant |-> t, path |-> None, by |-> "post"]
      OBVIOUS
    <3>3. v \in Project /\ v.path = None /\ v.by = "post"
      BY <3>2 DEF Project
    <3>4. project = [p \in {1} |-> v]
      BY <3>1, <3>2 DEF Posted
    <3>5. 1 \in Pid
      BY ScopeAssumption DEF Pid
    <3> QED BY <3>3, <3>4, <3>5
  <2> QED BY <2>1, <2>2 DEF Init
<1>3. Committed
  <2>1. Stored
    BY <1>1, <1>2 DEF Stored, TypeOK, NoCfg, Scope
  <2>2. Identities
    BY <1>1, <1>2 DEF Identities
  <2>3. PathsInReach /\ OnePath
    BY <1>2, Constants DEF PathsInReach, OnePath
  <2>4. Registered
    BY <1>1 DEF Registered, NoCfg
  <2> QED BY <2>1, <2>2, <2>3, <2>4 DEF Committed
<1>4. RequestsOK
  BY <1>1 DEF RequestsOK, Active, Idle
<1>5. CommandsOK
  BY <1>1 DEF CommandsOK
<1> QED BY <1>3, <1>4, <1>5 DEF IInv

LEMMA StutterKeeps == ASSUME IInv, UNCHANGED vars PROVE IInv'
<1>1. UNCHANGED <<project, bound, filled, req, run, cfg, sent, ids, said, torn, raced>>
  BY DEF vars
<1>2. Committed /\ RequestsOK /\ CommandsOK
  BY DEF IInv
<1>3. RequestsOK'
  <2>1. \A u \in Slot : req'[u] = Idle \/ RequestOK(req[u])'
    BY <1>1, <1>2, RequestsCarry DEF RequestsOK
  <2>2. ASSUME NEW u \in Slot, NEW v \in Slot, u # v, Active(u)', Active(v)'
        PROVE  Apart(req[u], req[v])'
    BY <1>1, <1>2, <2>2 DEF RequestsOK, Active, Apart
  <2> QED BY <1>1, <1>2, <2>1, <2>2 DEF RequestsOK
<1>4. CommandsOK'
  <2>1. ASSUME NEW j \in Checkout, run[j] # Idle PROVE CommandOK(j)'
    <3>1. CommandOK(j)
      BY <1>2, <2>1 DEF CommandsOK
    <3>2. run[j].pc = "wait" => req'[run[j].slot].pc # "idle"
      BY <1>1, <3>1 DEF CommandOK, Active
    <3>3. \A t, x : BindingExists(t, j, x)' <=> BindingExists(t, j, x)
      BY <1>1 DEF BindingExists
    <3> QED BY <1>1, <3>1, <3>2, <3>3, CommandCarries
  <2> QED BY <1>1, <1>2, <2>1 DEF CommandsOK
<1> QED BY <1>1, <1>2, <1>3, <1>4, SameCommitted DEF IInv

LEMMA StepHolds == ASSUME IInv, [Next]_vars PROVE IInv'
<1>1. ASSUME NEW s \in Slot, Server(s) PROVE IInv'
  BY <1>1, ResolveLookupKeeps, ResolveSearchKeeps, BindKeeps, ResolveWinnerKeeps, CreateKeeps, UpdateReadKeeps,
     UpdateCheckKeeps, UpdateWriteKeeps, EntryInsertKeeps, DeleteKeeps, ImportFindKeeps, ImportInsertKeeps,
     CommitKeeps, RefuseKeeps DEF Server, Abort
<1>2. ASSUME NEW k \in Checkout, Client(k) PROVE IInv'
  BY <1>2, RegisterKeeps, OnboardKeeps, TimeoutKeeps, ReadBackKeeps, PersistKeeps, DieWritingKeeps DEF Client
<1> QED BY <1>1, <1>2, OthersSendKeeps, StutterKeeps DEF Next

LEMMA InvariantHolds == Spec => []IInv
<1>1. Init => IInv
  BY InitHolds
<1>2. IInv /\ [Next]_vars => IInv'
  BY StepHolds
<1> QED BY <1>1, <1>2, PTL DEF Spec

\* Rows, bindings and configurations have their types, and no binding and no
\* entry is left of a project that was deleted, however requests overlap.
THEOREM ScopeTypeCorrect == Spec => []TypeOK
<1>1. IInv => TypeOK
  BY DEF IInv, Committed, Stored
<1> QED BY <1>1, InvariantHolds, PTL

\* POST /projects/resolve answers an identity with one project for as long as
\* the project exists, whatever races, times out and is sent again, and a
\* project it made is bound.
THEOREM RegistrationsAgree == Spec => []RegistrationsExact
<1>1. ASSUME IInv PROVE RegistrationsExact
  <2>1. Identities
    BY <1>1 DEF IInv, Committed
  <2>2. ASSUME NEW a \in said, NEW b \in said, a[1] = b[1], a[2] = b[2], a[3] \in DOMAIN project, b[3] \in DOMAIN project
        PROVE  a[3] = b[3]
    <3>1. [key |-> a[1], who |-> a[2], project |-> a[3]] \in bound
      BY <2>1, <2>2 DEF Identities, BindingExists
    <3>2. [key |-> a[1], who |-> a[2], project |-> b[3]] \in bound
      BY <2>1, <2>2 DEF Identities, BindingExists
    <3>3. [key |-> a[1], who |-> a[2], project |-> a[3]] = [key |-> a[1], who |-> a[2], project |-> b[3]]
      BY <2>1, <3>1, <3>2 DEF Identities
    <3> QED BY <3>3
  <2> QED BY <2>1, <2>2 DEF RegistrationsExact, Identities
<1> QED BY <1>1, InvariantHolds, PTL

\* What register-project persisted under the tenant of the project is what the
\* doctor verifies, until the project is deleted or its tenant changes in use.
THEOREM RegisteredStayBound == Spec => []RegisteredIsBound
<1>1. ASSUME IInv PROVE RegisteredIsBound
  <2>1. Registered
    BY <1>1 DEF IInv, Committed
  <2>2. ASSUME NEW k \in Checkout, cfg[k].named, cfg[k].project \in DOMAIN project \ torn
        PROVE  LiveReadVerified(k)
    BY <2>1, <2>2 DEF Registered, LiveReadVerified, VerifyBinding, Readable
  <2> QED BY <2>2 DEF RegisteredIsBound
<1> QED BY <1>1, InvariantHolds, PTL

\* Onboarding a checkout again finds the project of its path: no second one
\* carries the path unless two writers of it overlapped.
THEOREM PathsAreExclusive == Spec => []OneProjectPerPath
<1>1. ASSUME IInv PROVE OneProjectPerPath
  <2>1. OnePath
    BY <1>1 DEF IInv, Committed
  <2>2. ASSUME NEW k \in Checkout \ raced
        PROVE  Cardinality({p \in DOMAIN project : project[p].path = k}) <= 1
    <3> DEFINE S == {p \in DOMAIN project : project[p].path = k}
    <3>1. CASE S = {}
      BY <3>1, FS_EmptySet
    <3>2. CASE S # {}
      <4>1. PICK p : p \in S
        BY <3>2
      <4>2. S = {p}
        BY <2>1, <4>1 DEF OnePath
      <4>3. Cardinality({p}) = 1
        BY FS_Singleton
      <4> QED BY <4>2, <4>3
    <3> QED BY <3>1, <3>2
  <2> QED BY <2>2 DEF OneProjectPerPath
<1> QED BY <1>1, InvariantHolds, PTL

-----------------------------------------------------------------------------
(* The tenant of a project in use.                                          *)

\* Projects change only when a transaction commits.
LEMMA OnlyCommits == ASSUME Next, ~\E s \in Slot : Commit(s) PROVE project' = project
<1>1. ASSUME NEW s \in Slot, OthersSend(s) PROVE project' = project
  BY <1>1 DEF OthersSend
<1>2. ASSUME NEW k \in Checkout, Client(k) PROVE project' = project
  BY <1>2 DEF Client, Register, Onboard, Timeout, ReadBack, Persist, DieWriting
<1>3. ASSUME NEW s \in Slot, Server(s) PROVE project' = project
  <2>1. Refuse(s) => project' = project
    BY DEF Refuse
  <2>2. \A r : Step(s, r) => project' = project
    BY DEF Step
  <2>3. \A r : Make(s, r) => project' = project
    BY DEF Make, Step
  <2>4. ResolveLookup(s) \/ ResolveSearch(s) \/ Bind(s) \/ ResolveWinner(s) => project' = project
    BY <2>1, <2>2, <2>3 DEF ResolveLookup, ResolveSearch, Bind, ResolveWinner
  <2>5. Create(s) \/ UpdateRead(s) \/ UpdateCheck(s) \/ UpdateWrite(s) \/ EntryInsert(s) \/ Delete(s) => project' = project
    BY <2>1, <2>2, <2>3 DEF Create, UpdateRead, UpdateCheck, UpdateWrite, EntryInsert, Delete
  <2>6. ImportFind(s) \/ ImportInsert(s) => project' = project
    BY <2>1, <2>2, <2>3 DEF ImportFind, ImportInsert
  <2>7. ~Commit(s)
    OBVIOUS
  <2> QED BY <1>3, <2>1, <2>4, <2>5, <2>6, <2>7 DEF Server, Abort
<1> QED BY <1>1, <1>2, <1>3 DEF Next

\* A patch that read the project in use cannot change its tenant, whatever is
\* deleted, bound or patched between its read, its check and its commit.
THEOREM SettledTenantFixed == Spec => TenantFixedUnlessOverlap
<1>1. ASSUME IInv, [Next]_vars, NEW s \in Slot, req[s].pc = "commit", req'[s].pc = "idle", req[s].wrote,
             req[s].settled, req[s].id \notin torn, req[s].id \in DOMAIN project'
      PROVE  project'[req[s].id].tenant = project[req[s].id].tenant
  <2>1. CASE Commit(s)
    <3>1. PICK q : q = req[s]
      OBVIOUS
    <3>2. RowsKept(q) /\ StepsOK(q) /\ SettledOK(q) /\ Stored /\ q.pc = "commit"
      BY <1>1, <2>1, <3>1, CommitStart, CommitKeepsRows
    <3>3. q.id \in DOMAIN project
      BY <1>1, <3>1, <3>2 DEF RowsKept
    <3>4. project[q.id].tenant = q.row.tenant
      BY <1>1, <3>1, <3>2, <3>3 DEF SettledOK
    <3>5. project[q.id] \in Project
      BY <3>2, <3>3 DEF Stored, TypeOK
    <3>6. project'[q.id] = [project[q.id] EXCEPT !.tenant = q.row.tenant, !.path = q.row.path]
      BY <1>1, <3>1, <3>2, <3>3 DEF RowsKept
    <3>7. project'[q.id].tenant = q.row.tenant
      BY <3>5, <3>6 DEF Project
    <3> QED BY <3>1, <3>4, <3>7
  <2>2. CASE \E u \in Slot \ {s} : Commit(u)
    <3>1. PICK u \in Slot \ {s} : Commit(u)
      BY <2>2
    <3>2. req' = [req EXCEPT ![u] = Idle] /\ req \in [Slot -> {Idle} \cup Requests]
      BY <1>1, <3>1 DEF Commit, IInv, RequestsOK
    <3>3. req'[s] = req[s]
      BY <3>1, <3>2
    <3> QED BY <1>1, <3>3
  <2>3. CASE ~\E u \in Slot : Commit(u)
    BY <1>1, <2>3, OnlyCommits DEF vars
  <2> QED BY <2>1, <2>2, <2>3
<1>2. IInv /\ [Next]_vars =>
        [\A s \in Slot :
           req[s].pc = "commit" /\ req'[s].pc = "idle" /\ req[s].wrote /\ req[s].settled
           /\ req[s].id \notin torn /\ req[s].id \in DOMAIN project'
           => project'[req[s].id].tenant = project[req[s].id].tenant]_vars
  BY <1>1
<1> QED BY <1>2, InvariantHolds, PTL DEF Spec, TenantFixedUnlessOverlap
=============================================================================
