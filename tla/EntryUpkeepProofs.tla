--------------------------- MODULE EntryUpkeepProofs ---------------------------
(***************************************************************************)
(* What holds of the upkeep of entries for every number of requests and    *)
(* entries: locks, what is left of concurrent writes, and the accounts of  *)
(* imports.                                                                *)
(***************************************************************************)
EXTENDS EntryUpkeep, OrderedProofs, SequenceTheorems, TLAPS

-----------------------------------------------------------------------------
(* Documents by their keys.                                                 *)

DocKeys == {"quality", "review", "overdue", "pending", "conflicts", "status", "into", "runs", "history"}

FieldType ==
  [quality |-> 0..2, review |-> BOOLEAN, overdue |-> BOOLEAN, pending |-> BOOLEAN, conflicts |-> SUBSET Id,
   status |-> Stati, into |-> Id \cup {0}, runs |-> Nat, history |-> Seq(Nat)]

\* What a patch of a document may hold.
KeysOK(keys) == DOMAIN keys \subseteq DocKeys /\ \A k \in DOMAIN keys : keys[k] \in FieldType[k]

LEMMA DocByKeys ==
  ASSUME NEW doc \in Docs
  PROVE  DOMAIN doc = DocKeys /\ KeysOK(doc)
BY DEF Docs, DocKeys, KeysOK, FieldType

LEMMA DocFromKeys ==
  ASSUME NEW f, f = [k \in DocKeys |-> f[k]], \A k \in DocKeys : f[k] \in FieldType[k]
  PROVE  f \in Docs
<1>1. f = [quality |-> f["quality"], review |-> f["review"], overdue |-> f["overdue"], pending |-> f["pending"],
           conflicts |-> f["conflicts"], status |-> f["status"], into |-> f["into"], runs |-> f["runs"],
           history |-> f["history"]]
  BY DEF DocKeys
<1> QED BY <1>1 DEF Docs, DocKeys, FieldType

LEMMA SameDocs ==
  ASSUME NEW f \in Docs, NEW g \in Docs, \A k \in DocKeys : f[k] = g[k]
  PROVE  f = g
BY DEF Docs, DocKeys

LEMMA PatchedDoc ==
  ASSUME NEW doc \in Docs, NEW keys, KeysOK(keys)
  PROVE  /\ Patched(doc, keys) \in Docs
         /\ \A k \in DocKeys : Patched(doc, keys)[k] = IF k \in DOMAIN keys THEN keys[k] ELSE doc[k]
<1>1. DOMAIN doc = DocKeys /\ KeysOK(doc)
  BY DocByKeys
<1>2. Patched(doc, keys) = [k \in DocKeys |-> IF k \in DOMAIN keys THEN keys[k] ELSE doc[k]]
  BY <1>1 DEF Patched
<1>3. \A k \in DocKeys : Patched(doc, keys)[k] \in FieldType[k]
  BY <1>1, <1>2 DEF KeysOK
<1> HIDE DEF Patched
<1> QED BY <1>2, <1>3, DocFromKeys

LEMMA NoDocIsDoc == NoDoc \in Docs
BY DEF NoDoc, Docs, Stati

LEMMA KeyLiterals ==
  /\ KeysOK(<< >>)
  /\ \A q \in 0..2 : KeysOK([quality |-> q])
  /\ \A x \in Id \cup {0} : KeysOK([into |-> x])
BY DEF KeysOK, DocKeys, FieldType

LEMMA KeyFlags ==
  /\ \A b \in BOOLEAN : KeysOK([overdue |-> b])
  /\ \A a, b \in BOOLEAN, q \in 0..2 : KeysOK([review |-> a, overdue |-> b, quality |-> q])
  /\ \A s \in Stati, b \in BOOLEAN, c \in SUBSET Id : KeysOK([status |-> s, pending |-> b, conflicts |-> c])
  /\ \A b \in BOOLEAN, c \in SUBSET Id : KeysOK([pending |-> b, conflicts |-> c])
BY DEF KeysOK, DocKeys, FieldType

-----------------------------------------------------------------------------
(* Lists of statements.                                                     *)

Items(s) == {s[i] : i \in DOMAIN s}
IsList(s) == s \in Seq(Items(s))

LEMMA ListOf ==
  ASSUME NEW S, NEW s \in Seq(S)
  PROVE  IsList(s) /\ Items(s) \subseteq S
BY DEF Items, IsList

LEMMA OneItem == \A a : IsList(<<a>>) /\ Items(<<a>>) = {a}
BY DEF Items, IsList

LEMMA TwoItems == \A a, b : IsList(<<a, b>>) /\ Items(<<a, b>>) = {a, b}
BY DEF Items, IsList

LEMMA ThreeItems == \A a, b, c : IsList(<<a, b, c>>) /\ Items(<<a, b, c>>) = {a, b, c}
BY DEF Items, IsList

LEMMA NoItems == IsList(<< >>) /\ Items(<< >>) = {}
BY DEF Items, IsList

LEMMA Joined ==
  ASSUME NEW s, NEW t, IsList(s), IsList(t)
  PROVE  IsList(s \o t) /\ Items(s \o t) = Items(s) \cup Items(t)
<1>1. s \o t \in Seq(Items(s) \cup Items(t))
  BY DEF IsList
<1>2. \A i \in 1..Len(s) : (s \o t)[i] = s[i] /\ i \in 1..Len(s \o t)
  BY DEF IsList
<1>3. \A i \in 1..Len(t) : (s \o t)[Len(s) + i] = t[i] /\ Len(s) + i \in 1..Len(s \o t)
  BY DEF IsList
<1>4. DOMAIN s = 1..Len(s) /\ DOMAIN t = 1..Len(t) /\ DOMAIN (s \o t) = 1..Len(s \o t)
  BY <1>1 DEF IsList
<1>5. Items(s \o t) = Items(s) \cup Items(t)
  <2>1. Items(s) \cup Items(t) \subseteq Items(s \o t)
    BY <1>2, <1>3, <1>4 DEF Items
  <2>2. \A i \in 1..Len(s \o t) : i \in 1..Len(s) \/ \E j \in 1..Len(t) : i = Len(s) + j
    <3>1. Len(s) \in Nat /\ Len(t) \in Nat /\ Len(s \o t) = Len(s) + Len(t)
      BY DEF IsList
    <3>2. ASSUME NEW i \in 1..Len(s \o t), i \notin 1..Len(s)
          PROVE  i - Len(s) \in 1..Len(t) /\ i = Len(s) + (i - Len(s))
      BY <3>1, <3>2
    <3> QED BY <3>2
  <2>3. \A i \in DOMAIN (s \o t) : (s \o t)[i] \in Items(s) \cup Items(t)
    BY <1>2, <1>3, <1>4, <2>2 DEF Items
  <2>4. Items(s \o t) \subseteq Items(s) \cup Items(t)
    BY <2>3 DEF Items
  <2> QED BY <2>1, <2>4
<1> QED BY <1>1, <1>5 DEF IsList

LEMMA OneLess ==
  ASSUME NEW s, IsList(s), s # << >>
  PROVE  IsList(Tail(s)) /\ Head(s) \in Items(s) /\ Items(s) = {Head(s)} \cup Items(Tail(s))
<1>1. /\ Len(s) \in Nat /\ Len(s) > 0 /\ DOMAIN s = 1..Len(s)
      /\ Tail(s) \in Seq(Items(s)) /\ Len(Tail(s)) = Len(s) - 1
      /\ \A i \in 1..Len(s) - 1 : Tail(s)[i] = s[i + 1]
      /\ Head(s) = s[1]
  BY DEF IsList
<1>2. DOMAIN Tail(s) = 1..Len(s) - 1
  BY <1>1
<1>3. Items(Tail(s)) \subseteq Items(s) /\ Head(s) \in Items(s)
  BY <1>1, <1>2 DEF Items
<1>4. \A i \in DOMAIN s : i = 1 \/ (i - 1 \in DOMAIN Tail(s) /\ s[i] = Tail(s)[i - 1])
  BY <1>1, <1>2
<1>5. Items(s) \subseteq {Head(s)} \cup Items(Tail(s))
  <2>1. \A i \in DOMAIN s : s[i] \in {Head(s)} \cup Items(Tail(s))
    BY <1>1, <1>4 DEF Items
  <2> QED BY <2>1 DEF Items
<1>6. IsList(Tail(s))
  <2>1. \A i \in 1..Len(s) - 1 : Tail(s)[i] \in Items(Tail(s))
    BY <1>2 DEF Items
  <2>2. Tail(s) \in [1..Len(s) - 1 -> Items(s)] /\ Len(s) - 1 \in Nat
    BY <1>1, LenProperties
  <2>3. Tail(s) \in [1..Len(s) - 1 -> Items(Tail(s))]
    BY <2>1, <2>2
  <2> QED BY <2>2, <2>3, SeqDef DEF IsList
<1> QED BY <1>3, <1>5, <1>6

LEMMA EachItem ==
  ASSUME NEW S \in SUBSET Id, NEW statement, DOMAIN statement = S
  PROVE  IsList(Each(statement)) /\ Items(Each(statement)) = {statement[e] : e \in S}
<1>1. S \in SUBSET Nat /\ IsFiniteSet(S)
  <2>1. MaxEntries \in Nat /\ S \in SUBSET Nat /\ \A x \in S : x <= MaxEntries
    BY UpkeepAssumption DEF Id
  <2> QED BY <2>1, FS_BoundedSetOfNaturals
<1>2. /\ Cardinality(S) \in Nat /\ Descending(S) \in [1..Cardinality(S) -> S]
      /\ \A x \in S : \E n \in 1..Cardinality(S) : Descending(S)[n] = x
  BY <1>1, DescendingLists, FS_CardinalityType
<1>3. Each(statement) = [n \in 1..Cardinality(S) |-> statement[Descending(S)[n]]]
  BY DEF Each
<1>4. Items(Each(statement)) = {statement[e] : e \in S}
  BY <1>2, <1>3 DEF Items
<1>5. Each(statement) \in Seq({statement[e] : e \in S})
  BY <1>2, <1>3
<1> QED BY <1>4, <1>5 DEF IsList

-----------------------------------------------------------------------------
(* A request in progress.                                                   *)

Fields == {"pc", "op", "e", "o", "action", "changed", "n", "known", "base", "dirty", "todo", "fresh", "gave",
           "stale", "born", "heard"}

RowsOK(f) == DOMAIN f \subseteq Id /\ \A e \in DOMAIN f : f[e] \in Row

\* What was asked is about entries there are.
AskOK(q) ==
  /\ q.op \in {"retrieve", "lifecycle", "resolve", "review", "compact", "import", "revise", "archive", "restore"}
  /\ q.op \notin {"lifecycle", "import"} => q.e \in DOMAIN row /\ q.o \in DOMAIN row
  /\ q.op = "resolve" => q.action \in {"supersede", "reject_new", "keep_both", "needs_changes"}
  /\ q.op = "review" => q.action \in {"approve", "archive", "needs_changes"}
  /\ q.op = "import" => q.action \in Modes

\* The session: what was read is of entries there are, what is written is
\* typed, and what was created is among what is written.
SessionOK(q) ==
  /\ q = [x \in Fields |-> q[x]] /\ q.pc \in {"read", "write"} /\ q.n \in Nat
  /\ RowsOK(q.base) /\ DOMAIN q.base \subseteq DOMAIN row
  /\ RowsOK(q.dirty) /\ DOMAIN q.gave \subseteq DOMAIN q.dirty
  /\ q.fresh \in DOMAIN q.dirty \cup {0}
  /\ q.pc = "read" => DOMAIN q.dirty = {} /\ q.fresh = 0

\* A statement still to do works on an entry there is.
StatementOK(q, st) ==
  /\ st.do \in {"patch", "use", "archive", "revise", "restore", "create", "match"}
  /\ st.do \in {"use", "archive", "restore"} => st.id \in DOMAIN q.base
  /\ st.do = "restore" => st.source \in DOMAIN q.base
  /\ st.do = "patch" => st.id \in DOMAIN q.base \cup {0} /\ KeysOK(st.keys)
  /\ st.do = "revise" => st.id \in DOMAIN row \cup DOMAIN q.dirty /\ KeysOK(st.keys) /\ st.lowest \in 0..2
  /\ st.do = "create" => st.kind \in Kinds /\ KeysOK(st.keys)
  /\ st.do = "match" => q.op = "import"

\* The entry created last is patched only after its creation.
TodoOK(q) ==
  /\ IsList(q.todo) /\ \A st \in Items(q.todo) : StatementOK(q, st)
  /\ \A st \in Items(q.todo) : st.do = "patch" /\ st.id = 0 => q.fresh # 0 \/ Head(q.todo).do = "revise"

Given(q, e) == IF e \in DOMAIN q.gave THEN q.gave[e] ELSE {}

\* What is written differs from what is committed by what the request gave,
\* unless it was written from an older version; no entry is opened again.
DriftOK(q) ==
  \A e \in DOMAIN q.dirty :
    /\ e \notin DOMAIN row => q.dirty[e].usage = 0
    /\ e \in DOMAIN row => q.dirty[e].kind = row[e].kind /\ (q.dirty[e].current => row[e].current)
    /\ e \in DOMAIN row \ (q.stale \cup raced) =>
         /\ \A k \in DocKeys \ Given(q, e) : q.dirty[e].doc[k] = row[e].doc[k]
         /\ q.dirty[e].usage = row[e].usage + IF "usage" \in Given(q, e) THEN 1 ELSE 0

\* A compaction archives both its entries, which were current until then.
CompactOK(q) ==
  q.op = "compact" /\ q.action = "archive" /\ q.pc = "write" =>
    \A x \in {q.e, q.o} :
      \/ \E st \in Items(q.todo) : st.do = "archive" /\ st.id = x
      \/ x \in DOMAIN q.dirty \cap DOMAIN row /\ ~q.dirty[x].current /\ row[x].current

\* A lifecycle run archives what it has read as hardly used.
SweepOK(q) ==
  q.op = "lifecycle" =>
    /\ \A st \in Items(q.todo) :
         st.do \in {"patch", "archive"} /\ (st.do = "archive" => q.base[st.id].usage <= 1)
    /\ \A x \in DOMAIN q.dirty \cap DOMAIN row :
         ~q.dirty[x].current /\ row[x].current => q.base[x].usage <= 1

RequestOK(q) == AskOK(q) /\ SessionOK(q) /\ TodoOK(q) /\ DriftOK(q) /\ CompactOK(q) /\ SweepOK(q)

RequestsOK ==
  /\ req = [r \in Request |-> req[r]]
  /\ \A r \in Request : req[r] = Idle \/ RequestOK(req[r])
  /\ \A r, u \in Request : r # u => DOMAIN Dirty(r) \cap DOMAIN Dirty(u) = {}

-----------------------------------------------------------------------------
(* What is committed.                                                       *)

Stored == RowsOK(row) /\ DOMAIN told = DOMAIN row /\ DOMAIN log = DOMAIN row /\ started \in Nat

RetiredOnce ==
  /\ \A p \in retired : p[2] \in DOMAIN row /\ ~row[p[2]].current
  /\ \A p, q \in retired : p[2] = q[2] => p = q

Committed == Stored /\ UpdatesLostOnlyByOverlap /\ RetiredOnce

IInv == Committed /\ RequestsOK

-----------------------------------------------------------------------------
(* Steps of a request.                                                      *)

LEMMA SameFacts ==
  ASSUME UNCHANGED <<row, raced>>, NEW t, RequestOK(t)
  PROVE  RequestOK(t)'
<1>1. AskOK(t)' /\ SessionOK(t)'
  BY DEF RequestOK, AskOK, SessionOK, RowsOK
<1>2. TodoOK(t)'
  BY DEF RequestOK, TodoOK, StatementOK
<1>3. DriftOK(t)' /\ CompactOK(t)' /\ SweepOK(t)'
  BY DEF RequestOK, DriftOK, Given, CompactOK, SweepOK
<1> QED BY <1>1, <1>2, <1>3 DEF RequestOK

LEMMA SameCommitted ==
  ASSUME IInv, UNCHANGED <<row, told, raced, log, retired>>, started' \in Nat
  PROVE  Committed'
BY DEF IInv, Committed, Stored, RowsOK, UpdatesLostOnlyByOverlap, RetiredOnce

LEMMA RequestAt ==
  ASSUME NEW u, NEW t, t = req'[u], RequestOK(t)'
  PROVE  RequestOK(req[u])'
<1>1. AskOK(req[u])'
  BY DEF RequestOK, AskOK
<1>2. SessionOK(req[u])'
  BY DEF RequestOK, SessionOK, RowsOK
<1>3. TodoOK(req[u])'
  BY DEF RequestOK, TodoOK, StatementOK
<1>4. DriftOK(req[u])'
  BY DEF RequestOK, DriftOK, Given
<1>5. CompactOK(req[u])' /\ SweepOK(req[u])'
  BY DEF RequestOK, CompactOK, SweepOK
<1> QED BY <1>1, <1>2, <1>3, <1>4, <1>5 DEF RequestOK

\* A request that another one leaves as it is stays as it should be.
LEMMA RequestCarries ==
  ASSUME UNCHANGED <<row, raced>>, NEW u, NEW t, t = req'[u], t = Idle \/ RequestOK(t)
  PROVE  req'[u] = Idle \/ RequestOK(req[u])'
BY SameFacts, RequestAt

\* The step of one request.
LEMMA WorkKeeps ==
  ASSUME IInv, NEW r \in Request, NEW p, req' = [req EXCEPT ![r] = p],
         UNCHANGED <<row, told, raced, log, retired>>, started' \in Nat, RequestOK(p),
         \A u \in Request \ {r} : DOMAIN p.dirty \cap DOMAIN Dirty(u) = {}
  PROVE  IInv'
<1>1. RequestsOK
  BY DEF IInv
<1>2. req'[r] = p /\ req' = [u \in Request |-> req'[u]] /\ \A u \in Request \ {r} : req'[u] = req[u]
  BY <1>1 DEF RequestsOK
<1>3. ASSUME NEW u \in Request PROVE req'[u] = Idle \/ RequestOK(req[u])'
  <2>1. PICK t : t = req'[u]
    OBVIOUS
  <2>2. t = Idle \/ RequestOK(t)
    BY <1>1, <1>2, <2>1 DEF RequestsOK
  <2> QED BY <2>1, <2>2, RequestCarries
<1>4. p.pc # "idle"
  BY DEF RequestOK, SessionOK
<1>5. Dirty(r)' = p.dirty /\ \A u \in Request \ {r} : Dirty(u)' = Dirty(u)
  BY <1>2, <1>4 DEF Dirty
<1>6. \A v, u \in Request : v # u => DOMAIN Dirty(v)' \cap DOMAIN Dirty(u)' = {}
  BY <1>1, <1>5 DEF RequestsOK
<1>7. RequestsOK'
  BY <1>2, <1>3, <1>6 DEF RequestsOK
<1> QED BY <1>7, SameCommitted DEF IInv

-----------------------------------------------------------------------------
(* The plans.                                                               *)

\* A plan is about entries there are; it patches the entry created last only
\* after a revision.
SoundItem(st) ==
  /\ st.do \in {"patch", "use", "archive", "revise", "restore", "create"}
  /\ st.do \in {"use", "archive", "revise", "restore"} => st.id \in DOMAIN row
  /\ st.do = "restore" => st.source \in DOMAIN row
  /\ st.do = "patch" => st.id \in DOMAIN row \cup {0} /\ KeysOK(st.keys)
  /\ st.do = "revise" => KeysOK(st.keys) /\ st.lowest \in 0..2
  /\ st.do = "create" => st.kind \in Kinds /\ KeysOK(st.keys)

CountKeys == {"runs", "history"}

\* A request that writes no event but by leaving its account alone, and
\* creates notes only.
PlainOp(op) == op \notin {"import", "revise", "restore"}

\* A statement of such a request.
PlainItem(st) ==
  /\ st.do \notin {"revise", "restore", "match"}
  /\ st.do = "create" => st.kind = "note"
  /\ st.do = "patch" => DOMAIN st.keys \cap CountKeys = {}

Sound(op, t) ==
  /\ IsList(t)
  /\ PlainOp(op) => \A st \in Items(t) : PlainItem(st)
  /\ \A st \in Items(t) : /\ SoundItem(st) \/ (op = "import" /\ st = Match)
                          /\ st.do = "patch" => st.id # 0 \/ Head(t).do = "revise"

LEMMA StatementsAsPlanned ==
  /\ \A e \in DOMAIN row : \A keys :
       KeysOK(keys) /\ RowsOK(row) =>
         /\ SoundItem(Patch(e, keys)) /\ e # 0
         /\ \A lowest \in 0..2 : SoundItem(Revise(e, keys, lowest))
  /\ \A e \in DOMAIN row : SoundItem(Use(e)) /\ SoundItem(Archive(e)) /\ \A s \in DOMAIN row : SoundItem(Restore(e, s))
  /\ \A keys : KeysOK(keys) => SoundItem(Patch(0, keys)) /\ \A kind \in Kinds : SoundItem(Create(kind, keys))
BY DEF SoundItem, Patch, Revise, Restore, Use, Archive, Create, RowsOK, Id

\* Which statements there are, by kind.
LEMMA StatementKinds ==
  /\ \A e, keys : Patch(e, keys).do = "patch" /\ Patch(e, keys).id = e /\ Patch(e, keys).keys = keys
  /\ \A e : Use(e).do = "use" /\ Use(e).id = e
  /\ \A e : Archive(e).do = "archive" /\ Archive(e).id = e
  /\ \A e, keys, lowest : Revise(e, keys, lowest).do = "revise" /\ Revise(e, keys, lowest).id = e
  /\ \A e, s : Restore(e, s).do = "restore" /\ Restore(e, s).id = e /\ Restore(e, s).source = s
  /\ \A kind, keys : Create(kind, keys).do = "create"
  /\ Match.do = "match"
BY DEF Patch, Revise, Restore, Use, Archive, Create, Match

LEMMA PlainStatements ==
  /\ \A e, keys : DOMAIN keys \cap CountKeys = {} => PlainItem(Patch(e, keys))
  /\ \A e : PlainItem(Use(e)) /\ PlainItem(Archive(e))
  /\ \A keys : PlainItem(Create("note", keys))
BY DEF PlainItem, Patch, Use, Archive, Create

LEMMA PlainKeys ==
  /\ \A x : DOMAIN [quality |-> x] \cap CountKeys = {} /\ DOMAIN [overdue |-> x] \cap CountKeys = {}
           /\ DOMAIN [into |-> x] \cap CountKeys = {}
  /\ \A a, b, q : DOMAIN [review |-> a, overdue |-> b, quality |-> q] \cap CountKeys = {}
  /\ \A s, b, c : DOMAIN [status |-> s, pending |-> b, conflicts |-> c] \cap CountKeys = {}
  /\ \A b, c : DOMAIN [pending |-> b, conflicts |-> c] \cap CountKeys = {}
BY DEF CountKeys

LEMMA RowDoc ==
  ASSUME RowsOK(row), NEW e \in DOMAIN row
  PROVE  row[e] \in Row /\ row[e].doc \in Docs /\ KeysOK(row[e].doc) /\ DOMAIN row[e].doc = DocKeys
<1>1. row[e] \in Row /\ row[e].doc \in Docs
  BY DEF RowsOK, Row
<1> QED BY <1>1, DocByKeys

LEMMA LifecycleSound ==
  ASSUME RowsOK(row)
  PROVE  /\ Sound("lifecycle", LifecyclePlan)
         /\ \A st \in Items(LifecyclePlan) :
              st.do \in {"patch", "archive"} /\ (st.do = "archive" => row[st.id].usage <= 1)
<1> DEFINE S == DOMAIN row
           A == [e \in Decays(S) |-> Patch(e, [quality |-> Decayed(e)])]
           B == [e \in Overdue(S) |-> Patch(e, [overdue |-> TRUE])]
           C == [e \in Worthless(S) |-> Archive(e)]
<1>1. /\ S \in SUBSET Id /\ Decays(S) \in SUBSET S /\ Overdue(S) \in SUBSET S /\ Worthless(S) \in SUBSET S
  BY DEF RowsOK, Decays, Overdue, Worthless
<1>2. \A e \in S : KeysOK([quality |-> Decayed(e)])
  <2>1. \A e \in S : Decayed(e) \in 0..2
    BY RowDoc DEF Decayed, Docs
  <2> QED BY <2>1, KeyLiterals
<1>3. KeysOK([overdue |-> TRUE])
  BY KeyFlags
<1>4. /\ \A e \in Decays(S) : SoundItem(A[e]) /\ A[e].do = "patch" /\ A[e].id # 0
      /\ \A e \in Overdue(S) : SoundItem(B[e]) /\ B[e].do = "patch" /\ B[e].id # 0
      /\ \A e \in Worthless(S) : SoundItem(C[e]) /\ C[e].do = "archive" /\ row[C[e].id].usage <= 1
  <2>1. \A e \in Worthless(S) : row[e].usage <= 1
    BY DEF Worthless
  <2> QED BY <1>1, <1>2, <1>3, <2>1, StatementsAsPlanned, StatementKinds
<1>11. /\ \A e \in Decays(S) : PlainItem(A[e])
       /\ \A e \in Overdue(S) : PlainItem(B[e])
       /\ \A e \in Worthless(S) : PlainItem(C[e])
  BY PlainStatements, PlainKeys
<1>5. LifecyclePlan = Each(A) \o Each(B) \o Each(C)
  BY DEF LifecyclePlan
<1>6. /\ DOMAIN A = Decays(S) /\ DOMAIN B = Overdue(S) /\ DOMAIN C = Worthless(S)
      /\ Decays(S) \in SUBSET Id /\ Overdue(S) \in SUBSET Id /\ Worthless(S) \in SUBSET Id
  BY <1>1
<1> HIDE DEF A, B, C
<1>7. /\ IsList(Each(A)) /\ Items(Each(A)) = {A[e] : e \in Decays(S)}
      /\ IsList(Each(B)) /\ Items(Each(B)) = {B[e] : e \in Overdue(S)}
      /\ IsList(Each(C)) /\ Items(Each(C)) = {C[e] : e \in Worthless(S)}
  BY <1>6, EachItem
<1>8. IsList(Each(A) \o Each(B)) /\ Items(Each(A) \o Each(B)) = Items(Each(A)) \cup Items(Each(B))
  BY <1>7, Joined
<1>9. /\ IsList(LifecyclePlan)
      /\ Items(LifecyclePlan) = Items(Each(A)) \cup Items(Each(B)) \cup Items(Each(C))
  BY <1>5, <1>7, <1>8, Joined
<1>10. \A st \in Items(LifecyclePlan) :
         /\ SoundItem(st) /\ st.do \in {"patch", "archive"} /\ (st.do = "patch" => st.id # 0)
         /\ (st.do = "archive" => row[st.id].usage <= 1)
         /\ PlainItem(st)
  BY <1>4, <1>7, <1>9, <1>11
<1> QED BY <1>9, <1>10 DEF Sound

LEMMA ResolveSound ==
  ASSUME RowsOK(row), NEW e \in DOMAIN row, NEW o \in DOMAIN row,
         NEW action \in {"supersede", "reject_new", "keep_both", "needs_changes"}
  PROVE  Sound("resolve", ResolvePlan(e, o, action))
<1> DEFINE entry(keys) == Patch(e, keys)
           kept == [status |-> row[o].doc.status, pending |-> row[o].doc.pending, conflicts |-> row[o].doc.conflicts]
<1>1. KeysOK(kept)
  <2>1. row[o].doc.status \in Stati /\ row[o].doc.pending \in BOOLEAN /\ row[o].doc.conflicts \in SUBSET Id
    BY RowDoc DEF Docs
  <2> QED BY <2>1, KeyFlags
<1>2. /\ \A s \in Stati : KeysOK([status |-> s, pending |-> FALSE, conflicts |-> {}])
      /\ KeysOK(Settled)
      /\ KeysOK([pending |-> TRUE, conflicts |-> row[e].doc.conflicts])
  <2>1. row[e].doc.conflicts \in SUBSET Id
    BY RowDoc DEF Docs
  <2> QED BY <2>1, KeyFlags DEF Settled
<1>9. /\ PlainItem(Patch(o, kept)) /\ \A x : PlainItem(Archive(x)) /\ PlainItem(Patch(x, Settled))
      /\ \A x, s, b, c : PlainItem(Patch(x, [status |-> s, pending |-> b, conflicts |-> c]))
      /\ \A x, b, c : PlainItem(Patch(x, [pending |-> b, conflicts |-> c]))
  BY PlainStatements, PlainKeys DEF Settled
<1> HIDE DEF kept
<1>3. "active" \in Stati /\ "superseded" \in Stati /\ "rejected" \in Stati
  BY DEF Stati
<1>4. \E a, b, c : /\ ResolvePlan(e, o, action) = <<a, b, c>> \/ ResolvePlan(e, o, action) = <<a, b>>
                   /\ SoundItem(a) /\ SoundItem(b) /\ SoundItem(c)
                   /\ PlainItem(a) /\ PlainItem(b) /\ PlainItem(c)
                   /\ \A st \in {a, b, c} : st.do = "patch" => st.id # 0
  <2>1. CASE action = "supersede"
    <3>1. ResolvePlan(e, o, action) =
            <<Patch(e, [status |-> "active", pending |-> FALSE, conflicts |-> {}]),
              Patch(o, [status |-> "superseded", pending |-> FALSE, conflicts |-> {}]), Archive(o)>>
      BY <2>1 DEF ResolvePlan
    <3> QED BY <1>2, <1>3, <1>9, <3>1, StatementsAsPlanned, StatementKinds
  <2>2. CASE action = "reject_new"
    <3>1. ResolvePlan(e, o, action) =
            <<Patch(e, [status |-> "rejected", pending |-> FALSE, conflicts |-> {}]), Patch(o, kept), Archive(e)>>
      BY <2>2 DEF ResolvePlan, kept
    <3> QED BY <1>1, <1>2, <1>3, <1>9, <3>1, StatementsAsPlanned, StatementKinds
  <2>3. CASE action = "keep_both"
    <3>1. ResolvePlan(e, o, action) = <<Patch(e, Settled), Patch(o, kept)>>
      BY <2>3 DEF ResolvePlan, kept
    <3> QED BY <1>1, <1>2, <1>9, <3>1, StatementsAsPlanned, StatementKinds
  <2>4. CASE action = "needs_changes"
    <3>1. ResolvePlan(e, o, action) =
            <<Patch(e, [pending |-> TRUE, conflicts |-> row[e].doc.conflicts]), Patch(o, kept)>>
      BY <2>4 DEF ResolvePlan, kept
    <3> QED BY SMTT(30), <1>1, <1>2, <1>9, <3>1, StatementsAsPlanned, StatementKinds
  <2> QED BY <2>1, <2>2, <2>3, <2>4
<1>5. PICK t : t = ResolvePlan(e, o, action)
  OBVIOUS
<1>6. PICK a, b, c : /\ t = <<a, b, c>> \/ t = <<a, b>>
                     /\ SoundItem(a) /\ SoundItem(b) /\ SoundItem(c)
                     /\ PlainItem(a) /\ PlainItem(b) /\ PlainItem(c)
                     /\ \A st \in {a, b, c} : st.do = "patch" => st.id # 0
  BY <1>4, <1>5
<1>7. IsList(t) /\ Items(t) \subseteq {a, b, c}
  BY <1>6, TwoItems, ThreeItems
<1>8. Sound("resolve", t)
  BY <1>6, <1>7 DEF Sound
<1> QED BY <1>5, <1>8

LEMMA ReviewSound ==
  ASSUME RowsOK(row), NEW e \in DOMAIN row, NEW action \in {"approve", "archive", "needs_changes"}
  PROVE  Sound("review", ReviewPlan(e, action))
<1>1. \A b \in BOOLEAN : KeysOK([review |-> b, overdue |-> FALSE, quality |-> row[e].doc.quality])
  <2>1. row[e].doc.quality \in 0..2
    BY RowDoc DEF Docs
  <2> QED BY <2>1, KeyFlags
<1>2. PICK t : t = ReviewPlan(e, action)
  OBVIOUS
<1>3. PICK b \in BOOLEAN :
        LET a == Patch(e, [review |-> b, overdue |-> FALSE, quality |-> row[e].doc.quality])
        IN t = <<a>> \/ t = <<a, Archive(e)>>
  BY <1>2 DEF ReviewPlan
<1> DEFINE a == Patch(e, [review |-> b, overdue |-> FALSE, quality |-> row[e].doc.quality])
<1>4. SoundItem(a) /\ a.id # 0 /\ SoundItem(Archive(e)) /\ Archive(e).do = "archive"
  BY <1>1, StatementsAsPlanned, StatementKinds
<1>6. PlainItem(a) /\ PlainItem(Archive(e))
  BY PlainStatements, PlainKeys
<1>5. IsList(t) /\ Items(t) \subseteq {a, Archive(e)}
  BY <1>3, OneItem, TwoItems
<1> HIDE DEF a
<1> QED BY <1>2, <1>4, <1>5, <1>6 DEF Sound

LEMMA CompactSound ==
  ASSUME RowsOK(row), NEW e \in DOMAIN row, NEW o \in DOMAIN row, NEW archive \in BOOLEAN
  PROVE  /\ Sound("compact", CompactPlan(e, o, archive))
         /\ archive => Archive(e) \in Items(CompactPlan(e, o, archive)) /\ Archive(o) \in Items(CompactPlan(e, o, archive))
<1> DEFINE mark(x) == << Patch(x, [into |-> 0]) >> \o (IF archive THEN << Archive(x) >> ELSE << >>)
           first == << Create("note", [quality |-> 2]) >>
           good(st) == SoundItem(st) /\ (st.do = "patch" => st.id # 0) /\ PlainItem(st)
<1>1. \A x \in DOMAIN row : /\ IsList(mark(x)) /\ \A st \in Items(mark(x)) : good(st)
                            /\ archive => Archive(x) \in Items(mark(x))
  <2>1. TAKE x \in DOMAIN row
  <2> DEFINE more == IF archive THEN << Archive(x) >> ELSE << >>
  <2>2. IsList(more) /\ Items(more) = IF archive THEN {Archive(x)} ELSE {}
    BY OneItem, NoItems
  <2>3. IsList(<< Patch(x, [into |-> 0]) >>) /\ Items(<< Patch(x, [into |-> 0]) >>) = {Patch(x, [into |-> 0])}
    BY OneItem
  <2> HIDE DEF more
  <2>4. /\ IsList(<< Patch(x, [into |-> 0]) >> \o more)
        /\ Items(<< Patch(x, [into |-> 0]) >> \o more) = {Patch(x, [into |-> 0])} \cup Items(more)
    BY <2>2, <2>3, Joined
  <2>5. mark(x) = << Patch(x, [into |-> 0]) >> \o more
    BY DEF more
  <2>6. KeysOK([into |-> 0])
    BY KeyLiterals
  <2>7. good(Patch(x, [into |-> 0])) /\ good(Archive(x))
    <3>1. PlainItem(Patch(x, [into |-> 0])) /\ PlainItem(Archive(x))
      BY PlainStatements, PlainKeys
    <3> QED BY <2>6, <3>1, StatementsAsPlanned, StatementKinds
  <2> QED BY <2>2, <2>4, <2>5, <2>7
<1>2. IsList(first) /\ Items(first) = {Create("note", [quality |-> 2])}
  BY OneItem
<1>3. good(Create("note", [quality |-> 2]))
  BY KeyLiterals, PlainStatements, StatementsAsPlanned, StatementKinds DEF Kinds
<1>4. CompactPlan(e, o, archive) = first \o mark(e) \o mark(o)
  BY DEF CompactPlan
<1> HIDE DEF mark, first
<1>5. IsList(first \o mark(e)) /\ Items(first \o mark(e)) = Items(first) \cup Items(mark(e))
  BY <1>1, <1>2, Joined
<1>6. IsList(CompactPlan(e, o, archive))
      /\ Items(CompactPlan(e, o, archive)) = Items(first) \cup Items(mark(e)) \cup Items(mark(o))
  BY <1>1, <1>4, <1>5, Joined
<1> QED BY <1>1, <1>2, <1>3, <1>6 DEF Sound

LEMMA LastRunsType ==
  ASSUME NEW s \in Seq(Nat)
  PROVE  LastRuns(s) \in Seq(Nat)
<1> DEFINE m == (IF Len(s) > HistoryCap THEN Len(s) - HistoryCap ELSE 0) + 1
<1>1. Len(s) \in Nat /\ HistoryCap \in Nat /\ m \in Nat /\ m >= 1
  BY UpkeepAssumption
<1>2. SubSeq(s, m, Len(s)) \in Seq(Nat)
  BY <1>1, SubSeqProperties
<1> QED BY <1>2 DEF LastRuns

LEMMA NewestOf ==
  ASSUME NEW S \in SUBSET Id, S # {}
  PROVE  Newest(S) \in S /\ \A f \in S : f <= Newest(S)
<1>1. MaxEntries \in Nat /\ S \in SUBSET (0..MaxEntries)
  BY UpkeepAssumption DEF Id
<1>2. \E e \in S : \A f \in S : f <= e
  BY <1>1, GreatestNumber
<1> QED BY <1>2 DEF Newest

LEMMA ImportSound ==
  ASSUME RowsOK(row), NEW mode, NEW changed, NEW n \in Nat
  PROVE  Sound("import", ImportPlan(mode, changed, n))
<1>1. PICK e : e = Newest(ActiveEvents)
  OBVIOUS
<1>2. ActiveEvents # {} => e \in DOMAIN row
  BY <1>1, NewestOf DEF RowsOK, ActiveEvents
<1>3. \A doc \in Docs : KeysOK(Account(doc, n))
  <2>1. TAKE doc \in Docs
  <2>2. doc.runs + 1 \in Nat /\ Append(doc.history, n) \in Seq(Nat)
    BY DEF Docs
  <2>3. LastRuns(Append(doc.history, n)) \in Seq(Nat)
    BY <2>2, LastRunsType
  <2> QED BY <2>2, <2>3 DEF Account, KeysOK, DocKeys, FieldType
<1>4. ActiveEvents # {} => KeysOK(Carried(row[e].doc)) /\ KeysOK(Account(row[e].doc, n))
  <2>1. ASSUME ActiveEvents # {} PROVE row[e].doc \in Docs /\ row[e].doc.into \in Id \cup {0}
    BY <1>2, <2>1, RowDoc DEF Docs
  <2> QED BY <1>3, <2>1, KeyLiterals DEF Carried
<1> DEFINE create == Create("event", Account(NoDoc, n))
           patch == Patch(e, Account(row[e].doc, n))
           revise == Revise(e, Carried(row[e].doc), 0)
           new == Patch(0, Account(row[e].doc, n))
<1>5. /\ SoundItem(create) /\ create.do # "patch"
      /\ ActiveEvents # {} =>
           /\ SoundItem(patch) /\ patch.id # 0
           /\ SoundItem(revise) /\ revise.do = "revise"
           /\ SoundItem(new)
  BY <1>2, <1>3, <1>4, NoDocIsDoc, StatementsAsPlanned, StatementKinds DEF Kinds
<1>6. PICK s : s = IF mode # "update" \/ ActiveEvents = {} THEN <<create>>
                   ELSE IF changed THEN <<revise, new>> ELSE <<patch>>
  OBVIOUS
<1>7. ImportPlan(mode, changed, n) = s \o <<Match>>
  BY <1>1, <1>6 DEF ImportPlan
<1> HIDE DEF create, patch, revise, new
<1>8. /\ IsList(s) /\ s # << >>
      /\ \A st \in Items(s) : SoundItem(st) /\ (st.do = "patch" => st.id # 0 \/ Head(s).do = "revise")
  <2>1. CASE mode # "update" \/ ActiveEvents = {}
    BY <1>5, <1>6, <2>1, OneItem
  <2>2. CASE ~(mode # "update" \/ ActiveEvents = {}) /\ changed
    <3>1. s = <<revise, new>> /\ Head(s) = revise
      BY <1>6, <2>2
    <3> QED BY <1>5, <2>2, <3>1, TwoItems
  <2>3. CASE ~(mode # "update" \/ ActiveEvents = {}) /\ ~changed
    BY <1>5, <1>6, <2>3, OneItem
  <2> QED BY <2>1, <2>2, <2>3
<1>9. IsList(s \o <<Match>>) /\ Items(s \o <<Match>>) = Items(s) \cup {Match}
  BY <1>8, OneItem, Joined
<1>10. Head(s \o <<Match>>) = Head(s)
  BY <1>8 DEF IsList
<1>11. Match.do # "patch"
  BY StatementKinds
<1> QED BY <1>7, <1>8, <1>9, <1>10, <1>11 DEF Sound, PlainOp

-----------------------------------------------------------------------------
(* The steps of a request before its commit.                                *)

LEMMA Working ==
  ASSUME IInv, NEW r \in Request, req[r].pc # "idle"
  PROVE  RequestOK(req[r]) /\ Dirty(r) = req[r].dirty /\ req[r] = [x \in Fields |-> req[r][x]]
<1>1. req[r] # Idle
  BY DEF Idle
<1>2. RequestOK(req[r])
  BY <1>1 DEF IInv, RequestsOK
<1> QED BY <1>2 DEF Dirty, RequestOK, SessionOK

LEMMA OwnEntries ==
  ASSUME IInv, NEW r \in Request, req[r].pc # "idle"
  PROVE  \A u \in Request \ {r} : DOMAIN req[r].dirty \cap DOMAIN Dirty(u) = {}
BY Working DEF IInv, RequestsOK

\* What is the same before and after a step that asks for nothing new.
Same(p, q) == p.op = q.op /\ p.e = q.e /\ p.o = q.o /\ p.action = q.action /\ p.n = q.n

LEMMA AskCarries ==
  ASSUME NEW p, NEW q, Same(p, q), AskOK(q)
  PROVE  AskOK(p)
BY DEF Same, AskOK

\* A plan that is sound can be carried out from what was read.
LEMMA SoundStart ==
  ASSUME NEW p, Sound(p.op, p.todo), p.base = row
  PROVE  TodoOK(p)
BY StatementKinds DEF Sound, SoundItem, TodoOK, StatementOK

LEMMA PlanSound ==
  ASSUME IInv, NEW r \in Request, NEW q, q = req[r], q.pc = "read"
  PROVE  /\ Sound(q.op, Plan(r))
         /\ q.op = "compact" /\ q.action = "archive" => \A x \in {q.e, q.o} : Archive(x) \in Items(Plan(r))
         /\ q.op = "lifecycle" => \A st \in Items(Plan(r)) :
              st.do \in {"patch", "archive"} /\ (st.do = "archive" => row[st.id].usage <= 1)
<1>1. RowsOK(row) /\ AskOK(q) /\ q.n \in Nat
  BY Working DEF IInv, Committed, Stored, RequestOK, SessionOK
<1>2. CASE q.op = "retrieve"
  <2>1. Plan(r) = <<Use(q.e)>> /\ Items(<<Use(q.e)>>) = {Use(q.e)} /\ IsList(<<Use(q.e)>>)
    BY <1>2, OneItem DEF Plan
  <2>2. SoundItem(Use(q.e)) /\ Use(q.e).do # "patch" /\ PlainItem(Use(q.e))
    BY <1>1, <1>2, StatementsAsPlanned, StatementKinds, PlainStatements DEF AskOK
  <2> QED BY <1>2, <2>1, <2>2 DEF Sound
<1>3. CASE q.op = "lifecycle"
  <2>1. Plan(r) = LifecyclePlan
    BY <1>3 DEF Plan
  <2> QED BY <1>1, <1>3, <2>1, LifecycleSound
<1>4. CASE q.op = "resolve"
  <2>1. Plan(r) = ResolvePlan(q.e, q.o, q.action)
    BY <1>4 DEF Plan
  <2>2. /\ q.e \in DOMAIN row /\ q.o \in DOMAIN row
        /\ q.action \in {"supersede", "reject_new", "keep_both", "needs_changes"}
    BY <1>1, <1>4 DEF AskOK
  <2> QED BY <1>1, <1>4, <2>1, <2>2, ResolveSound
<1>5. CASE q.op = "review"
  <2>1. Plan(r) = ReviewPlan(q.e, q.action)
    BY <1>5 DEF Plan
  <2>2. q.e \in DOMAIN row /\ q.action \in {"approve", "archive", "needs_changes"}
    BY <1>1, <1>5 DEF AskOK
  <2> QED BY <1>1, <1>5, <2>1, <2>2, ReviewSound
<1>6. CASE q.op = "compact"
  <2>1. PICK archive \in BOOLEAN : archive <=> q.action = "archive"
    OBVIOUS
  <2>2. Plan(r) = CompactPlan(q.e, q.o, archive)
    BY <1>6, <2>1 DEF Plan
  <2>3. q.e \in DOMAIN row /\ q.o \in DOMAIN row
    BY <1>1, <1>6 DEF AskOK
  <2> QED BY <1>1, <1>6, <2>1, <2>2, <2>3, CompactSound
<1>7. CASE q.op = "import"
  <2>1. Plan(r) = ImportPlan(q.action, q.changed, q.n)
    BY <1>7 DEF Plan
  <2> QED BY <1>1, <1>7, <2>1, ImportSound
<1>8. CASE q.op = "revise"
  <2>1. Plan(r) = <<Revise(q.e, << >>, 1)>>
    BY <1>8 DEF Plan
  <2>2. SoundItem(Revise(q.e, << >>, 1)) /\ Revise(q.e, << >>, 1).do # "patch"
    BY <1>1, <1>8, KeyLiterals, StatementsAsPlanned, StatementKinds DEF AskOK
  <2> QED BY <1>8, <2>1, <2>2, OneItem DEF Sound, PlainOp
<1>10. CASE q.op = "restore"
  <2>1. Plan(r) = <<Restore(q.e, q.o)>>
    BY <1>10 DEF Plan
  <2>2. SoundItem(Restore(q.e, q.o)) /\ Restore(q.e, q.o).do # "patch"
    BY <1>1, <1>10, StatementsAsPlanned, StatementKinds DEF AskOK
  <2> QED BY <1>10, <2>1, <2>2, OneItem DEF Sound, PlainOp
<1>9. CASE q.op = "archive"
  <2>1. Plan(r) = <<Archive(q.e)>>
    BY <1>9 DEF Plan
  <2>2. SoundItem(Archive(q.e)) /\ Archive(q.e).do # "patch" /\ PlainItem(Archive(q.e))
    BY <1>1, <1>9, StatementsAsPlanned, StatementKinds, PlainStatements DEF AskOK
  <2> QED BY <1>9, <2>1, <2>2, OneItem DEF Sound
<1> QED BY <1>1, <1>2, <1>3, <1>4, <1>5, <1>6, <1>7, <1>8, <1>9, <1>10 DEF AskOK

LEMMA ReadKeeps == ASSUME IInv, NEW r \in Request, Read(r) PROVE IInv'
<1>1. PICK q : q = req[r]
  OBVIOUS
<1>2. PICK t : t = Plan(r)
  OBVIOUS
<1> DEFINE p == [q EXCEPT !.pc = "write", !.base = row, !.known = DOMAIN row, !.todo = t]
<1>3. /\ q.pc = "read" /\ req' = [req EXCEPT ![r] = p]
      /\ UNCHANGED <<row, started, told, raced, log, retired>>
  BY <1>1, <1>2 DEF Read, IInv, RequestsOK
<1>4. RequestOK(q) /\ q = [x \in Fields |-> q[x]] /\ RowsOK(row) /\ started \in Nat
  BY <1>1, <1>3, Working DEF IInv, Committed, Stored
<1>5. /\ p = [x \in Fields |-> p[x]] /\ p.pc = "write" /\ p.base = row /\ p.todo = t /\ Same(p, q)
      /\ p.dirty = q.dirty /\ p.gave = q.gave /\ p.fresh = q.fresh /\ p.stale = q.stale
  BY <1>4 DEF Fields, Same
<1> HIDE DEF p
<1>6. /\ Sound(q.op, t)
      /\ q.op = "compact" /\ q.action = "archive" => \A x \in {q.e, q.o} : Archive(x) \in Items(t)
      /\ q.op = "lifecycle" => \A st \in Items(t) :
           st.do \in {"patch", "archive"} /\ (st.do = "archive" => row[st.id].usage <= 1)
  BY <1>1, <1>2, <1>3, PlanSound
<1>7. AskOK(p)
  BY <1>4, <1>5, AskCarries DEF RequestOK
<1>8. SessionOK(p)
  BY <1>4, <1>5 DEF RequestOK, SessionOK, Same
<1>9. TodoOK(p)
  BY <1>5, <1>6, SoundStart DEF Same
<1>10. DOMAIN q.dirty = {}
  BY <1>3, <1>4 DEF RequestOK, SessionOK
<1>11. DriftOK(p)
  BY <1>5, <1>10 DEF DriftOK
<1>12. CompactOK(p)
  BY <1>5, <1>6, StatementKinds DEF CompactOK, Same
<1>13. SweepOK(p)
  BY <1>5, <1>6, <1>10 DEF SweepOK, Same
<1>14. RequestOK(p)
  BY <1>7, <1>8, <1>9, <1>11, <1>12, <1>13 DEF RequestOK
<1> QED BY <1>3, <1>4, <1>5, <1>10, <1>14, WorkKeeps

LEMMA CommandsAsked ==
  ASSUME NEW c \in Commands
  PROVE  AskOK(c)
<1> DEFINE D == DOMAIN row
           Decisions == {e \in D : row[e].kind = "decision"}
           AskedOn(op, e, o, action) == c.op = op /\ c.e = e /\ c.o = o /\ c.action = action
<1>1. \A op, e, o, action : c = Do(op, e, o, action) => AskedOn(op, e, o, action)
  BY DEF Do
<1> DEFINE Pairs == {x \in Decisions \X Decisions : x[1] # x[2]}
           Others == {x \in D \X D : x[1] # x[2]}
           Retrieving == {Do("retrieve", e, e, "none") : e \in {x \in D : row[x].current}}
           Resolving == {Do("resolve", p[1], p[2], a) :
                           p \in Pairs, a \in {"supersede", "reject_new", "keep_both", "needs_changes"}}
           Reviewing == {Do("review", e, e, a) : e \in D, a \in {"approve", "archive", "needs_changes"}}
           Compacting == {Do("compact", p[1], p[2], a) : p \in Others, a \in {"archive", "keep"}}
           Touching == {Do(op, e, e, "none") : e \in D, op \in {"revise", "archive"}}
           Kin == {x \in D \X D : row[x[1]].root = row[x[2]].root}
           Restoring == {Do("restore", p[1], p[2], "none") : p \in Kin}
<1>8. Commands = Retrieving \cup {Do("lifecycle", 1, 1, "none")} \cup Resolving \cup Reviewing \cup Compacting
                   \cup Imports \cup Touching \cup Restoring
  BY DEF Commands
<1>9. c \in Retrieving => \E e \in D : c = Do("retrieve", e, e, "none")
  OBVIOUS
<1>13. c \in Touching => \E op \in {"revise", "archive"}, e \in D : c = Do(op, e, e, "none")
  OBVIOUS
<1>10. c \in Reviewing => \E e \in D, a \in {"approve", "archive", "needs_changes"} : c = Do("review", e, e, a)
  OBVIOUS
<1>11. c \in Resolving =>
         \E x \in Decisions \X Decisions, a \in {"supersede", "reject_new", "keep_both", "needs_changes"} :
           c = Do("resolve", x[1], x[2], a)
  <2>1. Pairs \subseteq Decisions \X Decisions
    OBVIOUS
  <2> HIDE DEF Pairs, Decisions
  <2> QED BY <2>1
<1>12. c \in Compacting => \E x \in D \X D, a \in {"archive", "keep"} : c = Do("compact", x[1], x[2], a)
  <2>1. Others \subseteq D \X D
    OBVIOUS
  <2> HIDE DEF Others
  <2> QED BY <2>1
<1>14. c \in Restoring => \E x \in D \X D : c = Do("restore", x[1], x[2], "none")
  <2>1. Kin \subseteq D \X D
    OBVIOUS
  <2> HIDE DEF Kin
  <2> QED BY <2>1
<1> HIDE DEF Retrieving, Resolving, Reviewing, Compacting, Touching, Restoring
<1>2. \/ \E e \in D : c = Do("retrieve", e, e, "none")
      \/ c = Do("lifecycle", 1, 1, "none")
      \/ \E x \in Decisions \X Decisions, a \in {"supersede", "reject_new", "keep_both", "needs_changes"} :
           c = Do("resolve", x[1], x[2], a)
      \/ \E e \in D, a \in {"approve", "archive", "needs_changes"} : c = Do("review", e, e, a)
      \/ \E x \in D \X D, a \in {"archive", "keep"} : c = Do("compact", x[1], x[2], a)
      \/ c \in Imports
      \/ \E op \in {"revise", "archive"}, e \in D : c = Do(op, e, e, "none")
      \/ \E x \in D \X D : c = Do("restore", x[1], x[2], "none")
  <2> HIDE DEF D, Decisions
  <2>1. c \in Retrieving \/ c = Do("lifecycle", 1, 1, "none") \/ c \in Resolving \/ c \in Reviewing
        \/ c \in Compacting \/ c \in Imports \/ c \in Touching \/ c \in Restoring
    BY <1>8
  <2> QED BY <2>1, <1>9, <1>13, <1>10, <1>11, <1>12, <1>14
<1>3. CASE c \in Imports
  <2>1. PICK m \in Modes, b \in BOOLEAN : c = [Do("import", 1, 1, m) EXCEPT !.changed = b]
    BY <1>3 DEF Imports
  <2>2. c.op = "import" /\ c.action = m
    BY <2>1 DEF Do
  <2> QED BY <2>2 DEF AskOK
<1>4. CASE \E x \in Decisions \X Decisions, a \in {"supersede", "reject_new", "keep_both", "needs_changes"} :
              c = Do("resolve", x[1], x[2], a)
  <2>1. PICK x \in Decisions \X Decisions, a \in {"supersede", "reject_new", "keep_both", "needs_changes"} :
          AskedOn("resolve", x[1], x[2], a)
    BY <1>1, <1>4
  <2>2. x[1] \in D /\ x[2] \in D
    OBVIOUS
  <2> QED BY <2>1, <2>2 DEF AskOK
<1>5. CASE \E x \in D \X D, a \in {"archive", "keep"} : c = Do("compact", x[1], x[2], a)
  <2>1. PICK x \in D \X D, a \in {"archive", "keep"} : AskedOn("compact", x[1], x[2], a)
    BY <1>1, <1>5
  <2>2. x[1] \in D /\ x[2] \in D
    OBVIOUS
  <2> QED BY <2>1, <2>2 DEF AskOK
<1>6. CASE \E e \in D, a \in {"approve", "archive", "needs_changes"} : c = Do("review", e, e, a)
  <2>1. PICK e \in D, a \in {"approve", "archive", "needs_changes"} : AskedOn("review", e, e, a)
    BY <1>1, <1>6
  <2> QED BY <2>1 DEF AskOK
<1>7. CASE \/ c = Do("lifecycle", 1, 1, "none")
           \/ \E op \in {"retrieve", "revise", "archive"}, e \in D : c = Do(op, e, e, "none")
  <2>1. \/ AskedOn("lifecycle", 1, 1, "none")
        \/ \E op \in {"retrieve", "revise", "archive"}, e \in D : AskedOn(op, e, e, "none")
    BY <1>1, <1>7
  <2> QED BY <2>1 DEF AskOK
<1>15. CASE \E x \in D \X D : c = Do("restore", x[1], x[2], "none")
  <2>1. PICK x \in D \X D : AskedOn("restore", x[1], x[2], "none")
    BY <1>1, <1>15
  <2>2. x[1] \in D /\ x[2] \in D
    OBVIOUS
  <2> QED BY <2>1, <2>2 DEF AskOK
<1> QED BY <1>2, <1>3, <1>4, <1>5, <1>6, <1>7, <1>15

LEMMA BeginKeeps == ASSUME IInv, NEW r \in Request, Begin(r) PROVE IInv'
<1>1. PICK c \in Commands :
        req' = [req EXCEPT ![r] =
                [pc |-> "read", op |-> c.op, e |-> c.e, o |-> c.o, action |-> c.action,
                 changed |-> c.changed, n |-> started + 1, known |-> {},
                 base |-> << >>, dirty |-> << >>, todo |-> << >>, fresh |-> 0,
                 gave |-> << >>, stale |-> {}, born |-> {}, heard |-> << >>]]
  BY DEF Begin
<1> DEFINE p == [pc |-> "read", op |-> c.op, e |-> c.e, o |-> c.o, action |-> c.action,
                 changed |-> c.changed, n |-> started + 1, known |-> {},
                 base |-> << >>, dirty |-> << >>, todo |-> << >>, fresh |-> 0,
                 gave |-> << >>, stale |-> {}, born |-> {}, heard |-> << >>]
<1>2. started \in Nat /\ started' = started + 1 /\ started' \in Nat /\ UNCHANGED <<row, told, raced, log, retired>>
  BY DEF Begin, IInv, Committed, Stored
<1>3. /\ p.pc = "read" /\ p.base = << >> /\ p.todo = << >>
      /\ p.dirty = << >> /\ p.gave = << >> /\ p.fresh = 0 /\ p.n \in Nat
      /\ p.op = c.op /\ p.e = c.e /\ p.o = c.o /\ p.action = c.action
      /\ DOMAIN << >> = {}
  BY <1>2
<1>11. p = [x \in Fields |-> p[x]]
  BY DEF Fields
<1>4. req' = [req EXCEPT ![r] = p]
  BY <1>1
<1> HIDE DEF p
<1>5. AskOK(p)
  BY <1>3, CommandsAsked DEF AskOK
<1>6. SessionOK(p)
  BY <1>3, <1>11 DEF SessionOK, RowsOK
<1>7. TodoOK(p)
  BY <1>3, NoItems DEF TodoOK
<1>8. DriftOK(p) /\ CompactOK(p)
  BY <1>3 DEF DriftOK, CompactOK
<1>9. SweepOK(p)
  BY <1>3, NoItems DEF SweepOK
<1>10. RequestOK(p)
  BY <1>5, <1>6, <1>7, <1>8, <1>9 DEF RequestOK
<1>12. \A u \in Request \ {r} : DOMAIN p.dirty \cap DOMAIN Dirty(u) = {}
  BY <1>3
<1> QED BY <1>2, <1>4, <1>10, <1>12, WorkKeeps

\* The part of DriftOK about one entry.
DriftRow(q, e) ==
  /\ e \notin DOMAIN row => q.dirty[e].usage = 0
  /\ e \in DOMAIN row => q.dirty[e].kind = row[e].kind /\ (q.dirty[e].current => row[e].current)
  /\ e \in DOMAIN row \ (q.stale \cup raced) =>
       /\ \A k \in DocKeys \ Given(q, e) : q.dirty[e].doc[k] = row[e].doc[k]
       /\ q.dirty[e].usage = row[e].usage + IF "usage" \in Given(q, e) THEN 1 ELSE 0

LEMMA DriftByRow == ASSUME NEW q PROVE DriftOK(q) <=> \A e \in DOMAIN q.dirty : DriftRow(q, e)
BY DEF DriftOK, DriftRow

\* A statement of r, the first of its plan, writes the entries W.
Writes(r, q, p, W) ==
  /\ p = [x \in Fields |-> p[x]] /\ p.pc = "write" /\ Same(p, q) /\ p.base = q.base /\ p.todo = Tail(q.todo)
  /\ DOMAIN p.dirty = DOMAIN q.dirty \cup W
  /\ \A x \in W : x \in Id /\ p.dirty[x] \in Row /\ DriftRow(p, x)
  /\ \A x \in W, u \in Request \ {r} : x \notin DOMAIN Dirty(u)
  /\ \A x \in DOMAIN q.dirty \ W : p.dirty[x] = q.dirty[x] /\ Given(p, x) = Given(q, x)
  /\ DOMAIN p.gave \subseteq DOMAIN p.dirty /\ q.stale \subseteq p.stale
  /\ \/ p.fresh = q.fresh /\ Head(q.todo).do # "revise"
     \/ p.fresh \in W
  /\ Head(q.todo).do = "archive" =>
       /\ Head(q.todo).id \in W \cap DOMAIN row
       /\ ~p.dirty[Head(q.todo).id].current /\ row[Head(q.todo).id].current
  /\ \A x \in W \cap DOMAIN q.dirty : ~q.dirty[x].current => ~p.dirty[x].current
  /\ \A x \in W \cap DOMAIN row : q.op = "lifecycle" /\ ~p.dirty[x].current /\ row[x].current =>
       \/ Head(q.todo).do = "archive" /\ x = Head(q.todo).id
       \/ x \in DOMAIN q.dirty /\ ~q.dirty[x].current

LEMMA WriteKeeps ==
  ASSUME IInv, NEW r \in Request, NEW q, q = req[r], q.pc = "write", q.todo # << >>, NEW p, NEW W,
         Writes(r, q, p, W), req' = [req EXCEPT ![r] = p],
         UNCHANGED <<row, started, told, raced, log, retired>>
  PROVE  IInv'
<1>1. RequestOK(q) /\ started \in Nat
  BY Working DEF IInv, Committed, Stored
<1>2. PICK h : h = Head(q.todo)
  OBVIOUS
<1>3. /\ IsList(q.todo) /\ p.todo = Tail(q.todo) /\ IsList(p.todo)
      /\ h \in Items(q.todo) /\ Items(q.todo) = {h} \cup Items(p.todo)
  BY <1>1, <1>2, OneLess DEF RequestOK, TodoOK, Writes
<1>4. AskOK(p)
  BY <1>1, AskCarries DEF RequestOK, Writes
<1>5. 0 \notin Id
  BY DEF Id
<1>6. SessionOK(p)
  <2>1. RowsOK(p.dirty)
    BY ZenonT(60), <1>1 DEF RequestOK, SessionOK, RowsOK, Writes
  <2>2. p.fresh \in DOMAIN p.dirty \cup {0} /\ p.n \in Nat
    BY ZenonT(60), <1>1 DEF RequestOK, SessionOK, Writes, Same
  <2>3. RowsOK(p.base) /\ DOMAIN p.base \subseteq DOMAIN row
    BY <1>1 DEF RequestOK, SessionOK, Writes
  <2> QED BY <2>1, <2>2, <2>3 DEF SessionOK, Writes
<1>7. TodoOK(p)
  <2>1. \A st \in Items(p.todo) : StatementOK(p, st)
    BY <1>1, <1>3 DEF RequestOK, TodoOK, StatementOK, Writes, Same
  <2>2. p.fresh # 0 \/ (p.fresh = q.fresh /\ h.do # "revise")
    BY <1>2, <1>5 DEF Writes
  <2>3. \A st \in Items(p.todo) : st.do = "patch" /\ st.id = 0 => q.fresh # 0 \/ h.do = "revise"
    BY <1>1, <1>2, <1>3 DEF RequestOK, TodoOK
  <2> QED BY SMTT(30), <1>3, <2>1, <2>2, <2>3 DEF TodoOK
<1>8. DriftOK(p)
  <2>1. ASSUME NEW e \in DOMAIN q.dirty \ W PROVE DriftRow(p, e)
    <3>1. DriftRow(q, e)
      BY <1>1, DriftByRow DEF RequestOK
    <3>2. p.dirty[e] = q.dirty[e] /\ Given(p, e) = Given(q, e) /\ q.stale \subseteq p.stale
      BY DEF Writes
    <3> QED BY <3>1, <3>2 DEF DriftRow
  <2>2. \A e \in DOMAIN p.dirty : DriftRow(p, e)
    BY <2>1 DEF Writes
  <2> QED BY <2>2, DriftByRow
<1>9. CompactOK(p)
  <2>1. SUFFICES ASSUME q.op = "compact", q.action = "archive", NEW x \in {q.e, q.o}
                 PROVE  \/ \E st \in Items(p.todo) : st.do = "archive" /\ st.id = x
                        \/ x \in DOMAIN p.dirty \cap DOMAIN row /\ ~p.dirty[x].current /\ row[x].current
    <3>1. p.pc = "write" /\ p.op = q.op /\ p.action = q.action /\ p.e = q.e /\ p.o = q.o
      BY DEF Writes, Same
    <3> QED BY SMTT(30), <3>1 DEF CompactOK
  <2>2. \/ \E st \in Items(q.todo) : st.do = "archive" /\ st.id = x
        \/ x \in DOMAIN q.dirty \cap DOMAIN row /\ ~q.dirty[x].current /\ row[x].current
    BY <1>1, <2>1 DEF RequestOK, CompactOK
  <2>3. CASE h.do = "archive" /\ h.id = x
    BY <1>2, <2>3 DEF Writes
  <2>4. CASE x \in DOMAIN q.dirty \cap DOMAIN row /\ ~q.dirty[x].current /\ row[x].current
    BY <2>4 DEF Writes
  <2> QED BY <1>3, <2>2, <2>3, <2>4
<1>10. SweepOK(p)
  <2>1. SUFFICES ASSUME q.op = "lifecycle" PROVE SweepOK(p)
    BY SMTT(30) DEF SweepOK, Writes, Same
  <2>2. \A st \in Items(q.todo) :
          st.do \in {"patch", "archive"} /\ (st.do = "archive" => q.base[st.id].usage <= 1)
    BY <1>1, <2>1 DEF RequestOK, SweepOK
  <2>3. ASSUME NEW x \in DOMAIN p.dirty \cap DOMAIN row, ~p.dirty[x].current, row[x].current
        PROVE  p.base[x].usage <= 1
    <3>1. p.base = q.base
      BY DEF Writes
    <3>2. CASE x \in DOMAIN q.dirty /\ ~q.dirty[x].current
      BY <1>1, <2>1, <2>3, <3>1, <3>2 DEF RequestOK, SweepOK
    <3>3. CASE x \in DOMAIN q.dirty \ W
      BY <2>3, <3>2, <3>3 DEF Writes
    <3>4. CASE x \in W
      <4>1. (h.do = "archive" /\ x = h.id) \/ (x \in DOMAIN q.dirty /\ ~q.dirty[x].current)
        BY <1>2, <2>1, <2>3, <3>4 DEF Writes
      <4> QED BY <1>3, <2>2, <3>1, <3>2, <4>1
    <3> QED BY <2>3, <3>3, <3>4 DEF Writes
  <2> QED BY <1>3, <2>2, <2>3 DEF SweepOK, Writes
<1>11. RequestOK(p)
  BY <1>4, <1>6, <1>7, <1>8, <1>9, <1>10 DEF RequestOK
<1>12. \A u \in Request \ {r} : DOMAIN p.dirty \cap DOMAIN Dirty(u) = {}
  BY OwnEntries DEF Writes
<1> QED BY <1>1, <1>11, <1>12, WorkKeeps

LEMMA LatestIs ==
  ASSUME IInv, NEW r \in Request, NEW q, q = req[r], q.pc = "write", NEW e \in DOMAIN row \cup DOMAIN q.dirty
  PROVE  /\ Latest(r, e) = IF e \in DOMAIN q.dirty THEN q.dirty[e] ELSE row[e]
         /\ Latest(r, e) \in Row /\ e \in Id
         /\ e \in DOMAIN row =>
              Latest(r, e).kind = row[e].kind /\ (Latest(r, e).current => row[e].current)
         /\ e \in DOMAIN row \ (q.stale \cup raced) =>
              /\ \A k \in DocKeys \ Given(q, e) : Latest(r, e).doc[k] = row[e].doc[k]
              /\ Latest(r, e).usage = row[e].usage + IF "usage" \in Given(q, e) THEN 1 ELSE 0
         /\ e \notin DOMAIN row => Latest(r, e).usage = 0
<1>1. RequestOK(q) /\ Dirty(r) = q.dirty /\ RowsOK(row) /\ RowsOK(q.dirty) /\ DOMAIN q.gave \subseteq DOMAIN q.dirty
  BY Working DEF IInv, Committed, Stored, RequestOK, SessionOK
<1>2. Latest(r, e) = IF e \in DOMAIN q.dirty THEN q.dirty[e] ELSE row[e]
  BY <1>1 DEF Latest
<1>3. Latest(r, e) \in Row /\ e \in Id
  BY <1>1, <1>2 DEF RowsOK
<1>4. CASE e \in DOMAIN q.dirty
  <2>1. DriftRow(q, e)
    BY <1>1, <1>4, DriftByRow DEF RequestOK
  <2> QED BY <1>2, <1>3, <1>4, <2>1 DEF DriftRow
<1>5. CASE e \notin DOMAIN q.dirty
  <2>1. Given(q, e) = {}
    BY <1>1, <1>5 DEF Given
  <2>2. row[e].usage \in Nat
    BY <1>2, <1>3, <1>5 DEF Row
  <2> QED BY <1>2, <1>3, <1>5, <2>1, <2>2
<1> QED BY <1>4, <1>5

\* What was given grows by these keys of e.
Grew(p, q, e, keys) ==
  /\ DOMAIN p.gave = DOMAIN q.gave \cup {e}
  /\ Given(p, e) = keys \cup Given(q, e)
  /\ \A x : x # e => Given(p, x) = Given(q, x)

LEMMA GivenIs ==
  ASSUME NEW r, NEW q, q = req[r], NEW e, NEW keys, NEW p, p.gave = Gave(r, e, keys)
  PROVE  Grew(p, q, e, keys)
<1>1. p.gave = Put(q.gave, e, keys \cup Given(q, e))
  BY DEF Gave, Given
<1>2. PICK given : given = keys \cup Given(q, e)
  OBVIOUS
<1>3. /\ DOMAIN p.gave = DOMAIN q.gave \cup {e} /\ p.gave[e] = given
      /\ \A x \in DOMAIN q.gave \ {e} : p.gave[x] = q.gave[x]
  BY <1>1, <1>2 DEF Put
<1>4. Given(p, e) = given
  BY <1>3 DEF Given
<1>5. \A x : x # e => Given(p, x) = Given(q, x)
  BY <1>3 DEF Given
<1> QED BY <1>2, <1>3, <1>4, <1>5 DEF Grew

LEMMA ToDo ==
  ASSUME IInv, NEW r \in Request, NEW q, q = req[r], q.pc = "write", q.todo # << >>
  PROVE  /\ RequestOK(q) /\ q = [x \in Fields |-> q[x]] /\ Dirty(r) = q.dirty
         /\ StatementOK(q, Head(q.todo)) /\ Head(q.todo) \in Items(q.todo)
<1>1. RequestOK(q) /\ q = [x \in Fields |-> q[x]] /\ Dirty(r) = q.dirty
  BY Working
<1>2. Head(q.todo) \in Items(q.todo)
  BY <1>1, OneLess DEF RequestOK, TodoOK
<1> QED BY <1>1, <1>2 DEF RequestOK, TodoOK

LEMMA Alone ==
  ASSUME NEW r \in Request, NEW e, ~Locked(r, e)
  PROVE  \A u \in Request \ {r} : e \notin DOMAIN Dirty(u)
BY DEF Locked

\* The latest version the request sees of an entry.
LatestOf(q, e) == IF e \in DOMAIN q.dirty THEN q.dirty[e] ELSE row[e]

Shares(p, q) == p.known = q.known /\ p.born = q.born

\* What the statements make of the request q, beside what they write.
PatchStep(q, p, e, keys) ==
  /\ e = (IF Head(q.todo).id = 0 THEN q.fresh ELSE Head(q.todo).id) /\ e \in DOMAIN row \cup DOMAIN q.dirty
  /\ keys = IF "into" \in DOMAIN Head(q.todo).keys THEN [into |-> q.fresh] ELSE Head(q.todo).keys
  /\ p.dirty[e].kind = LatestOf(q, e).kind /\ p.dirty[e].current = LatestOf(q, e).current
  /\ \A k \in DocKeys : p.dirty[e].doc[k] =
       IF k \in DOMAIN keys THEN keys[k]
       ELSE IF e \in DOMAIN q.base \ DOMAIN q.dirty THEN q.base[e].doc[k] ELSE LatestOf(q, e).doc[k]
  /\ p.stale = IF e \in DOMAIN row /\ row[e] # q.base[e] THEN q.stale \cup {e} ELSE q.stale
  /\ p.fresh = q.fresh /\ Shares(p, q) /\ Grew(p, q, e, DOMAIN keys)

UseStep(q, p, e) ==
  /\ e \in DOMAIN row
  /\ p.stale \subseteq q.stale \cup {e} /\ Shares(p, q) /\ Grew(p, q, e, {"usage"})

ArchiveStep(q, p, e) == e \in DOMAIN row /\ p.gave = q.gave /\ p.stale = q.stale /\ Shares(p, q)

ReviseStep(q, p, e, f) ==
  /\ e = Head(q.todo).id /\ e \in DOMAIN row \cup DOMAIN q.dirty /\ f \notin DOMAIN row \cup DOMAIN q.dirty
  /\ LatestOf(q, e).current /\ ~p.dirty[e].current /\ p.dirty[f].current /\ p.dirty[e].doc = LatestOf(q, e).doc
  /\ p.dirty[e].kind = LatestOf(q, e).kind /\ p.dirty[f].kind = LatestOf(q, e).kind
  /\ \A k \in CountKeys : p.dirty[f].doc[k] =
       IF k \in DOMAIN Head(q.todo).keys THEN Head(q.todo).keys[k] ELSE LatestOf(q, e).doc[k]
  /\ p.stale = IF e \in raced \/ row[e] # q.base[e] THEN q.stale \cup {f} ELSE q.stale
  /\ p.fresh = f /\ p.gave = q.gave /\ Shares(p, q)

RestoreStep(q, p, e, l, s, f) ==
  /\ e = Head(q.todo).id /\ s = Head(q.todo).source /\ s \in DOMAIN q.base
  /\ {e, l} \subseteq DOMAIN row \cup DOMAIN q.dirty /\ f \notin DOMAIN row \cup DOMAIN q.dirty
  /\ ~p.dirty[l].current /\ p.dirty[f].current
  /\ \A x \in {e, l} : p.dirty[x].kind = p.dirty[f].kind /\ p.dirty[x].doc = LatestOf(q, x).doc
  /\ p.dirty[f].kind = LatestOf(q, s).kind
  /\ p.dirty[f].doc = IF s \in {e, l} THEN LatestOf(q, s).doc ELSE q.base[s].doc
  /\ p.stale = (IF s \in raced \/ row[s] # q.base[s] THEN q.stale \cup {f} ELSE q.stale)
  /\ p.born = (IF LatestOf(q, l).current THEN q.born ELSE q.born \cup {p.dirty[f].kind})
  /\ p.fresh = f /\ p.gave = q.gave /\ p.known = q.known /\ p.heard = log[s]

CreateStep(q, p, f) ==
  /\ f \notin DOMAIN row \cup DOMAIN q.dirty /\ p.dirty[f].current /\ p.dirty[f].kind = Head(q.todo).kind
  /\ \A k \in CountKeys : p.dirty[f].doc[k] =
       IF k \in DOMAIN Head(q.todo).keys THEN Head(q.todo).keys[k] ELSE NoDoc[k]
  /\ p.stale = q.stale /\ p.gave = q.gave /\ p.known = q.known /\ p.born = q.born \cup {Head(q.todo).kind}

LEMMA PatchDoes ==
  ASSUME IInv, NEW r \in Request, NEW q, q = req[r], PatchEntry(r)
  PROVE  \E p, e, keys :
           /\ req' = [req EXCEPT ![r] = p] /\ UNCHANGED <<row, started, told, raced, log, retired, twins>>
           /\ q.pc = "write" /\ q.todo # << >> /\ Head(q.todo).do = "patch"
           /\ Writes(r, q, p, {e}) /\ PatchStep(q, p, e, keys)
<1>1. q = req[r]
  OBVIOUS
<1>2. PICK h : h = Head(q.todo)
  OBVIOUS
<1>3. q.pc = "write" /\ q.todo # << >> /\ h.do = "patch"
  BY <1>1, <1>2 DEF PatchEntry, Doing, Now
<1>4. PICK e : e = Target(r, h.id)
  OBVIOUS
<1>5. PICK keys : keys = IF "into" \in DOMAIN h.keys THEN [into |-> q.fresh] ELSE h.keys
  OBVIOUS
<1>6. PICK v : v = [Latest(r, e) EXCEPT !.doc = Written(r, e, keys)]
  OBVIOUS
<1>7. PICK d : d = Put(q.dirty, e, v)
  OBVIOUS
<1>8. PICK g : g = Gave(r, e, DOMAIN keys)
  OBVIOUS
<1>9. PICK s : s = IF e \in DOMAIN row /\ row[e] # q.base[e] THEN q.stale \cup {e} ELSE q.stale
  OBVIOUS
<1>10. /\ RequestOK(q) /\ q = [x \in Fields |-> q[x]] /\ Dirty(r) = q.dirty
       /\ StatementOK(q, h) /\ h \in Items(q.todo) /\ req = [u \in Request |-> req[u]]
  BY <1>1, <1>2, <1>3, ToDo DEF IInv, RequestsOK
<1> DEFINE p == [q EXCEPT !.todo = Tail(q.todo), !.dirty = d, !.gave = g, !.stale = s]
<1>11. /\ ~Locked(r, e) /\ req' = [req EXCEPT ![r] = p]
       /\ UNCHANGED <<row, started, told, raced, log, retired, twins>>
  BY SMT, ZenonT(60), <1>1, <1>2, <1>4, <1>5, <1>6, <1>7, <1>8, <1>9, <1>10 DEF PatchEntry, Now, Rest
<1>12. /\ p = [x \in Fields |-> p[x]] /\ p.pc = "write" /\ Same(p, q) /\ p.base = q.base /\ p.todo = Tail(q.todo)
       /\ p.dirty = d /\ p.gave = g /\ p.stale = s /\ p.fresh = q.fresh
       /\ p.known = q.known /\ p.born = q.born
  BY <1>3, <1>10 DEF Fields, Same
<1> HIDE DEF p
<1>13. e \in DOMAIN row \cup DOMAIN q.dirty /\ q.fresh \in Id \cup {0}
  <2>1. h.id \in DOMAIN q.base \cup {0} /\ (h.id = 0 => q.fresh # 0)
    BY <1>2, <1>3, <1>10 DEF StatementOK, RequestOK, TodoOK
  <2>2. DOMAIN q.base \subseteq DOMAIN row /\ q.fresh \in DOMAIN q.dirty \cup {0} /\ DOMAIN q.dirty \subseteq Id
    BY <1>10 DEF RequestOK, SessionOK, RowsOK
  <2>3. e = IF h.id = 0 THEN q.fresh ELSE h.id
    BY <1>1, <1>4 DEF Target
  <2> QED BY <2>1, <2>2, <2>3
<1>14. KeysOK(keys) /\ "usage" \notin DOMAIN keys
  <2>1. KeysOK(h.keys)
    BY <1>3, <1>10 DEF StatementOK
  <2>2. KeysOK(keys)
    BY <1>5, <1>13, <2>1, KeyLiterals
  <2> QED BY <2>2 DEF KeysOK, DocKeys
<1>15. PICK l : l = Latest(r, e)
  OBVIOUS
<1>16. /\ l = (IF e \in DOMAIN q.dirty THEN q.dirty[e] ELSE row[e]) /\ l \in Row /\ e \in Id
       /\ e \in DOMAIN row => l.kind = row[e].kind /\ (l.current => row[e].current)
       /\ e \in DOMAIN row \ (q.stale \cup raced) =>
            /\ \A k \in DocKeys \ Given(q, e) : l.doc[k] = row[e].doc[k]
            /\ l.usage = row[e].usage + IF "usage" \in Given(q, e) THEN 1 ELSE 0
       /\ e \notin DOMAIN row => l.usage = 0
  BY <1>1, <1>3, <1>13, <1>15, LatestIs
<1>17. PICK c : c = Session(r, e)
  OBVIOUS
<1>18. c \in Docs /\ (e \in DOMAIN row \ s => c = l.doc) /\ (e \notin DOMAIN row => c = l.doc)
  <2>1. c = IF e \in DOMAIN q.base /\ e \notin DOMAIN q.dirty THEN q.base[e].doc ELSE l.doc
    BY <1>1, <1>15, <1>17 DEF Session
  <2>2. RowsOK(q.base) /\ DOMAIN q.base \subseteq DOMAIN row
    BY <1>10 DEF RequestOK, SessionOK
  <2>3. c \in Docs
    BY <1>16, <2>1, <2>2 DEF RowsOK, Row
  <2>4. e \in DOMAIN row \ s => q.base[e] = row[e]
    BY <1>9
  <2> QED BY <1>16, <2>1, <2>2, <2>3, <2>4
<1>19. PICK w : w = Patched(c, keys)
  OBVIOUS
<1>20. w \in Docs /\ \A k \in DocKeys : w[k] = IF k \in DOMAIN keys THEN keys[k] ELSE c[k]
  BY <1>14, <1>18, <1>19, PatchedDoc
<1>21. v = [l EXCEPT !.doc = w]
  BY <1>6, <1>15, <1>17, <1>19 DEF Written
<1>22. v \in Row /\ v.doc = w /\ v.kind = l.kind /\ v.current = l.current /\ v.usage = l.usage
  BY <1>16, <1>20, <1>21 DEF Row
<1>23. /\ DOMAIN p.gave = DOMAIN q.gave \cup {e} /\ Given(p, e) = DOMAIN keys \cup Given(q, e)
       /\ \A x : x # e => Given(p, x) = Given(q, x)
  <2>1. p.gave = Gave(r, e, DOMAIN keys)
    BY <1>8, <1>12
  <2>2. Grew(p, q, e, DOMAIN keys)
    BY <1>1, <2>1, GivenIs
  <2> QED BY <2>2 DEF Grew
<1>24. /\ DOMAIN p.dirty = DOMAIN q.dirty \cup {e} /\ p.dirty[e] = v
       /\ \A x \in DOMAIN q.dirty \ {e} : p.dirty[x] = q.dirty[x]
  <2>1. DOMAIN d = DOMAIN q.dirty \cup {e} /\ d[e] = v /\ \A x \in DOMAIN q.dirty \ {e} : d[x] = q.dirty[x]
    BY <1>7 DEF Put
  <2> QED BY <1>12, <2>1
<1>25. q.stale \subseteq p.stale
  BY <1>9, <1>12
<1>26. DriftRow(p, e)
  <2>1. e \in DOMAIN row \ (p.stale \cup raced) =>
          /\ \A k \in DocKeys \ Given(p, e) : v.doc[k] = row[e].doc[k]
          /\ v.usage = row[e].usage + IF "usage" \in Given(p, e) THEN 1 ELSE 0
    BY <1>12, <1>14, <1>16, <1>18, <1>20, <1>22, <1>23, <1>25
  <2> QED BY <1>16, <1>22, <1>24, <2>1 DEF DriftRow
<1>27. \A u \in Request \ {r} : e \notin DOMAIN Dirty(u)
  BY <1>11, Alone
<1>28. DOMAIN q.gave \subseteq DOMAIN q.dirty
  BY SMTT(30), <1>10 DEF RequestOK, SessionOK
<1>29. Writes(r, q, p, {e})
  BY <1>2, <1>3, <1>12, <1>16, <1>22, <1>23, <1>24, <1>25, <1>26, <1>27, <1>28 DEF Writes
<1>30. c = IF e \in DOMAIN q.base /\ e \notin DOMAIN q.dirty THEN q.base[e].doc ELSE l.doc
  BY <1>1, <1>15, <1>17 DEF Session
<1>31. \A k \in DocKeys : w[k] =
         IF k \in DOMAIN keys THEN keys[k]
         ELSE IF e \in DOMAIN q.base \ DOMAIN q.dirty THEN q.base[e].doc[k] ELSE l.doc[k]
  BY <1>20, <1>30
<1>32. LatestOf(q, e) = l /\ e = (IF h.id = 0 THEN q.fresh ELSE h.id)
  BY SMTT(30), <1>1, <1>4, <1>16 DEF LatestOf, Target
<1>33. PatchStep(q, p, e, keys)
  BY ZenonT(60), <1>2, <1>5, <1>9, <1>12, <1>13, <1>22, <1>23, <1>24, <1>31, <1>32 DEF PatchStep, Shares, Grew
<1> QED BY <1>2, <1>3, <1>11, <1>29, <1>33

LEMMA PatchKeeps == ASSUME IInv, NEW r \in Request, PatchEntry(r) PROVE IInv'
<1>1. PICK q : q = req[r]
  OBVIOUS
<1>2. PICK p, e, keys :
        /\ req' = [req EXCEPT ![r] = p] /\ UNCHANGED <<row, started, told, raced, log, retired, twins>>
        /\ q.pc = "write" /\ q.todo # << >> /\ Writes(r, q, p, {e})
  BY <1>1, PatchDoes
<1> QED BY <1>1, <1>2, WriteKeeps

LEMMA UseDoes ==
  ASSUME IInv, NEW r \in Request, NEW q, q = req[r], UseEntry(r)
  PROVE  \E p, e :
           /\ req' = [req EXCEPT ![r] = p] /\ UNCHANGED <<row, started, told, raced, log, retired, twins>>
           /\ q.pc = "write" /\ q.todo # << >> /\ Head(q.todo).do = "use"
           /\ Writes(r, q, p, {e}) /\ UseStep(q, p, e)
<1>1. q = req[r]
  OBVIOUS
<1>2. PICK h : h = Head(q.todo)
  OBVIOUS
<1>3. q.pc = "write" /\ q.todo # << >> /\ h.do = "use"
  BY <1>1, <1>2 DEF UseEntry, Doing, Now
<1>4. PICK e : e = h.id
  OBVIOUS
<1>5. PICK l : l = Latest(r, e)
  OBVIOUS
<1>6. PICK v : v = [l EXCEPT !.usage = q.base[e].usage + 1, !.old = FALSE]
  OBVIOUS
<1>7. PICK d : d = Put(q.dirty, e, v)
  OBVIOUS
<1>8. PICK g : g = Gave(r, e, {"usage"})
  OBVIOUS
<1>9. PICK s : s = IF row[e] # q.base[e] THEN q.stale \cup {e} ELSE q.stale
  OBVIOUS
<1>10. /\ RequestOK(q) /\ q = [x \in Fields |-> q[x]] /\ Dirty(r) = q.dirty
       /\ StatementOK(q, h) /\ h \in Items(q.todo) /\ req = [u \in Request |-> req[u]]
  BY <1>1, <1>2, <1>3, ToDo DEF IInv, RequestsOK
<1> DEFINE p == [q EXCEPT !.todo = Tail(q.todo), !.dirty = d, !.gave = g, !.stale = s]
<1>11. /\ ~Locked(r, e) /\ req' = [req EXCEPT ![r] = p]
       /\ UNCHANGED <<row, started, told, raced, log, retired, twins>>
  BY <1>1, <1>2, <1>4, <1>5, <1>6, <1>7, <1>8, <1>9, <1>10 DEF UseEntry, Now, Rest
<1>12. /\ p = [x \in Fields |-> p[x]] /\ p.pc = "write" /\ Same(p, q) /\ p.base = q.base /\ p.todo = Tail(q.todo)
       /\ p.dirty = d /\ p.gave = g /\ p.stale = s /\ p.fresh = q.fresh
       /\ p.known = q.known /\ p.born = q.born
  BY <1>3, <1>10 DEF Fields, Same
<1> HIDE DEF p
<1>13. e \in DOMAIN q.base /\ e \in DOMAIN row /\ q.base[e] \in Row
  BY <1>3, <1>4, <1>10 DEF StatementOK, RequestOK, SessionOK, RowsOK
<1>16. /\ l = (IF e \in DOMAIN q.dirty THEN q.dirty[e] ELSE row[e]) /\ l \in Row /\ e \in Id
       /\ e \in DOMAIN row => l.kind = row[e].kind /\ (l.current => row[e].current)
       /\ e \in DOMAIN row \ (q.stale \cup raced) =>
            /\ \A k \in DocKeys \ Given(q, e) : l.doc[k] = row[e].doc[k]
            /\ l.usage = row[e].usage + IF "usage" \in Given(q, e) THEN 1 ELSE 0
  BY <1>1, <1>3, <1>5, <1>13, LatestIs
<1>22. /\ v \in Row /\ v.doc = l.doc /\ v.kind = l.kind /\ v.current = l.current
       /\ v.usage = q.base[e].usage + 1
  <2>1. PICK n \in Nat : n = q.base[e].usage + 1
    BY <1>13 DEF Row
  <2>2. v = [l EXCEPT !.usage = n, !.old = FALSE]
    BY <1>6, <2>1
  <2> QED BY <1>16, <2>1, <2>2 DEF Row
<1>23. /\ DOMAIN p.gave = DOMAIN q.gave \cup {e} /\ Given(p, e) = {"usage"} \cup Given(q, e)
       /\ \A x : x # e => Given(p, x) = Given(q, x)
  <2>1. p.gave = Gave(r, e, {"usage"})
    BY <1>8, <1>12
  <2>2. Grew(p, q, e, {"usage"})
    BY <1>1, <2>1, GivenIs
  <2> QED BY <2>2 DEF Grew
<1>24. /\ DOMAIN p.dirty = DOMAIN q.dirty \cup {e} /\ p.dirty[e] = v
       /\ \A x \in DOMAIN q.dirty \ {e} : p.dirty[x] = q.dirty[x]
  <2>1. DOMAIN d = DOMAIN q.dirty \cup {e} /\ d[e] = v /\ \A x \in DOMAIN q.dirty \ {e} : d[x] = q.dirty[x]
    BY <1>7 DEF Put
  <2> QED BY <1>12, <2>1
<1>25. q.stale \subseteq p.stale
  BY <1>9, <1>12
<1>26. DriftRow(p, e)
  <2>1. e \in DOMAIN row \ (p.stale \cup raced) =>
          /\ \A k \in DocKeys \ Given(p, e) : v.doc[k] = row[e].doc[k]
          /\ v.usage = row[e].usage + IF "usage" \in Given(p, e) THEN 1 ELSE 0
    BY SMTT(30), <1>9, <1>12, <1>16, <1>22, <1>23, <1>25
  <2> QED BY <1>13, <1>16, <1>22, <1>24, <2>1 DEF DriftRow
<1>27. \A u \in Request \ {r} : e \notin DOMAIN Dirty(u)
  BY <1>11, Alone
<1>28. DOMAIN q.gave \subseteq DOMAIN q.dirty
  BY <1>10 DEF RequestOK, SessionOK
<1>29. Writes(r, q, p, {e})
  BY ZenonT(60), <1>2, <1>3, <1>12, <1>16, <1>22, <1>23, <1>24, <1>25, <1>26, <1>27, <1>28 DEF Writes
<1>30. UseStep(q, p, e)
  BY <1>9, <1>12, <1>13, <1>23 DEF UseStep, Shares, Grew
<1> QED BY <1>2, <1>3, <1>11, <1>29, <1>30

LEMMA UseKeeps == ASSUME IInv, NEW r \in Request, UseEntry(r) PROVE IInv'
<1>1. PICK q : q = req[r]
  OBVIOUS
<1>2. PICK p, e :
        /\ req' = [req EXCEPT ![r] = p] /\ UNCHANGED <<row, started, told, raced, log, retired, twins>>
        /\ q.pc = "write" /\ q.todo # << >> /\ Writes(r, q, p, {e})
  BY <1>1, UseDoes
<1> QED BY <1>1, <1>2, WriteKeeps

LEMMA ArchiveDoes ==
  ASSUME IInv, NEW r \in Request, NEW q, q = req[r], ArchiveEntry(r)
  PROVE  \E p, e :
           /\ req' = [req EXCEPT ![r] = p] /\ UNCHANGED <<row, started, told, raced, log, retired, twins>>
           /\ q.pc = "write" /\ q.todo # << >> /\ Head(q.todo).do = "archive"
           /\ Writes(r, q, p, {e}) /\ ArchiveStep(q, p, e)
<1>1. q = req[r]
  OBVIOUS
<1>2. PICK h : h = Head(q.todo)
  OBVIOUS
<1>3. q.pc = "write" /\ q.todo # << >> /\ h.do = "archive"
  BY <1>1, <1>2 DEF ArchiveEntry, Doing, Now
<1>4. PICK e : e = h.id
  OBVIOUS
<1>5. PICK l : l = Latest(r, e)
  OBVIOUS
<1>6. PICK v : v = [l EXCEPT !.current = FALSE]
  OBVIOUS
<1>7. PICK d : d = Put(q.dirty, e, v)
  OBVIOUS
<1>10. /\ RequestOK(q) /\ q = [x \in Fields |-> q[x]] /\ Dirty(r) = q.dirty
       /\ StatementOK(q, h) /\ h \in Items(q.todo) /\ req = [u \in Request |-> req[u]]
  BY <1>1, <1>2, <1>3, ToDo DEF IInv, RequestsOK
<1> DEFINE p == [q EXCEPT !.todo = Tail(q.todo), !.dirty = d]
<1>11. /\ ~Locked(r, e) /\ l.current /\ req' = [req EXCEPT ![r] = p]
       /\ UNCHANGED <<row, started, told, raced, log, retired, twins>>
  BY <1>1, <1>2, <1>4, <1>5, <1>6, <1>7, <1>10 DEF ArchiveEntry, Now, Rest, StillCurrent
<1>12. /\ p = [x \in Fields |-> p[x]] /\ p.pc = "write" /\ Same(p, q) /\ p.base = q.base /\ p.todo = Tail(q.todo)
       /\ p.dirty = d /\ p.gave = q.gave /\ p.stale = q.stale /\ p.fresh = q.fresh
       /\ p.known = q.known /\ p.born = q.born
  BY <1>3, <1>10 DEF Fields, Same
<1> HIDE DEF p
<1>13. e \in DOMAIN row
  BY <1>3, <1>4, <1>10 DEF StatementOK, RequestOK, SessionOK
<1>16. /\ l = (IF e \in DOMAIN q.dirty THEN q.dirty[e] ELSE row[e]) /\ l \in Row /\ e \in Id
       /\ e \in DOMAIN row => l.kind = row[e].kind /\ (l.current => row[e].current)
       /\ e \in DOMAIN row \ (q.stale \cup raced) =>
            /\ \A k \in DocKeys \ Given(q, e) : l.doc[k] = row[e].doc[k]
            /\ l.usage = row[e].usage + IF "usage" \in Given(q, e) THEN 1 ELSE 0
  BY <1>1, <1>3, <1>5, <1>13, LatestIs
<1>22. v \in Row /\ v.doc = l.doc /\ v.kind = l.kind /\ ~v.current /\ v.usage = l.usage
  BY <1>6, <1>16 DEF Row
<1>23. \A x : Given(p, x) = Given(q, x)
  BY <1>12 DEF Given
<1>24. /\ DOMAIN p.dirty = DOMAIN q.dirty \cup {e} /\ p.dirty[e] = v
       /\ \A x \in DOMAIN q.dirty \ {e} : p.dirty[x] = q.dirty[x]
  <2>1. DOMAIN d = DOMAIN q.dirty \cup {e} /\ d[e] = v /\ \A x \in DOMAIN q.dirty \ {e} : d[x] = q.dirty[x]
    BY <1>7 DEF Put
  <2> QED BY <1>12, <2>1
<1>26. DriftRow(p, e)
  BY <1>12, <1>13, <1>16, <1>22, <1>23, <1>24 DEF DriftRow
<1>27. \A u \in Request \ {r} : e \notin DOMAIN Dirty(u)
  BY SMTT(30), <1>11, Alone
<1>28. DOMAIN q.gave \subseteq DOMAIN q.dirty
  BY <1>10 DEF RequestOK, SessionOK
<1>29. Writes(r, q, p, {e})
  BY SMT, ZenonT(60), <1>2, <1>3, <1>4, <1>11, <1>12, <1>13, <1>16, <1>22, <1>23, <1>24, <1>26, <1>27, <1>28 DEF Writes
<1>30. ArchiveStep(q, p, e)
  BY <1>12, <1>13 DEF ArchiveStep, Shares
<1> QED BY <1>2, <1>3, <1>11, <1>29, <1>30

LEMMA ArchiveKeeps == ASSUME IInv, NEW r \in Request, ArchiveEntry(r) PROVE IInv'
<1>1. PICK q : q = req[r]
  OBVIOUS
<1>2. PICK p, e :
        /\ req' = [req EXCEPT ![r] = p] /\ UNCHANGED <<row, started, told, raced, log, retired, twins>>
        /\ q.pc = "write" /\ q.todo # << >> /\ Writes(r, q, p, {e})
  BY <1>1, ArchiveDoes
<1> QED BY <1>1, <1>2, WriteKeeps

LEMMA NewIdIsFree ==
  ASSUME Free # {}
  PROVE  /\ NewId \in Id /\ NewId \notin DOMAIN row
         /\ \A u \in Request : NewId \notin DOMAIN Dirty(u)
<1>1. Free \in SUBSET Nat
  BY DEF Free, Id
<1>2. \E e \in Free : \A f \in Free : e <= f
  BY <1>1, LeastNumber
<1>3. NewId \in Free
  BY <1>2 DEF NewId
<1>4. NewId \in Id /\ NewId \notin Used
  BY <1>3 DEF Free, Id
<1> QED BY <1>4 DEF Used

LEMMA AssessedDoc ==
  ASSUME IInv, NEW r \in Request, req[r].pc # "idle", NEW e, NEW kind, NEW doc \in Docs, NEW q \in 0..2, NEW clash
  PROVE  Assessed(r, e, kind, doc, q, clash) \in Docs
<1>1. PICK found : found = IF clash THEN Contradicted(r, e) ELSE {}
  OBVIOUS
<1>2. found \in SUBSET Id
  <2>1. RowsOK(row) /\ RowsOK(Dirty(r))
    BY Working DEF IInv, Committed, Stored, RequestOK, SessionOK
  <2> QED BY <1>1, <2>1 DEF Contradicted, Current, RowsOK
<1>3. PICK graded : graded = Patched(doc, [quality |-> q, review |-> q < 2])
  OBVIOUS
<1>4. graded \in Docs
  <2>1. \A b \in BOOLEAN : KeysOK([quality |-> q, review |-> b])
    BY DEF KeysOK, DocKeys, FieldType
  <2>2. PICK low \in BOOLEAN : low = (q < 2)
    <3>1. CASE q < 2
      <4>1. (q < 2) = TRUE
        BY <3>1
      <4> QED BY <4>1, Zenon
    <3>2. CASE ~ (q < 2)
      <4>1. (q < 2) = FALSE
        BY <3>2
      <4> QED BY <4>1, Zenon
    <3> QED BY <3>1, <3>2
  <2>3. KeysOK([quality |-> q, review |-> low])
    BY <2>1
  <2>4. graded = Patched(doc, [quality |-> q, review |-> low])
    BY <1>3, <2>2
  <2> QED BY <2>3, <2>4, PatchedDoc
<1>5. PICK status : status = IF doc.status = "none" THEN "active" ELSE doc.status
  OBVIOUS
<1>6. PICK pending \in BOOLEAN : pending <=> doc.pending \/ found # {}
  OBVIOUS
<1>7. KeysOK([status |-> status, conflicts |-> found, pending |-> pending])
  <2>1. status \in Stati
    BY <1>5 DEF Docs, Stati
  <2>2. \A s \in Stati, c \in SUBSET Id, b \in BOOLEAN : KeysOK([status |-> s, conflicts |-> c, pending |-> b])
    BY DEF KeysOK, DocKeys, FieldType
  <2> QED BY <1>2, <2>1, <2>2
<1>8. Patched(graded, [status |-> status, conflicts |-> found, pending |-> pending]) \in Docs
  BY <1>4, <1>7, PatchedDoc
<1>9. (doc.pending \/ found # {}) = pending
  BY <1>6
<1>10. Assessed(r, e, kind, doc, q, clash) =
         IF kind # "decision" THEN graded
         ELSE Patched(graded, [status |-> status, conflicts |-> found, pending |-> pending])
  BY <1>1, <1>3, <1>5, <1>9 DEF Assessed
<1> QED BY <1>4, <1>8, <1>10

\* An assessment leaves the account alone.
LEMMA AssessedKeeps ==
  ASSUME NEW r, NEW e, NEW kind, NEW doc \in Docs, NEW q, NEW clash, NEW k \in CountKeys
  PROVE  Assessed(r, e, kind, doc, q, clash)[k] = doc[k]
<1>1. PICK found : found = IF clash THEN Contradicted(r, e) ELSE {}
  OBVIOUS
<1>2. PICK graded : graded = Patched(doc, [quality |-> q, review |-> q < 2])
  OBVIOUS
<1>3. PICK keys : keys = [status |-> IF doc.status = "none" THEN "active" ELSE doc.status,
                          conflicts |-> found, pending |-> doc.pending \/ found # {}]
  OBVIOUS
<1>4. DOMAIN doc = DocKeys /\ k \in DocKeys
  BY DocByKeys DEF CountKeys, DocKeys
<1>5. k \notin {"quality", "review"} /\ k \notin DOMAIN keys
  BY <1>3 DEF CountKeys
<1>6. DOMAIN graded = DocKeys /\ graded[k] = doc[k]
  BY <1>2, <1>4, <1>5 DEF Patched
<1>7. Patched(graded, keys)[k] = graded[k]
  BY <1>4, <1>5, <1>6 DEF Patched
<1>8. Assessed(r, e, kind, doc, q, clash) = IF kind # "decision" THEN graded ELSE Patched(graded, keys)
  BY <1>1, <1>2, <1>3 DEF Assessed
<1> QED BY <1>6, <1>7, <1>8

LEMMA ReviseDoes ==
  ASSUME IInv, NEW r \in Request, NEW q, q = req[r], ReviseEntry(r)
  PROVE  \E p, e, f :
           /\ req' = [req EXCEPT ![r] = p] /\ UNCHANGED <<row, started, told, raced, log, retired, twins>>
           /\ q.pc = "write" /\ q.todo # << >> /\ Head(q.todo).do = "revise"
           /\ Writes(r, q, p, {e, f}) /\ ReviseStep(q, p, e, f)
<1>1. q = req[r]
  OBVIOUS
<1>2. PICK h : h = Head(q.todo)
  OBVIOUS
<1>3. q.pc = "write" /\ q.todo # << >> /\ h.do = "revise" /\ Free # {}
  BY <1>1, <1>2 DEF ReviseEntry, Doing, Now
<1>4. PICK e : e = h.id
  OBVIOUS
<1>5. PICK l : l = Latest(r, e)
  OBVIOUS
<1>6. PICK f : f = NewId
  OBVIOUS
<1>7. PICK v \in Verdicts(l.kind, h.lowest) :
        LET new == [kind |-> l.kind, root |-> l.root, current |-> TRUE, usage |-> 0, old |-> FALSE, aged |-> FALSE,
                    doc |-> Assessed(r, e, l.kind, Patched(l.doc, h.keys), v[1], v[2])]
        IN req' = [req EXCEPT ![r].todo = Tail(q.todo),
                              ![r].dirty = Put(Put(Dirty(r), e, [l EXCEPT !.current = FALSE]), f, new),
                              ![r].fresh = f,
                              ![r].stale = IF e \in raced \/ row[e] # req[r].base[e] THEN @ \cup {f} ELSE @]
  <2>1. PICK x \in Verdicts(Latest(r, Now(r).id).kind, Now(r).lowest) :
          req' = [req EXCEPT ![r].todo = Rest(r),
                             ![r].dirty = Put(Put(Dirty(r), Now(r).id, [Latest(r, Now(r).id) EXCEPT !.current = FALSE]), NewId,
                                [kind |-> Latest(r, Now(r).id).kind, root |-> Latest(r, Now(r).id).root, current |-> TRUE, usage |-> 0, old |-> FALSE, aged |-> FALSE,
                                 doc |-> Assessed(r, Now(r).id, Latest(r, Now(r).id).kind,
                                                  Patched(Latest(r, Now(r).id).doc, Now(r).keys), x[1], x[2])]),
                             ![r].fresh = NewId,
                             ![r].stale = IF Now(r).id \in raced \/ row[Now(r).id] # req[r].base[Now(r).id]
                                          THEN @ \cup {NewId} ELSE @]
    BY DEF ReviseEntry
  <2>2. h = Now(r) /\ Rest(r) = Tail(q.todo)
    BY <1>1, <1>2 DEF Now, Rest
  <2> QED BY <1>4, <1>5, <1>6, <2>1, <2>2
<1>8. PICK new : new = [kind |-> l.kind, root |-> l.root, current |-> TRUE, usage |-> 0, old |-> FALSE, aged |-> FALSE,
                        doc |-> Assessed(r, e, l.kind, Patched(l.doc, h.keys), v[1], v[2])]
  OBVIOUS
<1>9. PICK c : c = [l EXCEPT !.current = FALSE]
  OBVIOUS
<1>10. /\ RequestOK(q) /\ q = [x \in Fields |-> q[x]] /\ Dirty(r) = q.dirty
       /\ StatementOK(q, h) /\ h \in Items(q.todo) /\ req = [u \in Request |-> req[u]]
  BY <1>1, <1>2, <1>3, ToDo DEF IInv, RequestsOK
<1>11. PICK d : d = Put(Put(q.dirty, e, c), f, new)
  OBVIOUS
<1>12. PICK s : s = IF e \in raced \/ row[e] # q.base[e] THEN q.stale \cup {f} ELSE q.stale
  OBVIOUS
<1> DEFINE p == [q EXCEPT !.todo = Tail(q.todo), !.dirty = d, !.fresh = f, !.stale = s]
<1>13. ~Locked(r, e) /\ l.current /\ UNCHANGED <<row, started, told, raced, log, retired, twins>>
  BY <1>1, <1>2, <1>4, <1>5 DEF ReviseEntry, Now, StillCurrent
<1>14. req' = [req EXCEPT ![r] = p]
  <2>1. req' = [req EXCEPT ![r].todo = Tail(q.todo), ![r].dirty = d, ![r].fresh = f,
                           ![r].stale = IF e \in raced \/ row[e] # req[r].base[e] THEN @ \cup {f} ELSE @]
    BY <1>7, <1>8, <1>9, <1>10, <1>11
  <2> QED BY ZenonT(60), <1>1, <1>10, <1>12, <2>1
<1>15. /\ p = [x \in Fields |-> p[x]] /\ p.pc = "write" /\ Same(p, q) /\ p.base = q.base /\ p.todo = Tail(q.todo)
       /\ p.dirty = d /\ p.gave = q.gave /\ p.stale = s /\ p.fresh = f
       /\ p.known = q.known /\ p.born = q.born
  BY <1>3, <1>10 DEF Fields, Same
<1> HIDE DEF p
<1>16. e \in DOMAIN row \cup DOMAIN q.dirty /\ KeysOK(h.keys) /\ h.lowest \in 0..2
  BY <1>3, <1>4, <1>10 DEF StatementOK
<1>17. /\ l = (IF e \in DOMAIN q.dirty THEN q.dirty[e] ELSE row[e]) /\ l \in Row /\ e \in Id
       /\ e \in DOMAIN row => l.kind = row[e].kind /\ (l.current => row[e].current)
       /\ e \in DOMAIN row \ (q.stale \cup raced) =>
            /\ \A k \in DocKeys \ Given(q, e) : l.doc[k] = row[e].doc[k]
            /\ l.usage = row[e].usage + IF "usage" \in Given(q, e) THEN 1 ELSE 0
       /\ e \notin DOMAIN row => l.usage = 0
  BY <1>1, <1>3, <1>5, <1>16, LatestIs
<1>18. /\ f \in Id /\ f \notin DOMAIN row /\ \A u \in Request : f \notin DOMAIN Dirty(u)
       /\ f \notin DOMAIN q.dirty /\ f # e
  <2>1. f \in Id /\ f \notin DOMAIN row /\ \A u \in Request : f \notin DOMAIN Dirty(u)
    BY <1>3, <1>6, NewIdIsFree
  <2> QED BY <1>10, <1>16, <2>1
<1>19. new \in Row /\ new.usage = 0
  <2>1. Patched(l.doc, h.keys) \in Docs
    BY <1>16, <1>17, PatchedDoc DEF Row
  <2>2. v[1] \in 0..2
    BY <1>16 DEF Verdicts
  <2>3. PICK doc : doc = Assessed(r, e, l.kind, Patched(l.doc, h.keys), v[1], v[2])
    OBVIOUS
  <2>4. doc \in Docs
    BY <1>1, <1>3, <2>1, <2>2, <2>3, AssessedDoc
  <2>5. new = [kind |-> l.kind, root |-> l.root, current |-> TRUE, usage |-> 0, old |-> FALSE, aged |-> FALSE, doc |-> doc]
    BY <1>8, <2>3
  <2> QED BY <1>17, <2>4, <2>5 DEF Row
<1>20. c \in Row /\ c.doc = l.doc /\ c.kind = l.kind /\ ~c.current /\ c.usage = l.usage
  BY <1>9, <1>17 DEF Row
<1>21. /\ DOMAIN p.dirty = DOMAIN q.dirty \cup {e, f} /\ p.dirty[e] = c /\ p.dirty[f] = new
       /\ \A x \in DOMAIN q.dirty \ {e, f} : p.dirty[x] = q.dirty[x]
  <2>1. PICK d1 : d1 = Put(q.dirty, e, c)
    OBVIOUS
  <2>2. DOMAIN d1 = DOMAIN q.dirty \cup {e} /\ d1[e] = c /\ \A x \in DOMAIN q.dirty \ {e} : d1[x] = q.dirty[x]
    BY <2>1 DEF Put
  <2>3. DOMAIN d = DOMAIN d1 \cup {f} /\ d[f] = new /\ \A x \in DOMAIN d1 \ {f} : d[x] = d1[x]
    BY <1>11, <2>1 DEF Put
  <2> QED BY <1>15, <1>18, <2>2, <2>3
<1>22. \A x : Given(p, x) = Given(q, x)
  BY <1>15 DEF Given
<1>23. q.stale \subseteq p.stale
  BY <1>12, <1>15
<1>24. DriftRow(p, e) /\ DriftRow(p, f)
  <2>1. e \in DOMAIN row \ (p.stale \cup raced) => e \in DOMAIN row \ (q.stale \cup raced)
    BY <1>23
  <2>2. DriftRow(p, e)
    BY <1>17, <1>20, <1>21, <1>22, <2>1 DEF DriftRow
  <2>3. DriftRow(p, f)
    BY <1>18, <1>19, <1>21 DEF DriftRow
  <2> QED BY <2>2, <2>3
<1>25. \A x \in {e, f}, u \in Request \ {r} : x \notin DOMAIN Dirty(u)
  BY <1>13, <1>18, Alone
<1>26. DOMAIN q.gave \subseteq DOMAIN q.dirty /\ q.op # "lifecycle"
  BY <1>3, <1>10 DEF RequestOK, SessionOK, SweepOK
<1>27. Writes(r, q, p, {e, f})
  <2>1. \A x \in {e, f} : x \in Id /\ p.dirty[x] \in Row /\ DriftRow(p, x)
    BY <1>17, <1>18, <1>19, <1>20, <1>21, <1>24
  <2>2. DOMAIN p.gave \subseteq DOMAIN p.dirty
    BY <1>15, <1>21, <1>26
  <2>3. \A x \in {e, f} \cap DOMAIN q.dirty : ~q.dirty[x].current => ~p.dirty[x].current
    BY <1>18, <1>20, <1>21
  <2> QED BY <1>2, <1>3, <1>15, <1>21, <1>22, <1>23, <1>25, <1>26, <2>1, <2>2, <2>3 DEF Writes
<1>30. LatestOf(q, e) = l
  BY <1>17 DEF LatestOf
<1>31. \A k \in CountKeys : new.doc[k] = IF k \in DOMAIN h.keys THEN h.keys[k] ELSE l.doc[k]
  <2>1. l.doc \in Docs /\ CountKeys \subseteq DocKeys
    BY <1>17 DEF Row, CountKeys, DocKeys
  <2>2. Patched(l.doc, h.keys) \in Docs
        /\ \A k \in DocKeys : Patched(l.doc, h.keys)[k] = IF k \in DOMAIN h.keys THEN h.keys[k] ELSE l.doc[k]
    BY <1>16, <2>1, PatchedDoc
  <2>3. \A k \in CountKeys : Assessed(r, e, l.kind, Patched(l.doc, h.keys), v[1], v[2])[k] = Patched(l.doc, h.keys)[k]
    BY <2>2, AssessedKeeps
  <2> HIDE DEF CountKeys
  <2>4. new.doc = Assessed(r, e, l.kind, Patched(l.doc, h.keys), v[1], v[2])
    BY <1>8
  <2> QED BY <2>1, <2>2, <2>3, <2>4
<1>32. new.kind = l.kind /\ new.current
  BY SMTT(30), <1>8
<1>33. ReviseStep(q, p, e, f)
  <2>1. \A k \in CountKeys : p.dirty[f].doc[k] =
          IF k \in DOMAIN Head(q.todo).keys THEN Head(q.todo).keys[k] ELSE LatestOf(q, e).doc[k]
    BY <1>2, <1>21, <1>30, <1>31
  <2>2. /\ e = Head(q.todo).id /\ e \in DOMAIN row \cup DOMAIN q.dirty /\ f \notin DOMAIN row \cup DOMAIN q.dirty
        /\ LatestOf(q, e).current /\ ~p.dirty[e].current /\ p.dirty[f].current
        /\ p.dirty[e].doc = LatestOf(q, e).doc
        /\ p.dirty[e].kind = LatestOf(q, e).kind /\ p.dirty[f].kind = LatestOf(q, e).kind
    BY <1>2, <1>4, <1>13, <1>16, <1>18, <1>20, <1>21, <1>30, <1>32
  <2>3. /\ p.stale = IF e \in raced \/ row[e] # q.base[e] THEN q.stale \cup {f} ELSE q.stale
        /\ p.fresh = f /\ p.gave = q.gave /\ Shares(p, q)
    BY <1>12, <1>15 DEF Shares
  <2> QED BY <2>1, <2>2, <2>3 DEF ReviseStep
<1> QED BY <1>2, <1>3, <1>13, <1>14, <1>27, <1>33

LEMMA ReviseKeeps == ASSUME IInv, NEW r \in Request, ReviseEntry(r) PROVE IInv'
<1>1. PICK q : q = req[r]
  OBVIOUS
<1>2. PICK p, e, f :
        /\ req' = [req EXCEPT ![r] = p] /\ UNCHANGED <<row, started, told, raced, log, retired, twins>>
        /\ q.pc = "write" /\ q.todo # << >> /\ Writes(r, q, p, {e, f})
  BY <1>1, ReviseDoes
<1> QED BY <1>1, <1>2, WriteKeeps

LEMMA RestoreDoes ==
  ASSUME IInv, NEW r \in Request, NEW q, q = req[r], RestoreEntry(r)
  PROVE  \E p, e, l, s, f :
           /\ req' = [req EXCEPT ![r] = p] /\ UNCHANGED <<row, started, told, raced, log, retired, twins>>
           /\ q.pc = "write" /\ q.todo # << >> /\ Head(q.todo).do = "restore"
           /\ Writes(r, q, p, {e, l, f}) /\ RestoreStep(q, p, e, l, s, f)
<1>1. q = req[r]
  OBVIOUS
<1>2. PICK h : h = Head(q.todo)
  OBVIOUS
<1>3. q.pc = "write" /\ q.todo # << >> /\ h.do = "restore" /\ Free # {}
  BY <1>1, <1>2 DEF RestoreEntry, Doing, Now
<1>4. PICK e, s : e = h.id /\ s = h.source
  OBVIOUS
<1>5. PICK l : l = Newest(Chain(r, e))
  OBVIOUS
<1>6. PICK f : f = NewId
  OBVIOUS
<1>7. PICK ve, vl, vs : ve = Latest(r, e) /\ vl = Latest(r, l) /\ vs = Latest(r, s)
  OBVIOUS
<1>8. PICK doc : doc = IF s \in {e, l} THEN vs.doc ELSE q.base[s].doc
  OBVIOUS
<1>9. PICK new : new = [kind |-> vs.kind, root |-> vl.root, current |-> TRUE, usage |-> 0, old |-> FALSE, aged |-> FALSE,
                        doc |-> doc]
  OBVIOUS
<1>10. PICK c : c = [vl EXCEPT !.current = FALSE]
  OBVIOUS
<1>11. /\ RequestOK(q) /\ q = [x \in Fields |-> q[x]] /\ Dirty(r) = q.dirty
       /\ StatementOK(q, h) /\ h \in Items(q.todo) /\ req = [u \in Request |-> req[u]]
  BY <1>1, <1>2, <1>3, ToDo DEF IInv, RequestsOK
<1>12. PICK d : d = Put(Put(Put(q.dirty, e, ve), l, c), f, new)
  OBVIOUS
<1>13. PICK z : z = IF s \in raced \/ row[s] # q.base[s] THEN q.stale \cup {f} ELSE q.stale
  OBVIOUS
<1>14. PICK b : b = IF vl.current THEN q.born ELSE q.born \cup {vs.kind}
  BY ZenonT(60)
<1> DEFINE p == [q EXCEPT !.todo = Tail(q.todo), !.dirty = d, !.fresh = f, !.stale = z, !.born = b, !.heard = log[s]]
<1>15. /\ ~Locked(r, e) /\ ~Locked(r, l) /\ s \in Chain(r, e)
       /\ UNCHANGED <<row, started, told, raced, log, retired, twins>>
  BY <1>1, <1>2, <1>4, <1>5 DEF RestoreEntry, Now
<1>16. req' = [req EXCEPT ![r] = p]
  <2>1. req' = [req EXCEPT ![r].todo = Tail(q.todo), ![r].dirty = Put(Put(Put(Dirty(r), e, ve), l, c), f, new),
                           ![r].fresh = f,
                           ![r].stale = IF s \in raced \/ row[s] # req[r].base[s] THEN @ \cup {f} ELSE @,
                           ![r].born = IF vl.current THEN @ ELSE @ \cup {vs.kind}, ![r].heard = log[s]]
    <3>1. h = Now(r) /\ Rest(r) = Tail(q.todo)
      BY <1>1, <1>2 DEF Now, Rest
    <3> QED BY <1>1, <1>4, <1>5, <1>6, <1>7, <1>8, <1>9, <1>10, <3>1 DEF RestoreEntry
  <2> QED BY ZenonT(60), <1>1, <1>11, <1>12, <1>13, <1>14, <2>1
<1>17. /\ p = [x \in Fields |-> p[x]] /\ p.pc = "write" /\ Same(p, q) /\ p.base = q.base /\ p.todo = Tail(q.todo)
       /\ p.dirty = d /\ p.gave = q.gave /\ p.stale = z /\ p.fresh = f
       /\ p.known = q.known /\ p.born = b /\ p.heard = log[s]
  BY <1>3, <1>11 DEF Fields, Same
<1> HIDE DEF p
<1>18. /\ e \in DOMAIN q.base /\ s \in DOMAIN q.base /\ DOMAIN q.base \subseteq DOMAIN row
       /\ RowsOK(q.base) /\ RowsOK(row) /\ RowsOK(q.dirty)
  BY <1>3, <1>4, <1>11 DEF StatementOK, RequestOK, SessionOK, IInv, Committed, Stored
<1>19. l \in Chain(r, e)
  <2>1. Chain(r, e) \in SUBSET Id
    BY <1>11, <1>18 DEF Chain, RowsOK
  <2> QED BY <1>5, <1>15, <2>1, NewestOf
<1>20. /\ l \in DOMAIN row \cup DOMAIN q.dirty /\ vl.kind = ve.kind /\ vs.kind = ve.kind
  BY <1>7, <1>11, <1>15, <1>19 DEF Chain
<1>21. ASSUME NEW x \in DOMAIN row \cup DOMAIN q.dirty, NEW v, v = Latest(r, x)
       PROVE  /\ v = LatestOf(q, x) /\ v \in Row /\ x \in Id
              /\ x \in DOMAIN row => v.kind = row[x].kind /\ (v.current => row[x].current)
              /\ x \in DOMAIN row \ (q.stale \cup raced) =>
                   /\ \A k \in DocKeys \ Given(q, x) : v.doc[k] = row[x].doc[k]
                   /\ v.usage = row[x].usage + IF "usage" \in Given(q, x) THEN 1 ELSE 0
              /\ x \notin DOMAIN row => v.usage = 0
              /\ x \in DOMAIN q.dirty => v = q.dirty[x]
  BY <1>1, <1>3, <1>21, LatestIs DEF LatestOf
<1>22. /\ f \in Id /\ f \notin DOMAIN row /\ \A u \in Request : f \notin DOMAIN Dirty(u)
       /\ f \notin DOMAIN q.dirty /\ f # e /\ f # l
  <2>1. f \in Id /\ f \notin DOMAIN row /\ \A u \in Request : f \notin DOMAIN Dirty(u)
    BY <1>3, <1>6, NewIdIsFree
  <2> QED BY <1>11, <1>18, <1>20, <2>1
<1>23. ve \in Row /\ vl \in Row /\ vs \in Row /\ e \in Id /\ l \in Id
  <2>1. e \in DOMAIN row \cup DOMAIN q.dirty /\ s \in DOMAIN row \cup DOMAIN q.dirty
    BY <1>18
  <2> QED BY <1>7, <1>20, <1>21, <2>1
<1>24. new \in Row /\ new.usage = 0 /\ new.kind = vs.kind /\ new.doc = doc /\ new.current
  <2>1. doc \in Docs
    BY <1>8, <1>18, <1>23 DEF RowsOK, Row
  <2> QED BY <1>9, <1>23, <2>1 DEF Row
<1>25. c \in Row /\ c.doc = vl.doc /\ c.kind = vl.kind /\ ~c.current /\ c.usage = vl.usage
  BY <1>10, <1>23 DEF Row
<1>26. /\ DOMAIN p.dirty = DOMAIN q.dirty \cup {e, l, f} /\ p.dirty[l] = c /\ p.dirty[f] = new
       /\ e # l => p.dirty[e] = ve
       /\ \A x \in DOMAIN q.dirty \ {e, l, f} : p.dirty[x] = q.dirty[x]
  <2>1. PICK d1 : d1 = Put(q.dirty, e, ve)
    OBVIOUS
  <2>2. DOMAIN d1 = DOMAIN q.dirty \cup {e} /\ d1[e] = ve /\ \A x \in DOMAIN q.dirty \ {e} : d1[x] = q.dirty[x]
    BY <2>1 DEF Put
  <2>3. PICK d2 : d2 = Put(d1, l, c)
    OBVIOUS
  <2>4. DOMAIN d2 = DOMAIN d1 \cup {l} /\ d2[l] = c /\ \A x \in DOMAIN d1 \ {l} : d2[x] = d1[x]
    BY <2>3 DEF Put
  <2>5. DOMAIN d = DOMAIN d2 \cup {f} /\ d[f] = new /\ \A x \in DOMAIN d2 \ {f} : d[x] = d2[x]
    BY <1>12, <2>1, <2>3 DEF Put
  <2>6. DOMAIN d = DOMAIN q.dirty \cup {e, l, f} /\ d[l] = c /\ d[f] = new
    BY <1>22, <2>2, <2>4, <2>5
  <2>7. e # l => d[e] = ve
    BY <1>22, <2>2, <2>4, <2>5
  <2>8. \A x \in DOMAIN q.dirty \ {e, l, f} : d[x] = q.dirty[x]
    BY <2>2, <2>4, <2>5
  <2> QED BY <1>17, <2>6, <2>7, <2>8
<1>27. \A x : Given(p, x) = Given(q, x)
  BY <1>17 DEF Given
<1>28. q.stale \subseteq p.stale
  BY <1>13, <1>17
\* A row that is only locked, or closed: its document is the latest.
<1>29. ASSUME NEW x \in DOMAIN row \cup DOMAIN q.dirty, NEW v, v = Latest(r, x), p.dirty[x].doc = v.doc,
              p.dirty[x].kind = v.kind, p.dirty[x].usage = v.usage, p.dirty[x].current => v.current
       PROVE  DriftRow(p, x)
  <2>1. x \in DOMAIN row \ (p.stale \cup raced) => x \in DOMAIN row \ (q.stale \cup raced)
    BY <1>28
  <2> QED BY <1>21, <1>27, <1>29, <2>1 DEF DriftRow
<1>30. DriftRow(p, e) /\ DriftRow(p, l) /\ DriftRow(p, f)
  <2>1. DriftRow(p, l)
    BY <1>7, <1>20, <1>25, <1>26, <1>29
  <2>2. DriftRow(p, e)
    BY <1>7, <1>18, <1>26, <1>29, <2>1
  <2>3. DriftRow(p, f)
    BY <1>22, <1>24, <1>26 DEF DriftRow
  <2> QED BY <2>1, <2>2, <2>3
<1>31. \A x \in {e, l, f}, u \in Request \ {r} : x \notin DOMAIN Dirty(u)
  BY <1>15, <1>22, Alone
<1>32. DOMAIN q.gave \subseteq DOMAIN q.dirty /\ q.op # "lifecycle"
  BY <1>3, <1>11 DEF RequestOK, SessionOK, SweepOK
<1>33. Writes(r, q, p, {e, l, f})
  <2>1. \A x \in {e, l, f} : x \in Id /\ p.dirty[x] \in Row /\ DriftRow(p, x)
    BY <1>22, <1>23, <1>24, <1>25, <1>26, <1>30
  <2>2. DOMAIN p.gave \subseteq DOMAIN p.dirty
    BY <1>17, <1>26, <1>32
  <2>3. \A x \in {e, l, f} \cap DOMAIN q.dirty : ~q.dirty[x].current => ~p.dirty[x].current
    <3>1. e \in DOMAIN q.dirty => ve = q.dirty[e]
      BY <1>7, <1>21
    <3> QED BY <1>22, <1>25, <1>26, <3>1
  <2> QED BY <1>2, <1>3, <1>17, <1>26, <1>27, <1>28, <1>31, <1>32, <2>1, <2>2, <2>3 DEF Writes
<1>34. ve = LatestOf(q, e) /\ vl = LatestOf(q, l) /\ vs = LatestOf(q, s)
  BY SMTT(30), <1>7, <1>18, <1>20, <1>21
<1>35. RestoreStep(q, p, e, l, s, f)
  <2>1. \A x \in {e, l} : p.dirty[x].kind = p.dirty[f].kind /\ p.dirty[x].doc = LatestOf(q, x).doc
    BY <1>20, <1>24, <1>25, <1>26, <1>34
  <2>2. ~p.dirty[l].current /\ p.dirty[f].current /\ p.dirty[f].kind = LatestOf(q, s).kind
        /\ p.dirty[f].doc = IF s \in {e, l} THEN LatestOf(q, s).doc ELSE q.base[s].doc
    BY <1>8, <1>24, <1>25, <1>26, <1>34
  <2>3. p.born = (IF LatestOf(q, l).current THEN q.born ELSE q.born \cup {p.dirty[f].kind})
    BY <1>14, <1>17, <1>24, <1>26, <1>34
  <2>4. {e, l} \subseteq DOMAIN row \cup DOMAIN q.dirty /\ f \notin DOMAIN row \cup DOMAIN q.dirty
    BY <1>18, <1>20, <1>22
  <2> QED BY <1>2, <1>4, <1>13, <1>17, <1>18, <2>1, <2>2, <2>3, <2>4 DEF RestoreStep
<1> QED BY <1>2, <1>3, <1>15, <1>16, <1>33, <1>35

LEMMA RestoreKeeps == ASSUME IInv, NEW r \in Request, RestoreEntry(r) PROVE IInv'
<1>1. PICK q : q = req[r]
  OBVIOUS
<1>2. PICK p, e, l, f :
        /\ req' = [req EXCEPT ![r] = p] /\ UNCHANGED <<row, started, told, raced, log, retired, twins>>
        /\ q.pc = "write" /\ q.todo # << >> /\ Writes(r, q, p, {e, l, f})
  BY <1>1, RestoreDoes
<1> QED BY <1>1, <1>2, WriteKeeps

LEMMA CreateDoes ==
  ASSUME IInv, NEW r \in Request, NEW q, q = req[r], CreateEntry(r)
  PROVE  \E p, f :
           /\ req' = [req EXCEPT ![r] = p] /\ UNCHANGED <<row, started, told, raced, log, retired, twins>>
           /\ q.pc = "write" /\ q.todo # << >> /\ Head(q.todo).do = "create"
           /\ Writes(r, q, p, {f}) /\ CreateStep(q, p, f)
<1>1. q = req[r]
  OBVIOUS
<1>2. PICK h : h = Head(q.todo)
  OBVIOUS
<1>3. q.pc = "write" /\ q.todo # << >> /\ h.do = "create" /\ Free # {}
  BY SMTT(30), <1>1, <1>2 DEF CreateEntry, Doing, Now
<1>4. PICK f : f = NewId
  OBVIOUS
<1>5. PICK g \in (IF h.kind = "imported" THEN {0, 2} ELSE {2}) :
        req' = [req EXCEPT ![r].todo = Tail(q.todo),
                           ![r].dirty = Put(Dirty(r), f,
                              [kind |-> h.kind, root |-> f, current |-> TRUE, usage |-> 0, old |-> FALSE, aged |-> FALSE,
                               doc |-> Patched(Assessed(r, f, h.kind, NoDoc, g, FALSE), h.keys)]),
                           ![r].fresh = f,
                           ![r].born = @ \cup {h.kind}]
  BY <1>1, <1>2, <1>4 DEF CreateEntry, Now, Rest
<1>6. PICK doc : doc = Patched(Assessed(r, f, h.kind, NoDoc, g, FALSE), h.keys)
  OBVIOUS
<1>7. PICK new : new = [kind |-> h.kind, root |-> f, current |-> TRUE, usage |-> 0, old |-> FALSE, aged |-> FALSE, doc |-> doc]
  OBVIOUS
<1>10. /\ RequestOK(q) /\ q = [x \in Fields |-> q[x]] /\ Dirty(r) = q.dirty
       /\ StatementOK(q, h) /\ h \in Items(q.todo) /\ req = [u \in Request |-> req[u]]
  BY <1>1, <1>2, <1>3, ToDo DEF IInv, RequestsOK
<1>11. PICK d : d = Put(q.dirty, f, new)
  OBVIOUS
<1>12. PICK b : b = q.born \cup {h.kind}
  OBVIOUS
<1> DEFINE p == [q EXCEPT !.todo = Tail(q.todo), !.dirty = d, !.fresh = f, !.born = b]
<1>13. UNCHANGED <<row, started, told, raced, log, retired, twins>>
  BY DEF CreateEntry
<1>14. req' = [req EXCEPT ![r] = p]
  <2>1. req' = [req EXCEPT ![r].todo = Tail(q.todo), ![r].dirty = d, ![r].fresh = f, ![r].born = @ \cup {h.kind}]
    BY <1>5, <1>6, <1>7, <1>10, <1>11
  <2> QED BY ZenonT(60), <1>1, <1>10, <1>12, <2>1
<1>15. /\ p = [x \in Fields |-> p[x]] /\ p.pc = "write" /\ Same(p, q) /\ p.base = q.base /\ p.todo = Tail(q.todo)
       /\ p.dirty = d /\ p.gave = q.gave /\ p.stale = q.stale /\ p.fresh = f
       /\ p.known = q.known /\ p.born = b
  BY <1>3, <1>10 DEF Fields, Same
<1> HIDE DEF p
<1>16. h.kind \in Kinds /\ KeysOK(h.keys)
  BY <1>3, <1>10 DEF StatementOK
<1>18. /\ f \in Id /\ f \notin DOMAIN row /\ \A u \in Request : f \notin DOMAIN Dirty(u)
       /\ f \notin DOMAIN q.dirty
  <2>1. f \in Id /\ f \notin DOMAIN row /\ \A u \in Request : f \notin DOMAIN Dirty(u)
    BY <1>3, <1>4, NewIdIsFree
  <2> QED BY <1>10, <2>1
<1>19. new \in Row /\ new.usage = 0
  <2>1. g \in 0..2
    OBVIOUS
  <2>2. Assessed(r, f, h.kind, NoDoc, g, FALSE) \in Docs
    BY <1>1, <1>3, <2>1, AssessedDoc, NoDocIsDoc
  <2>3. doc \in Docs
    BY <1>6, <1>16, <2>2, PatchedDoc
  <2> QED BY <1>7, <1>16, <1>18, <2>3 DEF Row
<1>21. /\ DOMAIN p.dirty = DOMAIN q.dirty \cup {f} /\ p.dirty[f] = new
       /\ \A x \in DOMAIN q.dirty \ {f} : p.dirty[x] = q.dirty[x]
  <2>1. DOMAIN d = DOMAIN q.dirty \cup {f} /\ d[f] = new /\ \A x \in DOMAIN q.dirty \ {f} : d[x] = q.dirty[x]
    BY <1>11 DEF Put
  <2> QED BY <1>15, <2>1
<1>22. \A x : Given(p, x) = Given(q, x)
  BY <1>15 DEF Given
<1>24. DriftRow(p, f)
  BY <1>18, <1>19, <1>21 DEF DriftRow
<1>26. DOMAIN q.gave \subseteq DOMAIN q.dirty
  BY SMTT(30), <1>10 DEF RequestOK, SessionOK
<1>27. Writes(r, q, p, {f})
  BY <1>2, <1>3, <1>15, <1>18, <1>19, <1>21, <1>22, <1>24, <1>26 DEF Writes
<1>30. \A k \in CountKeys : doc[k] = IF k \in DOMAIN h.keys THEN h.keys[k] ELSE NoDoc[k]
  <2>1. g \in 0..2 /\ CountKeys \subseteq DocKeys
    BY DEF CountKeys, DocKeys
  <2>2. PICK a : a = Assessed(r, f, h.kind, NoDoc, g, FALSE)
    OBVIOUS
  <2>3. a \in Docs
    BY <1>1, <1>3, <2>1, <2>2, AssessedDoc, NoDocIsDoc
  <2>5. \A k \in CountKeys : a[k] = NoDoc[k]
    <3>1. \A k \in CountKeys : Assessed(r, f, h.kind, NoDoc, g, FALSE)[k] = NoDoc[k]
      <4>1. PICK no, x : no = FALSE /\ x = NoDoc
        OBVIOUS
      <4>2. x \in Docs
        BY <4>1, NoDocIsDoc
      <4>3. ASSUME NEW k \in CountKeys PROVE Assessed(r, f, h.kind, x, g, no)[k] = x[k]
        BY <4>2, AssessedKeeps
      <4> QED BY <4>1, <4>3
    <3> QED BY <2>2, <3>1
  <2>4. \A k \in DocKeys : doc[k] = IF k \in DOMAIN h.keys THEN h.keys[k] ELSE a[k]
    <3>1. \A k \in DocKeys : Patched(a, h.keys)[k] = IF k \in DOMAIN h.keys THEN h.keys[k] ELSE a[k]
      BY <1>16, <2>3, PatchedDoc
    <3>2. doc = Patched(a, h.keys)
      BY <1>6, <2>2
    <3> QED BY <3>1, <3>2
  <2> QED BY <2>1, <2>4, <2>5
<1>31. new.kind = h.kind /\ new.doc = doc /\ new.current
  BY <1>7
<1>32. CreateStep(q, p, f)
  BY <1>2, <1>12, <1>15, <1>18, <1>21, <1>30, <1>31 DEF CreateStep
<1> QED BY <1>2, <1>3, <1>13, <1>14, <1>27, <1>32

LEMMA CreateKeeps == ASSUME IInv, NEW r \in Request, CreateEntry(r) PROVE IInv'
<1>1. PICK q : q = req[r]
  OBVIOUS
<1>2. PICK p, f :
        /\ req' = [req EXCEPT ![r] = p] /\ UNCHANGED <<row, started, told, raced, log, retired, twins>>
        /\ q.pc = "write" /\ q.todo # << >> /\ Writes(r, q, p, {f})
  BY <1>1, CreateDoes
<1> QED BY <1>1, <1>2, WriteKeeps

LEMMA MatchKeeps == ASSUME IInv, NEW r \in Request, MatchEntry(r) PROVE IInv'
<1>1. PICK q : q = req[r]
  OBVIOUS
<1>2. PICK h : h = Head(q.todo)
  OBVIOUS
<1>3. q.pc = "write" /\ q.todo # << >> /\ h.do = "match"
  BY <1>1, <1>2 DEF MatchEntry, Doing, Now
<1>4. PICK found : found = {e \in Current(r) : Latest(r, e).kind = "imported"}
  OBVIOUS
<1>5. PICK t : t = IF q.action = "create" \/ found = {} THEN << Create("imported", [into |-> 0]) >>
                   ELSE IF q.action = "update" /\ q.changed THEN << Revise(Newest(found), << >>, 0) >>
                   ELSE << >>
  OBVIOUS
<1>6. PICK b : b = [e \in DOMAIN row |-> IF e \in DOMAIN q.base THEN q.base[e] ELSE row[e]]
  OBVIOUS
<1>7. /\ RequestOK(q) /\ q = [x \in Fields |-> q[x]] /\ Dirty(r) = q.dirty
      /\ StatementOK(q, h) /\ h \in Items(q.todo) /\ req = [u \in Request |-> req[u]]
  BY <1>1, <1>2, <1>3, ToDo DEF IInv, RequestsOK
<1> DEFINE p == [q EXCEPT !.base = b, !.todo = t]
<1>8. req' = [req EXCEPT ![r] = p] /\ UNCHANGED <<row, started, told, raced, log, retired>>
  BY <1>1, <1>4, <1>5, <1>6, <1>7 DEF MatchEntry
<1>9. /\ p = [x \in Fields |-> p[x]] /\ p.pc = "write" /\ Same(p, q) /\ p.base = b /\ p.todo = t
      /\ p.dirty = q.dirty /\ p.gave = q.gave /\ p.stale = q.stale /\ p.fresh = q.fresh
  BY <1>3, <1>7 DEF Fields, Same
<1> HIDE DEF p
<1>10. q.op = "import"
  BY <1>3, <1>7 DEF StatementOK
<1>11. AskOK(p)
  BY <1>7, <1>9, AskCarries DEF RequestOK
<1>12. RowsOK(row) /\ RowsOK(q.base) /\ RowsOK(q.dirty) /\ started \in Nat
  BY <1>7 DEF IInv, Committed, Stored, RequestOK, SessionOK
<1>13. SessionOK(p)
  <2>1. RowsOK(b) /\ DOMAIN b \subseteq DOMAIN row
    BY <1>6, <1>12 DEF RowsOK
  <2> QED BY <1>7, <1>9, <2>1 DEF RequestOK, SessionOK, Same
<1>14. found # {} => Newest(found) \in DOMAIN row \cup DOMAIN q.dirty
  <2>1. found \in SUBSET (DOMAIN row \cup DOMAIN q.dirty) /\ found \in SUBSET Id
    BY <1>4, <1>7, <1>12 DEF Current, RowsOK
  <2> QED BY <2>1, NewestOf
<1>15. TodoOK(p)
  <2>1. CASE q.action = "create" \/ found = {}
    <3>1. t = << Create("imported", [into |-> 0]) >> /\ KeysOK([into |-> 0])
      BY <1>5, <2>1, KeyLiterals
    <3>2. IsList(t) /\ Items(t) = {Create("imported", [into |-> 0])}
      BY <3>1, OneItem
    <3>3. StatementOK(p, Create("imported", [into |-> 0]))
      BY <3>1 DEF StatementOK, Create, Kinds
    <3> QED BY <1>9, <3>2, <3>3, StatementKinds DEF TodoOK
  <2>2. CASE ~(q.action = "create" \/ found = {}) /\ q.action = "update" /\ q.changed
    <3>1. PICK e : e = Newest(found)
      OBVIOUS
    <3>2. t = << Revise(e, << >>, 0) >> /\ KeysOK(<< >>) /\ e \in DOMAIN row \cup DOMAIN p.dirty
      BY <1>5, <1>9, <1>14, <2>2, <3>1, KeyLiterals
    <3>3. IsList(t) /\ Items(t) = {Revise(e, << >>, 0)}
      BY <3>2, OneItem
    <3>4. StatementOK(p, Revise(e, << >>, 0))
      BY <3>2 DEF StatementOK, Revise
    <3> QED BY <1>9, <3>3, <3>4, StatementKinds DEF TodoOK
  <2>3. CASE ~(q.action = "create" \/ found = {}) /\ ~(q.action = "update" /\ q.changed)
    <3>1. t = << >>
      BY <1>5, <2>3
    <3> QED BY <1>9, <3>1, NoItems DEF TodoOK
  <2> QED BY <2>1, <2>2, <2>3
<1>16. DriftOK(p)
  BY <1>7, <1>9 DEF RequestOK, DriftOK, Given
<1>17. CompactOK(p) /\ SweepOK(p)
  BY <1>9, <1>10 DEF CompactOK, SweepOK, Same
<1>18. RequestOK(p)
  BY <1>11, <1>13, <1>15, <1>16, <1>17 DEF RequestOK
<1>19. \A u \in Request \ {r} : DOMAIN p.dirty \cap DOMAIN Dirty(u) = {}
  BY <1>1, <1>3, <1>9, OwnEntries
<1> QED BY <1>8, <1>12, <1>18, <1>19, WorkKeeps

\* A request that is gone leaves the others as they were.
LEMMA AbortKeeps == ASSUME IInv, NEW r \in Request, Abort(r) PROVE IInv'
<1>1. RequestsOK /\ started \in Nat
  BY DEF IInv, Committed, Stored
<1>2. /\ req'[r] = Idle /\ req' = [u \in Request |-> req'[u]] /\ \A u \in Request \ {r} : req'[u] = req[u]
      /\ UNCHANGED <<row, started, told, raced, log, retired>>
  BY <1>1 DEF Abort, RequestsOK
<1>3. ASSUME NEW u \in Request PROVE req'[u] = Idle \/ RequestOK(req[u])'
  BY <1>1, <1>2, RequestCarries DEF RequestsOK
<1>4. Dirty(r)' = << >> /\ \A u \in Request \ {r} : Dirty(u)' = Dirty(u)
  BY <1>2 DEF Dirty, Idle
<1>5. \A v, u \in Request : v # u => DOMAIN Dirty(v)' \cap DOMAIN Dirty(u)' = {}
  BY <1>1, <1>4 DEF RequestsOK
<1>6. RequestsOK'
  BY <1>2, <1>3, <1>5 DEF RequestsOK
<1> QED BY <1>1, <1>2, <1>6, SameCommitted DEF IInv

-----------------------------------------------------------------------------
(* The commit.                                                              *)

\* Whatever another request commits, what this one has written is its own.
LEMMA OthersCarry ==
  ASSUME NEW t, RequestOK(t), DOMAIN row \subseteq DOMAIN row', raced \subseteq raced',
         \A e \in DOMAIN t.dirty : (e \in DOMAIN row' => e \in DOMAIN row) /\ (e \in DOMAIN row => row'[e] = row[e])
  PROVE  RequestOK(t)'
<1>1. AskOK(t)'
  BY DEF RequestOK, AskOK
<1>2. SessionOK(t)'
  BY DEF RequestOK, SessionOK, RowsOK
<1>3. TodoOK(t)'
  BY DEF RequestOK, TodoOK, StatementOK
<1>4. DriftOK(t)'
  BY DEF RequestOK, DriftOK, Given
<1>5. CompactOK(t)'
  BY DEF RequestOK, CompactOK
<1>6. SweepOK(t)'
  BY DEF RequestOK, SweepOK
<1> QED BY <1>1, <1>2, <1>3, <1>4, <1>5, <1>6 DEF RequestOK

\* What an entry the request wrote is told by its commit.
ToldBy(q, e) ==
  IF e \in DOMAIN q.dirty \ DOMAIN row THEN [doc |-> q.dirty[e].doc, uses |-> 0]
  ELSE IF e \notin DOMAIN q.gave THEN told[e]
  ELSE [doc  |-> Patched(told[e].doc, [k \in q.gave[e] \cap DOMAIN q.dirty[e].doc |-> q.dirty[e].doc[k]]),
        uses |-> told[e].uses + IF "usage" \in q.gave[e] THEN 1 ELSE 0]

LEMMA CommitDoes ==
  ASSUME IInv, NEW r \in Request, NEW q, q = req[r], Commit(r)
  PROVE  /\ q.pc = "write" /\ q.todo = << >> /\ RequestOK(q) /\ Dirty(r) = q.dirty
         /\ row' = [e \in DOMAIN row \cup DOMAIN q.dirty |-> IF e \in DOMAIN q.dirty THEN q.dirty[e] ELSE row[e]]
         /\ told' = [e \in DOMAIN row \cup DOMAIN q.dirty |-> ToldBy(q, e)]
         /\ raced' = raced \cup q.stale
         /\ DOMAIN log' = DOMAIN row \cup DOMAIN q.dirty
         /\ retired' = IF q.op = "compact" /\ q.action = "archive"
                       THEN retired \cup {<<q.fresh, e>> : e \in {q.e, q.o}} ELSE retired
         /\ req' = [req EXCEPT ![r] = Idle] /\ started' = started
<1>1. q.pc = "write" /\ q.todo = << >> /\ req' = [req EXCEPT ![r] = Idle] /\ started' = started
  BY DEF Commit
<1>2. RequestOK(q) /\ Dirty(r) = q.dirty
  BY <1>1, Working
<1>3. row' = [e \in DOMAIN row \cup DOMAIN q.dirty |-> IF e \in DOMAIN q.dirty THEN q.dirty[e] ELSE row[e]]
  BY <1>2 DEF Commit
<1>4. told' = [e \in DOMAIN row \cup DOMAIN q.dirty |-> ToldBy(q, e)]
  BY <1>2 DEF Commit, ToldBy
<1>5. raced' = raced \cup q.stale /\ DOMAIN log' = DOMAIN row \cup DOMAIN q.dirty
  BY <1>2 DEF Commit
<1>6. retired' = IF q.op = "compact" /\ q.action = "archive"
                 THEN retired \cup {<<q.fresh, e>> : e \in {q.e, q.o}} ELSE retired
  BY DEF Commit
<1> QED BY <1>1, <1>2, <1>3, <1>4, <1>5, <1>6

LEMMA CommitTells ==
  ASSUME IInv, NEW q, RequestOK(q), NEW e \in DOMAIN row \cup DOMAIN q.dirty, e \notin raced \cup q.stale
  PROVE  LET v == IF e \in DOMAIN q.dirty THEN q.dirty[e] ELSE row[e]
         IN v.doc = ToldBy(q, e).doc /\ v.usage = ToldBy(q, e).uses
<1>1. /\ RowsOK(row) /\ RowsOK(q.dirty) /\ DOMAIN q.gave \subseteq DOMAIN q.dirty
      /\ e \in DOMAIN row => row[e].doc = told[e].doc /\ row[e].usage = told[e].uses
  BY DEF IInv, Committed, Stored, UpdatesLostOnlyByOverlap, RequestOK, SessionOK
<1>2. CASE e \notin DOMAIN row
  <2>1. DriftRow(q, e)
    BY <1>2, DriftByRow DEF RequestOK
  <2> QED BY <1>2, <2>1 DEF ToldBy, DriftRow
<1>3. CASE e \in DOMAIN row /\ e \notin DOMAIN q.dirty
  BY <1>1, <1>3 DEF ToldBy
<1>4. CASE e \in DOMAIN row \cap DOMAIN q.dirty
  <2>1. DriftRow(q, e)
    BY <1>4, DriftByRow DEF RequestOK
  <2>2. /\ \A k \in DocKeys \ Given(q, e) : q.dirty[e].doc[k] = told[e].doc[k]
        /\ q.dirty[e].usage = told[e].uses + IF "usage" \in Given(q, e) THEN 1 ELSE 0
    BY <1>1, <1>4, <2>1 DEF DriftRow
  <2>3. PICK w, o : w = q.dirty[e].doc /\ o = told[e].doc
    OBVIOUS
  <2>4. w \in Docs /\ o \in Docs /\ told[e].uses \in Nat
    BY <1>1, <1>4, <2>3 DEF RowsOK, Row
  <2>5. CASE e \notin DOMAIN q.gave
    <3>1. Given(q, e) = {} /\ ToldBy(q, e) = told[e]
      BY <1>4, <2>5 DEF Given, ToldBy
    <3>2. \A k \in DocKeys : w[k] = o[k]
      BY <2>2, <2>3, <3>1
    <3>3. w = o
      BY <2>4, <3>2, SameDocs
    <3>4. q.dirty[e].usage = told[e].uses
      BY <2>2, <2>4, <3>1
    <3> QED BY <1>4, <2>3, <3>1, <3>3, <3>4
  <2>6. CASE e \in DOMAIN q.gave
    <3>1. PICK g : g = q.gave[e]
      OBVIOUS
    <3>2. PICK keys : keys = [k \in g \cap DOMAIN w |-> w[k]]
      OBVIOUS
    <3>3. Given(q, e) = g
      BY <2>6, <3>1 DEF Given
    <3>4. DOMAIN w = DocKeys /\ KeysOK(w)
      BY <2>4, DocByKeys
    <3>5. KeysOK(keys) /\ DOMAIN keys = g \cap DocKeys /\ \A k \in DOMAIN keys : keys[k] = w[k]
      BY <3>2, <3>4 DEF KeysOK
    <3>6. PICK n : n = Patched(o, keys)
      OBVIOUS
    <3>7. n \in Docs /\ \A k \in DocKeys : n[k] = IF k \in DOMAIN keys THEN keys[k] ELSE o[k]
      BY <2>4, <3>5, <3>6, PatchedDoc
    <3>8. \A k \in DocKeys : n[k] = w[k]
      BY <2>2, <2>3, <3>3, <3>5, <3>7
    <3>9. n = w
      BY <2>4, <3>7, <3>8, SameDocs
    <3>10. ToldBy(q, e) = [doc |-> n, uses |-> told[e].uses + IF "usage" \in g THEN 1 ELSE 0]
      BY <1>4, <2>3, <2>6, <3>1, <3>2, <3>6 DEF ToldBy
    <3> QED BY <1>4, <2>2, <2>3, <3>3, <3>9, <3>10
  <2> QED BY <2>5, <2>6
<1> QED BY <1>2, <1>3, <1>4

LEMMA CommitKeeps == ASSUME IInv, NEW r \in Request, Commit(r) PROVE IInv'
<1>1. PICK q : q = req[r]
  OBVIOUS
<1>2. /\ q.pc = "write" /\ q.todo = << >> /\ RequestOK(q) /\ Dirty(r) = q.dirty
      /\ row' = [e \in DOMAIN row \cup DOMAIN q.dirty |-> IF e \in DOMAIN q.dirty THEN q.dirty[e] ELSE row[e]]
      /\ told' = [e \in DOMAIN row \cup DOMAIN q.dirty |-> ToldBy(q, e)]
      /\ raced' = raced \cup q.stale
      /\ DOMAIN log' = DOMAIN row \cup DOMAIN q.dirty
      /\ retired' = IF q.op = "compact" /\ q.action = "archive"
                    THEN retired \cup {<<q.fresh, e>> : e \in {q.e, q.o}} ELSE retired
      /\ req' = [req EXCEPT ![r] = Idle] /\ started' = started
  BY SMTT(30), <1>1, CommitDoes
<1>3. RequestsOK /\ Stored /\ UpdatesLostOnlyByOverlap /\ RetiredOnce
  BY DEF IInv, Committed
<1>4. /\ DOMAIN row' = DOMAIN row \cup DOMAIN q.dirty
      /\ \A e \in DOMAIN row' : row'[e] = IF e \in DOMAIN q.dirty THEN q.dirty[e] ELSE row[e]
      /\ DOMAIN told' = DOMAIN row' /\ \A e \in DOMAIN row' : told'[e] = ToldBy(q, e)
  BY <1>2
<1>5. Stored'
  <2>1. RowsOK(row) /\ RowsOK(q.dirty)
    BY <1>2, <1>3 DEF Stored, RequestOK, SessionOK
  <2>2. RowsOK(row)'
    BY <1>4, <2>1 DEF RowsOK
  <2> QED BY <1>2, <1>3, <1>4, <2>2 DEF Stored
<1>6. UpdatesLostOnlyByOverlap'
  <2>1. ASSUME NEW e \in DOMAIN row', e \notin raced'
        PROVE  row'[e].doc = told'[e].doc /\ row'[e].usage = told'[e].uses
    BY <1>2, <1>4, <2>1, CommitTells
  <2> QED BY <2>1 DEF UpdatesLostOnlyByOverlap
<1>7. \A e \in DOMAIN q.dirty \cap DOMAIN row : q.dirty[e].current => row[e].current
  BY <1>2 DEF RequestOK, DriftOK
<1>8. RetiredOnce'
  <2>1. \A p \in retired : p[2] \in DOMAIN row /\ ~row[p[2]].current /\ p[2] \in DOMAIN row' /\ ~row'[p[2]].current
    BY <1>3, <1>4, <1>7 DEF RetiredOnce
  <2>2. CASE ~(q.op = "compact" /\ q.action = "archive")
    <3>1. retired' = retired
      BY <1>2, <2>2
    <3> QED BY <1>3, <2>1, <3>1 DEF RetiredOnce
  <2>3. CASE q.op = "compact" /\ q.action = "archive"
    <3>1. Items(q.todo) = {}
      BY <1>2, NoItems
    <3>2. \A x \in {q.e, q.o} : /\ x \in DOMAIN row /\ row[x].current
                                /\ x \in DOMAIN row' /\ ~row'[x].current
      BY <1>2, <1>4, <2>3, <3>1 DEF RequestOK, CompactOK
    <3>3. \A p \in retired' : p \in retired \/ \E x \in {q.e, q.o} : p = <<q.fresh, x>>
      BY <1>2, <2>3
    <3>4. \A p \in retired' : p[2] \in DOMAIN row' /\ ~row'[p[2]].current
      BY <2>1, <3>2, <3>3
    <3>5. ASSUME NEW p \in retired', NEW s \in retired', p[2] = s[2] PROVE p = s
      <4>1. CASE p \in retired /\ s \in retired
        BY <1>3, <3>5, <4>1 DEF RetiredOnce
      <4>2. CASE (\E x \in {q.e, q.o} : p = <<q.fresh, x>>) /\ (\E x \in {q.e, q.o} : s = <<q.fresh, x>>)
        BY <3>5, <4>2
      <4>3. CASE p \in retired /\ (\E x \in {q.e, q.o} : s = <<q.fresh, x>>)
        BY <2>1, <3>2, <3>5, <4>3
      <4>4. CASE s \in retired /\ (\E x \in {q.e, q.o} : p = <<q.fresh, x>>)
        BY <2>1, <3>2, <3>5, <4>4
      <4> QED BY <3>3, <4>1, <4>2, <4>3, <4>4
    <3> QED BY <3>4, <3>5 DEF RetiredOnce
  <2> QED BY <2>2, <2>3
<1>9. req'[r] = Idle /\ req' = [u \in Request |-> req'[u]] /\ \A u \in Request \ {r} : req'[u] = req[u]
  BY <1>2, <1>3 DEF RequestsOK
<1>10. ASSUME NEW u \in Request \ {r} PROVE req'[u] = Idle \/ RequestOK(req[u])'
  <2>1. PICK t : t = req[u]
    OBVIOUS
  <2>2. SUFFICES ASSUME RequestOK(t) PROVE RequestOK(req[u])'
    BY <1>3, <1>9, <2>1 DEF RequestsOK
  <2>3. Dirty(u) = t.dirty
    BY <2>1, <2>2 DEF Dirty, RequestOK, SessionOK
  <2>4. DOMAIN t.dirty \cap DOMAIN q.dirty = {}
    BY <1>2, <1>3, <2>3 DEF RequestsOK
  <2>5. \A e \in DOMAIN t.dirty : (e \in DOMAIN row' => e \in DOMAIN row) /\ (e \in DOMAIN row => row'[e] = row[e])
    BY <1>4, <2>4
  <2>6. RequestOK(t)'
    BY <1>2, <1>4, <2>2, <2>5, OthersCarry
  <2>7. t = req'[u]
    BY <1>9, <2>1
  <2> QED BY <2>6, <2>7, RequestAt
<1>11. Dirty(r)' = << >> /\ \A u \in Request \ {r} : Dirty(u)' = Dirty(u)
  BY <1>9 DEF Dirty, Idle
<1>12. \A v, u \in Request : v # u => DOMAIN Dirty(v)' \cap DOMAIN Dirty(u)' = {}
  BY <1>3, <1>11 DEF RequestsOK
<1>13. RequestsOK'
  BY <1>9, <1>10, <1>12 DEF RequestsOK
<1> QED BY <1>5, <1>6, <1>8, <1>13 DEF IInv, Committed

-----------------------------------------------------------------------------
(* The invariant, and what follows from it.                                 *)

LEMMA InitHolds == ASSUME Init PROVE IInv
<1>1. row \in Seeds /\ req = [r \in Request |-> Idle] /\ retired = {} /\ started = 0
      /\ told = [e \in DOMAIN row |-> [doc |-> row[e].doc, uses |-> row[e].usage]] /\ DOMAIN log = DOMAIN row
  BY DEF Init
<1>2. RowsOK(row)
  <2>1. row \in Seq(Row) /\ Len(row) <= MaxEntries /\ MaxEntries \in Nat
    BY <1>1, UpkeepAssumption
  <2>2. Len(row) \in Nat /\ DOMAIN row = 1..Len(row) /\ \A e \in 1..Len(row) : row[e] \in Row
    BY <2>1
  <2> QED BY <2>1, <2>2 DEF RowsOK, Id
<1>3. Stored /\ UpdatesLostOnlyByOverlap /\ RetiredOnce
  BY <1>1, <1>2 DEF Stored, UpdatesLostOnlyByOverlap, RetiredOnce
<1>4. RequestsOK
  BY <1>1 DEF RequestsOK, Dirty, Idle
<1> QED BY <1>3, <1>4 DEF IInv, Committed

LEMMA StutterKeeps == ASSUME IInv, UNCHANGED vars PROVE IInv'
<1>1. UNCHANGED <<row, req, started, told, raced, log, retired>>
  BY DEF vars
<1>2. RequestsOK /\ started \in Nat
  BY DEF IInv, Committed, Stored
<1>3. ASSUME NEW u \in Request PROVE req'[u] = Idle \/ RequestOK(req[u])'
  <2>1. PICK t : t = req'[u]
    OBVIOUS
  <2>2. t = Idle \/ RequestOK(t)
    BY <1>1, <1>2, <2>1 DEF RequestsOK
  <2> QED BY <1>1, <2>1, <2>2, RequestCarries
<1>4. \A u \in Request : Dirty(u)' = Dirty(u)
  BY <1>1 DEF Dirty
<1>5. RequestsOK'
  BY <1>1, <1>2, <1>3, <1>4 DEF RequestsOK
<1> QED BY <1>1, <1>2, <1>5, SameCommitted DEF IInv

LEMMA StepHolds == ASSUME IInv, [Next]_vars PROVE IInv'
<1>1. CASE UNCHANGED vars
  BY <1>1, StutterKeeps
<1>2. ASSUME NEW r \in Request, Step(r) PROVE IInv'
  BY <1>2, BeginKeeps, ReadKeeps, PatchKeeps, UseKeeps, ArchiveKeeps, ReviseKeeps, RestoreKeeps, CreateKeeps, MatchKeeps,
     CommitKeeps, AbortKeeps DEF Step
<1> QED BY <1>1, <1>2 DEF Next

LEMMA InvariantHolds == Spec => []IInv
<1>1. Init => IInv
  BY InitHolds
<1>2. IInv /\ [Next]_vars => IInv'
  BY StepHolds
<1> QED BY <1>1, <1>2, PTL DEF Spec

\* TypeOK: every row, committed or written by a running request, keeps its
\* type, and no two requests have written the same entry: the row locks.
THEOREM UpkeepTypeCorrect == Spec => []TypeOK
<1>1. IInv => TypeOK
  <2>1. SUFFICES ASSUME IInv PROVE TypeOK
    OBVIOUS
  <2>2. \A r \in Request : RowsOK(Dirty(r))
    <3>1. ASSUME NEW r \in Request, req[r].pc # "idle" PROVE RowsOK(Dirty(r))
      BY <2>1, <3>1, Working DEF RequestOK, SessionOK
    <3>2. ASSUME NEW r \in Request, req[r].pc = "idle" PROVE RowsOK(Dirty(r))
      BY <3>2 DEF Dirty, RowsOK
    <3> QED BY <3>1, <3>2
  <2> QED BY <2>1, <2>2 DEF IInv, Committed, Stored, RequestsOK, RowsOK, TypeOK
<1> QED BY <1>1, InvariantHolds, PTL

\* UpdatesLostOnlyByOverlap: what a committed request told an entry stays in
\* it, unless a request that had read an older version wrote the entry.
THEOREM UpdatesSurvive == Spec => []UpdatesLostOnlyByOverlap
<1>1. IInv => UpdatesLostOnlyByOverlap
  BY DEF IInv, Committed
<1> QED BY <1>1, InvariantHolds, PTL

\* CompactedOnce: an entry is archived into one summary only, and is not
\* current afterwards.
THEOREM CompactsOnce == Spec => []CompactedOnce
<1>1. IInv => CompactedOnce
  BY SMTT(30) DEF IInv, Committed, RetiredOnce, CompactedOnce
<1> QED BY <1>1, InvariantHolds, PTL

\* The entries change only by the commit of a request.
LEMMA OnlyCommits ==
  ASSUME NEW r \in Request, Step(r), ~Commit(r)
  PROVE  row' = row
BY DEF Step, Begin, Read, PatchEntry, UseEntry, ArchiveEntry, ReviseEntry, RestoreEntry, CreateEntry, MatchEntry, Abort

\* UsedEntriesSurvive: a lifecycle run never archives an entry that has been
\* retrieved twice, unless requests overlapped.
THEOREM RetrievedEntriesSurvive == Spec => UsedEntriesSurvive
<1> DEFINE Survives ==
      \A r \in Request, e \in DOMAIN row :
        req[r].pc = "write" /\ req[r].op = "lifecycle" /\ row[e].current /\ ~row'[e].current
        /\ req'[r].pc = "idle" /\ e \notin raced /\ row[e] = req[r].base[e]
        => told[e].uses <= 1
<1>1. IInv /\ [Next]_vars => [Survives]_vars
  <2>1. SUFFICES ASSUME IInv, Next, NEW r \in Request, NEW e \in DOMAIN row,
                        req[r].pc = "write", req[r].op = "lifecycle", row[e].current, ~row'[e].current,
                        req'[r].pc = "idle", e \notin raced, row[e] = req[r].base[e]
                 PROVE  told[e].uses <= 1
    OBVIOUS
  <2>2. PICK u \in Request : Step(u)
    BY <2>1 DEF Next
  <2>3. Commit(u)
    BY <2>1, <2>2, OnlyCommits
  <2>4. PICK q : q = req[u]
    OBVIOUS
  <2>5. /\ row' = [x \in DOMAIN row \cup DOMAIN q.dirty |-> IF x \in DOMAIN q.dirty THEN q.dirty[x] ELSE row[x]]
        /\ req' = [req EXCEPT ![u] = Idle] /\ RequestOK(q)
    <3>1. req[u].pc = "write" /\ req' = [req EXCEPT ![u] = Idle]
      BY <2>3 DEF Commit
    <3>2. RequestOK(q) /\ Dirty(u) = q.dirty
      BY <2>1, <2>4, <3>1, Working
    <3> QED BY <2>3, <2>4, <3>1, <3>2 DEF Commit
  <2>6. u = r
    <3>1. req = [x \in Request |-> req[x]]
      BY <2>1 DEF IInv, RequestsOK
    <3> QED BY <2>1, <2>5, <3>1
  <2>7. e \in DOMAIN q.dirty /\ ~q.dirty[e].current
    BY <2>1, <2>5
  <2>8. q.base[e].usage <= 1
    BY <2>1, <2>4, <2>5, <2>6, <2>7 DEF RequestOK, SweepOK
  <2>9. row[e].usage = told[e].uses
    BY <2>1 DEF IInv, Committed, UpdatesLostOnlyByOverlap
  <2> QED BY <2>1, <2>4, <2>6, <2>8, <2>9
<1>2. UsedEntriesSurvive <=> [][Survives]_vars
  BY DEF UsedEntriesSurvive
<1> QED BY <1>1, <1>2, InvariantHolds, PTL DEF Spec

-----------------------------------------------------------------------------
(* Imports: the account of the runs, and one event and one entry.           *)

\* The document gives account of the runs s.
Tally(doc, s) == doc.runs = Len(s) /\ doc.history = LastRuns(s)

SameCount(doc, old) == doc.runs = old.runs /\ doc.history = old.history

\* It gives account of one run more than an older document.
Counts(doc, old, n) == doc.runs = old.runs + 1 /\ doc.history = LastRuns(Append(old.history, n))

OfKind(q, k) == {e \in DOMAIN q.dirty : q.dirty[e].kind = k}

\* Nothing current of this kind is left of what the request knew at its start.
NoneKnown(q, k) == \A e \in q.known : ~ (row[e].kind = k /\ row[e].current)

\* The request replaced x by f; it gave x no account.
Revised(q, x, f) ==
  /\ x \in DOMAIN q.dirty \cap DOMAIN row /\ f \in DOMAIN q.dirty \ DOMAIN row
  /\ row[x].current /\ ~q.dirty[x].current /\ q.dirty[x].doc = row[x].doc
  /\ q.dirty[f].current /\ q.dirty[f].kind = row[x].kind

\* An import has written its event: a first one, a revision, or a patch.
EventDone(q) ==
  \/ \E f \in DOMAIN q.dirty \ DOMAIN row :
       /\ OfKind(q, "event") = {f} /\ "event" \in q.born /\ q.dirty[f].current
       /\ q.action # "update" \/ NoneKnown(q, "event")
       /\ Tally(q.dirty[f].doc, <<q.n>>)
  \/ \E x, f \in DOMAIN q.dirty :
       /\ OfKind(q, "event") = {x, f} /\ Revised(q, x, f)
       /\ f \in q.stale \/ (x \notin raced /\ Counts(q.dirty[f].doc, row[x].doc, q.n))
  \/ \E x \in DOMAIN q.dirty \cap DOMAIN row :
       /\ OfKind(q, "event") = {x}
       /\ x \in q.stale \cup raced \/ (q.dirty[x].current /\ Counts(q.dirty[x].doc, row[x].doc, q.n))

\* It is through with its entry.
ImportedDone(q) ==
  \/ OfKind(q, "imported") = {}
  \/ \E f \in DOMAIN q.dirty \ DOMAIN row :
       /\ OfKind(q, "imported") = {f} /\ "imported" \in q.born
       /\ q.action = "create" \/ NoneKnown(q, "imported")
  \/ \E x, f \in DOMAIN q.dirty : OfKind(q, "imported") = {x, f} /\ Revised(q, x, f)

\* The plan of an import, before any of it is done.
PlannedImport(q) ==
  /\ DOMAIN q.dirty = {}
  /\ \/ /\ q.todo = << Create("event", Account(NoDoc, q.n)), Match >>
        /\ q.action # "update" \/ NoneKnown(q, "event")
     \/ \E x \in DOMAIN q.base :
          /\ q.base[x].kind = "event" /\ row[x].kind = "event" /\ q.base[x].current
          /\ \/ q.todo = << Revise(x, Carried(q.base[x].doc), 0),
                            Patch(0, Account(q.base[x].doc, q.n)), Match >>
             \/ q.todo = << Patch(x, Account(q.base[x].doc, q.n)), Match >>

\* Its event is revised and has no account yet.
RevisedImport(q) ==
  \E x \in DOMAIN q.base :
    /\ q.todo = << Patch(0, Account(q.base[x].doc, q.n)), Match >>
    /\ DOMAIN q.dirty = {x, q.fresh} /\ Revised(q, x, q.fresh) /\ row[x].kind = "event"
    /\ q.fresh \in q.stale \/ (x \notin raced /\ row[x] = q.base[x])

\* Its event is written, its entry is still to be looked for or to be written.
CountedImport(q) ==
  /\ EventDone(q) /\ OfKind(q, "imported") = {}
  /\ \/ q.todo = << Match >>
     \/ /\ q.todo = << Create("imported", [into |-> 0]) >>
        /\ q.action = "create" \/ NoneKnown(q, "imported")
     \/ \E y \in DOMAIN row : q.todo = << Revise(y, << >>, 0) >> /\ row[y].kind = "imported"

FinishedImport(q) == q.todo = << >> /\ EventDone(q) /\ ImportedDone(q)

ImportOK(q) ==
  q.pc = "write" => PlannedImport(q) \/ RevisedImport(q) \/ CountedImport(q) \/ FinishedImport(q)

\* A revision carries the account of what it revises.
ReviseOK(q) ==
  q.pc = "write" =>
    \/ q.todo = << Revise(q.e, << >>, 1) >> /\ DOMAIN q.dirty = {}
    \/ /\ q.todo = << >> /\ DOMAIN q.dirty = {q.e, q.fresh} /\ Revised(q, q.e, q.fresh)
       /\ q.fresh \in q.stale \/ (q.e \notin raced /\ SameCount(q.dirty[q.fresh].doc, row[q.e].doc))

\* A restored revision has the account of its source.
RestoreOK(q) ==
  q.pc = "write" =>
    \/ q.todo = << Restore(q.e, q.o) >> /\ DOMAIN q.dirty = {}
    \/ /\ q.todo = << >> /\ q.heard \in Seq(Nat)
       /\ q.fresh \in DOMAIN q.dirty \ DOMAIN row /\ DOMAIN q.dirty \ {q.fresh} \subseteq DOMAIN row
       /\ \A x \in DOMAIN q.dirty \ {q.fresh} : SameCount(q.dirty[x].doc, row[x].doc)
       /\ q.dirty[q.fresh].kind = "event" => q.fresh \in q.stale \/ Tally(q.dirty[q.fresh].doc, q.heard)
       /\ q.dirty[q.fresh].kind \in q.born \/ \E x \in DOMAIN q.dirty : Revised(q, x, q.fresh)

\* No other request gives or takes an account, and what it creates are notes.
PlainOK(q) ==
  /\ q.pc = "write" => \A st \in Items(q.todo) : PlainItem(st)
  /\ \A e \in DOMAIN q.dirty : Given(q, e) \cap CountKeys = {}
  /\ \A e \in DOMAIN q.dirty \ DOMAIN row : q.dirty[e].kind = "note"

CountOK(q) ==
  /\ q.stale \subseteq DOMAIN q.dirty /\ q.known \subseteq DOMAIN row
  /\ q.op = "import" => ImportOK(q)
  /\ q.op = "revise" => ReviseOK(q)
  /\ q.op = "restore" => RestoreOK(q)
  /\ PlainOp(q.op) => PlainOK(q)

Tallied ==
  /\ raced \subseteq DOMAIN row /\ \A e \in DOMAIN row : log[e] \in Seq(Nat)
  /\ \A e \in DOMAIN row \ raced :
       row[e].kind = "event" => Tally(row[e].doc, log[e])

Single ==
  \A k \in {"event", "imported"} \ twins, e, f \in DOMAIN row :
    row[e].kind = k /\ row[e].current /\ row[f].kind = k /\ row[f].current => e = f

ImportsInv ==
  /\ Tallied /\ Single
  /\ \A r \in Request : req[r] = Idle \/ CountOK(req[r])

-----------------------------------------------------------------------------
(* The account of an import.                                                *)

LEMMA LastRunsIs ==
  ASSUME NEW s \in Seq(Nat)
  PROVE  /\ LastRuns(s) \in Seq(Nat)
         /\ Len(s) <= HistoryCap => LastRuns(s) = s
         /\ Len(s) > HistoryCap =>
              /\ Len(LastRuns(s)) = HistoryCap
              /\ \A i \in 1..HistoryCap : LastRuns(s)[i] = s[Len(s) - HistoryCap + i]
<1>1. Len(s) \in Nat /\ HistoryCap \in Nat /\ HistoryCap # 0 /\ \A i \in 1..Len(s) : s[i] \in Nat
  BY UpkeepAssumption
<1>2. CASE Len(s) <= HistoryCap
  <2>1. LastRuns(s) = SubSeq(s, 1, Len(s))
    <3>1. ~ (Len(s) > HistoryCap) /\ 0 + 1 = 1
      BY <1>1, <1>2
    <3> QED BY <3>1, Zenon DEF LastRuns
  <2>2. /\ SubSeq(s, 1, Len(s)) \in Seq(Nat) /\ Len(SubSeq(s, 1, Len(s))) = Len(s)
        /\ \A i \in 1..Len(s) : SubSeq(s, 1, Len(s))[i] = s[i]
    BY <1>1, SubSeqProperties
  <2>3. SubSeq(s, 1, Len(s)) = s
    BY <2>2, SeqEqual
  <2>4. LastRuns(s) = s /\ ~ (Len(s) > HistoryCap)
    BY <1>1, <1>2, <2>1, <2>3
  <2> QED BY <1>2, <2>4
<1>3. CASE Len(s) > HistoryCap
  <2> DEFINE m == Len(s) - HistoryCap + 1
  <2>1. LastRuns(s) = SubSeq(s, m, Len(s)) /\ m \in Int /\ m >= 1 /\ m <= Len(s) /\ Len(s) - m + 1 = HistoryCap
    BY <1>1, <1>3 DEF LastRuns
  <2>2. \A i \in m..Len(s) : s[i] \in Nat
    BY <1>1, <2>1
  <2>3. \A i \in Int : m + i - 1 = Len(s) - HistoryCap + i
    BY <1>1
  <2> HIDE DEF m
  <2>4. /\ SubSeq(s, m, Len(s)) \in Seq(Nat) /\ Len(SubSeq(s, m, Len(s))) = Len(s) - m + 1
        /\ \A i \in 1..Len(s) - m + 1 : SubSeq(s, m, Len(s))[i] = s[m + i - 1]
    BY <1>1, <2>1, <2>2, SubSeqProperties
  <2> QED BY SMTT(30), <1>1, <1>3, <2>1, <2>3, <2>4
<1> QED BY <1>1, <1>2, <1>3

\* The last runs of a longer history come from the last runs before.
LEMMA LastRunsAgain ==
  ASSUME NEW s \in Seq(Nat), NEW n \in Nat
  PROVE  LastRuns(Append(LastRuns(s), n)) = LastRuns(Append(s, n))
<1>1. Len(s) \in Nat /\ HistoryCap \in Nat /\ HistoryCap # 0
  BY UpkeepAssumption
<1>2. CASE Len(s) <= HistoryCap
  BY <1>2, LastRunsIs
<1>3. CASE Len(s) > HistoryCap
  <2>1. PICK l : l = LastRuns(s)
    OBVIOUS
  <2>2. /\ l \in Seq(Nat) /\ Len(l) = HistoryCap
        /\ \A i \in 1..HistoryCap : l[i] = s[Len(s) - HistoryCap + i]
    BY <1>3, <2>1, LastRunsIs
  <2>3. PICK a : a = Append(l, n)
    OBVIOUS
  <2>4. PICK b : b = Append(s, n)
    OBVIOUS
  <2>5. /\ a \in Seq(Nat) /\ Len(a) = HistoryCap + 1 /\ a[HistoryCap + 1] = n
        /\ \A i \in 1..HistoryCap : a[i] = l[i]
    BY <2>2, <2>3, AppendProperties
  <2>6. /\ b \in Seq(Nat) /\ Len(b) = Len(s) + 1 /\ b[Len(s) + 1] = n
        /\ \A i \in 1..Len(s) : b[i] = s[i]
    BY <2>4, AppendProperties
  <2>7. /\ LastRuns(a) \in Seq(Nat) /\ Len(LastRuns(a)) = HistoryCap
        /\ \A i \in 1..HistoryCap : LastRuns(a)[i] = a[i + 1]
    <3>1. Len(a) > HistoryCap
      BY <1>1, <2>5
    <3>2. \A i \in 1..HistoryCap : Len(a) - HistoryCap + i = i + 1
      BY <1>1, <2>5
    <3>3. /\ LastRuns(a) \in Seq(Nat) /\ Len(LastRuns(a)) = HistoryCap
          /\ \A i \in 1..HistoryCap : LastRuns(a)[i] = a[Len(a) - HistoryCap + i]
      BY ZenonT(30), <2>5, <3>1, LastRunsIs
    <3> QED BY <3>2, <3>3
  <2>8. /\ LastRuns(b) \in Seq(Nat) /\ Len(LastRuns(b)) = HistoryCap
        /\ \A i \in 1..HistoryCap : LastRuns(b)[i] = b[Len(s) - HistoryCap + (i + 1)]
    <3>1. Len(b) > HistoryCap
      BY <1>1, <1>3, <2>6
    <3>2. \A i \in 1..HistoryCap : Len(b) - HistoryCap + i = Len(s) - HistoryCap + (i + 1)
      BY <1>1, <2>6
    <3>3. /\ LastRuns(b) \in Seq(Nat) /\ Len(LastRuns(b)) = HistoryCap
          /\ \A i \in 1..HistoryCap : LastRuns(b)[i] = b[Len(b) - HistoryCap + i]
      BY ZenonT(30), <2>6, <3>1, LastRunsIs
    <3> QED BY <3>2, <3>3
  <2>9. ASSUME NEW i \in 1..HistoryCap PROVE LastRuns(a)[i] = LastRuns(b)[i]
    <3>1. CASE i = HistoryCap
      <4>1. Len(s) - HistoryCap + (i + 1) = Len(s) + 1
        BY <1>1, <3>1
      <4> QED BY <2>5, <2>6, <2>7, <2>8, <3>1, <4>1
    <3>2. CASE i # HistoryCap
      <4>1. PICK j \in 1..HistoryCap : j = i + 1
        BY <1>1, <3>2
      <4>2. Len(s) - HistoryCap + j \in 1..Len(s)
        BY <1>1, <1>3
      <4>3. LastRuns(a)[i] = a[j] /\ LastRuns(b)[i] = b[Len(s) - HistoryCap + j]
        BY <2>7, <2>8, <4>1
      <4>4. a[j] = l[j] /\ l[j] = s[Len(s) - HistoryCap + j]
        BY <2>2, <2>5
      <4>5. b[Len(s) - HistoryCap + j] = s[Len(s) - HistoryCap + j]
        BY <2>6, <4>2
      <4> QED BY <4>3, <4>4, <4>5
    <3> QED BY <3>1, <3>2
  <2>10. LastRuns(a) = LastRuns(b)
    BY <2>7, <2>8, <2>9, SeqEqual
  <2> QED BY <2>1, <2>3, <2>4, <2>10
<1> QED BY <1>1, <1>2, <1>3

\* One run more, on an account of the runs before it.
LEMMA CountsTally ==
  ASSUME NEW s \in Seq(Nat), NEW n \in Nat, NEW old, NEW doc, Tally(old, s), Counts(doc, old, n)
  PROVE  Tally(doc, Append(s, n))
<1>1. Len(Append(s, n)) = Len(s) + 1
  OBVIOUS
<1>2. LastRuns(Append(old.history, n)) = LastRuns(Append(s, n))
  BY LastRunsAgain DEF Tally
<1> QED BY <1>1, <1>2 DEF Tally, Counts

\* The first run.
LEMMA FirstTally ==
  ASSUME NEW n \in Nat, NEW doc, Counts(doc, NoDoc, n)
  PROVE  Tally(doc, <<n>>)
<1>1. NoDoc.runs = 0 /\ NoDoc.history = << >>
  BY DEF NoDoc
<1>2. Append(<< >>, n) = <<n>> /\ Len(<<n>>) = 1
  OBVIOUS
<1> QED BY <1>1, <1>2 DEF Tally, Counts

-----------------------------------------------------------------------------
(* What the other requests leave of it.                                     *)

\* Whatever others commit: they take no row the request has written, change no
\* kind, and make nothing current again.
LEMMA CountCarries ==
  ASSUME NEW t, CountOK(t), DOMAIN t.base \subseteq DOMAIN row, DOMAIN row \subseteq DOMAIN row',
         \A e \in DOMAIN row : row'[e].kind = row[e].kind /\ (row'[e].current => row[e].current),
         \A e \in DOMAIN t.dirty : /\ e \in DOMAIN row' => e \in DOMAIN row
                                   /\ e \in DOMAIN row => row'[e] = row[e]
                                   /\ e \in raced' <=> e \in raced
  PROVE  CountOK(t)'
<1>1. t.stale \subseteq DOMAIN t.dirty /\ t.known \subseteq DOMAIN row /\ t.known \subseteq DOMAIN row'
  BY DEF CountOK
<1>2. \A k : NoneKnown(t, k) => NoneKnown(t, k)'
  BY <1>1 DEF NoneKnown
<1>3. \A x, f : Revised(t, x, f) => Revised(t, x, f)'
  BY DEF Revised
<1>4. \A k : OfKind(t, k)' = OfKind(t, k)
  BY DEF OfKind
<1>5. EventDone(t) => EventDone(t)'
  <2>1. CASE \E f \in DOMAIN t.dirty \ DOMAIN row :
               /\ OfKind(t, "event") = {f} /\ "event" \in t.born /\ t.dirty[f].current
               /\ t.action # "update" \/ NoneKnown(t, "event")
               /\ Tally(t.dirty[f].doc, <<t.n>>)
    BY <1>2, <1>4, <2>1 DEF EventDone, Tally
  <2>2. CASE \E x, f \in DOMAIN t.dirty :
               /\ OfKind(t, "event") = {x, f} /\ Revised(t, x, f)
               /\ f \in t.stale \/ (x \notin raced /\ Counts(t.dirty[f].doc, row[x].doc, t.n))
    <3>1. PICK x, f \in DOMAIN t.dirty :
               /\ OfKind(t, "event") = {x, f} /\ Revised(t, x, f)
               /\ f \in t.stale \/ (x \notin raced /\ Counts(t.dirty[f].doc, row[x].doc, t.n))
      BY <2>2
    <3>2. x \in DOMAIN row /\ row'[x] = row[x] /\ (x \in raced' <=> x \in raced)
      BY <3>1 DEF Revised
    <3>3. f \in t.stale \/ (x \notin raced' /\ Counts(t.dirty[f].doc, row'[x].doc, t.n))
      BY <3>1, <3>2
    <3>4. OfKind(t, "event")' = {x, f} /\ Revised(t, x, f)'
      BY <1>3, <1>4, <3>1
    <3> QED BY <3>3, <3>4 DEF EventDone, Counts
  <2>3. CASE \E x \in DOMAIN t.dirty \cap DOMAIN row :
               /\ OfKind(t, "event") = {x}
               /\ x \in t.stale \cup raced \/ (t.dirty[x].current /\ Counts(t.dirty[x].doc, row[x].doc, t.n))
    <3>1. PICK x \in DOMAIN t.dirty \cap DOMAIN row :
               /\ OfKind(t, "event") = {x}
               /\ x \in t.stale \cup raced \/ (t.dirty[x].current /\ Counts(t.dirty[x].doc, row[x].doc, t.n))
      BY <2>3
    <3>2. x \in DOMAIN row' /\ row'[x] = row[x] /\ (x \in raced' <=> x \in raced)
      BY <3>1
    <3>3. x \in t.stale \cup raced' \/ (t.dirty[x].current /\ Counts(t.dirty[x].doc, row'[x].doc, t.n))
      BY <3>1, <3>2
    <3>4. OfKind(t, "event")' = {x}
      BY <1>4, <3>1
    <3> QED BY <3>2, <3>3, <3>4 DEF EventDone, Counts
  <2> QED BY <2>1, <2>2, <2>3 DEF EventDone
<1>6. ImportedDone(t) => ImportedDone(t)'
  BY <1>2, <1>3, <1>4 DEF ImportedDone
<1>7. PlannedImport(t) => PlannedImport(t)'
  BY <1>2 DEF PlannedImport
<1>8. RevisedImport(t) => RevisedImport(t)'
  <2>1. SUFFICES ASSUME NEW x \in DOMAIN t.base,
                        t.todo = << Patch(0, Account(t.base[x].doc, t.n)), Match >>,
                        DOMAIN t.dirty = {x, t.fresh}, Revised(t, x, t.fresh), row[x].kind = "event",
                        t.fresh \in t.stale \/ (x \notin raced /\ row[x] = t.base[x])
                 PROVE  RevisedImport(t)'
    BY DEF RevisedImport
  <2>2. row'[x] = row[x] /\ (x \in raced' <=> x \in raced)
    BY <2>1 DEF Revised
  <2>3. Revised(t, x, t.fresh)'
    BY <1>3, <2>1
  <2> QED BY <2>1, <2>2, <2>3 DEF RevisedImport
<1>9. CountedImport(t) => CountedImport(t)'
  <2>1. SUFFICES ASSUME CountedImport(t) PROVE CountedImport(t)'
    OBVIOUS
  <2>2. EventDone(t)' /\ OfKind(t, "imported")' = {}
    BY <1>4, <1>5, <2>1 DEF CountedImport
  <2>3. CASE t.todo = << Match >>
    BY <2>2, <2>3 DEF CountedImport
  <2>4. CASE /\ t.todo = << Create("imported", [into |-> 0]) >>
             /\ t.action = "create" \/ NoneKnown(t, "imported")
    BY <1>2, <2>2, <2>4 DEF CountedImport
  <2>5. CASE \E y \in DOMAIN row : t.todo = << Revise(y, << >>, 0) >> /\ row[y].kind = "imported"
    <3>1. PICK y \in DOMAIN row : t.todo = << Revise(y, << >>, 0) >> /\ row[y].kind = "imported"
      BY <2>5
    <3>2. y \in DOMAIN row' /\ row'[y].kind = "imported"
      BY <3>1
    <3> QED BY <2>2, <3>1, <3>2 DEF CountedImport
  <2> QED BY <2>1, <2>3, <2>4, <2>5 DEF CountedImport
<1>10. ImportOK(t) => ImportOK(t)'
  BY <1>5, <1>6, <1>7, <1>8, <1>9 DEF ImportOK, FinishedImport
<1>11. ReviseOK(t) => ReviseOK(t)'
  <2>1. CASE DOMAIN t.dirty = {t.e, t.fresh} /\ Revised(t, t.e, t.fresh)
    <3>1. row'[t.e] = row[t.e] /\ (t.e \in raced' <=> t.e \in raced) /\ Revised(t, t.e, t.fresh)'
      BY <1>3, <2>1 DEF Revised
    <3> QED BY <3>1 DEF ReviseOK, SameCount
  <2> QED BY <2>1 DEF ReviseOK
<1>12. PlainOK(t) => PlainOK(t)'
  BY DEF PlainOK, PlainItem, Given
<1>13. RestoreOK(t) => RestoreOK(t)'
  <2>1. CASE t.todo = << Restore(t.e, t.o) >> /\ DOMAIN t.dirty = {}
    BY <2>1 DEF RestoreOK
  <2>2. SUFFICES ASSUME t.todo = << >>, t.heard \in Seq(Nat),
                        t.fresh \in DOMAIN t.dirty \ DOMAIN row, DOMAIN t.dirty \ {t.fresh} \subseteq DOMAIN row,
                        \A x \in DOMAIN t.dirty \ {t.fresh} : SameCount(t.dirty[x].doc, row[x].doc),
                        t.dirty[t.fresh].kind = "event" => t.fresh \in t.stale \/ Tally(t.dirty[t.fresh].doc, t.heard),
                        t.dirty[t.fresh].kind \in t.born \/ \E x \in DOMAIN t.dirty : Revised(t, x, t.fresh)
                 PROVE  RestoreOK(t)'
    BY <2>1 DEF RestoreOK
  <2>3. t.fresh \in DOMAIN t.dirty \ DOMAIN row' /\ DOMAIN t.dirty \ {t.fresh} \subseteq DOMAIN row'
    BY <2>2
  <2>4. \A x \in DOMAIN t.dirty \ {t.fresh} : row'[x] = row[x]
    BY <2>2
  <2>5. t.dirty[t.fresh].kind \in t.born \/ \E x \in DOMAIN t.dirty : Revised(t, x, t.fresh)'
    BY <1>3, <2>2
  <2>6. \A x \in DOMAIN t.dirty \ {t.fresh} : SameCount(t.dirty[x].doc, row[x].doc)'
    BY <2>2, <2>4 DEF SameCount
  <2>7. t.dirty[t.fresh].kind = "event" => t.fresh \in t.stale \/ Tally(t.dirty[t.fresh].doc, t.heard)'
    BY <2>2 DEF Tally
  <2> QED BY <2>2, <2>3, <2>5, <2>6, <2>7 DEF RestoreOK
<1> QED BY <1>1, <1>10, <1>11, <1>12, <1>13 DEF CountOK

LEMMA SameCounts ==
  ASSUME UNCHANGED <<row, raced>>, NEW t, CountOK(t)
  PROVE  CountOK(t)'
<1>1. /\ \A k : NoneKnown(t, k)' <=> NoneKnown(t, k)
      /\ \A x, f : Revised(t, x, f)' <=> Revised(t, x, f)
      /\ \A k : OfKind(t, k)' = OfKind(t, k)
  BY DEF NoneKnown, Revised, OfKind
<1>2. EventDone(t) => EventDone(t)'
  BY <1>1 DEF EventDone
<1>3. ImportedDone(t) => ImportedDone(t)'
  BY <1>1 DEF ImportedDone
<1>4. PlannedImport(t) => PlannedImport(t)'
  BY <1>1 DEF PlannedImport
<1>5. RevisedImport(t) => RevisedImport(t)'
  BY <1>1 DEF RevisedImport
<1>6. CountedImport(t) => CountedImport(t)'
  BY <1>1, <1>2 DEF CountedImport
<1>7. ImportOK(t) => ImportOK(t)'
  BY <1>2, <1>3, <1>4, <1>5, <1>6 DEF ImportOK, FinishedImport
<1>8. ReviseOK(t) => ReviseOK(t)'
  BY <1>1 DEF ReviseOK
<1>9. PlainOK(t) => PlainOK(t)'
  BY DEF PlainOK, Given
<1>10. RestoreOK(t) => RestoreOK(t)'
  BY <1>1 DEF RestoreOK, SameCount, Tally
<1> QED BY <1>7, <1>8, <1>9, <1>10 DEF CountOK

LEMMA CountAt ==
  ASSUME NEW u, NEW t, t = req'[u], CountOK(t)'
  PROVE  CountOK(req[u])'
<1>1. \A k : NoneKnown(t, k)' <=> NoneKnown(req[u], k)'
  BY DEF NoneKnown
<1>2. \A x, f : Revised(t, x, f)' <=> Revised(req[u], x, f)'
  BY DEF Revised
<1>3. \A k : OfKind(t, k)' = OfKind(req[u], k)'
  BY DEF OfKind
<1>4. EventDone(t)' => EventDone(req[u])'
  BY <1>1, <1>2, <1>3 DEF EventDone
<1>5. ImportedDone(t)' => ImportedDone(req[u])'
  BY <1>1, <1>2, <1>3 DEF ImportedDone
<1>6. PlannedImport(t)' => PlannedImport(req[u])'
  BY <1>1 DEF PlannedImport
<1>7. RevisedImport(t)' => RevisedImport(req[u])'
  BY <1>2 DEF RevisedImport
<1>8. CountedImport(t)' => CountedImport(req[u])'
  BY <1>1, <1>3, <1>4 DEF CountedImport
<1>9. ImportOK(t)' => ImportOK(req[u])'
  BY <1>4, <1>5, <1>6, <1>7, <1>8 DEF ImportOK, FinishedImport
<1>10. ReviseOK(t)' => ReviseOK(req[u])'
  BY <1>2 DEF ReviseOK
<1>11. PlainOK(t)' => PlainOK(req[u])'
  BY SMTT(30) DEF PlainOK, Given
<1>12. RestoreOK(t)' => RestoreOK(req[u])'
  BY <1>2 DEF RestoreOK, SameCount, Tally
<1> QED BY <1>9, <1>10, <1>11, <1>12 DEF CountOK

\* A step that commits nothing.
LEMMA CountWorks ==
  ASSUME IInv, ImportsInv, NEW r \in Request, NEW p, req' = [req EXCEPT ![r] = p],
         UNCHANGED <<row, raced, log, twins>>, p = Idle \/ CountOK(p)
  PROVE  ImportsInv'
<1>1. RequestsOK
  BY DEF IInv
<1>2. req'[r] = p /\ \A u \in Request \ {r} : req'[u] = req[u]
  BY <1>1 DEF RequestsOK
<1>3. Tallied' /\ Single'
  BY DEF ImportsInv, Tallied, Single
<1>4. ASSUME NEW u \in Request PROVE req'[u] = Idle \/ CountOK(req[u])'
  <2>1. PICK t : t = req'[u]
    OBVIOUS
  <2>2. t = Idle \/ CountOK(t)
    BY <1>2, <2>1 DEF ImportsInv
  <2>3. CountOK(t) => CountOK(t)'
    BY SameCounts
  <2> QED BY <2>1, <2>2, <2>3, CountAt
<1> QED BY <1>3, <1>4 DEF ImportsInv

-----------------------------------------------------------------------------
(* The steps of a request before its commit.                                *)

LEMMA BeginCounts == ASSUME IInv, ImportsInv, NEW r \in Request, Begin(r) PROVE ImportsInv'
<1>1. PICK c \in Commands :
        req' = [req EXCEPT ![r] =
                [pc |-> "read", op |-> c.op, e |-> c.e, o |-> c.o, action |-> c.action,
                 changed |-> c.changed, n |-> started + 1, known |-> {},
                 base |-> << >>, dirty |-> << >>, todo |-> << >>, fresh |-> 0,
                 gave |-> << >>, stale |-> {}, born |-> {}, heard |-> << >>]]
  BY DEF Begin
<1>2. PICK p : p = [pc |-> "read", op |-> c.op, e |-> c.e, o |-> c.o, action |-> c.action,
                    changed |-> c.changed, n |-> started + 1, known |-> {},
                    base |-> << >>, dirty |-> << >>, todo |-> << >>, fresh |-> 0,
                    gave |-> << >>, stale |-> {}, born |-> {}, heard |-> << >>]
  OBVIOUS
<1>3. req' = [req EXCEPT ![r] = p] /\ UNCHANGED <<row, raced, log, twins>>
  BY <1>1, <1>2 DEF Begin
<1>4. p.pc = "read" /\ DOMAIN p.dirty = {} /\ p.stale = {} /\ p.known = {}
  BY <1>2
<1>5. CountOK(p)
  BY <1>4 DEF CountOK, ImportOK, ReviseOK, RestoreOK, PlainOK
<1> QED BY <1>3, <1>5, CountWorks

LEMMA Joining ==
  ASSUME NEW a, NEW b, NEW c
  PROVE  <<a>> \o <<b>> = <<a, b>> /\ <<a, b>> \o <<c>> = <<a, b, c>>
<1> DEFINE S == {a, b, c}
<1>1. <<a>> \in Seq(S) /\ <<b>> \in Seq(S) /\ <<c>> \in Seq(S) /\ <<a, b>> \in Seq(S) /\ <<a, b, c>> \in Seq(S)
  OBVIOUS
<1>2. <<a>> \o <<b>> = <<a, b>>
  <2>1. PICK t : t = <<a>> \o <<b>>
    OBVIOUS
  <2>2. t \in Seq(S) /\ Len(t) = 2 /\ t[1] = a /\ t[2] = b
    BY <1>1, <2>1
  <2>3. PICK w : w = <<a, b>>
    OBVIOUS
  <2>4. w \in Seq(S) /\ Len(w) = 2 /\ w[1] = a /\ w[2] = b
    BY <1>1, <2>3
  <2>5. \A i \in 1..2 : t[i] = w[i]
    BY <2>2, <2>4
  <2>6. t = w
    BY <2>2, <2>4, <2>5, SeqEqual
  <2> QED BY <2>1, <2>3, <2>6
<1>3. <<a, b>> \o <<c>> = <<a, b, c>>
  <2>1. PICK t : t = <<a, b>> \o <<c>>
    OBVIOUS
  <2>2. t \in Seq(S) /\ Len(t) = 3 /\ t[1] = a /\ t[2] = b /\ t[3] = c
    BY <1>1, <2>1
  <2>3. PICK w : w = <<a, b, c>>
    OBVIOUS
  <2>4. w \in Seq(S) /\ Len(w) = 3 /\ w[1] = a /\ w[2] = b /\ w[3] = c
    BY <1>1, <2>3
  <2>5. \A i \in 1..3 : t[i] = w[i]
    BY <2>2, <2>4
  <2>6. t = w
    BY <2>2, <2>4, <2>5, SeqEqual
  <2> QED BY <2>1, <2>3, <2>6
<1> QED BY <1>2, <1>3

LEMMA ReadCounts == ASSUME IInv, ImportsInv, NEW r \in Request, Read(r) PROVE ImportsInv'
<1>1. PICK q : q = req[r]
  OBVIOUS
<1>2. PICK t : t = Plan(r)
  OBVIOUS
<1> DEFINE p == [q EXCEPT !.pc = "write", !.base = row, !.known = DOMAIN row, !.todo = t]
<1>3. /\ q.pc = "read" /\ req' = [req EXCEPT ![r] = p]
      /\ UNCHANGED <<row, raced, log, twins>>
  BY <1>1, <1>2 DEF Read, IInv, RequestsOK
<1>4. RequestOK(q) /\ q = [x \in Fields |-> q[x]] /\ RowsOK(row) /\ CountOK(q)
  BY <1>1, <1>3, Working DEF IInv, Committed, Stored, ImportsInv, Idle
<1>5. /\ p.pc = "write" /\ p.base = row /\ p.todo = t /\ p.known = DOMAIN row
      /\ p.op = q.op /\ p.e = q.e /\ p.o = q.o /\ p.action = q.action /\ p.n = q.n
      /\ p.dirty = q.dirty /\ p.gave = q.gave /\ p.stale = q.stale
  BY <1>4 DEF Fields
<1> HIDE DEF p
<1>6. DOMAIN p.dirty = {} /\ p.stale \subseteq DOMAIN p.dirty
  BY <1>3, <1>4, <1>5 DEF RequestOK, SessionOK, CountOK
<1>7. ASSUME q.op = "import" PROVE ImportOK(p)
  <2>1. PICK x : x = Newest(ActiveEvents)
    OBVIOUS
  <2>2. ActiveEvents # {} => x \in DOMAIN row /\ row[x].kind = "event" /\ row[x].current
    BY <1>4, <2>1, NewestOf DEF RowsOK, ActiveEvents
  <2>3. ActiveEvents = {} => NoneKnown(p, "event")
    BY <1>5 DEF NoneKnown, ActiveEvents
  <2> DEFINE first == IF q.action # "update" \/ ActiveEvents = {} THEN << Create("event", Account(NoDoc, q.n)) >>
                      ELSE IF q.changed THEN << Revise(x, Carried(row[x].doc), 0), Patch(0, Account(row[x].doc, q.n)) >>
                      ELSE << Patch(x, Account(row[x].doc, q.n)) >>
  <2>4. t = first \o << Match >>
    BY <1>1, <1>2, <1>7, <2>1 DEF Plan, ImportPlan
  <2>5. PICK a, b, c, m : /\ a = Create("event", Account(NoDoc, q.n)) /\ b = Revise(x, Carried(row[x].doc), 0)
                          /\ c = Patch(0, Account(row[x].doc, q.n)) /\ m = Match
    OBVIOUS
  <2>6. PICK d : d = Patch(x, Account(row[x].doc, q.n))
    OBVIOUS
  <2>7. CASE q.action # "update" \/ ActiveEvents = {}
    <3>1. first = <<a>>
      BY <2>5, <2>7
    <3> HIDE DEF first
    <3>2. t = <<a, m>>
      BY <2>4, <2>5, <3>1, Joining
    <3> QED BY <1>5, <1>6, <2>3, <2>5, <2>7, <3>2 DEF ImportOK, PlannedImport
  <2>8. CASE ~ (q.action # "update" \/ ActiveEvents = {}) /\ q.changed
    <3>1. first = <<b, c>>
      BY <2>5, <2>8
    <3> HIDE DEF first
    <3>2. t = <<b, c, m>>
      BY <2>4, <2>5, <3>1, Joining
    <3>3. x \in DOMAIN p.base /\ p.base[x].kind = "event" /\ row[x].kind = "event" /\ p.base[x].current
          /\ p.todo = << Revise(x, Carried(p.base[x].doc), 0), Patch(0, Account(p.base[x].doc, p.n)), Match >>
      BY <1>5, <2>2, <2>5, <2>8, <3>2
    <3> QED BY <1>6, <3>3 DEF ImportOK, PlannedImport
  <2>9. CASE ~ (q.action # "update" \/ ActiveEvents = {}) /\ ~q.changed
    <3>1. first = <<d>>
      BY <2>6, <2>9
    <3> HIDE DEF first
    <3>2. t = <<d, m>>
      BY <2>4, <2>5, <3>1, Joining
    <3>3. x \in DOMAIN p.base /\ p.base[x].kind = "event" /\ row[x].kind = "event" /\ p.base[x].current
          /\ p.todo = << Patch(x, Account(p.base[x].doc, p.n)), Match >>
      BY <1>5, <2>2, <2>5, <2>6, <2>9, <3>2
    <3> QED BY <1>6, <3>3 DEF ImportOK, PlannedImport
  <2> QED BY <2>7, <2>8, <2>9
<1>8. ASSUME q.op = "revise" PROVE ReviseOK(p)
  <2>1. t = << Revise(q.e, << >>, 1) >>
    BY <1>1, <1>2, <1>8 DEF Plan
  <2> QED BY <1>5, <1>6, <2>1 DEF ReviseOK
<1>9. ASSUME PlainOp(q.op) PROVE PlainOK(p)
  <2>1. Sound(q.op, t)
    BY <1>1, <1>2, <1>3, PlanSound
  <2> QED BY <1>5, <1>6, <1>9, <2>1 DEF Sound, PlainOK
<1>11. ASSUME q.op = "restore" PROVE RestoreOK(p)
  <2>1. t = << Restore(q.e, q.o) >> /\ p.o = q.o
    BY <1>1, <1>2, <1>4, <1>5, <1>11 DEF Plan
  <2> QED BY <1>5, <1>6, <2>1 DEF RestoreOK
<1>10. CountOK(p)
  BY <1>5, <1>6, <1>7, <1>8, <1>9, <1>11 DEF CountOK
<1> QED BY <1>3, <1>10, CountWorks

LEMMA AbortCounts == ASSUME IInv, ImportsInv, NEW r \in Request, Abort(r) PROVE ImportsInv'
<1>1. req' = [req EXCEPT ![r] = Idle] /\ UNCHANGED <<row, raced, log, twins>>
  BY DEF Abort
<1> QED BY <1>1, CountWorks

-----------------------------------------------------------------------------
(* What is left to do.                                                      *)

LEMMA Firsts ==
  ASSUME NEW a, NEW b, NEW c
  PROVE  /\ Head(<<a>>) = a /\ Tail(<<a>>) = << >> /\ <<a>> # << >>
         /\ Head(<<a, b>>) = a /\ Tail(<<a, b>>) = <<b>> /\ <<a, b>> # << >>
         /\ Head(<<a, b, c>>) = a /\ Tail(<<a, b, c>>) = <<b, c>> /\ <<a, b, c>> # << >>
OBVIOUS

\* What a step starts from, and what it leaves: see Writes.
Stepped(q, p, W) ==
  /\ RequestOK(q) /\ CountOK(q) /\ RowsOK(row)
  /\ p.pc = "write" /\ Same(p, q) /\ p.base = q.base /\ p.todo = Tail(q.todo)
  /\ DOMAIN p.dirty = DOMAIN q.dirty \cup W
  /\ \A x \in DOMAIN q.dirty \ W : p.dirty[x] = q.dirty[x] /\ Given(p, x) = Given(q, x)
  /\ q.stale \subseteq p.stale
  /\ Head(q.todo) \in Items(q.todo) /\ Items(p.todo) \subseteq Items(q.todo)
  /\ DOMAIN q.gave \subseteq DOMAIN q.dirty /\ q.n \in Nat
  /\ DOMAIN q.base \subseteq DOMAIN row /\ DOMAIN row \subseteq Id
  /\ \A x \in DOMAIN q.dirty \cap DOMAIN row :
       q.dirty[x].kind = row[x].kind /\ (q.dirty[x].current => row[x].current)

LEMMA StepStart ==
  ASSUME IInv, ImportsInv, NEW r \in Request, NEW q, q = req[r], q.pc = "write", q.todo # << >>,
         NEW p, NEW W, Writes(r, q, p, W)
  PROVE  Stepped(q, p, W)
<1>1. RequestOK(q) /\ RowsOK(row)
  BY Working DEF IInv, Committed, Stored
<1>2. CountOK(q)
  BY DEF ImportsInv, Idle
<1>3. IsList(q.todo)
  BY <1>1 DEF RequestOK, TodoOK
<1>4. Head(q.todo) \in Items(q.todo) /\ Items(Tail(q.todo)) \subseteq Items(q.todo)
  BY <1>3, OneLess
<1>5. /\ p.pc = "write" /\ Same(p, q) /\ p.base = q.base /\ p.todo = Tail(q.todo)
      /\ DOMAIN p.dirty = DOMAIN q.dirty \cup W
      /\ \A x \in DOMAIN q.dirty \ W : p.dirty[x] = q.dirty[x] /\ Given(p, x) = Given(q, x)
      /\ q.stale \subseteq p.stale
  BY DEF Writes
<1>6. /\ DOMAIN q.gave \subseteq DOMAIN q.dirty /\ q.n \in Nat
      /\ DOMAIN q.base \subseteq DOMAIN row /\ DOMAIN row \subseteq Id
  BY <1>1 DEF RequestOK, SessionOK, RowsOK
<1>7. \A x \in DOMAIN q.dirty \cap DOMAIN row :
        q.dirty[x].kind = row[x].kind /\ (q.dirty[x].current => row[x].current)
  BY <1>1 DEF RequestOK, DriftOK
<1> QED BY <1>1, <1>2, <1>4, <1>5, <1>6, <1>7 DEF Stepped

\* Which statement comes first in each phase of an import, in a revision and
\* in a restoration.
LEMMA ImportHeads ==
  ASSUME NEW q, q.todo # << >>
  PROVE  /\ PlannedImport(q) => Head(q.todo).do \in {"create", "revise", "patch"}
         /\ RevisedImport(q) => Head(q.todo).do = "patch"
         /\ CountedImport(q) => Head(q.todo).do \in {"match", "create", "revise"}
         /\ ~FinishedImport(q)
         /\ ReviseOK(q) /\ q.pc = "write" => Head(q.todo).do = "revise"
         /\ RestoreOK(q) /\ q.pc = "write" => Head(q.todo).do = "restore"
<1>1. PlannedImport(q) => Head(q.todo).do \in {"create", "revise", "patch"}
  BY Firsts, StatementKinds DEF PlannedImport
<1>2. RevisedImport(q) => Head(q.todo).do = "patch"
  BY Firsts, StatementKinds DEF RevisedImport
<1>3. CountedImport(q) => Head(q.todo).do \in {"match", "create", "revise"}
  BY Firsts, StatementKinds DEF CountedImport
<1>4. ReviseOK(q) /\ q.pc = "write" => Head(q.todo).do = "revise"
  BY Firsts, StatementKinds DEF ReviseOK
<1>5. RestoreOK(q) /\ q.pc = "write" => Head(q.todo).do = "restore"
  BY Firsts, StatementKinds DEF RestoreOK
<1> QED BY <1>1, <1>2, <1>3, <1>4, <1>5 DEF FinishedImport

\* A statement that gives no account, of a request that gives none.
LEMMA PlainCounts ==
  ASSUME NEW r, NEW q, NEW p, NEW W, q.pc = "write", PlainOK(q), Writes(r, q, p, W),
         Items(p.todo) \subseteq Items(q.todo),
         \A x \in W : Given(p, x) \cap CountKeys = {},
         \A x \in W \ DOMAIN row : p.dirty[x].kind = "note"
  PROVE  PlainOK(p)
<1>1. /\ DOMAIN p.dirty = DOMAIN q.dirty \cup W
      /\ \A x \in DOMAIN q.dirty \ W : p.dirty[x] = q.dirty[x] /\ Given(p, x) = Given(q, x)
  BY DEF Writes
<1> QED BY <1>1 DEF PlainOK

LEMMA AccountKeys ==
  ASSUME NEW doc, NEW n
  PROVE  /\ DOMAIN Account(doc, n) = CountKeys
         /\ Account(doc, n)["runs"] = doc.runs + 1
         /\ Account(doc, n)["history"] = LastRuns(Append(doc.history, n))
BY DEF Account, CountKeys

LEMMA PatchCounts == ASSUME IInv, ImportsInv, NEW r \in Request, PatchEntry(r) PROVE ImportsInv'
<1>1. PICK q : q = req[r]
  OBVIOUS
<1>2. PICK p, e, keys :
        /\ req' = [req EXCEPT ![r] = p] /\ UNCHANGED <<row, started, told, raced, log, retired, twins>>
        /\ q.pc = "write" /\ q.todo # << >> /\ Head(q.todo).do = "patch"
        /\ Writes(r, q, p, {e}) /\ PatchStep(q, p, e, keys)
  BY <1>1, PatchDoes
<1>3. /\ RequestOK(q) /\ CountOK(q) /\ RowsOK(row)
      /\ p.pc = "write" /\ Same(p, q) /\ p.base = q.base /\ p.todo = Tail(q.todo)
      /\ DOMAIN p.dirty = DOMAIN q.dirty \cup {e}
      /\ \A x \in DOMAIN q.dirty \ {e} : p.dirty[x] = q.dirty[x] /\ Given(p, x) = Given(q, x)
      /\ q.stale \subseteq p.stale
      /\ Head(q.todo) \in Items(q.todo) /\ Items(p.todo) \subseteq Items(q.todo)
      /\ DOMAIN q.gave \subseteq DOMAIN q.dirty /\ q.n \in Nat
      /\ DOMAIN q.base \subseteq DOMAIN row /\ DOMAIN row \subseteq Id
      /\ \A x \in DOMAIN q.dirty \cap DOMAIN row :
           q.dirty[x].kind = row[x].kind /\ (q.dirty[x].current => row[x].current)
  <2>1. Stepped(q, p, {e})
    BY <1>1, <1>2, StepStart
  <2> QED BY <2>1 DEF Stepped
<1>4. PICK h : h = Head(q.todo)
  BY SMTT(30)
<1>5. /\ e = (IF h.id = 0 THEN q.fresh ELSE h.id) /\ e \in DOMAIN row \cup DOMAIN q.dirty
      /\ keys = (IF "into" \in DOMAIN h.keys THEN [into |-> q.fresh] ELSE h.keys)
      /\ p.dirty[e].kind = LatestOf(q, e).kind /\ p.dirty[e].current = LatestOf(q, e).current
      /\ \A k \in DocKeys : p.dirty[e].doc[k] =
           IF k \in DOMAIN keys THEN keys[k]
           ELSE IF e \in DOMAIN q.base \ DOMAIN q.dirty THEN q.base[e].doc[k] ELSE LatestOf(q, e).doc[k]
      /\ p.stale = (IF e \in DOMAIN row /\ row[e] # q.base[e] THEN q.stale \cup {e} ELSE q.stale)
      /\ p.fresh = q.fresh /\ p.known = q.known /\ p.born = q.born /\ Given(p, e) = DOMAIN keys \cup Given(q, e)
  BY <1>2, <1>4 DEF PatchStep, Shares, Grew
<1>6. p.stale \subseteq DOMAIN p.dirty /\ p.known \subseteq DOMAIN row
  BY <1>3, <1>5 DEF CountOK
<1>7. ASSUME PlainOp(q.op) PROVE PlainOK(p)
  <2>1. PlainOK(q) /\ PlainItem(h)
    BY <1>2, <1>3, <1>4, <1>7 DEF CountOK, PlainOK
  <2>2. DOMAIN h.keys \cap CountKeys = {} /\ DOMAIN [into |-> q.fresh] \cap CountKeys = {}
    BY <1>2, <1>4, <2>1, PlainKeys DEF PlainItem
  <2>3. Given(p, e) \cap CountKeys = {}
    <3>1. Given(q, e) \cap CountKeys = {}
      BY <1>3, <2>1 DEF PlainOK, Given
    <3>2. DOMAIN keys \cap CountKeys = {}
      BY <1>5, <2>2
    <3> QED BY <1>5, <3>1, <3>2
  <2>4. e \notin DOMAIN row => p.dirty[e].kind = "note"
    BY <1>5, <2>1 DEF LatestOf, PlainOK
  <2> QED BY <1>2, <1>3, <2>1, <2>3, <2>4, PlainCounts
<1>8. ASSUME q.op = "import" PROVE ImportOK(p)
  <2>1. PlannedImport(q) \/ RevisedImport(q)
    BY <1>2, <1>3, <1>8, ImportHeads DEF CountOK, ImportOK
  <2>2. ASSUME NEW x, q.todo = << Patch(x, Account(q.base[x].doc, q.n)), Match >>
        PROVE  /\ h.id = x /\ keys = Account(q.base[x].doc, q.n) /\ p.todo = << Match >>
               /\ p.dirty[e].doc.runs = q.base[x].doc.runs + 1
               /\ p.dirty[e].doc.history = LastRuns(Append(q.base[x].doc.history, q.n))
    <3>1. h = Patch(x, Account(q.base[x].doc, q.n)) /\ p.todo = << Match >>
      BY <1>3, <1>4, <2>2, Firsts
    <3>2. h.id = x /\ h.keys = Account(q.base[x].doc, q.n)
      BY <3>1, StatementKinds
    <3>3. keys = Account(q.base[x].doc, q.n)
      BY <1>5, <3>2, AccountKeys DEF CountKeys
    <3>4. "runs" \in DocKeys \cap DOMAIN keys /\ "history" \in DocKeys \cap DOMAIN keys
      BY <3>3, AccountKeys DEF CountKeys, DocKeys
    <3> QED BY <1>5, <3>1, <3>2, <3>3, <3>4, AccountKeys
  <2>3. CASE PlannedImport(q)
    <3>1. PICK x \in DOMAIN q.base :
            /\ row[x].kind = "event" /\ q.base[x].current /\ q.todo = << Patch(x, Account(q.base[x].doc, q.n)), Match >>
      BY <1>2, <2>3, Firsts, StatementKinds DEF PlannedImport
    <3>2. DOMAIN q.dirty = {} /\ x \in DOMAIN row /\ x # 0
      BY SMTT(30), <1>3, <2>3, <3>1 DEF PlannedImport, Id
    <3>3. e = x /\ p.todo = << Match >> /\ DOMAIN p.dirty = {x}
      BY <1>3, <1>5, <2>2, <3>1, <3>2
    <3>4. p.dirty[x].kind = "event" /\ p.dirty[x].current = row[x].current
      BY <1>5, <3>1, <3>2, <3>3 DEF LatestOf
    <3>5. OfKind(p, "event") = {x} /\ OfKind(p, "imported") = {}
      BY <3>3, <3>4 DEF OfKind
    <3>6. x \in p.stale \/ (p.dirty[x].current /\ Counts(p.dirty[x].doc, row[x].doc, p.n))
      <4>1. p.n = q.n
        BY <1>3 DEF Same
      <4>2. row[x] # q.base[x] => x \in p.stale
        BY <1>5, <3>2, <3>3
      <4>3. /\ p.dirty[x].doc.runs = q.base[x].doc.runs + 1
            /\ p.dirty[x].doc.history = LastRuns(Append(q.base[x].doc.history, q.n))
        BY <2>2, <3>1, <3>3
      <4>4. row[x] = q.base[x] => p.dirty[x].current
        BY <3>1, <3>4
      <4>5. row[x] = q.base[x] => Counts(p.dirty[x].doc, row[x].doc, p.n)
        BY <4>1, <4>3 DEF Counts
      <4> QED BY <4>2, <4>4, <4>5
    <3>7. EventDone(p)
      BY <3>2, <3>3, <3>5, <3>6 DEF EventDone
    <3> QED BY <3>3, <3>5, <3>7 DEF ImportOK, CountedImport
  <2>4. CASE RevisedImport(q)
    <3>1. PICK x \in DOMAIN q.base :
            /\ q.todo = << Patch(0, Account(q.base[x].doc, q.n)), Match >>
            /\ DOMAIN q.dirty = {x, q.fresh} /\ Revised(q, x, q.fresh) /\ row[x].kind = "event"
            /\ q.fresh \in q.stale \/ (x \notin raced /\ row[x] = q.base[x])
      BY <2>4 DEF RevisedImport
    <3>2. /\ x \in DOMAIN row /\ q.fresh \in DOMAIN q.dirty \ DOMAIN row /\ row[x].current /\ ~q.dirty[x].current
          /\ q.dirty[q.fresh].kind = "event" /\ q.dirty[x].kind = "event" /\ x # q.fresh
      BY <1>3, <3>1 DEF Revised
    <3>3. PICK a : a = Account(q.base[x].doc, q.n)
      OBVIOUS
    <3>4. h = Patch(0, a) /\ p.todo = << Match >>
      BY <1>3, <1>4, <3>1, <3>3, Firsts
    <3>5. h.id = 0 /\ h.keys = a
      BY <3>4, StatementKinds
    <3>6. e = q.fresh /\ keys = a
      BY SMTT(30), <1>5, <3>3, <3>5, AccountKeys DEF CountKeys
    <3>7. DOMAIN p.dirty = {x, e} /\ p.dirty[x] = q.dirty[x] /\ p.dirty[e].kind = "event" /\ p.stale = q.stale
      BY <1>3, <1>5, <3>1, <3>2, <3>6 DEF LatestOf
    <3>8. OfKind(p, "event") = {x, e} /\ OfKind(p, "imported") = {}
      BY <3>2, <3>7 DEF OfKind
    <3>9. Revised(p, x, e)
      <4>1. p.dirty[e].current
        BY <1>5, <3>1, <3>2, <3>6 DEF LatestOf, Revised
      <4> QED BY SMTT(30), <3>1, <3>2, <3>6, <3>7, <4>1 DEF Revised
    <3>10. /\ p.dirty[e].doc.runs = q.base[x].doc.runs + 1
           /\ p.dirty[e].doc.history = LastRuns(Append(q.base[x].doc.history, q.n))
      <4>1. "runs" \in DocKeys \cap DOMAIN keys /\ "history" \in DocKeys \cap DOMAIN keys
        BY <3>3, <3>6, AccountKeys DEF CountKeys, DocKeys
      <4> QED BY <1>5, <3>3, <3>6, <4>1, AccountKeys
    <3>11. e \in p.stale \/ (x \notin raced /\ Counts(p.dirty[e].doc, row[x].doc, p.n))
      BY <1>3, <3>1, <3>6, <3>7, <3>10 DEF Counts, Same
    <3>12. EventDone(p)
      BY <3>7, <3>8, <3>9, <3>11 DEF EventDone
    <3> QED BY <3>4, <3>8, <3>12 DEF ImportOK, CountedImport
  <2> QED BY <2>1, <2>3, <2>4
<1>9. q.op # "revise" /\ q.op # "restore"
  BY <1>2, <1>3, ImportHeads DEF CountOK
<1>10. CountOK(p)
  BY <1>3, <1>6, <1>7, <1>8, <1>9 DEF CountOK, Same
<1> QED BY <1>2, <1>10, CountWorks

\* A retrieval or an archiving is a statement of a request of the plain ones.
LEMMA UseOrArchive ==
  ASSUME NEW q, CountOK(q), q.pc = "write", q.todo # << >>, Head(q.todo).do \in {"use", "archive"}
  PROVE  PlainOp(q.op) /\ PlainOK(q)
<1>1. q.op # "import"
  BY ImportHeads DEF CountOK, ImportOK
<1>2. q.op # "revise" /\ q.op # "restore"
  BY ImportHeads DEF CountOK
<1> QED BY <1>1, <1>2 DEF CountOK, PlainOp

LEMMA PlainGiven ==
  ASSUME NEW q, PlainOK(q), DOMAIN q.gave \subseteq DOMAIN q.dirty
  PROVE  \A x : Given(q, x) \cap CountKeys = {}
BY DEF PlainOK, Given

LEMMA UseCounts == ASSUME IInv, ImportsInv, NEW r \in Request, UseEntry(r) PROVE ImportsInv'
<1>1. PICK q : q = req[r]
  OBVIOUS
<1>2. PICK p, e :
        /\ req' = [req EXCEPT ![r] = p] /\ UNCHANGED <<row, started, told, raced, log, retired, twins>>
        /\ q.pc = "write" /\ q.todo # << >> /\ Head(q.todo).do = "use"
        /\ Writes(r, q, p, {e}) /\ UseStep(q, p, e)
  BY <1>1, UseDoes
<1>3. Stepped(q, p, {e})
  BY <1>1, <1>2, StepStart
<1>4. CountOK(q) /\ Items(p.todo) \subseteq Items(q.todo) /\ DOMAIN q.gave \subseteq DOMAIN q.dirty
      /\ Same(p, q) /\ DOMAIN p.dirty = DOMAIN q.dirty \cup {e}
  BY <1>3 DEF Stepped
<1>5. e \in DOMAIN row /\ p.stale \subseteq q.stale \cup {e} /\ p.known = q.known
      /\ Given(p, e) = {"usage"} \cup Given(q, e)
  BY <1>2 DEF UseStep, Shares, Grew
<1>6. PlainOp(q.op) /\ PlainOK(q)
  BY <1>2, <1>4, UseOrArchive
<1>7. \A x \in {e} : Given(p, x) \cap CountKeys = {}
  <2>1. Given(q, e) \cap CountKeys = {} /\ "usage" \notin CountKeys
    BY <1>4, <1>6, PlainGiven DEF CountKeys
  <2> QED BY <1>5, <2>1
<1>8. \A x \in {e} \ DOMAIN row : p.dirty[x].kind = "note"
  BY <1>5
<1>9. PlainOK(p)
  BY <1>2, <1>4, <1>6, <1>7, <1>8, PlainCounts
<1>10. CountOK(p)
  BY <1>4, <1>5, <1>6, <1>9 DEF CountOK, Same, PlainOp
<1> QED BY <1>2, <1>10, CountWorks

LEMMA ArchiveCounts == ASSUME IInv, ImportsInv, NEW r \in Request, ArchiveEntry(r) PROVE ImportsInv'
<1>1. PICK q : q = req[r]
  OBVIOUS
<1>2. PICK p, e :
        /\ req' = [req EXCEPT ![r] = p] /\ UNCHANGED <<row, started, told, raced, log, retired, twins>>
        /\ q.pc = "write" /\ q.todo # << >> /\ Head(q.todo).do = "archive"
        /\ Writes(r, q, p, {e}) /\ ArchiveStep(q, p, e)
  BY <1>1, ArchiveDoes
<1>3. Stepped(q, p, {e})
  BY <1>1, <1>2, StepStart
<1>4. CountOK(q) /\ Items(p.todo) \subseteq Items(q.todo) /\ DOMAIN q.gave \subseteq DOMAIN q.dirty
      /\ Same(p, q) /\ DOMAIN p.dirty = DOMAIN q.dirty \cup {e}
  BY <1>3 DEF Stepped
<1>5. e \in DOMAIN row /\ p.stale = q.stale /\ p.known = q.known /\ \A x : Given(p, x) = Given(q, x)
  BY <1>2 DEF ArchiveStep, Shares, Given
<1>6. PlainOp(q.op) /\ PlainOK(q)
  BY <1>2, <1>4, UseOrArchive
<1>7. \A x \in {e} : Given(p, x) \cap CountKeys = {}
  BY <1>4, <1>5, <1>6, PlainGiven
<1>8. \A x \in {e} \ DOMAIN row : p.dirty[x].kind = "note"
  BY <1>5
<1>9. PlainOK(p)
  BY <1>2, <1>4, <1>6, <1>7, <1>8, PlainCounts
<1>10. CountOK(p)
  BY <1>4, <1>5, <1>6, <1>9 DEF CountOK, Same, PlainOp
<1> QED BY <1>2, <1>10, CountWorks

\* The event of an import stays done while its entry is written.
LEMMA EventCarries ==
  ASSUME NEW q, NEW p, EventDone(q), OfKind(p, "event") = OfKind(q, "event"),
         \A x \in OfKind(q, "event") : p.dirty[x] = q.dirty[x], DOMAIN q.dirty \subseteq DOMAIN p.dirty,
         q.stale \subseteq p.stale, q.born \subseteq p.born, Same(p, q), p.known = q.known
  PROVE  EventDone(p)
<1>1. p.action = q.action /\ p.n = q.n
  BY DEF Same
<1>2. \A k : NoneKnown(q, k) <=> NoneKnown(p, k)
  BY DEF NoneKnown
<1>3. CASE \E f \in DOMAIN q.dirty \ DOMAIN row :
             /\ OfKind(q, "event") = {f} /\ "event" \in q.born /\ q.dirty[f].current
             /\ q.action # "update" \/ NoneKnown(q, "event")
             /\ Tally(q.dirty[f].doc, <<q.n>>)
  <2>1. PICK f \in DOMAIN q.dirty \ DOMAIN row :
             /\ OfKind(q, "event") = {f} /\ "event" \in q.born /\ q.dirty[f].current
             /\ q.action # "update" \/ NoneKnown(q, "event")
             /\ Tally(q.dirty[f].doc, <<q.n>>)
    BY <1>3
  <2>2. f \in DOMAIN p.dirty /\ p.dirty[f] = q.dirty[f] /\ "event" \in p.born
    BY <2>1
  <2> QED BY <1>1, <1>2, <2>1, <2>2 DEF EventDone
<1>4. CASE \E x, f \in DOMAIN q.dirty :
             /\ OfKind(q, "event") = {x, f} /\ Revised(q, x, f)
             /\ f \in q.stale \/ (x \notin raced /\ Counts(q.dirty[f].doc, row[x].doc, q.n))
  <2>1. PICK x, f \in DOMAIN q.dirty :
             /\ OfKind(q, "event") = {x, f} /\ Revised(q, x, f)
             /\ f \in q.stale \/ (x \notin raced /\ Counts(q.dirty[f].doc, row[x].doc, q.n))
    BY <1>4
  <2>2. x \in DOMAIN p.dirty /\ f \in DOMAIN p.dirty /\ p.dirty[x] = q.dirty[x] /\ p.dirty[f] = q.dirty[f]
    BY <2>1
  <2>3. Revised(p, x, f)
    BY <2>1, <2>2 DEF Revised
  <2>4. f \in p.stale \/ (x \notin raced /\ Counts(p.dirty[f].doc, row[x].doc, p.n))
    BY <1>1, <2>1, <2>2
  <2>5. OfKind(p, "event") = {x, f}
    BY <2>1
  <2> QED BY <2>2, <2>3, <2>4, <2>5 DEF EventDone
<1>5. CASE \E x \in DOMAIN q.dirty \cap DOMAIN row :
             /\ OfKind(q, "event") = {x}
             /\ x \in q.stale \cup raced \/ (q.dirty[x].current /\ Counts(q.dirty[x].doc, row[x].doc, q.n))
  <2>1. PICK x \in DOMAIN q.dirty \cap DOMAIN row :
             /\ OfKind(q, "event") = {x}
             /\ x \in q.stale \cup raced \/ (q.dirty[x].current /\ Counts(q.dirty[x].doc, row[x].doc, q.n))
    BY <1>5
  <2>2. x \in DOMAIN p.dirty \cap DOMAIN row /\ p.dirty[x] = q.dirty[x] /\ OfKind(p, "event") = {x}
    BY <2>1
  <2>3. x \in p.stale \cup raced \/ (p.dirty[x].current /\ Counts(p.dirty[x].doc, row[x].doc, p.n))
    BY <1>1, <2>1, <2>2
  <2> QED BY <2>2, <2>3 DEF EventDone
<1> QED BY <1>3, <1>4, <1>5 DEF EventDone

LEMMA ReviseIs ==
  /\ \A e, keys, lowest : Revise(e, keys, lowest).id = e /\ Revise(e, keys, lowest).keys = keys
  /\ \A kind, keys : Create(kind, keys).kind = kind /\ Create(kind, keys).keys = keys
BY DEF Revise, Create

LEMMA ReviseCounts == ASSUME IInv, ImportsInv, NEW r \in Request, ReviseEntry(r) PROVE ImportsInv'
<1>1. PICK q : q = req[r]
  OBVIOUS
<1>2. PICK p, e, f :
        /\ req' = [req EXCEPT ![r] = p] /\ UNCHANGED <<row, started, told, raced, log, retired, twins>>
        /\ q.pc = "write" /\ q.todo # << >> /\ Head(q.todo).do = "revise"
        /\ Writes(r, q, p, {e, f}) /\ ReviseStep(q, p, e, f)
  BY <1>1, ReviseDoes
<1>3. Stepped(q, p, {e, f})
  BY <1>1, <1>2, StepStart
<1>4. /\ CountOK(q) /\ Same(p, q) /\ p.pc = "write" /\ p.base = q.base /\ p.todo = Tail(q.todo)
      /\ DOMAIN p.dirty = DOMAIN q.dirty \cup {e, f} /\ \A x \in DOMAIN q.dirty \ {e, f} : p.dirty[x] = q.dirty[x]
      /\ q.stale \subseteq p.stale /\ Head(q.todo) \in Items(q.todo) /\ DOMAIN q.base \subseteq DOMAIN row
      /\ \A x \in DOMAIN q.dirty \cap DOMAIN row :
           q.dirty[x].kind = row[x].kind /\ (q.dirty[x].current => row[x].current)
  BY SMTT(30), <1>3 DEF Stepped
<1>5. PICK h : h = Head(q.todo)
  OBVIOUS
<1>6. /\ e = h.id /\ e \in DOMAIN row \cup DOMAIN q.dirty /\ f \notin DOMAIN row \cup DOMAIN q.dirty /\ e # f
      /\ LatestOf(q, e).current /\ ~p.dirty[e].current /\ p.dirty[f].current
      /\ p.dirty[e].doc = LatestOf(q, e).doc
      /\ p.dirty[e].kind = LatestOf(q, e).kind /\ p.dirty[f].kind = LatestOf(q, e).kind
      /\ \A k \in CountKeys : p.dirty[f].doc[k] = IF k \in DOMAIN h.keys THEN h.keys[k] ELSE LatestOf(q, e).doc[k]
      /\ p.stale = (IF e \in raced \/ row[e] # q.base[e] THEN q.stale \cup {f} ELSE q.stale)
      /\ p.fresh = f /\ p.known = q.known /\ p.born = q.born
  BY <1>2, <1>5 DEF ReviseStep, Shares
<1>7. p.stale \subseteq DOMAIN p.dirty /\ p.known \subseteq DOMAIN row
  BY <1>4, <1>6 DEF CountOK
\* What is revised and was not yet written by the request.
<1>8. ASSUME e \in DOMAIN row, e \notin DOMAIN q.dirty
      PROVE  /\ Revised(p, e, f) /\ p.dirty[e].kind = row[e].kind /\ p.dirty[f].kind = row[e].kind
             /\ f \in p.stale \/ (e \notin raced /\ row[e] = q.base[e])
  <2>1. LatestOf(q, e) = row[e]
    BY <1>8 DEF LatestOf
  <2>2. Revised(p, e, f)
    BY <1>4, <1>6, <1>8, <2>1 DEF Revised
  <2> QED BY <1>6, <2>1, <2>2
<1>9. ASSUME PlainOp(q.op) PROVE FALSE
  <2>1. PlainItem(h)
    BY <1>2, <1>4, <1>5, <1>9 DEF CountOK, PlainOK
  <2> QED BY <1>2, <1>5, <2>1 DEF PlainItem
<1>10. ASSUME q.op = "revise" PROVE ReviseOK(p)
  <2>1. q.todo = << Revise(q.e, << >>, 1) >> /\ DOMAIN q.dirty = {}
    BY <1>2, <1>4, <1>10 DEF CountOK, ReviseOK
  <2>2. h = Revise(q.e, << >>, 1) /\ p.todo = << >>
    BY <1>4, <1>5, <2>1, Firsts
  <2>3. e = q.e /\ h.keys = << >> /\ DOMAIN h.keys = {}
    BY <1>6, <2>2, ReviseIs
  <2>4. e \in DOMAIN row /\ e \notin DOMAIN q.dirty /\ LatestOf(q, e) = row[e]
    BY <1>6, <2>1 DEF LatestOf
  <2>5. DOMAIN p.dirty = {p.e, p.fresh} /\ p.e = e
    BY <1>4, <1>6, <2>1, <2>3 DEF Same
  <2>6. Revised(p, p.e, p.fresh) /\ (p.fresh \in p.stale \/ p.e \notin raced)
    BY <1>6, <1>8, <2>4, <2>5
  <2>7. SameCount(p.dirty[f].doc, row[e].doc)
    BY <1>6, <2>3, <2>4 DEF CountKeys, SameCount
  <2> QED BY <1>6, <2>2, <2>5, <2>6, <2>7 DEF ReviseOK
<1>11. ASSUME q.op = "import" PROVE ImportOK(p)
  <2>1. PlannedImport(q) \/ CountedImport(q)
    BY <1>2, <1>4, <1>11, ImportHeads DEF CountOK, ImportOK
  <2>3. CASE PlannedImport(q)
    <3>1. PICK x \in DOMAIN q.base :
            /\ q.base[x].kind = "event" /\ row[x].kind = "event"
            /\ q.todo = << Revise(x, Carried(q.base[x].doc), 0), Patch(0, Account(q.base[x].doc, q.n)), Match >>
      BY <1>2, <2>3, Firsts, StatementKinds DEF PlannedImport
    <3>2. PICK a, b, m : /\ a = Revise(x, Carried(q.base[x].doc), 0)
                         /\ b = Patch(0, Account(q.base[x].doc, q.n)) /\ m = Match
      OBVIOUS
    <3>3. h = a /\ p.todo = <<b, m>>
      BY <1>4, <1>5, <3>1, <3>2, Firsts
    <3>4. e = x
      <4>1. a.id = x
        BY <3>2, ReviseIs
      <4> QED BY <1>6, <3>3, <4>1
    <3>5. DOMAIN q.dirty = {} /\ e \in DOMAIN row
      BY <1>4, <2>3, <3>1, <3>4 DEF PlannedImport
    <3>6. /\ Revised(p, x, p.fresh) /\ DOMAIN p.dirty = {x, p.fresh}
          /\ p.fresh \in p.stale \/ (x \notin raced /\ row[x] = p.base[x])
      BY <1>4, <1>6, <1>8, <3>4, <3>5
    <3>7. p.todo = << Patch(0, Account(p.base[x].doc, p.n)), Match >>
      BY <1>4, <3>2, <3>3 DEF Same
    <3>8. RevisedImport(p)
      BY <1>4, <3>1, <3>6, <3>7 DEF RevisedImport
    <3> QED BY <3>8 DEF ImportOK
  <2>4. CASE CountedImport(q)
    <3>1. PICK y \in DOMAIN row : q.todo = << Revise(y, << >>, 0) >> /\ row[y].kind = "imported"
      BY <1>2, <2>4, Firsts, StatementKinds DEF CountedImport
    <3>2. h = Revise(y, << >>, 0) /\ p.todo = << >>
      BY <1>4, <1>5, <3>1, Firsts
    <3>3. e = y
      BY <1>6, <3>2, ReviseIs
    <3>4. OfKind(q, "imported") = {} /\ EventDone(q)
      BY <2>4 DEF CountedImport
    <3>5. e \notin DOMAIN q.dirty
      BY <1>4, <3>1, <3>3, <3>4 DEF OfKind
    <3>6. Revised(p, e, f) /\ p.dirty[e].kind = "imported" /\ p.dirty[f].kind = "imported"
      BY <1>8, <3>1, <3>3, <3>5
    <3>7. OfKind(p, "imported") = {e, f}
      BY <1>4, <1>6, <3>4, <3>5, <3>6 DEF OfKind
    <3>8. OfKind(p, "event") = OfKind(q, "event")
      BY <1>4, <1>6, <3>5, <3>6 DEF OfKind
    <3>9. \A x \in OfKind(q, "event") : p.dirty[x] = q.dirty[x]
      BY <1>4, <1>6, <3>5 DEF OfKind
    <3>10. EventDone(p)
      BY <1>4, <1>6, <3>4, <3>8, <3>9, EventCarries
    <3>11. ImportedDone(p)
      BY <1>4, <3>6, <3>7 DEF ImportedDone
    <3> QED BY <3>2, <3>10, <3>11 DEF ImportOK, FinishedImport
  <2> QED BY <2>1, <2>3, <2>4
<1>13. q.op # "restore"
  BY <1>2, <1>4, ImportHeads DEF CountOK
<1>12. CountOK(p)
  BY <1>4, <1>7, <1>9, <1>10, <1>11, <1>13 DEF CountOK, Same
<1> QED BY <1>2, <1>12, CountWorks

LEMMA RestoreIs == \A e, s : Restore(e, s).id = e /\ Restore(e, s).source = s
BY DEF Restore

LEMMA RestoreCounts == ASSUME IInv, ImportsInv, NEW r \in Request, RestoreEntry(r) PROVE ImportsInv'
<1>1. PICK q : q = req[r]
  OBVIOUS
<1>2. PICK p, e, l, s, f :
        /\ req' = [req EXCEPT ![r] = p] /\ UNCHANGED <<row, started, told, raced, log, retired, twins>>
        /\ q.pc = "write" /\ q.todo # << >> /\ Head(q.todo).do = "restore"
        /\ Writes(r, q, p, {e, l, f}) /\ RestoreStep(q, p, e, l, s, f)
  BY <1>1, RestoreDoes
<1>3. Stepped(q, p, {e, l, f})
  BY <1>1, <1>2, StepStart
<1>4. /\ CountOK(q) /\ Same(p, q) /\ p.pc = "write" /\ p.todo = Tail(q.todo)
      /\ DOMAIN p.dirty = DOMAIN q.dirty \cup {e, l, f}
      /\ q.stale \subseteq p.stale /\ Head(q.todo) \in Items(q.todo) /\ DOMAIN q.base \subseteq DOMAIN row
  BY <1>3 DEF Stepped
<1>5. q.op = "restore"
  <2>1. ~PlainOp(q.op)
    BY <1>2, <1>4 DEF CountOK, PlainOK, PlainItem
  <2>2. q.op # "import" /\ q.op # "revise"
    BY <1>2, <1>4, ImportHeads DEF CountOK, ImportOK
  <2> QED BY <2>1, <2>2 DEF PlainOp
<1>6. q.todo = << Restore(q.e, q.o) >> /\ DOMAIN q.dirty = {}
  BY <1>2, <1>4, <1>5 DEF CountOK, RestoreOK
<1>7. p.todo = << >>
  BY SMTT(30), <1>4, <1>6, Firsts
<1>8. /\ s \in DOMAIN row /\ e \in DOMAIN row /\ l \in DOMAIN row /\ f \notin DOMAIN row
      /\ ~p.dirty[l].current /\ p.dirty[f].current
      /\ \A x \in {e, l} : p.dirty[x].kind = p.dirty[f].kind /\ p.dirty[x].doc = row[x].doc
      /\ p.dirty[f].kind = row[s].kind
      /\ p.dirty[f].doc = IF s \in {e, l} THEN row[s].doc ELSE q.base[s].doc
      /\ p.stale = (IF s \in raced \/ row[s] # q.base[s] THEN q.stale \cup {f} ELSE q.stale)
      /\ p.born = (IF row[l].current THEN q.born ELSE q.born \cup {p.dirty[f].kind})
      /\ p.fresh = f /\ p.known = q.known /\ p.heard = log[s]
  BY <1>2, <1>4, <1>6 DEF RestoreStep, LatestOf
<1>9. p.stale \subseteq DOMAIN p.dirty /\ p.known \subseteq DOMAIN row
  BY <1>4, <1>8 DEF CountOK
<1>10. p.heard \in Seq(Nat)
  BY <1>8 DEF ImportsInv, Tallied
<1>11. ASSUME p.dirty[f].kind = "event", f \notin p.stale PROVE Tally(p.dirty[f].doc, p.heard)
  <2>1. s \notin raced /\ row[s] = q.base[s] /\ row[s].kind = "event"
    BY <1>8, <1>11
  <2>2. Tally(row[s].doc, log[s])
    BY <1>8, <2>1 DEF ImportsInv, Tallied
  <2>3. p.dirty[f].doc = row[s].doc
    BY <1>8, <2>1
  <2> QED BY <1>8, <2>2, <2>3
<1>12. ASSUME row[l].current PROVE Revised(p, l, f)
  <2>1. p.dirty[l].kind = row[l].kind
    BY <1>2, <1>8 DEF Writes, DriftRow
  <2> QED BY SMTT(30), <1>4, <1>8, <1>12, <2>1 DEF Revised
<1>13. p.dirty[f].kind \in p.born \/ \E x \in DOMAIN p.dirty : Revised(p, x, f)
  <2>1. CASE row[l].current
    BY <1>4, <1>12, <2>1
  <2>2. CASE ~row[l].current
    BY <1>8, <2>2
  <2> QED BY <2>1, <2>2
<1>14. /\ DOMAIN p.dirty = {e, l, f} /\ DOMAIN p.dirty \ {f} \subseteq DOMAIN row
       /\ \A x \in DOMAIN p.dirty \ {f} : SameCount(p.dirty[x].doc, row[x].doc)
  BY <1>4, <1>6, <1>8 DEF SameCount
<1>15. RestoreOK(p)
  BY <1>7, <1>8, <1>10, <1>11, <1>13, <1>14 DEF RestoreOK
<1>16. CountOK(p)
  BY <1>4, <1>5, <1>9, <1>15 DEF CountOK, Same, PlainOp
<1> QED BY <1>2, <1>16, CountWorks

LEMMA CreateCounts == ASSUME IInv, ImportsInv, NEW r \in Request, CreateEntry(r) PROVE ImportsInv'
<1>1. PICK q : q = req[r]
  OBVIOUS
<1>2. PICK p, f :
        /\ req' = [req EXCEPT ![r] = p] /\ UNCHANGED <<row, started, told, raced, log, retired, twins>>
        /\ q.pc = "write" /\ q.todo # << >> /\ Head(q.todo).do = "create"
        /\ Writes(r, q, p, {f}) /\ CreateStep(q, p, f)
  BY <1>1, CreateDoes
<1>3. Stepped(q, p, {f})
  BY <1>1, <1>2, StepStart
<1>4. /\ CountOK(q) /\ Same(p, q) /\ p.pc = "write" /\ p.todo = Tail(q.todo)
      /\ DOMAIN p.dirty = DOMAIN q.dirty \cup {f} /\ \A x \in DOMAIN q.dirty \ {f} : p.dirty[x] = q.dirty[x]
      /\ Head(q.todo) \in Items(q.todo) /\ Items(p.todo) \subseteq Items(q.todo)
      /\ DOMAIN q.gave \subseteq DOMAIN q.dirty /\ q.n \in Nat
  BY <1>3 DEF Stepped
<1>5. PICK h : h = Head(q.todo)
  OBVIOUS
<1>6. /\ f \notin DOMAIN row \cup DOMAIN q.dirty /\ p.dirty[f].current /\ p.dirty[f].kind = h.kind
      /\ \A k \in CountKeys : p.dirty[f].doc[k] = IF k \in DOMAIN h.keys THEN h.keys[k] ELSE NoDoc[k]
      /\ p.stale = q.stale /\ p.known = q.known /\ p.born = q.born \cup {h.kind}
      /\ \A x : Given(p, x) = Given(q, x)
  BY <1>2, <1>5 DEF CreateStep, Given
<1>7. p.stale \subseteq DOMAIN p.dirty /\ p.known \subseteq DOMAIN row
  BY <1>4, <1>6 DEF CountOK
<1>8. \A k : NoneKnown(q, k) <=> NoneKnown(p, k)
  BY <1>6 DEF NoneKnown
<1>9. ASSUME PlainOp(q.op) PROVE PlainOK(p)
  <2>1. PlainOK(q) /\ PlainItem(h)
    BY <1>2, <1>4, <1>5, <1>9 DEF CountOK, PlainOK
  <2>2. p.dirty[f].kind = "note"
    BY <1>2, <1>5, <1>6, <2>1 DEF PlainItem
  <2>3. \A x \in {f} : Given(p, x) \cap CountKeys = {}
    BY <1>4, <1>6, <2>1, PlainGiven
  <2> QED BY <1>2, <1>4, <2>1, <2>2, <2>3, PlainCounts
<1>10. q.op # "revise" /\ q.op # "restore"
  BY <1>2, <1>4, ImportHeads DEF CountOK
<1>11. ASSUME q.op = "import" PROVE ImportOK(p)
  <2>1. PlannedImport(q) \/ CountedImport(q)
    BY <1>2, <1>4, <1>11, ImportHeads DEF CountOK, ImportOK
  <2>2. p.action = q.action /\ p.n = q.n
    BY <1>4 DEF Same
  <2>3. CASE PlannedImport(q)
    <3>1. /\ q.todo = << Create("event", Account(NoDoc, q.n)), Match >> /\ DOMAIN q.dirty = {}
          /\ q.action # "update" \/ NoneKnown(q, "event")
      BY <1>2, <2>3, Firsts, StatementKinds DEF PlannedImport
    <3>2. PICK a, m : a = Create("event", Account(NoDoc, q.n)) /\ m = Match
      OBVIOUS
    <3>3. h = a /\ p.todo = <<m>>
      BY <1>4, <1>5, <3>1, <3>2, Firsts
    <3>4. h.kind = "event" /\ h.keys = Account(NoDoc, q.n)
      BY <3>2, <3>3, ReviseIs
    <3>5. Counts(p.dirty[f].doc, NoDoc, q.n)
      <4>1. "runs" \in CountKeys /\ "history" \in CountKeys
        BY DEF CountKeys
      <4>2. /\ p.dirty[f].doc["runs"] = Account(NoDoc, q.n)["runs"]
            /\ p.dirty[f].doc["history"] = Account(NoDoc, q.n)["history"]
        BY <1>6, <3>4, <4>1, AccountKeys
      <4> QED BY <4>2, AccountKeys DEF Counts
    <3>6. Tally(p.dirty[f].doc, <<p.n>>)
      BY <1>4, <2>2, <3>5, FirstTally
    <3>7. OfKind(p, "event") = {f} /\ OfKind(p, "imported") = {}
      BY <1>4, <1>6, <3>1, <3>4 DEF OfKind
    <3>8. "event" \in p.born /\ p.dirty[f].current /\ f \in DOMAIN p.dirty \ DOMAIN row /\ (p.action # "update" \/ NoneKnown(p, "event"))
      BY <1>4, <1>6, <1>8, <2>2, <3>1, <3>4
    <3>9. EventDone(p)
      BY <3>6, <3>7, <3>8 DEF EventDone
    <3> QED BY <2>2, <3>2, <3>3, <3>7, <3>9 DEF ImportOK, CountedImport
  <2>4. CASE CountedImport(q)
    <3>1. /\ q.todo = << Create("imported", [into |-> 0]) >>
          /\ q.action = "create" \/ NoneKnown(q, "imported")
      BY <1>2, <2>4, Firsts, StatementKinds DEF CountedImport
    <3>2. h = Create("imported", [into |-> 0]) /\ p.todo = << >>
      BY <1>4, <1>5, <3>1, Firsts
    <3>3. h.kind = "imported"
      BY <3>2, ReviseIs
    <3>4. OfKind(q, "imported") = {} /\ EventDone(q)
      BY <2>4 DEF CountedImport
    <3>5. OfKind(p, "imported") = {f}
      BY <1>4, <1>6, <3>3, <3>4 DEF OfKind
    <3>6. OfKind(p, "event") = OfKind(q, "event")
      BY <1>4, <1>6, <3>3 DEF OfKind
    <3>7. \A x \in OfKind(q, "event") : p.dirty[x] = q.dirty[x]
      BY <1>4, <1>6 DEF OfKind
    <3>8. EventDone(p)
      BY <1>4, <1>6, <3>4, <3>6, <3>7, EventCarries
    <3>9. ImportedDone(p)
      BY <1>4, <1>6, <1>8, <2>2, <3>1, <3>3, <3>5 DEF ImportedDone
    <3> QED BY <2>2, <3>2, <3>8, <3>9 DEF ImportOK, FinishedImport
  <2> QED BY <2>1, <2>3, <2>4
<1>12. CountOK(p)
  BY <1>4, <1>7, <1>9, <1>10, <1>11 DEF CountOK, Same
<1> QED BY <1>2, <1>12, CountWorks

LEMMA MatchCounts == ASSUME IInv, ImportsInv, NEW r \in Request, MatchEntry(r) PROVE ImportsInv'
<1>1. PICK q : q = req[r]
  OBVIOUS
<1>2. PICK h : h = Head(q.todo)
  OBVIOUS
<1>3. q.pc = "write" /\ q.todo # << >> /\ h.do = "match"
  BY <1>1, <1>2 DEF MatchEntry, Doing, Now
<1>4. PICK found : found = {e \in Current(r) : Latest(r, e).kind = "imported"}
  OBVIOUS
<1>5. PICK t : t = IF q.action = "create" \/ found = {} THEN << Create("imported", [into |-> 0]) >>
                   ELSE IF q.action = "update" /\ q.changed THEN << Revise(Newest(found), << >>, 0) >>
                   ELSE << >>
  OBVIOUS
<1>6. PICK b : b = [e \in DOMAIN row |-> IF e \in DOMAIN q.base THEN q.base[e] ELSE row[e]]
  OBVIOUS
<1>7. /\ RequestOK(q) /\ q = [x \in Fields |-> q[x]] /\ Dirty(r) = q.dirty
      /\ StatementOK(q, h) /\ h \in Items(q.todo) /\ req = [u \in Request |-> req[u]]
  BY <1>1, <1>2, <1>3, ToDo DEF IInv, RequestsOK
<1> DEFINE p == [q EXCEPT !.base = b, !.todo = t]
<1>8. req' = [req EXCEPT ![r] = p] /\ UNCHANGED <<row, raced, log, twins>>
  BY <1>1, <1>4, <1>5, <1>6, <1>7 DEF MatchEntry
<1>9. /\ p.pc = "write" /\ Same(p, q) /\ p.todo = t /\ p.dirty = q.dirty /\ p.stale = q.stale
      /\ p.known = q.known /\ p.born = q.born
  BY <1>3, <1>7 DEF Fields, Same
<1> HIDE DEF p
<1>10. q.op = "import"
  BY <1>3, <1>7 DEF StatementOK
<1>11. CountOK(q)
  BY <1>1, <1>3 DEF ImportsInv, Idle
<1>12. CountedImport(q)
  BY <1>2, <1>3, <1>10, <1>11, ImportHeads DEF CountOK, ImportOK
<1>13. EventDone(q) /\ OfKind(q, "imported") = {}
  BY <1>12 DEF CountedImport
<1>14. OfKind(p, "imported") = {} /\ OfKind(p, "event") = OfKind(q, "event")
  BY <1>9, <1>13 DEF OfKind
<1>15. EventDone(p)
  BY <1>9, <1>13, <1>14, EventCarries
<1>16. found \subseteq DOMAIN row /\ \A x \in found : row[x].kind = "imported"
  BY <1>4, <1>7, <1>13 DEF Current, Latest, OfKind
<1>17. found = {} => NoneKnown(p, "imported")
  <2>1. SUFFICES ASSUME found = {}, NEW e \in p.known, row[e].kind = "imported", row[e].current PROVE FALSE
    BY DEF NoneKnown
  <2>2. e \in DOMAIN row
    BY <1>9, <1>11, <2>1 DEF CountOK
  <2>3. e \notin DOMAIN q.dirty
    BY <1>7, <1>13, <2>1, <2>2 DEF RequestOK, DriftOK, OfKind
  <2> QED BY <1>4, <1>7, <2>1, <2>2, <2>3 DEF Current, Latest
<1>18. found # {} => Newest(found) \in found
  <2>1. DOMAIN row \subseteq Id
    BY DEF IInv, Committed, Stored, RowsOK
  <2> QED BY <1>16, <2>1, NewestOf
<1>19. ImportOK(p)
  <2>1. p.action = q.action
    BY <1>9 DEF Same
  <2>2. CASE q.action = "create" \/ found = {}
    <3>1. t = << Create("imported", [into |-> 0]) >>
      BY <1>5, <2>2
    <3> QED BY <1>9, <1>14, <1>15, <1>17, <2>1, <2>2, <3>1 DEF ImportOK, CountedImport
  <2>3. CASE ~(q.action = "create" \/ found = {}) /\ q.action = "update" /\ q.changed
    <3>1. PICK y : y = Newest(found)
      OBVIOUS
    <3>2. t = << Revise(y, << >>, 0) >> /\ y \in DOMAIN row /\ row[y].kind = "imported"
      BY <1>5, <1>16, <1>18, <2>3, <3>1
    <3> QED BY <1>9, <1>14, <1>15, <2>1, <3>2 DEF ImportOK, CountedImport
  <2>4. CASE ~(q.action = "create" \/ found = {}) /\ ~(q.action = "update" /\ q.changed)
    <3>1. t = << >> /\ ImportedDone(p)
      BY <1>5, <1>14, <2>4 DEF ImportedDone
    <3> QED BY <1>9, <1>15, <2>1, <3>1 DEF ImportOK, FinishedImport
  <2> QED BY <2>2, <2>3, <2>4
<1>20. p.stale \subseteq DOMAIN p.dirty /\ p.known \subseteq DOMAIN row
  BY <1>9, <1>11 DEF CountOK
<1>21. CountOK(p)
  BY <1>9, <1>10, <1>19, <1>20 DEF CountOK, Same, PlainOp
<1> QED BY <1>8, <1>21, CountWorks

-----------------------------------------------------------------------------
(* The commit of an account.                                                *)

\* What a request about to commit has done with events and imported entries.
LEMMA AtTheEnd ==
  ASSUME NEW q, CountOK(q), q.pc = "write", q.todo = << >>
  PROVE  /\ q.op = "import" => EventDone(q) /\ ImportedDone(q)
         /\ q.op = "revise" =>
              /\ DOMAIN q.dirty = {q.e, q.fresh} /\ Revised(q, q.e, q.fresh)
              /\ q.fresh \in q.stale \/ (q.e \notin raced /\ SameCount(q.dirty[q.fresh].doc, row[q.e].doc))
         /\ q.op = "restore" =>
              /\ q.heard \in Seq(Nat)
              /\ q.fresh \in DOMAIN q.dirty \ DOMAIN row /\ DOMAIN q.dirty \ {q.fresh} \subseteq DOMAIN row
              /\ \A x \in DOMAIN q.dirty \ {q.fresh} : SameCount(q.dirty[x].doc, row[x].doc)
              /\ q.dirty[q.fresh].kind = "event" => q.fresh \in q.stale \/ Tally(q.dirty[q.fresh].doc, q.heard)
              /\ q.dirty[q.fresh].kind \in q.born \/ \E x \in DOMAIN q.dirty : Revised(q, x, q.fresh)
         /\ PlainOp(q.op) => PlainOK(q)
<1>1. \A a, b, c : << >> # <<a>> /\ << >> # <<a, b>> /\ << >> # <<a, b, c>>
  BY Firsts
<1>2. ~PlannedImport(q) /\ ~RevisedImport(q) /\ ~CountedImport(q)
  BY <1>1 DEF PlannedImport, RevisedImport, CountedImport
<1>3. q.op = "import" => EventDone(q) /\ ImportedDone(q)
  BY <1>2 DEF CountOK, ImportOK, FinishedImport
<1>4. q.op = "revise" =>
        /\ DOMAIN q.dirty = {q.e, q.fresh} /\ Revised(q, q.e, q.fresh)
        /\ q.fresh \in q.stale \/ (q.e \notin raced /\ SameCount(q.dirty[q.fresh].doc, row[q.e].doc))
  BY <1>1 DEF CountOK, ReviseOK
<1>5. q.op = "restore" => RestoreOK(q) /\ q.todo # << Restore(q.e, q.o) >>
  BY <1>1 DEF CountOK
<1> QED BY <1>3, <1>4, <1>5 DEF CountOK, RestoreOK

\* The kinds of what a request has written are those it found.
LEMMA SameKinds ==
  ASSUME NEW q, RequestOK(q), NEW x \in DOMAIN q.dirty \cap DOMAIN row
  PROVE  q.dirty[x].kind = row[x].kind /\ (q.dirty[x].current => row[x].current)
BY DEF RequestOK, DriftOK

\* The events the request went on from, at its commit.
Previous(q) == {e \in DOMAIN q.dirty \cap DOMAIN row : row[e].kind = "event"}

LEMMA PreviousOf ==
  ASSUME NEW q, RequestOK(q), RowsOK(row)
  PROVE  /\ Previous(q) = OfKind(q, "event") \cap DOMAIN row
         /\ Previous(q) # {} => Newest(Previous(q)) \in DOMAIN row
         /\ \A x : Previous(q) = {x} => Newest(Previous(q)) = x
<1>1. Previous(q) = OfKind(q, "event") \cap DOMAIN row
  BY SameKinds DEF Previous, OfKind
<1>2. Previous(q) \in SUBSET Id /\ Previous(q) \subseteq DOMAIN row
  BY DEF Previous, RowsOK
<1>3. Previous(q) # {} => Newest(Previous(q)) \in Previous(q)
  BY <1>2, NewestOf
<1> QED BY <1>1, <1>2, <1>3

\* The account of an entry after the commit.
LogBy(q, e) ==
  IF q.op = "import" /\ e \in DOMAIN q.dirty /\ q.dirty[e].kind = "event" /\ q.dirty[e].current
  THEN Append(IF Previous(q) = {} THEN << >> ELSE log[Newest(Previous(q))], q.n)
  ELSE IF q.op = "restore" /\ e \in DOMAIN q.dirty \ DOMAIN row THEN q.heard
  ELSE IF e \in DOMAIN q.dirty \ DOMAIN row
  THEN (IF q.dirty[e].kind = "event" /\ Previous(q) # {} THEN log[Newest(Previous(q))] ELSE << >>)
  ELSE log[e]

LEMMA CommitLogs ==
  ASSUME IInv, NEW r \in Request, NEW q, q = req[r], Commit(r)
  PROVE  /\ \A e \in DOMAIN row \cup DOMAIN q.dirty : log'[e] = LogBy(q, e)
         /\ twins' = twins \cup {k \in q.born : \/ q.op = "restore"
                                                \/ q.op = "import" /\ q.action = "create"
                                                \/ q.op = "import" /\ q.action = "skip" /\ k = "event"
                                                \/ \E e \in DOMAIN row \ q.known : row[e].kind = k /\ row[e].current}
<1>1. Dirty(r) = q.dirty
  BY CommitDoes
<1>2. PICK l : l = [e \in DOMAIN row \cup DOMAIN q.dirty |-> LogBy(q, e)]
  OBVIOUS
<1>3. log' = l
  BY <1>1, <1>2 DEF Commit, EventOf, LogBy, Previous
<1>4. twins' = twins \cup {k \in q.born : \/ q.op = "restore"
                                          \/ q.op = "import" /\ q.action = "create"
                                          \/ q.op = "import" /\ q.action = "skip" /\ k = "event"
                                          \/ \E e \in DOMAIN row \ q.known : row[e].kind = k /\ row[e].current}
  BY DEF Commit
<1> QED BY <1>2, <1>3, <1>4

\* An account is a list of runs.
LEMMA LogTyped ==
  ASSUME Tallied, RowsOK(row), NEW q, RequestOK(q), NEW e \in DOMAIN row \cup DOMAIN q.dirty,
         q.op = "restore" => q.heard \in Seq(Nat)
  PROVE  LogBy(q, e) \in Seq(Nat)
<1>1. q.n \in Nat
  BY DEF RequestOK, SessionOK
<1>2. \A x \in DOMAIN row : log[x] \in Seq(Nat)
  BY DEF Tallied
<1>3. PICK l : l = IF Previous(q) = {} THEN << >> ELSE log[Newest(Previous(q))]
  OBVIOUS
<1>4. l \in Seq(Nat)
  BY <1>2, <1>3, PreviousOf
<1>5. Append(l, q.n) \in Seq(Nat) /\ << >> \in Seq(Nat)
  BY <1>1, <1>4
<1>6. CASE q.op = "import" /\ e \in DOMAIN q.dirty /\ q.dirty[e].kind = "event" /\ q.dirty[e].current
  BY <1>3, <1>5, <1>6 DEF LogBy
<1>7. CASE /\ ~(q.op = "import" /\ e \in DOMAIN q.dirty /\ q.dirty[e].kind = "event" /\ q.dirty[e].current)
           /\ e \in DOMAIN q.dirty \ DOMAIN row
  BY <1>3, <1>4, <1>5, <1>7 DEF LogBy
<1>8. CASE /\ ~(q.op = "import" /\ e \in DOMAIN q.dirty /\ q.dirty[e].kind = "event" /\ q.dirty[e].current)
           /\ e \in DOMAIN row
  BY <1>2, <1>8 DEF LogBy
<1> QED BY <1>6, <1>7, <1>8

\* The account of an event an import has written.
LEMMA ImportTallies ==
  ASSUME Tallied, RowsOK(row), NEW q, RequestOK(q), EventDone(q), q.op = "import",
         NEW e \in DOMAIN q.dirty, q.dirty[e].kind = "event", e \notin raced \cup q.stale
  PROVE  Tally(q.dirty[e].doc, LogBy(q, e))
<1>1. q.n \in Nat /\ e \in OfKind(q, "event")
  BY DEF RequestOK, SessionOK, OfKind
<1>2. q.dirty[e].current => LogBy(q, e) = Append(IF Previous(q) = {} THEN << >> ELSE log[Newest(Previous(q))], q.n)
  BY DEF LogBy
<1>3. Previous(q) = OfKind(q, "event") \cap DOMAIN row
  BY PreviousOf
\* The event was there: one run more.
<1>4. ASSUME NEW x \in DOMAIN row, Previous(q) = {x}, row[x].kind = "event", x \notin raced, q.dirty[e].current,
             Counts(q.dirty[e].doc, row[x].doc, q.n)
      PROVE  Tally(q.dirty[e].doc, LogBy(q, e))
  <2>1. Newest(Previous(q)) = x /\ Previous(q) # {}
    BY <1>4, PreviousOf
  <2>2. LogBy(q, e) = Append(log[x], q.n)
    <3>1. PICK l : l = IF Previous(q) = {} THEN << >> ELSE log[Newest(Previous(q))]
      OBVIOUS
    <3>2. l = log[x]
      BY <2>1, <3>1
    <3> QED BY <1>2, <1>4, <3>1, <3>2, Zenon
  <2>3. Tally(row[x].doc, log[x]) /\ log[x] \in Seq(Nat)
    BY <1>4 DEF Tallied
  <2>4. Tally(q.dirty[e].doc, Append(log[x], q.n))
    BY <1>1, <1>4, <2>3, CountsTally
  <2> QED BY <2>2, <2>4
<1>5. CASE \E f \in DOMAIN q.dirty \ DOMAIN row :
             /\ OfKind(q, "event") = {f} /\ "event" \in q.born /\ q.dirty[f].current
             /\ q.action # "update" \/ NoneKnown(q, "event")
             /\ Tally(q.dirty[f].doc, <<q.n>>)
  <2>1. PICK f \in DOMAIN q.dirty \ DOMAIN row :
          OfKind(q, "event") = {f} /\ Tally(q.dirty[f].doc, <<q.n>>) /\ q.dirty[f].current
    BY <1>5
  <2>2. e = f /\ Previous(q) = {} /\ q.dirty[e].current
    BY <1>1, <1>3, <2>1
  <2>3. Append(<< >>, q.n) = <<q.n>>
    BY <1>1
  <2>4. LogBy(q, e) = <<q.n>>
    BY <1>2, <2>2, <2>3
  <2> QED BY <2>1, <2>2, <2>4
<1>6. CASE \E x, f \in DOMAIN q.dirty :
             /\ OfKind(q, "event") = {x, f} /\ Revised(q, x, f)
             /\ f \in q.stale \/ (x \notin raced /\ Counts(q.dirty[f].doc, row[x].doc, q.n))
  <2>1. PICK x, f \in DOMAIN q.dirty :
             /\ OfKind(q, "event") = {x, f} /\ Revised(q, x, f)
             /\ f \in q.stale \/ (x \notin raced /\ Counts(q.dirty[f].doc, row[x].doc, q.n))
    BY <1>6
  <2>2. /\ x \in DOMAIN row /\ f \notin DOMAIN row /\ row[x].current /\ ~q.dirty[x].current
        /\ q.dirty[x].doc = row[x].doc /\ q.dirty[f].current
    BY <2>1 DEF Revised
  <2>3. (e = f \/ e = x) /\ Previous(q) = {x}
    BY <1>1, <1>3, <2>1, <2>2
  <2>4. row[x].kind = "event"
    BY <2>3 DEF Previous
  <2>5. CASE e = f
    BY <1>4, <2>1, <2>2, <2>3, <2>4, <2>5
  <2>6. CASE e = x
    <3>1. LogBy(q, e) = log[x] /\ Tally(row[x].doc, log[x])
      BY <2>2, <2>4, <2>6 DEF LogBy, Tallied
    <3> QED BY <2>2, <2>6, <3>1
  <2> QED BY <2>3, <2>5, <2>6
<1>7. CASE \E x \in DOMAIN q.dirty \cap DOMAIN row :
             /\ OfKind(q, "event") = {x}
             /\ x \in q.stale \cup raced \/ (q.dirty[x].current /\ Counts(q.dirty[x].doc, row[x].doc, q.n))
  <2>1. PICK x \in DOMAIN q.dirty \cap DOMAIN row :
             /\ OfKind(q, "event") = {x}
             /\ x \in q.stale \cup raced \/ (q.dirty[x].current /\ Counts(q.dirty[x].doc, row[x].doc, q.n))
    BY <1>7
  <2>2. e = x /\ Previous(q) = {x}
    BY <1>1, <1>3, <2>1
  <2>3. row[x].kind = "event"
    BY <2>2, SameKinds
  <2> QED BY <1>4, <2>1, <2>2, <2>3
<1> QED BY <1>5, <1>6, <1>7 DEF EventDone

\* The account of an event another request has written.
LEMMA OtherTallies ==
  ASSUME Tallied, RowsOK(row), NEW q, RequestOK(q), CountOK(q), q.pc = "write", q.todo = << >>, q.op # "import",
         NEW e \in DOMAIN q.dirty, q.dirty[e].kind = "event", e \notin raced \cup q.stale
  PROVE  Tally(q.dirty[e].doc, LogBy(q, e))
<1>1. CASE q.op = "revise"
  <2>1. /\ DOMAIN q.dirty = {q.e, q.fresh} /\ Revised(q, q.e, q.fresh)
        /\ q.fresh \in q.stale \/ (q.e \notin raced /\ SameCount(q.dirty[q.fresh].doc, row[q.e].doc))
    BY <1>1, AtTheEnd
  <2>2. /\ q.e \in DOMAIN row /\ q.fresh \notin DOMAIN row /\ row[q.e].current /\ ~q.dirty[q.e].current
        /\ q.dirty[q.fresh].kind = row[q.e].kind /\ q.dirty[q.e].doc = row[q.e].doc
    BY <2>1 DEF Revised
  <2>9. CASE e = q.e
    <3>1. row[e].kind = "event"
      BY <2>2, <2>9, SameKinds
    <3>2. LogBy(q, e) = log[e] /\ Tally(row[e].doc, log[e])
      BY <1>1, <2>2, <2>9, <3>1 DEF LogBy, Tallied
    <3> QED BY <2>2, <2>9, <3>2
  <2>3. SUFFICES ASSUME e = q.fresh PROVE Tally(q.dirty[e].doc, LogBy(q, e))
    BY <2>1, <2>9
  <2>4. row[q.e].kind = "event" /\ q.e \notin raced /\ SameCount(q.dirty[e].doc, row[q.e].doc)
    BY <2>1, <2>2, <2>3
  <2>5. Previous(q) = {q.e}
    BY <2>1, <2>2, <2>4 DEF Previous
  <2>6. Newest(Previous(q)) = q.e /\ Previous(q) # {}
    BY <2>5, PreviousOf
  <2>7. LogBy(q, e) = log[q.e]
    BY <1>1, <2>2, <2>3, <2>6 DEF LogBy
  <2>8. Tally(row[q.e].doc, log[q.e])
    BY <2>2, <2>4 DEF Tallied
  <2> QED BY <2>4, <2>7, <2>8 DEF Tally, SameCount
<1>3. CASE q.op = "restore"
  <2>1. /\ q.fresh \in DOMAIN q.dirty \ DOMAIN row /\ DOMAIN q.dirty \ {q.fresh} \subseteq DOMAIN row
        /\ \A x \in DOMAIN q.dirty \ {q.fresh} : SameCount(q.dirty[x].doc, row[x].doc)
        /\ q.dirty[q.fresh].kind = "event" => q.fresh \in q.stale \/ Tally(q.dirty[q.fresh].doc, q.heard)
    BY <1>3, AtTheEnd
  <2>2. CASE e = q.fresh
    <3>1. LogBy(q, e) = q.heard
      BY <1>3, <2>1, <2>2 DEF LogBy
    <3> QED BY <2>1, <2>2, <3>1
  <2>3. CASE e # q.fresh
    <3>1. e \in DOMAIN row /\ row[e].kind = "event"
      BY <2>1, <2>3, SameKinds
    <3>2. LogBy(q, e) = log[e] /\ Tally(row[e].doc, log[e])
      BY <1>3, <3>1 DEF LogBy, Tallied
    <3> QED BY <2>1, <2>3, <3>2 DEF Tally, SameCount
  <2> QED BY <2>2, <2>3
<1>2. CASE q.op # "revise" /\ q.op # "restore"
  <2>1. PlainOK(q)
    BY <1>2, AtTheEnd DEF PlainOp
  <2>2. e \in DOMAIN row
    BY <2>1 DEF PlainOK
  <2>3. LogBy(q, e) = log[e]
    BY <2>2 DEF LogBy
  <2>4. row[e].kind = "event"
    BY <2>2, SameKinds
  <2>5. Tally(row[e].doc, log[e])
    BY <2>2, <2>4 DEF Tallied
  <2>6. \A k \in DocKeys \ Given(q, e) : q.dirty[e].doc[k] = row[e].doc[k]
    BY <2>2 DEF RequestOK, DriftOK
  <2>7. "runs" \in DocKeys \ Given(q, e) /\ "history" \in DocKeys \ Given(q, e)
    <3>1. Given(q, e) \cap CountKeys = {}
      BY <2>1 DEF PlainOK
    <3> QED BY <3>1 DEF CountKeys, DocKeys
  <2>8. SameCount(q.dirty[e].doc, row[e].doc)
    BY <2>6, <2>7 DEF SameCount
  <2> QED BY <2>3, <2>5, <2>8 DEF Tally, SameCount
<1> QED BY <1>1, <1>2, <1>3

\* What a request adds to a kind that imports keep single: nothing; one entry
\* in place of another; or the first one, for all an import knew.
LEMMA Newcomers ==
  ASSUME NEW q, RequestOK(q), CountOK(q), q.pc = "write", q.todo = << >>, NEW k \in {"event", "imported"}
  PROVE  \/ \A f \in DOMAIN q.dirty \ DOMAIN row : q.dirty[f].kind # k
         \/ \E f : /\ \A g \in DOMAIN q.dirty \ DOMAIN row : q.dirty[g].kind = k => g = f
                   /\ \/ \E x \in DOMAIN q.dirty \cap DOMAIN row :
                           row[x].kind = k /\ row[x].current /\ ~q.dirty[x].current
                      \/ k \in q.born /\ q.op = "restore"
                      \/ /\ k \in q.born /\ q.op = "import"
                         /\ q.action = "create" \/ NoneKnown(q, k) \/ (k = "event" /\ q.action # "update")
<1> DEFINE None == \A f \in DOMAIN q.dirty \ DOMAIN row : q.dirty[f].kind # k
           One(f) == \A g \in DOMAIN q.dirty \ DOMAIN row : q.dirty[g].kind = k => g = f
           Replaces == \E x \in DOMAIN q.dirty \cap DOMAIN row :
                         row[x].kind = k /\ row[x].current /\ ~q.dirty[x].current
           Again == k \in q.born /\ q.op = "restore"
           First == /\ k \in q.born /\ q.op = "import"
                    /\ q.action = "create" \/ NoneKnown(q, k) \/ (k = "event" /\ q.action # "update")
<1>1. SUFFICES None \/ \E f : One(f) /\ (Replaces \/ Again \/ First)
  OBVIOUS
\* A revision, by any request.
<1>2. ASSUME NEW x, NEW f, Revised(q, x, f), OfKind(q, k) \subseteq {x, f}, f \in OfKind(q, k)
      PROVE  One(f) /\ Replaces
  <2>1. /\ x \in DOMAIN q.dirty \cap DOMAIN row /\ row[x].current /\ ~q.dirty[x].current
        /\ q.dirty[f].kind = row[x].kind /\ q.dirty[f].kind = k
    BY <1>2 DEF Revised, OfKind
  <2>2. \A g \in DOMAIN q.dirty \ DOMAIN row : q.dirty[g].kind = k => g = f
    BY <1>2, <2>1 DEF OfKind
  <2> QED BY <2>1, <2>2
<1>3. ASSUME OfKind(q, k) \subseteq DOMAIN row PROVE None
  BY <1>3 DEF OfKind
<1>4. ASSUME NEW f, OfKind(q, k) = {f} PROVE One(f)
  BY <1>4 DEF OfKind
<1>5. CASE PlainOp(q.op)
  <2>1. \A e \in DOMAIN q.dirty \ DOMAIN row : q.dirty[e].kind = "note"
    BY <1>5, AtTheEnd DEF PlainOK
  <2> QED BY <2>1
<1>6. CASE q.op = "revise"
  <2>1. DOMAIN q.dirty = {q.e, q.fresh} /\ Revised(q, q.e, q.fresh)
    BY <1>6, AtTheEnd
  <2>2. OfKind(q, k) \subseteq {q.e, q.fresh}
    BY <2>1 DEF OfKind
  <2>3. CASE q.fresh \in OfKind(q, k)
    BY <1>2, <2>1, <2>2, <2>3
  <2>4. CASE q.fresh \notin OfKind(q, k)
    <3>1. OfKind(q, k) \subseteq DOMAIN row
      BY <2>1, <2>2, <2>4 DEF Revised
    <3> QED BY <1>3, <3>1
  <2> QED BY <2>3, <2>4
<1>7. CASE q.op = "import" /\ k = "event"
  <2>1. EventDone(q)
    BY <1>7, AtTheEnd
  <2>2. CASE \E f \in DOMAIN q.dirty \ DOMAIN row :
               /\ OfKind(q, "event") = {f} /\ "event" \in q.born /\ q.dirty[f].current
               /\ q.action # "update" \/ NoneKnown(q, "event")
               /\ Tally(q.dirty[f].doc, <<q.n>>)
    <3>1. PICK f : OfKind(q, k) = {f}
      BY <1>7, <2>2
    <3>2. One(f) /\ First
      BY <1>4, <1>7, <2>2, <3>1
    <3> QED BY <3>2
  <2>3. CASE \E x, f \in DOMAIN q.dirty :
               /\ OfKind(q, "event") = {x, f} /\ Revised(q, x, f)
               /\ f \in q.stale \/ (x \notin raced /\ Counts(q.dirty[f].doc, row[x].doc, q.n))
    <3>1. PICK x, f : OfKind(q, k) = {x, f} /\ Revised(q, x, f)
      BY <1>7, <2>3
    <3>2. OfKind(q, k) \subseteq {x, f} /\ f \in OfKind(q, k)
      BY <3>1
    <3> QED BY <1>2, <3>1, <3>2
  <2>4. CASE \E x \in DOMAIN q.dirty \cap DOMAIN row :
               /\ OfKind(q, "event") = {x}
               /\ x \in q.stale \cup raced \/ (q.dirty[x].current /\ Counts(q.dirty[x].doc, row[x].doc, q.n))
    <3>1. OfKind(q, k) \subseteq DOMAIN row
      BY <1>7, <2>4
    <3> QED BY <1>3, <3>1
  <2> QED BY <2>1, <2>2, <2>3, <2>4 DEF EventDone
<1>8. CASE q.op = "import" /\ k = "imported"
  <2>1. ImportedDone(q)
    BY <1>8, AtTheEnd
  <2>2. CASE OfKind(q, "imported") = {}
    <3>1. OfKind(q, k) \subseteq DOMAIN row
      BY <1>8, <2>2
    <3> QED BY <1>3, <3>1
  <2>3. CASE \E f \in DOMAIN q.dirty \ DOMAIN row :
               /\ OfKind(q, "imported") = {f} /\ "imported" \in q.born
               /\ q.action = "create" \/ NoneKnown(q, "imported")
    <3>1. PICK f : OfKind(q, k) = {f}
      BY <1>8, <2>3
    <3>2. One(f) /\ First
      BY <1>4, <1>8, <2>3, <3>1
    <3> QED BY <3>2
  <2>4. CASE \E x, f \in DOMAIN q.dirty : OfKind(q, "imported") = {x, f} /\ Revised(q, x, f)
    <3>1. PICK x, f : OfKind(q, k) = {x, f} /\ Revised(q, x, f)
      BY <1>8, <2>4
    <3>2. OfKind(q, k) \subseteq {x, f} /\ f \in OfKind(q, k)
      BY <3>1
    <3> QED BY <1>2, <3>1, <3>2
  <2> QED BY <2>1, <2>2, <2>3, <2>4 DEF ImportedDone
<1>9. CASE q.op = "restore"
  <2>1. /\ q.fresh \in DOMAIN q.dirty \ DOMAIN row /\ DOMAIN q.dirty \ {q.fresh} \subseteq DOMAIN row
        /\ q.dirty[q.fresh].kind \in q.born \/ \E x \in DOMAIN q.dirty : Revised(q, x, q.fresh)
    BY <1>9, AtTheEnd
  <2>2. One(q.fresh)
    BY <2>1
  <2>3. CASE q.dirty[q.fresh].kind # k
    BY <2>1, <2>3
  <2>4. CASE q.dirty[q.fresh].kind = k /\ k \in q.born
    BY <1>9, <2>2, <2>4
  <2>5. CASE q.dirty[q.fresh].kind = k /\ \E x \in DOMAIN q.dirty : Revised(q, x, q.fresh)
    <3>1. PICK x \in DOMAIN q.dirty : Revised(q, x, q.fresh)
      BY <2>5
    <3>2. Replaces
      BY <2>5, <3>1 DEF Revised
    <3> QED BY <2>2, <3>2
  <2> QED BY <2>1, <2>3, <2>4, <2>5
<1>10. PlainOp(q.op) \/ q.op \in {"import", "revise", "restore"}
  BY DEF PlainOp
<1> QED BY <1>5, <1>6, <1>7, <1>8, <1>9, <1>10

\* What a commit leaves single.
LEMMA CommitKeepsSingle ==
  ASSUME Single, NEW q, RequestOK(q), CountOK(q), q.pc = "write", q.todo = << >>,
         DOMAIN row' = DOMAIN row \cup DOMAIN q.dirty,
         \A e \in DOMAIN row' : row'[e] = IF e \in DOMAIN q.dirty THEN q.dirty[e] ELSE row[e],
         twins' = twins \cup {k \in q.born : \/ q.op = "restore"
                                             \/ q.op = "import" /\ q.action = "create"
                                             \/ q.op = "import" /\ q.action = "skip" /\ k = "event"
                                             \/ \E e \in DOMAIN row \ q.known : row[e].kind = k /\ row[e].current}
  PROVE  Single'
<1>1. SUFFICES ASSUME NEW k \in {"event", "imported"}, k \notin twins', NEW e \in DOMAIN row', NEW f \in DOMAIN row',
                      row'[e].kind = k, row'[e].current, row'[f].kind = k, row'[f].current
               PROVE  e = f
  BY DEF Single
<1>2. \A x, y \in DOMAIN row : row[x].kind = k /\ row[x].current /\ row[y].kind = k /\ row[y].current => x = y
  BY <1>1 DEF Single
<1>3. \A x \in {e, f} : x \in DOMAIN row => row[x].kind = k /\ row[x].current
  BY <1>1, SameKinds
<1>4. \A x \in {e, f} : x \notin DOMAIN row => x \in DOMAIN q.dirty \ DOMAIN row /\ q.dirty[x].kind = k
  BY <1>1
<1>5. CASE \A g \in DOMAIN q.dirty \ DOMAIN row : q.dirty[g].kind # k
  BY <1>2, <1>3, <1>4, <1>5
<1>6. ASSUME NEW g, \A h \in DOMAIN q.dirty \ DOMAIN row : q.dirty[h].kind = k => h = g,
             \A x \in {e, f} : x \notin DOMAIN row
      PROVE  e = f
  BY <1>4, <1>6
<1>7. CASE \E g : /\ \A h \in DOMAIN q.dirty \ DOMAIN row : q.dirty[h].kind = k => h = g
                  /\ \E x \in DOMAIN q.dirty \cap DOMAIN row :
                       row[x].kind = k /\ row[x].current /\ ~q.dirty[x].current
  <2>1. PICK x \in DOMAIN q.dirty \cap DOMAIN row : row[x].kind = k /\ row[x].current /\ ~q.dirty[x].current
    BY <1>7
  <2>2. \A y \in {e, f} : y # x
    BY <1>1, <2>1
  <2>3. \A y \in {e, f} : y \notin DOMAIN row
    BY <1>2, <1>3, <2>1, <2>2
  <2> QED BY <1>6, <1>7, <2>3
<1>8. CASE \E g : /\ \A h \in DOMAIN q.dirty \ DOMAIN row : q.dirty[h].kind = k => h = g
                  /\ k \in q.born /\ q.op = "import"
                  /\ q.action = "create" \/ NoneKnown(q, k) \/ (k = "event" /\ q.action # "update")
  <2>1. /\ k \in q.born /\ q.op = "import"
        /\ q.action = "create" \/ NoneKnown(q, k) \/ (k = "event" /\ q.action # "update")
    BY <1>8
  <2>2. /\ q.action # "create" /\ ~(q.action = "skip" /\ k = "event")
        /\ \A x \in DOMAIN row \ q.known : ~(row[x].kind = k /\ row[x].current)
    BY <1>1, <2>1
  <2>3. q.action \in {"create", "skip", "update"}
    BY <2>1 DEF RequestOK, AskOK, Modes
  <2>4. NoneKnown(q, k)
    BY <2>1, <2>2, <2>3
  <2>5. \A x \in DOMAIN row : ~(row[x].kind = k /\ row[x].current)
    BY <2>2, <2>4 DEF NoneKnown
  <2>6. \A y \in {e, f} : y \notin DOMAIN row
    BY <1>3, <2>5
  <2> QED BY <1>6, <1>8, <2>6
<1>9. \/ \A f1 \in DOMAIN q.dirty \ DOMAIN row : q.dirty[f1].kind # k
      \/ \E g : /\ \A h \in DOMAIN q.dirty \ DOMAIN row : q.dirty[h].kind = k => h = g
                /\ \/ \E x \in DOMAIN q.dirty \cap DOMAIN row :
                        row[x].kind = k /\ row[x].current /\ ~q.dirty[x].current
                   \/ k \in q.born /\ q.op = "restore"
                   \/ /\ k \in q.born /\ q.op = "import"
                      /\ q.action = "create" \/ NoneKnown(q, k) \/ (k = "event" /\ q.action # "update")
  BY Newcomers
<1>10. ~(k \in q.born /\ q.op = "restore")
  BY <1>1
<1> QED BY <1>5, <1>7, <1>8, <1>9, <1>10

LEMMA CommitCounts == ASSUME IInv, ImportsInv, NEW r \in Request, Commit(r) PROVE ImportsInv'
<1>1. PICK q : q = req[r]
  OBVIOUS
<1>2. /\ q.pc = "write" /\ q.todo = << >> /\ RequestOK(q) /\ Dirty(r) = q.dirty
      /\ row' = [e \in DOMAIN row \cup DOMAIN q.dirty |-> IF e \in DOMAIN q.dirty THEN q.dirty[e] ELSE row[e]]
      /\ raced' = raced \cup q.stale
      /\ req' = [req EXCEPT ![r] = Idle]
  <2>1. q.pc = "write" /\ q.todo = << >> /\ req' = [req EXCEPT ![r] = Idle]
    BY <1>1 DEF Commit
  <2>2. RequestOK(q) /\ Dirty(r) = q.dirty
    BY <1>1, <2>1, Working
  <2>3. /\ row' = [e \in DOMAIN row \cup DOMAIN q.dirty |-> IF e \in DOMAIN q.dirty THEN q.dirty[e] ELSE row[e]]
        /\ raced' = raced \cup q.stale
    BY <1>1, <2>2 DEF Commit
  <2> QED BY <2>1, <2>2, <2>3
<1>3. /\ \A e \in DOMAIN row \cup DOMAIN q.dirty : log'[e] = LogBy(q, e)
      /\ twins' = twins \cup {k \in q.born : \/ q.op = "restore"
                                             \/ q.op = "import" /\ q.action = "create"
                                             \/ q.op = "import" /\ q.action = "skip" /\ k = "event"
                                             \/ \E e \in DOMAIN row \ q.known : row[e].kind = k /\ row[e].current}
  BY <1>1, CommitLogs
<1>4. RowsOK(row) /\ Tallied /\ Single /\ RequestsOK
  BY DEF IInv, Committed, Stored, ImportsInv
<1>5. CountOK(q)
  BY <1>1, <1>2 DEF ImportsInv, Idle
<1>6. /\ DOMAIN row' = DOMAIN row \cup DOMAIN q.dirty
      /\ \A e \in DOMAIN row' : row'[e] = IF e \in DOMAIN q.dirty THEN q.dirty[e] ELSE row[e]
  BY <1>2
<1>7. Tallied'
  <2>1. raced' \subseteq DOMAIN row'
    BY <1>2, <1>4, <1>5, <1>6 DEF Tallied, CountOK
  <2>2. \A e \in DOMAIN row' : log'[e] \in Seq(Nat)
    <3>1. q.op = "restore" => q.heard \in Seq(Nat)
      BY <1>2, <1>5, AtTheEnd
    <3> QED BY <1>2, <1>3, <1>4, <1>6, <3>1, LogTyped
  <2>3. ASSUME NEW e \in DOMAIN row' \ raced', row'[e].kind = "event"
        PROVE  Tally(row'[e].doc, log'[e])
    <3>1. log'[e] = LogBy(q, e) /\ e \notin raced \cup q.stale
      BY <1>2, <1>3, <1>6
    <3>2. CASE e \notin DOMAIN q.dirty
      <4>1. row'[e] = row[e] /\ log'[e] = log[e] /\ e \in DOMAIN row \ raced
        BY <1>6, <3>1, <3>2 DEF LogBy
      <4>2. Tally(row[e].doc, log[e])
        BY <1>4, <2>3, <4>1 DEF Tallied
      <4> QED BY <4>1, <4>2
    <3>3. CASE e \in DOMAIN q.dirty
      <4>1. row'[e] = q.dirty[e]
        BY <1>6, <3>3
      <4>2. q.op = "import" => EventDone(q)
        BY <1>2, <1>5, AtTheEnd
      <4>3. Tally(q.dirty[e].doc, LogBy(q, e))
        <5>1. q.dirty[e].kind = "event"
          BY <2>3, <4>1
        <5>2. CASE q.op = "import"
          BY <1>2, <1>4, <3>1, <3>3, <4>2, <5>1, <5>2, ImportTallies
        <5>3. CASE q.op # "import"
          BY <1>2, <1>4, <1>5, <3>1, <3>3, <5>1, <5>3, OtherTallies
        <5> QED BY <5>2, <5>3
      <4> QED BY <3>1, <4>1, <4>3
    <3> QED BY <3>2, <3>3
  <2>4. \A e \in DOMAIN row' \ raced' : row'[e].kind = "event" => Tally(row'[e].doc, log'[e])
    BY <2>3
  <2> QED BY <2>1, <2>2, <2>4 DEF Tallied, Tally
<1>8. Single'
  BY <1>2, <1>3, <1>4, <1>5, <1>6, CommitKeepsSingle
<1>9. req'[r] = Idle /\ \A u \in Request \ {r} : req'[u] = req[u]
  BY <1>2, <1>4 DEF RequestsOK
<1>10. ASSUME NEW u \in Request \ {r} PROVE req'[u] = Idle \/ CountOK(req[u])'
  <2>1. PICK t : t = req[u]
    OBVIOUS
  <2>2. SUFFICES ASSUME t # Idle PROVE CountOK(req[u])'
    BY <1>9, <2>1
  <2>3. CountOK(t) /\ RequestOK(t)
    BY <1>4, <2>1, <2>2 DEF ImportsInv, RequestsOK
  <2>4. Dirty(u) = t.dirty /\ DOMAIN t.base \subseteq DOMAIN row
    BY <2>1, <2>3 DEF Dirty, RequestOK, SessionOK
  <2>5. DOMAIN t.dirty \cap DOMAIN q.dirty = {}
    BY <1>2, <1>4, <2>4 DEF RequestsOK
  <2>6. DOMAIN row \subseteq DOMAIN row' /\ q.stale \subseteq DOMAIN q.dirty
    BY <1>5, <1>6 DEF CountOK
  <2>7. \A e \in DOMAIN row : row'[e].kind = row[e].kind /\ (row'[e].current => row[e].current)
    BY <1>2, <1>6, SameKinds
  <2>8. \A e \in DOMAIN t.dirty : /\ e \in DOMAIN row' => e \in DOMAIN row
                                  /\ e \in DOMAIN row => row'[e] = row[e]
                                  /\ e \in raced' <=> e \in raced
    BY <1>2, <1>6, <2>5, <2>6
  <2>9. CountOK(t)'
    BY <2>3, <2>4, <2>6, <2>7, <2>8, CountCarries
  <2>10. t = req'[u]
    BY <1>9, <2>1
  <2> QED BY <2>9, <2>10, CountAt
<1> QED BY <1>7, <1>8, <1>9, <1>10 DEF ImportsInv

-----------------------------------------------------------------------------
(* The imports of every behaviour.                                          *)

LEMMA InitCounts == ASSUME Init PROVE ImportsInv
<1>1. /\ row \in Seeds /\ req = [r \in Request |-> Idle] /\ raced = {} /\ twins = {}
      /\ log = [e \in DOMAIN row |-> row[e].doc.history]
  BY DEF Init
<1>2. \A e \in DOMAIN row : row[e] \in Row
  BY <1>1, UpkeepAssumption
<1>3. \A e \in DOMAIN row : log[e] = row[e].doc.history /\ log[e] \in Seq(Nat)
  BY <1>1, <1>2 DEF Row, Docs
<1>4. ASSUME NEW e \in DOMAIN row, row[e].kind = "event" PROVE Tally(row[e].doc, log[e])
  <2>1. row[e].doc.runs = Len(row[e].doc.history) /\ Len(row[e].doc.history) <= HistoryCap
    BY <1>1, <1>4, SeedAssumption
  <2>2. LastRuns(log[e]) = log[e]
    BY <1>3, <2>1, LastRunsIs
  <2> QED BY <1>3, <2>1, <2>2 DEF Tally
<1>5. Tallied
  BY <1>1, <1>3, <1>4 DEF Tallied
<1>6. Single
  <2>1. \A e, f \in DOMAIN row : row[e].current /\ row[f].current /\ row[e].kind = row[f].kind
          => row[e].kind \notin {"event", "imported"} \/ e = f
    BY <1>1, SeedAssumption
  <2> QED BY <2>1 DEF Single
<1> QED BY <1>1, <1>5, <1>6 DEF ImportsInv

LEMMA StutterCounts == ASSUME IInv, ImportsInv, UNCHANGED vars PROVE ImportsInv'
<1>1. UNCHANGED <<row, req, raced, log, twins>>
  BY DEF vars
<1>2. Tallied' /\ Single'
  BY <1>1 DEF ImportsInv, Tallied, Single
<1>3. ASSUME NEW u \in Request PROVE req'[u] = Idle \/ CountOK(req[u])'
  <2>1. PICK t : t = req'[u]
    OBVIOUS
  <2>2. t = Idle \/ CountOK(t)
    BY <1>1, <2>1 DEF ImportsInv
  <2>3. CountOK(t) => CountOK(t)'
    BY <1>1, SameCounts
  <2> QED BY <2>1, <2>2, <2>3, CountAt
<1> QED BY <1>2, <1>3 DEF ImportsInv

LEMMA StepCounts == ASSUME IInv, ImportsInv, [Next]_vars PROVE ImportsInv'
<1>1. CASE UNCHANGED vars
  BY <1>1, StutterCounts
<1>2. ASSUME NEW r \in Request, Step(r) PROVE ImportsInv'
  BY <1>2, BeginCounts, ReadCounts, PatchCounts, UseCounts, ArchiveCounts, ReviseCounts, RestoreCounts, CreateCounts, MatchCounts,
     CommitCounts, AbortCounts DEF Step
<1> QED BY <1>1, <1>2 DEF Next

LEMMA ImportsInvHolds == Spec => []ImportsInv
<1>1. Init => ImportsInv
  BY InitCounts
<1>2. IInv /\ ImportsInv /\ [Next]_vars => ImportsInv'
  BY StepCounts
<1> QED BY <1>1, <1>2, InvariantHolds, PTL DEF Spec

\* ImportsCounted: every version of an event that no import wrote from an
\* outdated reading gives account of the runs it stands for, through revisions,
\* restorations, refused imports and whatever else is written meanwhile;
\* imports keep one event and one entry, with the exceptions ImportsCounted
\* names.
THEOREM ImportsAreCounted == Spec => []ImportsCounted
<1>1. ImportsInv => ImportsCounted
  <2>1. SUFFICES ASSUME ImportsInv PROVE ImportsCounted
    OBVIOUS
  <2>2. \A e \in DOMAIN row \ raced : row[e].kind = "event" =>
          row[e].doc.runs = Len(log[e]) /\ row[e].doc.history = LastRuns(log[e])
    BY <2>1 DEF ImportsInv, Tallied, Tally
  <2>3. ASSUME NEW k \in {"event", "imported"} \ twins
        PROVE  Cardinality({e \in DOMAIN row : row[e].kind = k /\ row[e].current}) <= 1
    <3>1. PICK S : S = {e \in DOMAIN row : row[e].kind = k /\ row[e].current}
      OBVIOUS
    <3>2. \A e, f \in S : e = f
      BY <2>1, <3>1 DEF ImportsInv, Single
    <3>3. S = {} \/ \E e : S = {e}
      BY <3>2
    <3>4. Cardinality(S) = 0 \/ Cardinality(S) = 1
      BY <3>3, FS_EmptySet, FS_Singleton
    <3> QED BY <3>1, <3>4
  <2> QED BY <2>2, <2>3 DEF ImportsCounted
<1> QED BY <1>1, ImportsInvHolds, PTL
=============================================================================
