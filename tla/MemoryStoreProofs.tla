-------------------------- MODULE MemoryStoreProofs --------------------------
(***************************************************************************)
(* Safety of MemoryStore for every set of entries, projects and requests.  *)
(* The inductive invariant comes in layers, each on top of those before:   *)
(* where a request may be and which entries it has named (TypeInv), the    *)
(* numbers of committed and uncommitted events (FeedInv), which row        *)
(* versions a transaction has written and by which lock it may (StoreInv), *)
(* the chains these belong to (ChainInv), the events a request owes for    *)
(* them (ReportInv), and the links it has copied (LinkInv).                *)
(***************************************************************************)
EXTENDS MemoryStore, OrderedProofs, TLAPS

\* The statements a request of each operation goes through.
PathOK(r) ==
  /\ r.op = None <=> r.pc = "idle"
  /\ r.op \notin {"link", "unlink"}
  /\ r.op = "create" => r.pc \in {"insert", "autolink", "emit", "commit"}
  /\ r.op = "revise" =>
       r.pc \in {"lock", "check", "write", "readlinks", "inherit", "emit", "commit"}
  /\ r.op = "archive" => r.pc \in {"lock", "check", "write", "emit", "commit"}
  /\ r.op = "restore" =>
       r.pc \in {"lock", "chain", "walk", "lockleaf", "check", "write",
                 "readlinks", "inherit", "emit", "commit"}
  /\ r.op = "assign" =>
       r.pc \in {"lock", "check", "write", "autolink", "emit", "commit"}
  /\ r.op = "stale" => r.pc \in {"next", "lock", "check", "write", "emit", "commit"}

BeforeWrite == {"idle", "insert", "lock", "check", "chain", "walk", "lockleaf", "write"}

BeforeLeaf == {"idle", "insert", "lock", "chain", "walk"}

Committed(e) == e \in Entry /\ db[e] # None

\* The entries a request has named exist; its new entry has an id once it is
\* written, and archiving creates none.
NamesOK(r) ==
  /\ r.op \in {"revise", "archive", "assign", "restore"} => Committed(r.target)
  /\ r.op = "stale" =>
       /\ r.pc \in {"lock", "check", "write", "emit"} => Committed(r.target)
       /\ \A e \in r.todo : Committed(e)
  /\ r.op = "restore" => Committed(r.source)
  /\ r.op = "restore" /\ r.pc \notin BeforeLeaf => Committed(r.leaf)
  /\ r.op = "revise" /\ r.pc \notin BeforeWrite => r.leaf = r.target
  /\ r.op = "assign" => r.project \in Project
  /\ r.fresh # None <=> r.op \notin {"archive", "stale"} /\ r.pc \notin BeforeWrite

\* Only archive_stale writes before it locks and checks again.
CleanOK(t) ==
  req[t].op # "stale" /\ req[t].pc \in BeforeWrite => \A e \in Entry : dirty[t][e] = None

ReqInv == \A t \in Tx : PathOK(req[t]) /\ NamesOK(req[t])

\* The row lock behind what a request writes.
HoldOK(t) ==
  /\ req[t].op \in {"revise", "archive", "assign"} /\ req[t].pc # "lock"
       => rowLock[req[t].target] = t
  /\ req[t].op = "stale" /\ req[t].pc \in {"check", "write"}
       => rowLock[req[t].target] = t
  /\ req[t].op = "restore" /\ req[t].pc \notin BeforeLeaf \cup {"lockleaf"}
       => rowLock[req[t].leaf] = t

\* An uncommitted version is a new row of this transaction alone, or a locked
\* row, closed now or before.
DirtyOK(t) ==
  \A e \in Entry : dirty[t][e] # None =>
    \/ /\ db[e] = None /\ e = req[t].fresh
       /\ \A u \in Tx \ {t} : dirty[u][e] = None
    \/ /\ db[e] # None /\ rowLock[e] = t
       /\ \/ dirty[t][e] = db[e] /\ db[e].archived
          \/ IsOpen(db[e]) /\ dirty[t][e] = Close(db[e], dirty[t][e].validTo)

NoSuccessor(x) == \A c \in Entry : db[c] # None => db[c].supersedes # x

\* What the checks have established still holds when the request writes.
WriteOK(t) ==
  req[t].pc = "write" =>
    /\ req[t].op # "restore" => IsOpen(db[req[t].target]) /\ dirty[t][req[t].target] = None
    /\ req[t].op = "revise" => NoSuccessor(req[t].target)
    /\ req[t].op = "restore" => NoSuccessor(req[t].leaf)

\* A new row succeeds a locked, closed entry that has no committed successor.
SuccOK(t) ==
  \A s \in Entry : dirty[t][s] # None /\ db[s] = None /\ dirty[t][s].supersedes # None =>
    LET x == dirty[t][s].supersedes IN
    /\ db[x] # None /\ rowLock[x] = t /\ NoSuccessor(x)
    /\ View(t, x).archived /\ View(t, x).validTo <= dirty[t][s].validFrom

WellFormed(r) ==
  (r.archived <=> r.validTo # Open) /\ IntervalHolds(r) /\ r.validTo <= now

RowsOK(t) == \A e \in Entry : dirty[t][e] # None => WellFormed(dirty[t][e])

TxOK(t) == HoldOK(t) /\ DirtyOK(t) /\ WriteOK(t) /\ SuccOK(t) /\ RowsOK(t)

CommittedOK == \A e \in Entry : db[e] # None => WellFormed(db[e])

\* A transaction that holds a feed has numbered its events on from the
\* committed sequence; others have no events in it.
FeedOK(t) ==
  /\ \A p \in Project : feedLock[p] = t => feed[p] <= dseq[t][p]
  /\ \A p \in Project, n \in Nat :
       (\E ev \in devents[t] : ev.project = p /\ ev.seq = n)
         <=> feedLock[p] = t /\ feed[p] < n /\ n <= dseq[t][p]
  /\ \A x, y \in devents[t] : x.project = y.project /\ x.seq = y.seq => x = y

CleanInv == \A t \in Tx : CleanOK(t)

TypeInv == TypeOK /\ ReqInv /\ CleanInv

StoreInv == TypeInv /\ CommittedOK /\ LinearHistory /\ \A t \in Tx : TxOK(t)

LogOK ==
  /\ \A p \in Project, n \in Nat :
       (\E ev \in events : ev.project = p /\ ev.seq = n) <=> 0 < n /\ n <= feed[p]
  /\ \A x, y \in events : x.project = y.project /\ x.seq = y.seq => x = y

FeedInv == TypeInv /\ LogOK /\ \A t \in Tx : FeedOK(t)

-----------------------------------------------------------------------------
(* Types.                                                                   *)

USE NoneAssumption, ConstantsAssumption

LEMMA NewRowType ==
  ASSUME NEW p \in Project \cup {None}, NEW from \in Nat, NEW e \in Entry \cup {None}
  PROVE  NewRow(p, from, e) \in Row /\ NewRow(p, from, e) # None
<1>1. NewRow(p, from, e) \in Row
  BY DEF NewRow, Row, Open
<1> QED BY <1>1

LEMMA CloseType ==
  ASSUME NEW r \in Row, NEW at \in Nat
  PROVE  Close(r, at) \in Row /\ Close(r, at) # None
<1>1. Close(r, at) \in Row
  BY DEF Close, Row
<1> QED BY <1>1

LEMMA ViewType ==
  ASSUME TypeOK, NEW t \in Tx, NEW e \in Entry
  PROVE  /\ View(t, e) \in Row \cup {None}
         /\ db[e] # None => View(t, e) \in Row /\ View(t, e) # None
BY DEF TypeOK, View

LEMMA NamesPersist ==
  ASSUME NEW r \in Request, NamesOK(r), \A e \in Entry : db[e] # None => db'[e] # None
  PROVE  NamesOK(r)'
BY DEF NamesOK, Committed

\* A step that moves one request and loses no committed row.
LEMMA RequestStep ==
  ASSUME TypeInv, NEW t \in Tx, NEW r \in Request, PathOK(r), NamesOK(r),
         req' = [req EXCEPT ![t] = r],
         \A e \in Entry : db[e] # None => db'[e] # None
  PROVE  ReqInv' /\ req' \in [Tx -> Request]
<1>1. req' \in [Tx -> Request]
  BY DEF TypeInv, TypeOK
<1>2. ASSUME NEW u \in Tx PROVE (PathOK(req[u]) /\ NamesOK(req[u]))'
  <2>1. PICK q \in Request : q = req'[u] /\ PathOK(q) /\ NamesOK(q)
    BY DEF TypeInv, TypeOK, ReqInv
  <2>2. NamesOK(q)'
    BY <2>1, NamesPersist
  <2>3. PathOK(req'[u])
    BY <2>1
  <2> QED BY <2>1, <2>2, <2>3 DEF PathOK, NamesOK, Committed
<1> QED BY <1>1, <1>2 DEF ReqInv

LEMMA InitTypeInv == Init => TypeInv
<1> SUFFICES ASSUME Init PROVE TypeInv
  OBVIOUS
<1>1. db \in [Entry -> Row \cup {None}]
  <2>1. \A e \in Migrated \cup Legacy : NewRow(Home[e], 0, None) \in Row
    BY NewRowType
  <2>2. \A e \in Legacy :
          [Close(NewRow(Home[e], 0, None), Cutover) EXCEPT !.history = FALSE] \in Row
    <3> TAKE e \in Legacy
    <3>1. Close(NewRow(Home[e], 0, None), Cutover) \in Row
      BY <2>1, CloseType DEF Cutover
    <3> QED BY <3>1 DEF Row
  <2> QED BY <2>1, <2>2 DEF Init, MigratedTable
<1>2. Idle \in Request
  BY DEF Idle, Request, PCs
<1>3. TypeOK
  BY <1>1, <1>2 DEF Init, TypeOK, Cutover
<1>4. PathOK(Idle) /\ NamesOK(Idle)
  BY DEF PathOK, NamesOK, Idle, OpNames, BeforeWrite
<1>5. ReqInv
  BY <1>4 DEF Init, ReqInv
<1>6. CleanInv
  BY DEF Init, CleanInv, CleanOK
<1> QED BY <1>3, <1>5, <1>6 DEF TypeInv

LEMMA StartOfControl ==
  ASSUME TypeInv, NEW t \in Tx
  PROVE  /\ req \in [Tx -> Request] /\ req[t] \in Request
         /\ PathOK(req[t]) /\ NamesOK(req[t]) /\ CleanOK(t)
BY DEF TypeInv, TypeOK, ReqInv, CleanInv

\* A step that only moves one request.
LEMMA ControlType ==
  ASSUME TypeInv, NEW t \in Tx, NEW r \in Request, PathOK(r), NamesOK(r),
         r.op # "stale" /\ r.pc \in BeforeWrite
           => req[t].op # "stale" /\ req[t].pc \in BeforeWrite,
         req' = [req EXCEPT ![t] = r],
         UNCHANGED <<tables, now, uncommitted, locks>>
  PROVE  TypeInv'
<1>1. ReqInv' /\ req' \in [Tx -> Request]
  BY RequestStep DEF tables
<1>2. TypeOK'
  BY <1>1 DEF TypeInv, TypeOK, tables, uncommitted, locks
<1>3. CleanInv'
  BY DEF TypeInv, TypeOK, CleanInv, CleanOK, uncommitted
<1> QED BY <1>1, <1>2, <1>3 DEF TypeInv

\* A request that arrives names existing entries and holds nothing yet.
LEMMA ArriveRequest ==
  ASSUME NEW t \in Tx, Arrive(t)
  PROVE  \E r \in Request : /\ Begin(t, r) /\ PathOK(r) /\ NamesOK(r)
                            /\ r.pc \in {"insert", "lock", "next"} /\ r.pending = {}
<1> USE DEF Idle, Request, PCs, OpNames, PathOK, NamesOK, BeforeWrite, BeforeLeaf, Committed
<1>1. CASE BeginCreate(t)
  <2>1. PICK p \in Project \cup {None} :
          Begin(t, [Idle EXCEPT !.pc = "insert", !.op = "create", !.project = p])
    BY <1>1 DEF BeginCreate
  <2> DEFINE r == [Idle EXCEPT !.pc = "insert", !.op = "create", !.project = p]
  <2>2. /\ r \in Request /\ PathOK(r) /\ NamesOK(r)
        /\ r.pc \in {"insert", "lock", "next"} /\ r.pending = {}
    BY <2>1
  <2> QED BY <2>1, <2>2
<1>2. CASE BeginRevise(t)
  <2>1. PICK e \in Entry :
          /\ db[e] # None
          /\ Begin(t, [Idle EXCEPT !.pc = "lock", !.op = "revise", !.target = e])
    BY <1>2 DEF BeginRevise
  <2> DEFINE r == [Idle EXCEPT !.pc = "lock", !.op = "revise", !.target = e]
  <2>2. /\ r \in Request /\ PathOK(r) /\ NamesOK(r)
        /\ r.pc \in {"insert", "lock", "next"} /\ r.pending = {}
    BY <2>1
  <2> QED BY <2>1, <2>2
<1>3. CASE BeginArchive(t)
  <2>1. PICK e \in Entry :
          /\ db[e] # None
          /\ Begin(t, [Idle EXCEPT !.pc = "lock", !.op = "archive", !.target = e])
    BY <1>3 DEF BeginArchive
  <2> DEFINE r == [Idle EXCEPT !.pc = "lock", !.op = "archive", !.target = e]
  <2>2. /\ r \in Request /\ PathOK(r) /\ NamesOK(r)
        /\ r.pc \in {"insert", "lock", "next"} /\ r.pending = {}
    BY <2>1
  <2> QED BY <2>1, <2>2
<1>4. CASE BeginRestore(t)
  <2>1. PICK e, s \in Entry :
          /\ db[e] # None /\ db[s] # None
          /\ Begin(t, [Idle EXCEPT !.pc = "lock", !.op = "restore", !.target = e, !.source = s])
    BY <1>4 DEF BeginRestore
  <2> DEFINE r == [Idle EXCEPT !.pc = "lock", !.op = "restore", !.target = e, !.source = s]
  <2>2. /\ r \in Request /\ PathOK(r) /\ NamesOK(r)
        /\ r.pc \in {"insert", "lock", "next"} /\ r.pending = {}
    BY <2>1
  <2> QED BY <2>1, <2>2
<1>5. CASE BeginAssign(t)
  <2>1. PICK e \in Entry, p \in Project :
          /\ db[e] # None
          /\ Begin(t, [Idle EXCEPT !.pc = "lock", !.op = "assign", !.target = e, !.project = p])
    BY <1>5 DEF BeginAssign
  <2> DEFINE r == [Idle EXCEPT !.pc = "lock", !.op = "assign", !.target = e, !.project = p]
  <2>2. /\ r \in Request /\ PathOK(r) /\ NamesOK(r)
        /\ r.pc \in {"insert", "lock", "next"} /\ r.pending = {}
    BY <2>1
  <2> QED BY <2>1, <2>2
<1>6. CASE BeginStale(t)
  <2>1. PICK S \in SUBSET Entry :
          /\ \A e \in S : db[e] # None
          /\ Begin(t, [Idle EXCEPT !.pc = "next", !.op = "stale", !.todo = S])
    BY <1>6 DEF BeginStale
  <2> DEFINE r == [Idle EXCEPT !.pc = "next", !.op = "stale", !.todo = S]
  <2>2. /\ r \in Request /\ PathOK(r) /\ NamesOK(r)
        /\ r.pc \in {"insert", "lock", "next"} /\ r.pending = {}
    BY <2>1
  <2> QED BY <2>1, <2>2
<1> QED BY <1>1, <1>2, <1>3, <1>4, <1>5, <1>6 DEF Arrive

LEMMA ArriveType ==
  ASSUME TypeInv, NEW t \in Tx, Arrive(t)
  PROVE  TypeInv'
<1>1. PICK r \in Request : Begin(t, r) /\ PathOK(r) /\ NamesOK(r)
  BY ArriveRequest
<1>2. req[t].pc = "idle" /\ req[t].op = None
  BY <1>1, StartOfControl DEF Begin, At, PathOK
<1>3. req[t].op # "stale" /\ req[t].pc \in BeforeWrite
  BY <1>2 DEF OpNames, BeforeWrite
<1> QED BY <1>1, <1>3, ControlType DEF Begin

\* The steps that go on to another statement and touch no table and no lock.
Control(t) ==
  \/ AutoLinkDone(t) \/ CheckTarget(t) \/ CheckChain(t) \/ CheckLeaf(t)
  \/ WalkToLeaf(t) \/ ReadLinks(t) \/ EmitNothing(t) \/ NextStale(t)

LEMMA ControlStepType ==
  ASSUME TypeInv, NEW t \in Tx, Control(t)
  PROVE  TypeInv'
<1> DEFINE To(r) == /\ r \in Request /\ PathOK(r) /\ NamesOK(r)
                    /\ req' = [req EXCEPT ![t] = r]
                    /\ r.op # "stale" /\ r.pc \in BeforeWrite
                         => req[t].op # "stale" /\ req[t].pc \in BeforeWrite
                    /\ UNCHANGED <<tables, now, uncommitted, locks>>
<1>0. /\ req \in [Tx -> Request] /\ req[t] \in Request
      /\ PathOK(req[t]) /\ NamesOK(req[t]) /\ CleanOK(t)
  BY StartOfControl
<1> USE DEF Request, PCs, OpNames, PathOK, NamesOK, BeforeWrite, BeforeLeaf, Committed,
            Goto, At
<1>1. CASE AutoLinkDone(t)
  <2>1. To([req[t] EXCEPT !.pc = "emit"])
    BY <1>0, <1>1 DEF AutoLinkDone
  <2> QED BY <2>1, ControlType
<1>2. CASE CheckTarget(t)
  <2>1. To([req[t] EXCEPT !.pc = "write"])
    BY <1>0, <1>2 DEF CheckTarget
  <2> QED BY <2>1, ControlType
<1>3. CASE CheckChain(t)
  <2>1. To([req[t] EXCEPT !.pc = "walk"])
    BY <1>0, <1>3 DEF CheckChain
  <2> QED BY <2>1, ControlType
<1>4. CASE CheckLeaf(t)
  <2>1. To([req[t] EXCEPT !.pc = "write"])
    BY <1>0, <1>4 DEF CheckLeaf
  <2> QED BY <2>1, ControlType
<1>6. CASE ReadLinks(t)
  <2> DEFINE todo == Inherited(req[t].leaf, req[t].fresh, links)
  <2>1. todo \in SUBSET (Entry \X Entry)
    BY <1>0, <1>6 DEF ReadLinks, Inherited, TypeInv, TypeOK
  <2> DEFINE r == [req[t] EXCEPT !.pending = todo, !.pc = AfterLinks(todo)]
  <2>2. r \in Request /\ r.pc \in {"emit", "inherit"} /\ req[t].pc = "readlinks"
    <3>1. req[t].pc = "readlinks"
      BY <1>6 DEF ReadLinks
    <3>2. AfterLinks(todo) \in {"emit", "inherit"}
      BY DEF AfterLinks
    <3> HIDE DEF todo
    <3> QED BY <1>0, <2>1, <3>1, <3>2
  <2>3. \A f \in {"op", "target", "source", "leaf", "fresh", "todo"} : r[f] = req[t][f]
    BY <1>0
  <2>4. PathOK(r) /\ NamesOK(r)
    BY <1>0, <2>2, <2>3
  <2>5. req' = [req EXCEPT ![t] = r]
    BY SMT, ZenonT(60), <1>0, <1>6 DEF ReadLinks
  <2>6. To(r)
    BY <1>6, <2>2, <2>4, <2>5 DEF ReadLinks
  <2> QED BY <2>6, ControlType
<1>7. CASE EmitNothing(t)
  <2>1. To([req[t] EXCEPT !.pc = AfterEmit(t)])
    BY <1>0, <1>7 DEF EmitNothing, AfterEmit
  <2> QED BY <2>1, ControlType
<1>8. CASE NextStale(t)
  <2>1. CASE req[t].todo = {} /\ Goto(t, "commit")
    <3>1. To([req[t] EXCEPT !.pc = "commit"])
      BY <1>0, <1>8, <2>1 DEF NextStale
    <3> QED BY <3>1, ControlType
  <2>2. CASE \E e \in req[t].todo :
          req' = [req EXCEPT ![t].pc = "lock", ![t].target = e, ![t].todo = @ \ {e}]
    <3>1. PICK e \in req[t].todo :
            req' = [req EXCEPT ![t].pc = "lock", ![t].target = e, ![t].todo = @ \ {e}]
      BY <2>2
    <3> DEFINE r == [req[t] EXCEPT !.pc = "lock", !.target = e, !.todo = @ \ {e}]
    <3>2. req[t].pc = "next" /\ req[t].op = "stale"
      BY <1>0, <1>8 DEF NextStale
    <3>3. r \in Request /\ db[e] # None /\ r.todo \subseteq req[t].todo
      BY <1>0, <3>1, <3>2
    <3>4. PathOK(r) /\ NamesOK(r)
      BY <1>0, <3>2, <3>3
    <3>5. req' = [req EXCEPT ![t] = r]
      BY <1>0, <3>1
    <3>6. To(r)
      BY <1>8, <3>2, <3>3, <3>4, <3>5 DEF NextStale
    <3> QED BY SMT, ZenonT(60), <3>6, ControlType
  <2> QED BY <1>8, <2>1, <2>2 DEF NextStale
<1>9. CASE WalkToLeaf(t)
  <2>1. PICK l \in ChainOf(t, req[t].target) :
          req' = [req EXCEPT ![t].pc = "lockleaf", ![t].leaf = l]
    BY <1>9 DEF WalkToLeaf
  <2>2. db[l] # None
    BY <1>0, <1>9, <2>1 DEF CleanOK, WalkToLeaf, ChainOf, View
  <2> DEFINE r == [req[t] EXCEPT !.pc = "lockleaf", !.leaf = l]
  <2>3. l \in Entry /\ req[t].pc = "walk" /\ req[t].op = "restore"
    BY <1>0, <1>9, <2>1 DEF WalkToLeaf, ChainOf
  <2>4. r \in Request
    BY <1>0, <2>3
  <2>5. PathOK(r) /\ NamesOK(r)
    BY <1>0, <2>2, <2>3, <2>4
  <2>6. req' = [req EXCEPT ![t] = r]
    BY <1>0, <2>1
  <2>7. To(r)
    BY <1>9, <2>3, <2>4, <2>5, <2>6 DEF WalkToLeaf
  <2> QED BY <2>7, ControlType
<1> QED BY <1>1, <1>2, <1>3, <1>4, <1>6, <1>7, <1>8, <1>9 DEF Control

\* A step that writes rows.
LEMMA WriteType ==
  ASSUME TypeInv, NEW t \in Tx, NEW r \in Request, PathOK(r), NamesOK(r),
         r.pc \notin BeforeWrite,
         req' = [req EXCEPT ![t] = r],
         NEW d \in [Entry -> Row \cup {None}], dirty' = [dirty EXCEPT ![t] = d],
         UNCHANGED <<tables, now, dlinks, devents, dseq, locks>>
  PROVE  TypeInv'
<1>1. ReqInv' /\ req' \in [Tx -> Request]
  BY RequestStep DEF tables
<1>2. TypeOK'
  BY <1>1 DEF TypeInv, TypeOK, tables, locks
<1>3. CleanInv'
  BY DEF TypeInv, TypeOK, CleanInv, CleanOK
<1> QED BY <1>1, <1>2, <1>3 DEF TypeInv

LEMMA CreateInsertType ==
  ASSUME TypeInv, NEW t \in Tx, NEW n \in Entry, CreateInsert(t, n)
  PROVE  TypeInv'
<1>0. /\ req \in [Tx -> Request] /\ req[t] \in Request
      /\ PathOK(req[t]) /\ NamesOK(req[t]) /\ CleanOK(t)
  BY StartOfControl
<1>1. PICK from \in Given \cup {now} :
        dirty' = [dirty EXCEPT ![t][n] = NewRow(req[t].project, from, None)]
  BY DEF CreateInsert
<1> DEFINE r == [req[t] EXCEPT !.pc = "autolink", !.fresh = n]
           d == [dirty[t] EXCEPT ![n] = NewRow(req[t].project, from, None)]
<1>2. req[t].pc = "insert" /\ req[t].op = "create"
  BY <1>0 DEF CreateInsert, At, PathOK, Request, OpNames
<1>3. r \in Request /\ PathOK(r) /\ NamesOK(r) /\ r.pc \notin BeforeWrite
  BY <1>0, <1>2 DEF Request, PCs, OpNames, PathOK, NamesOK, BeforeWrite, Committed
<1>4. NewRow(req[t].project, from, None) \in Row
  BY <1>0, <1>1, NewRowType DEF TypeInv, TypeOK, Request
<1>5. d \in [Entry -> Row \cup {None}] /\ dirty' = [dirty EXCEPT ![t] = d]
  BY <1>1, <1>4 DEF TypeInv, TypeOK
<1>6. /\ req' = [req EXCEPT ![t] = r]
      /\ UNCHANGED <<tables, now, dlinks, devents, dseq, locks>>
  BY <1>0 DEF CreateInsert
<1> HIDE DEF r, d
<1> QED BY <1>3, <1>5, <1>6, WriteType

LEMMA ReviseWriteType ==
  ASSUME TypeInv, NEW t \in Tx, NEW n \in Entry, ReviseWrite(t, n)
  PROVE  TypeInv'
<1>0. /\ req \in [Tx -> Request] /\ req[t] \in Request
      /\ PathOK(req[t]) /\ NamesOK(req[t]) /\ CleanOK(t)
  BY StartOfControl
<1> DEFINE e == req[t].target
           closed == Close(View(t, e), now)
           new == NewRow(closed.project, now, e)
           r == [req[t] EXCEPT !.pc = "readlinks", !.fresh = n, !.leaf = e]
           d == [dirty[t] EXCEPT ![e] = closed, ![n] = new]
<1>1. /\ req[t].pc = "write" /\ req[t].op = "revise"
      /\ dirty' = [dirty EXCEPT ![t][e] = closed, ![t][n] = new]
      /\ req' = [req EXCEPT ![t].pc = "readlinks", ![t].fresh = n, ![t].leaf = e]
      /\ UNCHANGED <<tables, now, dlinks, devents, dseq, locks>>
  BY DEF ReviseWrite, At
<1>2. e \in Entry /\ db[e] # None
  BY <1>0, <1>1 DEF NamesOK, Committed
<1>3. closed \in Row /\ new \in Row
  <2>1. View(t, e) \in Row
    BY <1>2, ViewType DEF TypeInv
  <2>2. closed \in Row
    BY <2>1, CloseType DEF TypeInv, TypeOK
  <2> QED BY <1>2, <2>2, NewRowType DEF TypeInv, TypeOK, Row
<1>4. r \in Request /\ PathOK(r) /\ NamesOK(r) /\ r.pc \notin BeforeWrite
  BY <1>0, <1>1, <1>2 DEF Request, PCs, OpNames, PathOK, NamesOK, BeforeWrite, Committed
<1>5. req' = [req EXCEPT ![t] = r]
  BY <1>0, <1>1
<1> HIDE DEF closed, new, e
<1>6. d \in [Entry -> Row \cup {None}] /\ dirty' = [dirty EXCEPT ![t] = d]
  BY <1>1, <1>2, <1>3 DEF TypeInv, TypeOK
<1> HIDE DEF r, d
<1> QED BY <1>1, <1>4, <1>5, <1>6, WriteType

LEMMA ArchiveWriteType ==
  ASSUME TypeInv, NEW t \in Tx, ArchiveWrite(t)
  PROVE  TypeInv'
<1>0. /\ req \in [Tx -> Request] /\ req[t] \in Request
      /\ PathOK(req[t]) /\ NamesOK(req[t]) /\ CleanOK(t)
  BY StartOfControl
<1> DEFINE e == req[t].target
           closed == Close(View(t, e), now)
           r == [req[t] EXCEPT !.pc = "emit"]
           d == [dirty[t] EXCEPT ![e] = closed]
<1>1. /\ req[t].pc = "write" /\ req[t].op \in {"archive", "stale"}
      /\ dirty' = [dirty EXCEPT ![t][e] = closed]
      /\ req' = [req EXCEPT ![t].pc = "emit"]
      /\ UNCHANGED <<tables, now, dlinks, devents, dseq, locks>>
  BY DEF ArchiveWrite, At, Goto
<1>2. e \in Entry /\ db[e] # None
  BY <1>0, <1>1 DEF NamesOK, Committed
<1>3. closed \in Row
  <2>1. View(t, e) \in Row
    BY <1>2, ViewType DEF TypeInv
  <2> QED BY <2>1, CloseType DEF TypeInv, TypeOK
<1>4. r \in Request /\ PathOK(r) /\ NamesOK(r) /\ r.pc \notin BeforeWrite
  BY <1>0, <1>1, <1>2 DEF Request, PCs, OpNames, PathOK, NamesOK, BeforeWrite, Committed
<1>5. req' = [req EXCEPT ![t] = r]
  BY <1>0, <1>1
<1> HIDE DEF closed, e
<1>6. d \in [Entry -> Row \cup {None}] /\ dirty' = [dirty EXCEPT ![t] = d]
  BY <1>1, <1>2, <1>3 DEF TypeInv, TypeOK
<1> HIDE DEF r, d
<1> QED BY <1>1, <1>4, <1>5, <1>6, WriteType

LEMMA AssignWriteType ==
  ASSUME TypeInv, NEW t \in Tx, NEW n \in Entry, AssignWrite(t, n)
  PROVE  TypeInv'
<1>0. /\ req \in [Tx -> Request] /\ req[t] \in Request
      /\ PathOK(req[t]) /\ NamesOK(req[t]) /\ CleanOK(t)
  BY StartOfControl
<1> DEFINE e == req[t].target
           closed == Close(View(t, e), now)
           new == NewRow(req[t].project, now, None)
           r == [req[t] EXCEPT !.pc = "autolink", !.fresh = n]
           d == [dirty[t] EXCEPT ![e] = closed, ![n] = new]
<1>1. /\ req[t].pc = "write" /\ req[t].op = "assign"
      /\ dirty' = [dirty EXCEPT ![t][e] = closed, ![t][n] = new]
      /\ req' = [req EXCEPT ![t].pc = "autolink", ![t].fresh = n]
      /\ UNCHANGED <<tables, now, dlinks, devents, dseq, locks>>
  BY DEF AssignWrite, At
<1>2. e \in Entry /\ db[e] # None
  BY <1>0, <1>1 DEF NamesOK, Committed
<1>3. closed \in Row /\ new \in Row
  <2>1. View(t, e) \in Row
    BY <1>2, ViewType DEF TypeInv
  <2>2. closed \in Row
    BY <2>1, CloseType DEF TypeInv, TypeOK
  <2> QED BY <1>0, <2>2, NewRowType DEF TypeInv, TypeOK, Request
<1>4. r \in Request /\ PathOK(r) /\ NamesOK(r) /\ r.pc \notin BeforeWrite
  BY <1>0, <1>1, <1>2 DEF Request, PCs, OpNames, PathOK, NamesOK, BeforeWrite, Committed
<1>5. req' = [req EXCEPT ![t] = r]
  BY <1>0, <1>1
<1> HIDE DEF closed, new, e
<1>6. d \in [Entry -> Row \cup {None}] /\ dirty' = [dirty EXCEPT ![t] = d]
  BY <1>1, <1>2, <1>3 DEF TypeInv, TypeOK
<1> HIDE DEF r, d
<1> QED BY <1>1, <1>4, <1>5, <1>6, WriteType

LEMMA RestoreWriteType ==
  ASSUME TypeInv, NEW t \in Tx, NEW n \in Entry, RestoreWrite(t, n)
  PROVE  TypeInv'
<1>0. /\ req \in [Tx -> Request] /\ req[t] \in Request
      /\ PathOK(req[t]) /\ NamesOK(req[t]) /\ CleanOK(t)
  BY StartOfControl
<1> DEFINE l == req[t].leaf
           old == View(t, l)
           closed == IF IsOpen(old) THEN Close(old, now) ELSE old
           new == NewRow(View(t, req[t].source).project, now, l)
           r == [req[t] EXCEPT !.pc = "readlinks", !.fresh = n]
           d == [dirty[t] EXCEPT ![l] = closed, ![n] = new]
<1>1. /\ req[t].pc = "write" /\ req[t].op = "restore"
      /\ dirty' = [dirty EXCEPT ![t][l] = closed, ![t][n] = new]
      /\ req' = [req EXCEPT ![t].pc = "readlinks", ![t].fresh = n]
      /\ UNCHANGED <<tables, now, dlinks, devents, dseq, locks>>
  BY DEF RestoreWrite, At
<1>2. l \in Entry /\ db[l] # None /\ req[t].source \in Entry /\ db[req[t].source] # None
  BY <1>0, <1>1 DEF NamesOK, Committed, BeforeLeaf
<1>3. closed \in Row /\ new \in Row
  <2>1. old \in Row /\ View(t, req[t].source) \in Row
    BY <1>2, ViewType DEF TypeInv
  <2>2. closed \in Row
    BY <2>1, CloseType DEF TypeInv, TypeOK
  <2>3. View(t, req[t].source).project \in Project \cup {None}
    BY <2>1 DEF Row
  <2> QED BY <1>2, <2>2, <2>3, NewRowType DEF TypeInv, TypeOK
<1>4. r \in Request /\ PathOK(r) /\ NamesOK(r) /\ r.pc \notin BeforeWrite
  BY <1>0, <1>1, <1>2
  DEF Request, PCs, OpNames, PathOK, NamesOK, BeforeWrite, BeforeLeaf, Committed
<1>5. req' = [req EXCEPT ![t] = r]
  BY <1>0, <1>1
<1> HIDE DEF closed, new, l
<1>6. d \in [Entry -> Row \cup {None}] /\ dirty' = [dirty EXCEPT ![t] = d]
  BY <1>1, <1>2, <1>3 DEF TypeInv, TypeOK
<1> HIDE DEF r, d
<1> QED BY <1>1, <1>4, <1>5, <1>6, WriteType

LEMMA AutoLinkType ==
  ASSUME TypeInv, NEW t \in Tx, NEW c \in Entry, AutoLink(t, c)
  PROVE  TypeInv'
<1>0. /\ req \in [Tx -> Request] /\ req[t] \in Request
      /\ PathOK(req[t]) /\ NamesOK(req[t]) /\ CleanOK(t)
  BY StartOfControl
<1>1. /\ UNCHANGED <<tables, now, req, dirty, devents, dseq, rowLock, feedLock>>
      /\ keyShare' = [keyShare EXCEPT ![t] = @ \cup {c}]
      /\ dlinks' = [dlinks EXCEPT ![t] = @ \cup {<<req[t].fresh, c>>}]
      /\ req[t].pc = "autolink"
  BY DEF AutoLink, At
<1>2. req[t].fresh \in Entry
  BY <1>0, <1>1 DEF Request, OpNames, PathOK, NamesOK, BeforeWrite
<1>3. TypeOK'
  BY <1>1, <1>2 DEF TypeInv, TypeOK, tables
<1>4. ReqInv' /\ CleanInv'
  BY <1>1 DEF TypeInv, ReqInv, PathOK, NamesOK, Committed, CleanInv, CleanOK, tables
<1> QED BY <1>3, <1>4 DEF TypeInv

\* A step that moves one request and takes a row lock.
LEMMA LockType ==
  ASSUME TypeInv, NEW t \in Tx, NEW r \in Request, PathOK(r), NamesOK(r),
         r.op # "stale" /\ r.pc \in BeforeWrite
           => req[t].op # "stale" /\ req[t].pc \in BeforeWrite,
         req' = [req EXCEPT ![t] = r],
         NEW e, rowLock' = [rowLock EXCEPT ![e] = t],
         UNCHANGED <<tables, now, uncommitted, keyShare, feedLock>>
  PROVE  TypeInv'
<1>1. ReqInv' /\ req' \in [Tx -> Request]
  BY RequestStep DEF tables
<1>2. TypeOK'
  BY <1>1 DEF TypeInv, TypeOK, tables, uncommitted
<1>3. CleanInv'
  BY DEF TypeInv, TypeOK, CleanInv, CleanOK, uncommitted
<1> QED BY <1>1, <1>2, <1>3 DEF TypeInv

LEMMA LockTargetType ==
  ASSUME TypeInv, NEW t \in Tx, LockTarget(t)
  PROVE  TypeInv'
<1>0. /\ req \in [Tx -> Request] /\ req[t] \in Request
      /\ PathOK(req[t]) /\ NamesOK(req[t]) /\ CleanOK(t)
  BY StartOfControl
<1> DEFINE next == IF req[t].op = "restore" THEN "chain" ELSE "check"
           r == [req[t] EXCEPT !.pc = next]
<1>1. req[t].pc = "lock" /\ req' = [req EXCEPT ![t] = r]
  BY <1>0 DEF LockTarget, At, Goto
<1>2. next \in {"chain", "check"} /\ (next = "chain" <=> req[t].op = "restore")
  OBVIOUS
<1> HIDE DEF next
<1>3. r \in Request /\ PathOK(r) /\ NamesOK(r) /\ r.pc \in BeforeWrite /\ r.op = req[t].op
  BY <1>0, <1>1, <1>2
  DEF Request, PCs, OpNames, PathOK, NamesOK, BeforeWrite, BeforeLeaf, Committed
<1>4. req[t].pc \in BeforeWrite
  BY <1>1 DEF BeforeWrite
<1>5. /\ rowLock' = [rowLock EXCEPT ![req[t].target] = t]
      /\ UNCHANGED <<tables, now, uncommitted, keyShare, feedLock>>
  BY DEF LockTarget
<1> HIDE DEF r
<1> QED BY <1>1, <1>3, <1>4, <1>5, LockType

LEMMA LockLeafType ==
  ASSUME TypeInv, NEW t \in Tx, LockLeaf(t)
  PROVE  TypeInv'
<1>0. /\ req \in [Tx -> Request] /\ req[t] \in Request
      /\ PathOK(req[t]) /\ NamesOK(req[t]) /\ CleanOK(t)
  BY StartOfControl
<1> DEFINE r == [req[t] EXCEPT !.pc = "check"]
<1>1. req[t].pc = "lockleaf" /\ req' = [req EXCEPT ![t] = r]
  BY <1>0 DEF LockLeaf, At, Goto
<1>2. r \in Request /\ PathOK(r) /\ NamesOK(r) /\ r.op = req[t].op
  BY <1>0, <1>1
  DEF Request, PCs, OpNames, PathOK, NamesOK, BeforeWrite, BeforeLeaf, Committed
<1>3. req[t].pc \in BeforeWrite
  BY <1>1 DEF BeforeWrite
<1>4. /\ rowLock' = [rowLock EXCEPT ![req[t].leaf] = t]
      /\ UNCHANGED <<tables, now, uncommitted, keyShare, feedLock>>
  BY DEF LockLeaf
<1> HIDE DEF r
<1> QED BY <1>1, <1>2, <1>3, <1>4, LockType

LEMMA InheritLinkType ==
  ASSUME TypeInv, NEW t \in Tx, NEW l \in Entry \X Entry, InheritLink(t, l)
  PROVE  TypeInv'
<1>0. /\ req \in [Tx -> Request] /\ req[t] \in Request
      /\ PathOK(req[t]) /\ NamesOK(req[t]) /\ CleanOK(t)
  BY StartOfControl
<1> DEFINE opposite == IF l[1] = req[t].fresh THEN l[2] ELSE l[1]
           rest == req[t].pending \ {l}
           r == [req[t] EXCEPT !.pending = rest, !.pc = AfterLinks(rest)]
<1>1. /\ req[t].pc = "inherit"
      /\ keyShare' = [keyShare EXCEPT ![t] = @ \cup {opposite}]
      /\ dlinks' = [dlinks EXCEPT ![t] = @ \cup {l}]
      /\ req' = [req EXCEPT ![t].pending = rest, ![t].pc = AfterLinks(rest)]
      /\ UNCHANGED <<tables, now, dirty, devents, dseq, rowLock, feedLock>>
  BY DEF InheritLink, At
<1>2. opposite \in Entry
  OBVIOUS
<1>3. AfterLinks(rest) \in {"emit", "inherit"} /\ rest \in SUBSET (Entry \X Entry)
  BY <1>0 DEF AfterLinks, Request
<1> HIDE DEF opposite, rest
<1>4. r \in Request /\ r.pc \in {"emit", "inherit"}
  BY SMT, ZenonT(60), <1>0, <1>3 DEF Request, PCs
<1>5. \A f \in {"op", "target", "source", "leaf", "fresh", "todo"} : r[f] = req[t][f]
  BY <1>0 DEF Request
<1>6. req' = [req EXCEPT ![t] = r]
  BY <1>0, <1>1
<1>7. PathOK(r) /\ NamesOK(r)
  BY <1>0, <1>1, <1>4, <1>5
  DEF Request, OpNames, PathOK, NamesOK, BeforeWrite, BeforeLeaf, Committed
<1> HIDE DEF r
<1>8. ReqInv' /\ req' \in [Tx -> Request]
  BY <1>1, <1>4, <1>6, <1>7, RequestStep DEF tables
<1>9. TypeOK'
  BY <1>1, <1>2, <1>8 DEF TypeInv, TypeOK, tables
<1>10. CleanInv'
  BY <1>1, <1>4, <1>6 DEF TypeInv, TypeOK, CleanInv, CleanOK, BeforeWrite
<1> QED BY <1>8, <1>9, <1>10 DEF TypeInv

\* The event of a request is about an entry it has named or created.
LEMMA EmitEntryType ==
  ASSUME TypeInv, NEW t \in Tx, req[t].pc = "emit"
  PROVE  /\ EmitEntry(t) \in Entry /\ EmitKind(t) \in Kinds
         /\ EmitPrevious(t) \in Entry \cup {None} /\ AfterEmit(t) \in {"next", "commit"}
         /\ AfterEmit(t) = "next" <=> req[t].op = "stale"
<1>0. req[t] \in Request /\ PathOK(req[t]) /\ NamesOK(req[t])
  BY StartOfControl
<1>1. EmitEntry(t) \in Entry
  BY <1>0
  DEF EmitEntry, Request, OpNames, PathOK, NamesOK, BeforeWrite, Committed
<1>2. EmitKind(t) \in Kinds
  BY DEF EmitKind, Kinds
<1>3. EmitPrevious(t) \in Entry \cup {None}
  BY <1>0 DEF EmitPrevious, Request
<1> QED BY <1>1, <1>2, <1>3 DEF AfterEmit

LEMMA EmitType ==
  ASSUME TypeInv, NEW t \in Tx, NEW p \in Project, Emit(t, p)
  PROVE  TypeInv'
<1>0. /\ req \in [Tx -> Request] /\ req[t] \in Request
      /\ PathOK(req[t]) /\ NamesOK(req[t]) /\ CleanOK(t)
  BY StartOfControl
<1> DEFINE s == SequenceOf(t, p) + 1
           ev == [project |-> p, seq |-> s, kind |-> EmitKind(t),
                  entry |-> EmitEntry(t), previous |-> EmitPrevious(t)]
           r == [req[t] EXCEPT !.pc = AfterEmit(t)]
<1>1. /\ req[t].pc = "emit"
      /\ feedLock' = [feedLock EXCEPT ![p] = t]
      /\ dseq' = [dseq EXCEPT ![t][p] = s]
      /\ devents' = [devents EXCEPT ![t] = @ \cup {ev}]
      /\ req' = [req EXCEPT ![t] = r]
      /\ UNCHANGED <<tables, now, dirty, dlinks, rowLock, keyShare>>
  BY <1>0 DEF Emit, At, Goto
<1>2. s \in Nat
  BY DEF SequenceOf, TypeInv, TypeOK
<1>3. ev \in Event
  BY <1>1, <1>2, EmitEntryType DEF Event
<1>4. r \in Request /\ PathOK(r) /\ NamesOK(r)
      /\ (r.op # "stale" => r.pc \notin BeforeWrite)
  BY <1>0, <1>1, EmitEntryType
  DEF Request, PCs, OpNames, PathOK, NamesOK, BeforeWrite, BeforeLeaf, Committed
<1> HIDE DEF r, ev, s
<1>5. ReqInv' /\ req' \in [Tx -> Request]
  BY <1>1, <1>4, RequestStep DEF tables
<1>6. TypeOK'
  BY <1>1, <1>2, <1>3, <1>5 DEF TypeInv, TypeOK, tables
<1>7. CleanInv'
  BY <1>1, <1>4 DEF TypeInv, TypeOK, CleanInv, CleanOK
<1> QED BY <1>5, <1>6, <1>7 DEF TypeInv

\* The end of a transaction, whatever becomes of the tables.
LEMMA EndTxType ==
  ASSUME TypeInv, NEW t \in Tx, EndTx(t), UNCHANGED now,
         db' \in [Entry -> Row \cup {None}], links' \subseteq Entry \X Entry,
         feed' \in [Project -> Nat], events' \subseteq Event,
         \A e \in Entry : db[e] # None => db'[e] # None
  PROVE  TypeInv'
<1>1. Idle \in Request /\ PathOK(Idle) /\ NamesOK(Idle)
  BY DEF Idle, Request, PCs, PathOK, NamesOK, OpNames, BeforeWrite
<1>2. ReqInv' /\ req' \in [Tx -> Request]
  BY <1>1, RequestStep DEF EndTx
<1>3. TypeOK'
  BY <1>2 DEF TypeInv, TypeOK, EndTx
<1>4. CleanInv'
  BY DEF TypeInv, TypeOK, CleanInv, CleanOK, EndTx
<1> QED BY <1>2, <1>3, <1>4 DEF TypeInv

LEMMA RollbackType ==
  ASSUME TypeInv, NEW t \in Tx, Rollback(t)
  PROVE  TypeInv'
BY EndTxType DEF Rollback, tables, TypeInv, TypeOK

LEMMA CommitType ==
  ASSUME TypeInv, NEW t \in Tx, Commit(t)
  PROVE  TypeInv'
<1>1. db' \in [Entry -> Row \cup {None}] /\ \A e \in Entry : db[e] # None => db'[e] # None
  BY ViewType DEF Commit, TypeInv
<1>2. links' \subseteq Entry \X Entry /\ feed' \in [Project -> Nat] /\ events' \subseteq Event
  BY DEF Commit, SequenceOf, TypeInv, TypeOK
<1> QED BY <1>1, <1>2, EndTxType DEF Commit

\* Steps outside a request.
Outside ==
  \/ \E a, b \in Entry : CreateLink(a, b)
  \/ \E l \in links : DeleteLink(l)
  \/ Tick
  \/ UNCHANGED vars

LEMMA OutsideType ==
  ASSUME TypeInv, Outside
  PROVE  TypeInv'
<1>1. UNCHANGED <<db, feed, events, req, uncommitted, locks>>
  BY DEF Outside, CreateLink, DeleteLink, Tick, vars, tables
<1>2. links' \subseteq Entry \X Entry /\ now' \in Nat
  BY DEF Outside, CreateLink, DeleteLink, Tick, vars, tables, TypeInv, TypeOK
<1>3. TypeOK'
  BY <1>1, <1>2 DEF TypeInv, TypeOK, uncommitted, locks
<1>4. ReqInv' /\ CleanInv'
  BY <1>1
  DEF TypeInv, ReqInv, PathOK, NamesOK, Committed, CleanInv, CleanOK, uncommitted
<1> QED BY <1>3, <1>4 DEF TypeInv

\* The steps of a specification, sorted the way the proofs treat them.
LEMMA NextCases ==
  ASSUME [Next]_vars
  PROVE  \/ Outside
         \/ \E t \in Tx :
              \/ Arrive(t) \/ Control(t) \/ LockTarget(t) \/ LockLeaf(t)
              \/ ArchiveWrite(t) \/ Commit(t) \/ Rollback(t)
              \/ \E n \in Entry : \/ CreateInsert(t, n) \/ ReviseWrite(t, n)
                                  \/ AssignWrite(t, n) \/ RestoreWrite(t, n)
                                  \/ AutoLink(t, n)
              \/ \E l \in Entry \X Entry : InheritLink(t, l)
              \/ \E p \in Project : Emit(t, p)
BY DEF Next, Run, Outside, Control, Refuse, Abort, DeadlockVictim

LEMMA NextTypeInv == TypeInv /\ [Next]_vars => TypeInv'
BY NextCases, OutsideType, ArriveType, ControlStepType, LockTargetType, LockLeafType,
   ArchiveWriteType, CommitType, RollbackType, CreateInsertType, ReviseWriteType,
   AssignWriteType, RestoreWriteType, AutoLinkType, InheritLinkType, EmitType

\* The requests, transactions and tables of the store keep their types; in
\* particular no handler writes through an entry it has not found.
THEOREM TypeInvariance == Spec => []TypeInv
BY InitTypeInv, NextTypeInv, PTL DEF Spec

\* Types of all variables of the store, in every reachable state.
THEOREM TypeCorrect == Spec => []TypeOK
<1>1. TypeInv => TypeOK
  BY DEF TypeInv
<1> QED BY <1>1, TypeInvariance, PTL

-----------------------------------------------------------------------------
(* The change feed.                                                         *)

LEMMA InitFeedInv == Init => FeedInv
<1> SUFFICES ASSUME Init PROVE FeedInv
  OBVIOUS
<1>1. LogOK
  BY DEF Init, LogOK
<1>2. \A t \in Tx : FeedOK(t)
  BY DEF Init, FeedOK
<1> QED BY <1>1, <1>2, InitTypeInv DEF FeedInv

\* Most steps leave the feed and the uncommitted events alone.
LEMMA FeedFrame ==
  ASSUME FeedInv, TypeInv', UNCHANGED <<feed, events, devents, dseq, feedLock>>
  PROVE  FeedInv'
<1>1. LogOK'
  BY DEF FeedInv, LogOK
<1>2. \A t \in Tx : FeedOK(t)'
  BY DEF FeedInv, FeedOK
<1> QED BY <1>1, <1>2 DEF FeedInv

LEMMA EmitFeed ==
  ASSUME FeedInv, TypeInv', NEW t \in Tx, NEW p \in Project, Emit(t, p)
  PROVE  FeedInv'
<1> DEFINE s == SequenceOf(t, p) + 1
           ev == [project |-> p, seq |-> s, kind |-> EmitKind(t),
                  entry |-> EmitEntry(t), previous |-> EmitPrevious(t)]
<1>1. /\ feedLock[p] \in {None, t}
      /\ feedLock' = [feedLock EXCEPT ![p] = t]
      /\ dseq' = [dseq EXCEPT ![t][p] = s]
      /\ devents' = [devents EXCEPT ![t] = @ \cup {ev}]
      /\ UNCHANGED <<feed, events>>
  BY DEF Emit, FeedLockFree, tables
<1>2. ev.project = p /\ ev.seq = s
  OBVIOUS
<1>3. s \in Nat /\ feed[p] \in Nat /\ dseq[t][p] \in Nat
  BY DEF SequenceOf, FeedInv, TypeInv, TypeOK
<1>4. s = (IF feedLock[p] = t THEN dseq[t][p] ELSE feed[p]) + 1
  BY DEF SequenceOf
<1> HIDE DEF s, ev
<1>5. LogOK'
  BY <1>1 DEF FeedInv, LogOK
<1>6. FeedOK(t)'
  <2>0. /\ devents'[t] = devents[t] \cup {ev} /\ dseq'[t] = [dseq[t] EXCEPT ![p] = s]
        /\ dseq'[t][p] = s /\ feedLock'[p] = t
        /\ \A q \in Project \ {p} : dseq'[t][q] = dseq[t][q] /\ feedLock'[q] = feedLock[q]
    BY <1>1 DEF FeedInv, TypeInv, TypeOK
  <2>1. \A q \in Project : feedLock'[q] = t => feed'[q] <= dseq'[t][q]
    BY <1>1, <1>3, <1>4, <2>0 DEF FeedInv, FeedOK
  <2>2. ASSUME NEW q \in Project, NEW n \in Nat
        PROVE  (\E x \in devents'[t] : x.project = q /\ x.seq = n)
                 <=> feedLock'[q] = t /\ feed'[q] < n /\ n <= dseq'[t][q]
    <3>1. CASE q # p
      BY <1>1, <1>2, <2>0, <3>1 DEF FeedInv, FeedOK
    <3>2. CASE q = p
      <4>1. (\E x \in devents[t] : x.project = p /\ x.seq = n)
              <=> feedLock[p] = t /\ feed[p] < n /\ n <= dseq[t][p]
        BY DEF FeedInv, FeedOK
      <4>2. (\E x \in devents'[t] : x.project = p /\ x.seq = n)
              <=> n = s \/ (feedLock[p] = t /\ feed[p] < n /\ n <= dseq[t][p])
        BY <1>2, <2>0, <4>1
      <4>3. feedLock[p] = t => feed[p] <= dseq[t][p]
        BY DEF FeedInv, FeedOK
      <4> QED BY <1>1, <1>3, <1>4, <2>0, <3>2, <4>2, <4>3
    <3> QED BY <3>1, <3>2
  <2>3. \A x \in devents[t] : ~(x.project = p /\ x.seq = s)
    BY <1>3, <1>4 DEF FeedInv, FeedOK
  <2>4. \A x, y \in devents'[t] : x.project = y.project /\ x.seq = y.seq => x = y
    BY <1>2, <2>0, <2>3 DEF FeedInv, FeedOK
  <2> QED BY <2>1, <2>2, <2>4 DEF FeedOK
<1>7. ASSUME NEW u \in Tx, u # t PROVE FeedOK(u)'
  <2>1. /\ devents'[u] = devents[u] /\ dseq'[u] = dseq[u] /\ u # None
        /\ \A q \in Project : feedLock'[q] = u <=> feedLock[q] = u
    BY <1>1, <1>7 DEF FeedInv, TypeInv, TypeOK
  <2> QED BY <1>1, <2>1 DEF FeedInv, FeedOK
<1> QED BY <1>5, <1>6, <1>7 DEF FeedInv

\* What the end of t leaves of the feed locks and the uncommitted events.
LEMMA EndTxFeed ==
  ASSUME FeedInv, NEW t \in Tx, EndTx(t)
  PROVE  /\ devents'[t] = {} /\ \A q \in Project : feedLock'[q] # t
         /\ \A u \in Tx \ {t} :
              /\ devents'[u] = devents[u] /\ dseq'[u] = dseq[u]
              /\ \A q \in Project : feedLock'[q] = u <=> feedLock[q] = u
BY DEF EndTx, FeedInv, TypeInv, TypeOK

LEMMA RollbackFeed ==
  ASSUME FeedInv, TypeInv', NEW t \in Tx, Rollback(t)
  PROVE  FeedInv'
<1>0. EndTx(t) /\ UNCHANGED <<feed, events>>
  BY DEF Rollback, tables
<1>1. LogOK'
  BY <1>0 DEF FeedInv, LogOK
<1>2. FeedOK(t)'
  BY <1>0, EndTxFeed DEF FeedOK
<1>3. ASSUME NEW u \in Tx, u # t PROVE FeedOK(u)'
  BY <1>0, <1>3, EndTxFeed DEF FeedInv, FeedOK
<1> QED BY <1>1, <1>2, <1>3 DEF FeedInv

LEMMA CommitFeed ==
  ASSUME FeedInv, TypeInv', NEW t \in Tx, Commit(t)
  PROVE  FeedInv'
<1>0. /\ EndTx(t) /\ events' = events \cup devents[t]
      /\ \A p \in Project : feed'[p] = IF feedLock[p] = t THEN dseq[t][p] ELSE feed[p]
  BY DEF Commit, SequenceOf
<1>1. \A p \in Project : feed[p] \in Nat /\ dseq[t][p] \in Nat
  BY DEF FeedInv, TypeInv, TypeOK
<1>2. \A x \in events : x.project \in Project /\ x.seq \in Nat
  BY DEF FeedInv, TypeInv, TypeOK, Event
<1>3. \A x \in devents[t] : x.project \in Project /\ x.seq \in Nat
  BY DEF FeedInv, TypeInv, TypeOK, Event
<1>4. LogOK'
  <2>1. ASSUME NEW p \in Project, NEW n \in Nat
        PROVE  (\E ev \in events' : ev.project = p /\ ev.seq = n) <=> 0 < n /\ n <= feed'[p]
    <3>1. (\E ev \in events : ev.project = p /\ ev.seq = n) <=> 0 < n /\ n <= feed[p]
      BY DEF FeedInv, LogOK
    <3>2. (\E ev \in devents[t] : ev.project = p /\ ev.seq = n)
            <=> feedLock[p] = t /\ feed[p] < n /\ n <= dseq[t][p]
      BY DEF FeedInv, FeedOK
    <3>3. feedLock[p] = t => feed[p] <= dseq[t][p]
      BY DEF FeedInv, FeedOK
    <3>4. (\E ev \in events' : ev.project = p /\ ev.seq = n)
            <=> (0 < n /\ n <= feed[p]) \/ (feedLock[p] = t /\ feed[p] < n /\ n <= dseq[t][p])
      BY <1>0, <3>1, <3>2
    <3> QED BY <1>0, <1>1, <3>3, <3>4
  <2>2. ASSUME NEW x \in events, NEW y \in devents[t]
        PROVE  ~(x.project = y.project /\ x.seq = y.seq)
    BY <1>1, <1>2, <1>3 DEF FeedInv, LogOK, FeedOK
  <2>3. \A x, y \in events' : x.project = y.project /\ x.seq = y.seq => x = y
    BY <1>0, <2>2 DEF FeedInv, LogOK, FeedOK
  <2> QED BY <2>1, <2>3 DEF LogOK
<1>5. FeedOK(t)'
  BY <1>0, EndTxFeed DEF FeedOK
<1>6. ASSUME NEW u \in Tx, u # t PROVE FeedOK(u)'
  BY <1>0, <1>6, EndTxFeed DEF FeedInv, FeedOK
<1> QED BY <1>4, <1>5, <1>6 DEF FeedInv

LEMMA NextFeedInv == FeedInv /\ [Next]_vars => FeedInv'
<1> SUFFICES ASSUME FeedInv, [Next]_vars PROVE FeedInv'
  OBVIOUS
<1>1. TypeInv'
  BY NextTypeInv DEF FeedInv
<1> DEFINE Kept == UNCHANGED <<feed, events, devents, dseq, feedLock>>
<1>2. Outside => Kept
  BY DEF Outside, CreateLink, DeleteLink, Tick, uncommitted, locks, vars, tables
<1>3. ASSUME NEW t \in Tx, Arrive(t) PROVE Kept
  BY <1>3 DEF Arrive, BeginCreate, BeginRevise, BeginArchive, BeginRestore, BeginAssign,
              BeginStale, Begin, uncommitted, locks, tables
<1>4. ASSUME NEW t \in Tx, Control(t) PROVE Kept
  BY <1>4 DEF Control, AutoLinkDone, CheckTarget, CheckChain, CheckLeaf, WalkToLeaf,
              ReadLinks, EmitNothing, NextStale, uncommitted, locks, tables
<1>5. ASSUME NEW t \in Tx, LockTarget(t) \/ LockLeaf(t) \/ ArchiveWrite(t) PROVE Kept
  BY <1>5 DEF LockTarget, LockLeaf, ArchiveWrite, uncommitted, locks, tables
<1>6. ASSUME NEW t \in Tx, NEW n \in Entry,
             CreateInsert(t, n) \/ ReviseWrite(t, n) \/ AssignWrite(t, n)
             \/ RestoreWrite(t, n) \/ AutoLink(t, n)
      PROVE  Kept
  BY <1>6 DEF CreateInsert, ReviseWrite, AssignWrite, RestoreWrite, AutoLink, locks, tables
<1>7. ASSUME NEW t \in Tx, NEW l \in Entry \X Entry, InheritLink(t, l) PROVE Kept
  BY <1>7 DEF InheritLink, tables
<1>8. Kept => FeedInv'
  BY <1>1, FeedFrame
<1> HIDE DEF Kept
<1> QED BY <1>1, <1>2, <1>3, <1>4, <1>5, <1>6, <1>7, <1>8, NextCases,
           EmitFeed, RollbackFeed, CommitFeed

LEMMA FeedInvariance == Spec => []FeedInv
BY InitFeedInv, NextFeedInv, PTL DEF Spec

\* emit: the committed events of a project are numbered 1 .. state.sequence
\* without gap or repetition, however many transactions emit and roll back.
THEOREM FeedHasNoGaps == Spec => []FeedGapFree
<1>1. FeedInv => FeedGapFree
  <2> SUFFICES ASSUME FeedInv, NEW p \in Project
               PROVE  /\ {ev.seq : ev \in {x \in events : x.project = p}} = 1..feed[p]
                      /\ \A x, y \in events :
                           x.project = p /\ y.project = p /\ x.seq = y.seq => x = y
    BY DEF FeedGapFree
  <2>1. feed[p] \in Nat /\ \A ev \in events : ev.seq \in Nat
    BY DEF FeedInv, TypeInv, TypeOK, Event
  <2>2. \A n \in Nat : n \in {ev.seq : ev \in {x \in events : x.project = p}} <=> n \in 1..feed[p]
    BY <2>1 DEF FeedInv, LogOK
  <2>3. {ev.seq : ev \in {x \in events : x.project = p}} = 1..feed[p]
    BY <2>1, <2>2
  <2>4. \A x, y \in events : x.project = p /\ y.project = p /\ x.seq = y.seq => x = y
    BY DEF FeedInv, LogOK
  <2> QED BY <2>3, <2>4
<1> QED BY <1>1, FeedInvariance, PTL

-----------------------------------------------------------------------------
(* Rows, locks and chains.                                                  *)

LEMMA CloseFields ==
  ASSUME NEW r \in Row, NEW at \in Nat
  PROVE  /\ Close(r, at).archived /\ Close(r, at).validTo = at
         /\ Close(r, at).validFrom = r.validFrom /\ Close(r, at).supersedes = r.supersedes
         /\ Close(r, at).project = r.project /\ Close(r, at).history = r.history
         /\ Close(r, Close(r, at).validTo) = Close(r, at)
BY DEF Close, Row

LEMMA NewRowFields ==
  ASSUME NEW p, NEW from \in Nat, NEW x, now \in Nat
  PROVE  /\ NewRow(p, from, x).supersedes = x /\ NewRow(p, from, x).validFrom = from
         /\ WellFormed(NewRow(p, from, x))
BY DEF NewRow, WellFormed, IntervalHolds, Open

\* A version that replaces a committed row is closed and succeeds the same row.
LEMMA DirtyFields ==
  ASSUME StoreInv, NEW t \in Tx, NEW e \in Entry, dirty[t][e] # None, db[e] # None
  PROVE  /\ dirty[t][e].archived /\ dirty[t][e].supersedes = db[e].supersedes
         /\ rowLock[e] = t
         /\ dirty[t][e] = db[e] \/ IsOpen(db[e])
<1>1. \/ dirty[t][e] = db[e] /\ db[e].archived
      \/ IsOpen(db[e]) /\ dirty[t][e] = Close(db[e], dirty[t][e].validTo)
  BY DEF StoreInv, TxOK, DirtyOK
<1>2. rowLock[e] = t
  BY DEF StoreInv, TxOK, DirtyOK
<1>3. db[e] \in Row /\ dirty[t][e] \in Row
  BY DEF StoreInv, TypeInv, TypeOK
<1>4. Close(db[e], dirty[t][e].validTo).archived
      /\ Close(db[e], dirty[t][e].validTo).supersedes = db[e].supersedes
  BY <1>3 DEF Close, Row
<1> QED BY <1>1, <1>2, <1>4

LEMMA InitStoreInv == Init => StoreInv
<1> SUFFICES ASSUME Init PROVE StoreInv
  OBVIOUS
<1>1. TypeInv
  BY InitTypeInv
<1>2. ASSUME NEW e \in Entry, db[e] # None
      PROVE  WellFormed(db[e]) /\ db[e].supersedes = None
  <2>0. now = 1 /\ db[e] = MigratedTable[e]
    BY DEF Init, Cutover
  <2> DEFINE first == NewRow(Home[e], 0, None)
             last == [Close(first, Cutover) EXCEPT !.history = FALSE]
  <2>1. CASE e \in Migrated
    BY <2>0, <2>1, NewRowFields DEF MigratedTable
  <2>2. CASE e \notin Migrated /\ e \in Legacy
    <3>1. first \in Row /\ first.validFrom = 0 /\ first.supersedes = None
      BY <2>2, NewRowType DEF NewRow
    <3>2. last.archived /\ last.validTo = 1 /\ last.validFrom = 0 /\ last.supersedes = None
      BY <3>1 DEF Close, Row, Cutover
    <3>3. db[e] = last
      BY <2>0, <2>2 DEF MigratedTable
    <3> HIDE DEF first, last
    <3> QED BY <2>0, <3>2, <3>3 DEF WellFormed, IntervalHolds, Open
  <2> QED BY <1>2, <2>0, <2>1, <2>2 DEF MigratedTable
<1>3. CommittedOK
  BY <1>2 DEF CommittedOK
<1>4. LinearHistory
  BY <1>2 DEF LinearHistory, Exists
<1>5. ASSUME NEW t \in Tx PROVE TxOK(t)
  BY DEF Init, TxOK, HoldOK, DirtyOK, WriteOK, SuccOK, RowsOK, Idle, OpNames
<1> QED BY <1>1, <1>3, <1>4, <1>5 DEF StoreInv

\* A step of t disturbs no other transaction: it takes no lock away and
\* writes no row that another has inserted.
LEMMA Others ==
  ASSUME StoreInv, NEW t \in Tx, NEW u \in Tx \ {t}, UNCHANGED <<db, now>>,
         \A v \in Tx \ {t} : req'[v] = req[v] /\ dirty'[v] = dirty[v],
         \A e \in Entry : rowLock[e] = u => rowLock'[e] = u,
         \A e \in Entry : dirty'[t][e] # None => \/ dirty[t][e] # None \/ db[e] # None
                                                 \/ dirty[u][e] = None
  PROVE  TxOK(u)'
<1>0. /\ req'[u] = req[u] /\ dirty'[u] = dirty[u]
      /\ HoldOK(u) /\ DirtyOK(u) /\ WriteOK(u) /\ SuccOK(u) /\ RowsOK(u)
      /\ PathOK(req[u]) /\ NamesOK(req[u])
  BY DEF StoreInv, TypeInv, ReqInv, TxOK
<1>1. HoldOK(u)'
  BY <1>0 DEF HoldOK, NamesOK, Committed, BeforeLeaf
<1>2. DirtyOK(u)'
  <2> SUFFICES ASSUME NEW e \in Entry, dirty[u][e] # None
               PROVE  \/ /\ db[e] = None /\ e = req[u].fresh
                         /\ \A v \in Tx \ {u} : dirty'[v][e] = None
                      \/ /\ db[e] # None /\ rowLock'[e] = u
                         /\ \/ dirty[u][e] = db[e] /\ db[e].archived
                            \/ IsOpen(db[e]) /\ dirty[u][e] = Close(db[e], dirty[u][e].validTo)
    BY <1>0 DEF DirtyOK
  <2>1. CASE db[e] = None
    <3>1. e = req[u].fresh /\ \A v \in Tx \ {u} : dirty[v][e] = None
      BY <1>0, <2>1 DEF DirtyOK
    <3>2. \A v \in Tx \ {u} : dirty'[v][e] = None
      BY <2>1, <3>1
    <3> QED BY <2>1, <3>1, <3>2
  <2>2. CASE db[e] # None
    BY <1>0, <2>2 DEF DirtyOK
  <2> QED BY <2>1, <2>2
<1>3. WriteOK(u)'
  BY <1>0 DEF WriteOK, NoSuccessor
<1>4. SuccOK(u)'
  <2> SUFFICES ASSUME NEW s \in Entry,
                      dirty[u][s] # None, db[s] = None, dirty[u][s].supersedes # None
               PROVE  LET x == dirty[u][s].supersedes IN
                      /\ db[x] # None /\ rowLock'[x] = u /\ NoSuccessor(x)
                      /\ View(u, x).archived /\ View(u, x).validTo <= dirty[u][s].validFrom
    BY <1>0 DEF SuccOK, NoSuccessor, View
  <2>1. dirty[u][s].supersedes \in Entry
    BY DEF StoreInv, TypeInv, TypeOK, Row
  <2> QED BY <1>0, <2>1 DEF SuccOK
<1>5. RowsOK(u)'
  BY <1>0 DEF RowsOK, WellFormed, IntervalHolds
<1> QED BY <1>1, <1>2, <1>3, <1>4, <1>5 DEF TxOK

\* What is committed stays well-formed while nothing is committed.
LEMMA CommittedKept ==
  ASSUME StoreInv, TypeInv', UNCHANGED db, now <= now'
  PROVE  CommittedOK' /\ LinearHistory'
<1>1. LinearHistory'
  BY DEF StoreInv, LinearHistory, Exists
<1>2. ASSUME NEW e \in Entry, db[e] # None PROVE WellFormed(db[e])'
  <2>1. db[e].validTo <= now /\ (db[e].archived <=> db[e].validTo # Open) /\ IntervalHolds(db[e])
    BY <1>2 DEF StoreInv, CommittedOK, WellFormed
  <2>2. db[e].validTo \in Int /\ now \in Int /\ now' \in Int
    BY <1>2 DEF StoreInv, TypeInv, TypeOK, Row, Open
  <2> QED BY <2>1, <2>2 DEF WellFormed, IntervalHolds
<1> QED BY <1>1, <1>2 DEF CommittedOK

\* A step that neither writes a row nor takes a row lock.
LEMMA ControlStore ==
  ASSUME StoreInv, TypeInv', NEW t \in Tx, UNCHANGED <<db, now, dirty, rowLock>>,
         \A u \in Tx \ {t} : req'[u] = req[u],
         req'[t].fresh = req[t].fresh \/ \A e \in Entry : dirty[t][e] = None,
         HoldOK(t)', WriteOK(t)'
  PROVE  StoreInv'
<1>1. CommittedOK' /\ LinearHistory'
  BY CommittedKept DEF StoreInv, TypeInv, TypeOK
<1>2. ASSUME NEW u \in Tx \ {t} PROVE TxOK(u)'
  BY Others
<1>3. TxOK(t)'
  <2>0. DirtyOK(t) /\ SuccOK(t) /\ RowsOK(t)
    BY DEF StoreInv, TxOK
  <2>1. DirtyOK(t)'
    BY <2>0 DEF DirtyOK
  <2>2. SuccOK(t)'
    BY <2>0 DEF SuccOK, NoSuccessor, View
  <2>3. RowsOK(t)'
    BY <2>0 DEF RowsOK, WellFormed, IntervalHolds
  <2> QED BY <2>1, <2>2, <2>3 DEF TxOK
<1> QED BY <1>1, <1>2, <1>3 DEF StoreInv

LEMMA ArriveStore ==
  ASSUME StoreInv, TypeInv', NEW t \in Tx, Arrive(t)
  PROVE  StoreInv'
<1>1. PICK r \in Request : Begin(t, r) /\ PathOK(r) /\ r.pc \in {"insert", "lock", "next"}
  BY ArriveRequest
<1>2. /\ req[t].pc = "idle" /\ req' = [req EXCEPT ![t] = r]
      /\ UNCHANGED <<db, now, dirty, rowLock>>
  BY <1>1 DEF Begin, At, tables, uncommitted, locks
<1>3. req'[t] = r /\ \A u \in Tx \ {t} : req'[u] = req[u]
  BY <1>2 DEF StoreInv, TypeInv, TypeOK
<1>4. \A e \in Entry : dirty[t][e] = None
  BY <1>2, StartOfControl DEF StoreInv, CleanOK, PathOK, BeforeWrite
<1>5. HoldOK(t)' /\ WriteOK(t)'
  BY <1>1, <1>3 DEF HoldOK, WriteOK, BeforeLeaf, PathOK
<1> QED BY <1>2, <1>3, <1>4, <1>5, ControlStore

\* The check before a row is closed: the row is open and this transaction has
\* not written it before.
LEMMA CheckedTarget ==
  ASSUME StoreInv, NEW t \in Tx, CheckTarget(t)
  PROVE  /\ IsOpen(db[req[t].target]) /\ dirty[t][req[t].target] = None
         /\ req[t].op = "revise" => NoSuccessor(req[t].target)
<1>0. /\ PathOK(req[t]) /\ NamesOK(req[t]) /\ CleanOK(t) /\ req[t] \in Request
      /\ req[t].pc = "check" /\ req[t].op # "restore" /\ MayClose(t)
  BY StartOfControl DEF StoreInv, CheckTarget, At
<1>1. req[t].target \in Entry /\ db[req[t].target] # None
  BY <1>0 DEF PathOK, NamesOK, Committed, Request, OpNames
<1>2. dirty[t][req[t].target] = None
  <2> SUFFICES ASSUME dirty[t][req[t].target] # None PROVE FALSE
    OBVIOUS
  <2>1. View(t, req[t].target).archived
    BY <1>1, DirtyFields DEF View
  <2> QED BY <1>0, <2>1 DEF MayClose, IsOpen
<1>3. IsOpen(db[req[t].target])
  BY <1>0, <1>2 DEF MayClose, View
<1>4. ASSUME req[t].op = "revise" PROVE NoSuccessor(req[t].target)
  <2>1. \A e \in Entry : View(t, e) = db[e]
    BY <1>0, <1>4 DEF CleanOK, BeforeWrite, View
  <2>2. ~HasSuccessor(t, req[t].target)
    BY <1>0, <1>4 DEF MayClose
  <2> QED BY <2>1, <2>2 DEF HasSuccessor, IsSuccessor, NoSuccessor
<1> QED BY <1>2, <1>3, <1>4

LEMMA ControlStepStore ==
  ASSUME StoreInv, TypeInv', NEW t \in Tx, Control(t)
  PROVE  StoreInv'
<1>0. /\ PathOK(req[t]) /\ NamesOK(req[t]) /\ CleanOK(t) /\ req[t] \in Request
      /\ req \in [Tx -> Request] /\ HoldOK(t)
  BY StartOfControl DEF StoreInv, TxOK
<1>1. UNCHANGED <<db, now, dirty, rowLock>>
  BY DEF Control, AutoLinkDone, CheckTarget, CheckChain, CheckLeaf, WalkToLeaf,
         ReadLinks, EmitNothing, NextStale, tables, uncommitted, locks
<1> DEFINE Frame(pcs) ==
      /\ \A u \in Tx \ {t} : req'[u] = req[u]
      /\ req'[t].fresh = req[t].fresh /\ req'[t].op = req[t].op /\ req'[t].pc \in pcs
      /\ req'[t].pc = "lock" \/ req'[t].target = req[t].target
      /\ req'[t].pc = "lockleaf" \/ req'[t].leaf = req[t].leaf
<1>11. CheckTarget(t) \/ CheckLeaf(t) => Frame({"write"})
  BY <1>0 DEF CheckTarget, CheckLeaf, Goto, Request
<1>12. AutoLinkDone(t) => Frame({"emit"}) /\ req[t].pc = "autolink"
  BY <1>0 DEF AutoLinkDone, At, Goto, Request
<1>13. CheckChain(t) => Frame({"walk"}) /\ req[t].pc = "chain"
  BY <1>0 DEF CheckChain, At, Goto, Request
<1>14. WalkToLeaf(t) => Frame({"lockleaf"}) /\ req[t].pc = "walk"
  BY <1>0 DEF WalkToLeaf, At, Request
<1>15. ReadLinks(t) => Frame({"emit", "inherit"}) /\ req[t].pc = "readlinks"
  BY <1>0 DEF ReadLinks, AfterLinks, At, Request
<1>16. EmitNothing(t) => Frame({"next", "commit"}) /\ req[t].pc = "emit"
  BY <1>0 DEF EmitNothing, AfterEmit, At, Goto, Request
<1>17. NextStale(t) => Frame({"lock", "commit"}) /\ req[t].pc = "next"
  <2>1. ASSUME NextStale(t), NEW e \in req[t].todo,
               req' = [req EXCEPT ![t].pc = "lock", ![t].target = e, ![t].todo = @ \ {e}]
        PROVE  Frame({"lock"})
    BY <1>0, <2>1 DEF Request
  <2>2. Goto(t, "commit") => Frame({"commit"})
    BY <1>0 DEF Goto, Request
  <2>3. ASSUME NextStale(t)
        PROVE  /\ req[t].pc = "next"
               /\ \/ Goto(t, "commit")
                  \/ \E e \in req[t].todo :
                       req' = [req EXCEPT ![t].pc = "lock", ![t].target = e, ![t].todo = @ \ {e}]
    BY <2>3 DEF NextStale, At
  <2> QED BY <2>1, <2>2, <2>3
<1>2. /\ \A u \in Tx \ {t} : req'[u] = req[u]
      /\ req'[t].fresh = req[t].fresh /\ req'[t].op = req[t].op
      /\ req'[t].pc = "lock" \/ req'[t].target = req[t].target
      /\ req'[t].pc = "lockleaf" \/ req'[t].leaf = req[t].leaf
  BY <1>11, <1>12, <1>13, <1>14, <1>15, <1>16, <1>17 DEF Control
<1>3. CASE CheckTarget(t)
  <2>1. req[t].pc = "check" /\ req[t].op # "restore" /\ req'[t].pc = "write"
    BY <1>0, <1>3 DEF CheckTarget, At, Goto
  <2>2. HoldOK(t)'
    BY <1>0, <1>1, <1>2, <2>1 DEF HoldOK
  <2>3. WriteOK(t)'
    BY <1>1, <1>2, <1>3, <2>1, CheckedTarget DEF WriteOK, NoSuccessor
  <2> QED BY <1>1, <1>2, <2>2, <2>3, ControlStore
<1>4. CASE CheckLeaf(t)
  <2>1. req[t].pc = "check" /\ req[t].op = "restore" /\ req'[t].pc = "write"
        /\ ~HasSuccessor(t, req[t].leaf)
    BY <1>0, <1>4 DEF CheckLeaf, LeafUsable, At, Goto
  <2>2. HoldOK(t)'
    BY <1>0, <1>1, <1>2, <2>1 DEF HoldOK, BeforeLeaf
  <2>3. \A e \in Entry : View(t, e) = db[e]
    BY <1>0, <2>1 DEF CleanOK, BeforeWrite, View
  <2>4. NoSuccessor(req[t].leaf)
    BY <2>1, <2>3 DEF HasSuccessor, IsSuccessor, NoSuccessor
  <2>5. WriteOK(t)'
    BY <1>1, <1>2, <2>1, <2>4 DEF WriteOK, NoSuccessor
  <2> QED BY <1>1, <1>2, <2>2, <2>5, ControlStore
<1>5. CASE \/ AutoLinkDone(t) \/ CheckChain(t) \/ WalkToLeaf(t) \/ ReadLinks(t)
           \/ EmitNothing(t) \/ NextStale(t)
  <2>0. \/ req[t].pc = "chain" /\ req'[t].pc = "walk"
        \/ req[t].pc = "walk" /\ req'[t].pc = "lockleaf"
        \/ req[t].pc = "next" /\ req'[t].pc \in {"lock", "commit"}
        \/ /\ req[t].pc \in {"autolink", "readlinks", "emit"}
           /\ req'[t].pc \in {"emit", "inherit", "next", "commit"}
    BY <1>5, <1>12, <1>13, <1>14, <1>15, <1>16, <1>17
  <2>1. req'[t].pc # "write" /\ req'[t].pc # "check"
    BY <2>0
  <2>2. HoldOK(t)'
    BY <1>0, <1>1, <1>2, <2>0 DEF HoldOK, BeforeLeaf, PathOK
  <2>3. WriteOK(t)'
    BY <2>1 DEF WriteOK
  <2> QED BY <1>1, <1>2, <2>2, <2>3, ControlStore
<1> QED BY <1>3, <1>4, <1>5 DEF Control

\* Links and events: rows and row locks stay.
LEMMA LinksAndEventsStore ==
  ASSUME StoreInv, TypeInv', NEW t \in Tx,
         \/ \E c \in Entry : AutoLink(t, c)
         \/ \E l \in Entry \X Entry : InheritLink(t, l)
         \/ \E p \in Project : Emit(t, p)
  PROVE  StoreInv'
<1>0. /\ PathOK(req[t]) /\ req[t] \in Request /\ req \in [Tx -> Request] /\ HoldOK(t)
  BY StartOfControl DEF StoreInv, TxOK
<1>1. UNCHANGED <<db, now, dirty, rowLock>>
  BY DEF AutoLink, InheritLink, Emit, tables
<1>2. /\ \A u \in Tx \ {t} : req'[u] = req[u]
      /\ req'[t].op = req[t].op /\ req'[t].target = req[t].target
      /\ req'[t].leaf = req[t].leaf /\ req'[t].fresh = req[t].fresh
      /\ req[t].pc \in {"autolink", "inherit", "emit"}
      /\ req'[t].pc \in {"autolink", "inherit", "emit", "next", "commit"}
  <2>1. CASE \E c \in Entry : AutoLink(t, c)
    BY <2>1 DEF AutoLink, At
  <2>2. CASE \E l \in Entry \X Entry : InheritLink(t, l)
    <3>1. PICK l \in Entry \X Entry :
            req' = [req EXCEPT ![t].pending = req[t].pending \ {l},
                               ![t].pc = AfterLinks(req[t].pending \ {l})]
      BY <2>2 DEF InheritLink
    <3>3. AfterLinks(req[t].pending \ {l}) \in {"emit", "inherit"}
      BY DEF AfterLinks
    <3>2. req[t].pc = "inherit"
      BY <2>2 DEF InheritLink, At
    <3> QED BY <1>0, <3>1, <3>2, <3>3 DEF Request
  <2>3. CASE \E p \in Project : Emit(t, p)
    BY <1>0, <2>3 DEF Emit, AfterEmit, At, Goto, Request
  <2> QED BY <2>1, <2>2, <2>3
<1>3. HoldOK(t)' /\ WriteOK(t)'
  BY <1>0, <1>1, <1>2 DEF HoldOK, WriteOK, BeforeLeaf
<1> QED BY <1>1, <1>2, <1>3, ControlStore

\* A row lock that is free for t is nobody else's.
LEMMA LockStore ==
  ASSUME StoreInv, TypeInv', NEW t \in Tx, NEW e \in Entry, UpdateLockFree(t, e),
         rowLock' = [rowLock EXCEPT ![e] = t], UNCHANGED <<db, now, dirty>>,
         \A u \in Tx \ {t} : req'[u] = req[u],
         req'[t].fresh = req[t].fresh,
         HoldOK(t)', WriteOK(t)'
  PROVE  StoreInv'
<1>0. \A f \in Entry : /\ rowLock[f] = t => rowLock'[f] = t
                       /\ \A u \in Tx \ {t} : rowLock[f] = u => rowLock'[f] = u
  BY DEF UpdateLockFree, StoreInv, TypeInv, TypeOK
<1>1. CommittedOK' /\ LinearHistory'
  BY CommittedKept DEF StoreInv, TypeInv, TypeOK
<1>2. ASSUME NEW u \in Tx \ {t} PROVE TxOK(u)'
  BY <1>0, Others
<1>3. TxOK(t)'
  <2>0. DirtyOK(t) /\ SuccOK(t) /\ RowsOK(t)
    BY DEF StoreInv, TxOK
  <2>1. DirtyOK(t)'
    BY <1>0, <2>0 DEF DirtyOK
  <2>2. SuccOK(t)'
    <3>1. \A s \in Entry : dirty[t][s] # None => dirty[t][s].supersedes \in Entry \cup {None}
      BY DEF StoreInv, TypeInv, TypeOK, Row
    <3> QED BY <1>0, <2>0, <3>1 DEF SuccOK, NoSuccessor, View
  <2>3. RowsOK(t)'
    BY <2>0 DEF RowsOK, WellFormed, IntervalHolds
  <2> QED BY <2>1, <2>2, <2>3 DEF TxOK
<1> QED BY <1>1, <1>2, <1>3 DEF StoreInv

LEMMA LockTargetStore ==
  ASSUME StoreInv, TypeInv', NEW t \in Tx, LockTarget(t)
  PROVE  StoreInv'
<1>0. PathOK(req[t]) /\ NamesOK(req[t]) /\ req[t] \in Request /\ req \in [Tx -> Request]
  BY StartOfControl DEF StoreInv
<1>1. /\ req[t].pc = "lock" /\ UpdateLockFree(t, req[t].target)
      /\ rowLock' = [rowLock EXCEPT ![req[t].target] = t]
      /\ UNCHANGED <<db, now, dirty>>
      /\ \A u \in Tx \ {t} : req'[u] = req[u]
      /\ \A f \in {"op", "target", "leaf", "fresh"} : req'[t][f] = req[t][f]
      /\ req'[t].pc = IF req[t].op = "restore" THEN "chain" ELSE "check"
  BY <1>0 DEF LockTarget, At, Goto, Request, tables, uncommitted
<1>2. req[t].target \in Entry
  BY <1>0, <1>1 DEF PathOK, NamesOK, Committed, Request, OpNames
<1>3. rowLock'[req[t].target] = t
  BY <1>1, <1>2 DEF StoreInv, TypeInv, TypeOK
<1>4. HoldOK(t)' /\ WriteOK(t)'
  BY <1>1, <1>3 DEF HoldOK, WriteOK, BeforeLeaf
<1> QED BY <1>1, <1>2, <1>4, LockStore

LEMMA LockLeafStore ==
  ASSUME StoreInv, TypeInv', NEW t \in Tx, LockLeaf(t)
  PROVE  StoreInv'
<1>0. PathOK(req[t]) /\ NamesOK(req[t]) /\ req[t] \in Request /\ req \in [Tx -> Request]
  BY StartOfControl DEF StoreInv
<1>1. /\ req[t].pc = "lockleaf" /\ UpdateLockFree(t, req[t].leaf)
      /\ rowLock' = [rowLock EXCEPT ![req[t].leaf] = t]
      /\ UNCHANGED <<db, now, dirty>>
      /\ \A u \in Tx \ {t} : req'[u] = req[u]
      /\ \A f \in {"op", "target", "leaf", "fresh"} : req'[t][f] = req[t][f]
      /\ req'[t].pc = "check"
  BY <1>0 DEF LockLeaf, At, Goto, Request, tables, uncommitted
<1>2. req[t].op = "restore" /\ req[t].leaf \in Entry
  BY <1>0, <1>1 DEF PathOK, NamesOK, Committed, Request, OpNames, BeforeLeaf
<1>3. rowLock'[req[t].leaf] = t
  BY <1>1, <1>2 DEF StoreInv, TypeInv, TypeOK
<1>4. HoldOK(t)' /\ WriteOK(t)'
  BY <1>1, <1>2, <1>3 DEF HoldOK, WriteOK, BeforeLeaf
<1> QED BY <1>1, <1>2, <1>4, LockStore

\* A step in which t writes row versions under its locks.
LEMMA WriteStore ==
  ASSUME StoreInv, TypeInv', NEW t \in Tx, UNCHANGED <<db, now, rowLock>>,
         \A u \in Tx \ {t} : req'[u] = req[u] /\ dirty'[u] = dirty[u],
         \A e \in Entry : dirty'[t][e] # None => \/ dirty[t][e] # None \/ db[e] # None
                                                 \/ Unused(e),
         req'[t].pc # "write",
         HoldOK(t)', DirtyOK(t)', SuccOK(t)', RowsOK(t)'
  PROVE  StoreInv'
<1>1. CommittedOK' /\ LinearHistory'
  BY CommittedKept DEF StoreInv, TypeInv, TypeOK
<1>2. ASSUME NEW u \in Tx \ {t} PROVE TxOK(u)'
  BY Others DEF Unused
<1>3. TxOK(t)'
  BY DEF TxOK, WriteOK
<1> QED BY <1>1, <1>2, <1>3 DEF StoreInv

\* A row closed now keeps the check constraint if the database accepts it.
LEMMA ClosedNow ==
  ASSUME StoreInv, NEW e \in Entry, db[e] # None, IsOpen(db[e]),
         IntervalHolds(Close(db[e], now))
  PROVE  /\ WellFormed(Close(db[e], now)) /\ Close(db[e], now) # None
         /\ Close(db[e], now).archived /\ Close(db[e], now).validTo = now
         /\ Close(db[e], now) = Close(db[e], Close(db[e], now).validTo)
<1>1. db[e] \in Row /\ now \in Nat
  BY DEF StoreInv, TypeInv, TypeOK
<1>2. /\ Close(db[e], now).archived /\ Close(db[e], now).validTo = now
      /\ Close(db[e], now) = Close(db[e], Close(db[e], now).validTo)
  BY <1>1, CloseFields
<1>3. Close(db[e], now) # None
  BY <1>1, CloseType
<1> QED BY <1>1, <1>2, <1>3 DEF WellFormed, Open

LEMMA CreateInsertStore ==
  ASSUME StoreInv, TypeInv', NEW t \in Tx, NEW n \in Entry, CreateInsert(t, n)
  PROVE  StoreInv'
<1>0. PathOK(req[t]) /\ CleanOK(t) /\ req[t] \in Request /\ req \in [Tx -> Request]
  BY StartOfControl DEF StoreInv
<1>1. /\ req[t].pc = "insert" /\ Unused(n)
      /\ req' = [req EXCEPT ![t].pc = "autolink", ![t].fresh = n]
      /\ UNCHANGED <<db, now, rowLock>>
  BY DEF CreateInsert, At, tables, locks
<1>2. PICK from \in Given \cup {now} :
        dirty' = [dirty EXCEPT ![t][n] = NewRow(req[t].project, from, None)]
  BY DEF CreateInsert
<1> DEFINE new == NewRow(req[t].project, from, None)
<1>3. new.supersedes = None /\ WellFormed(new)
  <2>1. from \in Nat /\ now \in Nat
    BY DEF StoreInv, TypeInv, TypeOK
  <2> QED BY <2>1, NewRowFields
<1>4. \A e \in Entry : dirty[t][e] = None
  BY <1>0, <1>1 DEF CleanOK, PathOK, BeforeWrite
<1> HIDE DEF new
<1>5. /\ dirty'[t][n] = new /\ \A e \in Entry \ {n} : dirty'[t][e] = None
      /\ \A u \in Tx \ {t} : req'[u] = req[u] /\ dirty'[u] = dirty[u]
      /\ req'[t].pc = "autolink" /\ req'[t].fresh = n /\ req'[t].op = "create"
  BY <1>0, <1>1, <1>2, <1>4 DEF new, StoreInv, TypeInv, TypeOK, PathOK, Request, OpNames
<1>6. HoldOK(t)'
  BY <1>5 DEF HoldOK
<1>7. DirtyOK(t)'
  BY <1>1, <1>5 DEF DirtyOK, Unused
<1>8. SuccOK(t)'
  BY <1>3, <1>5 DEF SuccOK
<1>9. RowsOK(t)'
  BY <1>1, <1>3, <1>5 DEF RowsOK, WellFormed, IntervalHolds
<1> QED BY <1>1, <1>4, <1>5, <1>6, <1>7, <1>8, <1>9, WriteStore

\* Two versions written in one step.
LEMMA TwoWrites ==
  ASSUME TypeInv, NEW t \in Tx, NEW x \in Entry, NEW n \in Entry \ {x}, NEW closed, NEW new,
         \A e \in Entry : dirty[t][e] = None,
         dirty' = [dirty EXCEPT ![t][x] = closed, ![t][n] = new]
  PROVE  /\ dirty'[t][n] = new /\ dirty'[t][x] = closed
         /\ \A e \in Entry \ {n, x} : dirty'[t][e] = None
         /\ \A u \in Tx \ {t} : dirty'[u] = dirty[u]
BY DEF TypeInv, TypeOK

\* The step of revise, restore and assign that closes x, unless it is closed
\* already, and inserts n.
LEMMA CloseAndInsert ==
  ASSUME StoreInv, NEW t \in Tx, NEW x \in Entry, NEW n \in Entry,
         UNCHANGED <<db, now, rowLock>>, Unused(n), db[x] # None, rowLock[x] = t,
         \A e \in Entry \ {n, x} : dirty'[t][e] = None,
         \A u \in Tx \ {t} : dirty'[u] = dirty[u],
         \/ dirty'[t][x] = db[x] /\ db[x].archived
         \/ IsOpen(db[x]) /\ dirty'[t][x] = Close(db[x], dirty'[t][x].validTo),
         WellFormed(dirty'[t][x]), WellFormed(dirty'[t][n]),
         req'[t].fresh = n
  PROVE  DirtyOK(t)' /\ RowsOK(t)'
<1>1. ASSUME NEW e \in Entry, dirty'[t][e] # None
      PROVE  \/ /\ db[e] = None /\ e = req'[t].fresh
                /\ \A u \in Tx \ {t} : dirty'[u][e] = None
             \/ /\ db[e] # None /\ rowLock[e] = t
                /\ \/ dirty'[t][e] = db[e] /\ db[e].archived
                   \/ IsOpen(db[e]) /\ dirty'[t][e] = Close(db[e], dirty'[t][e].validTo)
  <2>1. CASE e = n
    BY <2>1 DEF Unused
  <2>2. CASE e = x
    BY <2>2
  <2> QED BY <1>1, <2>1, <2>2
<1>2. DirtyOK(t)'
  BY <1>1 DEF DirtyOK, IsOpen, Close
<1>3. ASSUME NEW e \in Entry, dirty'[t][e] # None PROVE WellFormed(dirty'[t][e])
  BY <1>3
<1>4. RowsOK(t)'
  BY <1>3 DEF RowsOK, WellFormed, IntervalHolds
<1> QED BY <1>2, <1>4

\* Revise and restore append n to x.
LEMMA AppendStore ==
  ASSUME StoreInv, TypeInv', NEW t \in Tx, NEW x \in Entry, NEW n \in Entry \ {x},
         UNCHANGED <<db, now, rowLock>>, Unused(n), db[x] # None, rowLock[x] = t,
         NoSuccessor(x),
         \A e \in Entry \ {n, x} : dirty'[t][e] = None,
         \A u \in Tx \ {t} : req'[u] = req[u] /\ dirty'[u] = dirty[u],
         \/ dirty'[t][x] = db[x] /\ db[x].archived
         \/ IsOpen(db[x]) /\ dirty'[t][x] = Close(db[x], dirty'[t][x].validTo),
         WellFormed(dirty'[t][x]), WellFormed(dirty'[t][n]),
         dirty'[t][x] # None, dirty'[t][x].archived, dirty'[t][n].supersedes = x,
         dirty'[t][x].validTo <= dirty'[t][n].validFrom,
         req'[t].pc # "write", req'[t].fresh = n, HoldOK(t)'
  PROVE  StoreInv'
<1>1. DirtyOK(t)' /\ RowsOK(t)'
  BY CloseAndInsert
<1>2. SuccOK(t)'
  <2>1. \A s \in Entry : dirty'[t][s] # None /\ db[s] = None => s = n
    OBVIOUS
  <2>2. /\ db[x] # None /\ rowLock'[x] = t /\ NoSuccessor(x)' /\ View(t, x)' = dirty'[t][x]
    BY DEF NoSuccessor, View
  <2> QED BY <2>1, <2>2 DEF SuccOK
<1>3. \A e \in Entry : dirty'[t][e] # None => dirty[t][e] # None \/ db[e] # None \/ Unused(e)
  OBVIOUS
<1> QED BY <1>1, <1>2, <1>3, WriteStore

LEMMA ReviseWriteStore ==
  ASSUME StoreInv, TypeInv', NEW t \in Tx, NEW n \in Entry, ReviseWrite(t, n)
  PROVE  StoreInv'
<1>0. /\ PathOK(req[t]) /\ NamesOK(req[t]) /\ CleanOK(t) /\ req[t] \in Request
      /\ req \in [Tx -> Request] /\ HoldOK(t) /\ WriteOK(t)
  BY StartOfControl DEF StoreInv, TxOK
<1> DEFINE e == req[t].target
           closed == Close(View(t, e), now)
           new == NewRow(closed.project, now, e)
<1>1. /\ req[t].pc = "write" /\ req[t].op = "revise" /\ Unused(n) /\ IntervalHolds(closed)
      /\ dirty' = [dirty EXCEPT ![t][e] = closed, ![t][n] = new]
      /\ req' = [req EXCEPT ![t].pc = "readlinks", ![t].fresh = n, ![t].leaf = e]
      /\ UNCHANGED <<db, now, rowLock>>
  BY DEF ReviseWrite, At, tables, locks
<1>2. e \in Entry /\ db[e] # None
  BY <1>0, <1>1 DEF NamesOK, Committed
<1>3. \A f \in Entry : dirty[t][f] = None
  BY <1>0, <1>1 DEF CleanOK, BeforeWrite
<1>4. View(t, e) = db[e] /\ IsOpen(db[e]) /\ NoSuccessor(e) /\ rowLock[e] = t
  BY <1>0, <1>1, <1>2, <1>3 DEF View, WriteOK, HoldOK
<1>5. db[e] \in Row /\ now \in Nat
  BY <1>2 DEF StoreInv, TypeInv, TypeOK
<1>6. /\ WellFormed(closed) /\ closed.archived /\ closed.validTo = now
      /\ closed = Close(db[e], closed.validTo) /\ closed \in Row
  BY <1>1, <1>2, <1>4, <1>5, ClosedNow, CloseType
<1>7. new \in Row /\ new.supersedes = e /\ new.validFrom = now /\ WellFormed(new)
  <2>1. closed.project \in Project \cup {None}
    BY <1>6 DEF Row
  <2> QED BY <1>2, <1>5, <2>1, NewRowType, NewRowFields
<1> HIDE DEF closed, new
<1>8. /\ \A u \in Tx \ {t} : req'[u] = req[u]
      /\ req'[t].pc = "readlinks" /\ req'[t].fresh = n /\ req'[t].op = "revise"
      /\ req'[t].target = e
  BY <1>0, <1>1 DEF Request
<1>9. HoldOK(t)'
  BY <1>1, <1>4, <1>8 DEF HoldOK
<1> HIDE DEF e
<1>10. closed.validTo <= new.validFrom /\ closed # None /\ n # e
  BY <1>1, <1>2, <1>5, <1>6, <1>7 DEF Unused
<1>11. /\ dirty'[t][n] = new /\ dirty'[t][e] = closed
       /\ \A f \in Entry \ {n, e} : dirty'[t][f] = None
       /\ \A u \in Tx \ {t} : dirty'[u] = dirty[u]
  BY <1>1, <1>2, <1>3, <1>10, TwoWrites DEF StoreInv
<1>12. \/ dirty'[t][e] = db[e] /\ db[e].archived
       \/ IsOpen(db[e]) /\ dirty'[t][e] = Close(db[e], dirty'[t][e].validTo)
  BY <1>4, <1>6, <1>11
<1>13. /\ WellFormed(dirty'[t][e]) /\ WellFormed(dirty'[t][n])
       /\ dirty'[t][e] # None /\ dirty'[t][e].archived /\ dirty'[t][n].supersedes = e
       /\ dirty'[t][e].validTo <= dirty'[t][n].validFrom
  BY <1>6, <1>7, <1>10, <1>11
<1>14. n \in Entry \ {e} /\ req'[t].pc # "write"
  BY <1>8, <1>10
<1>15. \A u \in Tx \ {t} : req'[u] = req[u] /\ dirty'[u] = dirty[u]
  BY <1>8, <1>11
<1>16. /\ UNCHANGED <<db, now, rowLock>> /\ Unused(n) /\ req'[t].fresh = n
       /\ \A f \in Entry \ {n, e} : dirty'[t][f] = None
  BY <1>1, <1>8, <1>11
<1> QED BY ONLY StoreInv, TypeInv', <1>2, <1>4, <1>9, <1>12, <1>13, <1>14, <1>15, <1>16, AppendStore

LEMMA RestoreWriteStore ==
  ASSUME StoreInv, TypeInv', NEW t \in Tx, NEW n \in Entry, RestoreWrite(t, n)
  PROVE  StoreInv'
<1>0. /\ PathOK(req[t]) /\ NamesOK(req[t]) /\ CleanOK(t) /\ req[t] \in Request
      /\ req \in [Tx -> Request] /\ HoldOK(t) /\ WriteOK(t)
  BY StartOfControl DEF StoreInv, TxOK
<1> DEFINE l == req[t].leaf
           closed == IF IsOpen(View(t, l)) THEN Close(View(t, l), now) ELSE View(t, l)
           new == NewRow(View(t, req[t].source).project, now, l)
<1>1. /\ req[t].pc = "write" /\ req[t].op = "restore" /\ Unused(n) /\ IntervalHolds(closed)
      /\ dirty' = [dirty EXCEPT ![t][l] = closed, ![t][n] = new]
      /\ req' = [req EXCEPT ![t].pc = "readlinks", ![t].fresh = n]
      /\ UNCHANGED <<db, now, rowLock>>
  BY DEF RestoreWrite, At, tables, locks
<1>2. l \in Entry /\ db[l] # None /\ req[t].source \in Entry /\ db[req[t].source] # None
  BY <1>0, <1>1 DEF NamesOK, Committed, BeforeLeaf
<1>3. \A f \in Entry : dirty[t][f] = None
  BY <1>0, <1>1 DEF CleanOK, BeforeWrite
<1>4. View(t, l) = db[l] /\ NoSuccessor(l) /\ rowLock[l] = t
  BY <1>0, <1>1, <1>2, <1>3 DEF View, WriteOK, HoldOK, BeforeLeaf
<1>5. db[l] \in Row /\ now \in Nat
  BY <1>2 DEF StoreInv, TypeInv, TypeOK
<1>6. /\ WellFormed(closed) /\ closed.archived /\ closed.validTo <= now /\ closed \in Row
      /\ \/ closed = db[l]
         \/ IsOpen(db[l]) /\ closed = Close(db[l], closed.validTo)
  <2>1. CASE IsOpen(db[l])
    BY <1>1, <1>2, <1>4, <1>5, <2>1, ClosedNow, CloseType
  <2>2. CASE ~IsOpen(db[l])
    <3>1. closed = db[l]
      BY <1>4, <2>2
    <3>2. WellFormed(db[l])
      BY <1>2 DEF StoreInv, CommittedOK
    <3> QED BY <1>5, <2>2, <3>1, <3>2 DEF WellFormed, IsOpen
  <2> QED BY <2>1, <2>2
<1>7. new \in Row /\ new.supersedes = l /\ new.validFrom = now /\ WellFormed(new)
  <2>1. View(t, req[t].source) \in Row
    BY <1>2, ViewType DEF StoreInv, TypeInv
  <2>2. View(t, req[t].source).project \in Project \cup {None}
    BY <2>1 DEF Row
  <2> QED BY <1>2, <1>5, <2>2, NewRowType, NewRowFields
<1> HIDE DEF closed, new
<1>8. /\ \A u \in Tx \ {t} : req'[u] = req[u]
      /\ req'[t].pc = "readlinks" /\ req'[t].fresh = n /\ req'[t].op = "restore"
      /\ req'[t].leaf = l
  BY <1>0, <1>1 DEF Request
<1>9. HoldOK(t)'
  BY <1>1, <1>4, <1>8 DEF HoldOK
<1> HIDE DEF l
<1>10. closed.validTo <= new.validFrom /\ closed # None /\ n # l
  BY <1>1, <1>2, <1>5, <1>6, <1>7 DEF Unused
<1>11. /\ dirty'[t][n] = new /\ dirty'[t][l] = closed
       /\ \A f \in Entry \ {n, l} : dirty'[t][f] = None
       /\ \A u \in Tx \ {t} : dirty'[u] = dirty[u]
  BY <1>1, <1>2, <1>3, <1>10, TwoWrites DEF StoreInv
<1>12. \/ dirty'[t][l] = db[l] /\ db[l].archived
       \/ IsOpen(db[l]) /\ dirty'[t][l] = Close(db[l], dirty'[t][l].validTo)
  BY <1>4, <1>6, <1>11
<1>13. /\ WellFormed(dirty'[t][l]) /\ WellFormed(dirty'[t][n])
       /\ dirty'[t][l] # None /\ dirty'[t][l].archived /\ dirty'[t][n].supersedes = l
       /\ dirty'[t][l].validTo <= dirty'[t][n].validFrom
  BY <1>6, <1>7, <1>10, <1>11
<1>14. n \in Entry \ {l} /\ req'[t].pc # "write"
  BY <1>8, <1>10
<1>15. \A u \in Tx \ {t} : req'[u] = req[u] /\ dirty'[u] = dirty[u]
  BY <1>8, <1>11
<1>16. /\ UNCHANGED <<db, now, rowLock>> /\ Unused(n) /\ req'[t].fresh = n
       /\ \A f \in Entry \ {n, l} : dirty'[t][f] = None
  BY <1>1, <1>8, <1>11
<1> QED BY ONLY StoreInv, TypeInv', <1>2, <1>4, <1>9, <1>12, <1>13, <1>14, <1>15, <1>16, AppendStore

LEMMA AssignWriteStore ==
  ASSUME StoreInv, TypeInv', NEW t \in Tx, NEW n \in Entry, AssignWrite(t, n)
  PROVE  StoreInv'
<1>0. /\ PathOK(req[t]) /\ NamesOK(req[t]) /\ CleanOK(t) /\ req[t] \in Request
      /\ req \in [Tx -> Request] /\ HoldOK(t) /\ WriteOK(t)
  BY StartOfControl DEF StoreInv, TxOK
<1> DEFINE e == req[t].target
           closed == Close(View(t, e), now)
           new == NewRow(req[t].project, now, None)
<1>1. /\ req[t].pc = "write" /\ req[t].op = "assign" /\ Unused(n) /\ IntervalHolds(closed)
      /\ dirty' = [dirty EXCEPT ![t][e] = closed, ![t][n] = new]
      /\ req' = [req EXCEPT ![t].pc = "autolink", ![t].fresh = n]
      /\ UNCHANGED <<db, now, rowLock>>
  BY DEF AssignWrite, At, tables, locks
<1>2. e \in Entry /\ db[e] # None /\ e # n
  BY <1>0, <1>1 DEF NamesOK, Committed, Unused
<1>3. \A f \in Entry : dirty[t][f] = None
  BY <1>0, <1>1 DEF CleanOK, BeforeWrite
<1>4. View(t, e) = db[e] /\ IsOpen(db[e]) /\ rowLock[e] = t
  BY <1>0, <1>1, <1>2, <1>3 DEF View, WriteOK, HoldOK
<1>5. /\ WellFormed(closed) /\ closed.archived
      /\ closed = Close(db[e], closed.validTo)
  BY <1>1, <1>2, <1>4, ClosedNow
<1>6. new.supersedes = None /\ WellFormed(new)
  BY NewRowFields DEF StoreInv, TypeInv, TypeOK
<1> HIDE DEF closed, new
<1>7. /\ \A u \in Tx \ {t} : req'[u] = req[u]
      /\ req'[t].pc = "autolink" /\ req'[t].fresh = n /\ req'[t].op = "assign"
      /\ req'[t].target = e
  BY <1>0, <1>1 DEF Request
<1>8. HoldOK(t)'
  BY <1>1, <1>4, <1>7 DEF HoldOK
<1> HIDE DEF e
<1>9. /\ dirty'[t][n] = new /\ dirty'[t][e] = closed
      /\ \A f \in Entry \ {n, e} : dirty'[t][f] = None
      /\ \A u \in Tx \ {t} : dirty'[u] = dirty[u]
  BY <1>1, <1>2, <1>3, TwoWrites DEF StoreInv
<1>10. DirtyOK(t)' /\ RowsOK(t)'
  <2>1. IsOpen(db[e]) /\ dirty'[t][e] = Close(db[e], dirty'[t][e].validTo)
    BY <1>4, <1>5, <1>9
  <2>2. WellFormed(dirty'[t][e]) /\ WellFormed(dirty'[t][n])
    BY <1>5, <1>6, <1>9
  <2> QED BY <1>1, <1>2, <1>4, <1>7, <1>9, <2>1, <2>2, CloseAndInsert
<1>11. SuccOK(t)'
  BY <1>1, <1>2, <1>6, <1>9 DEF SuccOK
<1>12. \A f \in Entry : dirty'[t][f] # None => dirty[t][f] # None \/ db[f] # None \/ Unused(f)
  BY <1>1, <1>2, <1>9
<1> QED BY <1>1, <1>7, <1>8, <1>9, <1>10, <1>11, <1>12, WriteStore

LEMMA ArchiveWriteStore ==
  ASSUME StoreInv, TypeInv', NEW t \in Tx, ArchiveWrite(t)
  PROVE  StoreInv'
<1>0. /\ PathOK(req[t]) /\ NamesOK(req[t]) /\ req[t] \in Request
      /\ req \in [Tx -> Request]
      /\ HoldOK(t) /\ WriteOK(t) /\ DirtyOK(t) /\ RowsOK(t)
  BY StartOfControl DEF StoreInv, TxOK
<1> DEFINE e == req[t].target
           closed == Close(View(t, e), now)
<1>1. /\ req[t].pc = "write" /\ req[t].op \in {"archive", "stale"} /\ IntervalHolds(closed)
      /\ dirty' = [dirty EXCEPT ![t][e] = closed]
      /\ req' = [req EXCEPT ![t].pc = "emit"]
      /\ UNCHANGED <<db, now, rowLock>>
  BY DEF ArchiveWrite, At, Goto, tables, locks
<1>2. e \in Entry /\ db[e] # None
  BY <1>0, <1>1 DEF NamesOK, Committed
<1>3. View(t, e) = db[e] /\ IsOpen(db[e]) /\ rowLock[e] = t
  BY <1>0, <1>1, <1>2 DEF View, WriteOK, HoldOK
<1>4. /\ WellFormed(closed) /\ closed.archived
      /\ closed = Close(db[e], closed.validTo)
  BY <1>1, <1>2, <1>3, ClosedNow
<1> HIDE DEF closed
<1>5. /\ \A u \in Tx \ {t} : req'[u] = req[u]
      /\ req'[t].pc = "emit" /\ req'[t].fresh = req[t].fresh /\ req'[t].op = req[t].op
      /\ req'[t].target = e
  BY <1>0, <1>1 DEF Request
<1>6. HoldOK(t)'
  BY <1>0, <1>1, <1>3, <1>5 DEF HoldOK
<1>7. req[t].fresh = None
  BY <1>0, <1>1 DEF NamesOK
<1> HIDE DEF e
<1>8. /\ dirty'[t][e] = closed /\ \A f \in Entry \ {e} : dirty'[t][f] = dirty[t][f]
      /\ \A u \in Tx \ {t} : dirty'[u] = dirty[u]
  BY <1>1, <1>2 DEF StoreInv, TypeInv, TypeOK
<1>9. \A f \in Entry : dirty'[t][f] # None => db[f] # None
  BY <1>0, <1>2, <1>7, <1>8 DEF DirtyOK
<1>10. DirtyOK(t)'
  BY <1>0, <1>1, <1>2, <1>3, <1>4, <1>8, <1>9 DEF DirtyOK
<1>11. SuccOK(t)'
  BY <1>1, <1>9 DEF SuccOK
<1>12. RowsOK(t)'
  BY <1>0, <1>1, <1>4, <1>8 DEF RowsOK, WellFormed, IntervalHolds
<1> QED BY <1>1, <1>5, <1>6, <1>8, <1>9, <1>10, <1>11, <1>12, WriteStore

\* What the end of t leaves of the requests, versions and row locks.
LEMMA EndTxStore ==
  ASSUME StoreInv, NEW t \in Tx, EndTx(t)
  PROVE  /\ req'[t] = Idle /\ \A e \in Entry : dirty'[t][e] = None
         /\ \A u \in Tx \ {t} :
              /\ req'[u] = req[u] /\ dirty'[u] = dirty[u]
              /\ \A e \in Entry : rowLock'[e] = u <=> rowLock[e] = u
BY DEF EndTx, StoreInv, TypeInv, TypeOK

LEMMA IdleStore ==
  ASSUME NEW t \in Tx, req'[t] = Idle, \A e \in Entry : dirty'[t][e] = None
  PROVE  TxOK(t)'
<1>1. HoldOK(t)' /\ WriteOK(t)'
  BY DEF HoldOK, WriteOK, Idle, OpNames
<1>2. DirtyOK(t)' /\ SuccOK(t)' /\ RowsOK(t)'
  BY DEF DirtyOK, SuccOK, RowsOK
<1> QED BY <1>1, <1>2 DEF TxOK

LEMMA RollbackStore ==
  ASSUME StoreInv, TypeInv', NEW t \in Tx, Rollback(t)
  PROVE  StoreInv'
<1>0. EndTx(t) /\ UNCHANGED <<db, now>>
  BY DEF Rollback, tables
<1>1. CommittedOK' /\ LinearHistory'
  BY <1>0, CommittedKept DEF StoreInv, TypeInv, TypeOK
<1>2. TxOK(t)'
  BY <1>0, EndTxStore, IdleStore
<1>3. ASSUME NEW u \in Tx \ {t} PROVE TxOK(u)'
  <2>1. /\ \A v \in Tx \ {t} : req'[v] = req[v] /\ dirty'[v] = dirty[v]
        /\ \A e \in Entry : rowLock[e] = u => rowLock'[e] = u
        /\ \A e \in Entry : dirty'[t][e] = None
    BY <1>0, EndTxStore
  <2> QED BY <1>0, <2>1, Others
<1> QED BY <1>1, <1>2, <1>3 DEF StoreInv

\* The rows a commit leaves: committed rows keep their place in the chain, a
\* row another transaction holds is the same, and at most one row is new.
LEMMA CommitRows ==
  ASSUME StoreInv, NEW t \in Tx, Commit(t), NEW e \in Entry
  PROVE  /\ db'[e] = View(t, e)
         /\ db[e] # None =>
              /\ db'[e] # None /\ db'[e].supersedes = db[e].supersedes
              /\ db'[e].validFrom = db[e].validFrom
              /\ db[e].archived => db'[e] = db[e]
              /\ rowLock[e] # t => db'[e] = db[e]
              /\ db'[e] = db[e] \/ (IsOpen(db[e]) /\ db'[e] = Close(db[e], db'[e].validTo))
         /\ db[e] = None /\ db'[e] # None => e = req[t].fresh /\ dirty[t][e] # None
         /\ db'[e] # None => WellFormed(db'[e])
<1>1. db'[e] = View(t, e)
  BY DEF Commit
<1>2. ASSUME db[e] # None
      PROVE  /\ db'[e] # None /\ db'[e].supersedes = db[e].supersedes
             /\ db'[e].validFrom = db[e].validFrom
             /\ db[e].archived => db'[e] = db[e]
             /\ rowLock[e] # t => db'[e] = db[e]
             /\ db'[e] = db[e] \/ (IsOpen(db[e]) /\ db'[e] = Close(db[e], db'[e].validTo))
  <2>1. CASE dirty[t][e] = None
    BY <1>1, <1>2, <2>1 DEF View
  <2>2. CASE dirty[t][e] # None
    <3>1. db'[e] = dirty[t][e]
      BY <1>1, <2>2 DEF View
    <3>2. /\ rowLock[e] = t /\ dirty[t][e].supersedes = db[e].supersedes
          /\ dirty[t][e] = db[e] \/ IsOpen(db[e])
      BY <1>2, <2>2, DirtyFields
    <3>3. dirty[t][e] = db[e] \/ dirty[t][e] = Close(db[e], dirty[t][e].validTo)
      BY <1>2, <2>2 DEF StoreInv, TxOK, DirtyOK
    <3>4. db[e] \in Row
      BY <1>2 DEF StoreInv, TypeInv, TypeOK
    <3>5. dirty[t][e].validFrom = db[e].validFrom
      BY <3>3, <3>4 DEF Close, Row
    <3> QED BY <1>2, <2>2, <3>1, <3>2, <3>3, <3>5 DEF IsOpen
  <2> QED BY <2>1, <2>2
<1>3. ASSUME db[e] = None, db'[e] # None PROVE e = req[t].fresh /\ dirty[t][e] # None
  BY <1>1, <1>3 DEF View, StoreInv, TxOK, DirtyOK
<1>4. ASSUME db'[e] # None PROVE WellFormed(db'[e])
  BY <1>1, <1>4 DEF View, StoreInv, TxOK, RowsOK, CommittedOK
<1> QED BY <1>1, <1>2, <1>3, <1>4

\* A commit gives no successor to an entry that another transaction holds.
LEMMA CommitSuccessor ==
  ASSUME StoreInv, NEW t \in Tx, Commit(t), NEW x \in Entry, rowLock[x] # t, NoSuccessor(x)
  PROVE  \A c \in Entry : db'[c] # None => db'[c].supersedes # x
<1> SUFFICES ASSUME NEW c \in Entry, db'[c] # None PROVE db'[c].supersedes # x
  OBVIOUS
<1>1. CASE db[c] # None
  BY <1>1, CommitRows DEF NoSuccessor
<1>2. CASE db[c] = None
  <2>1. db'[c] = dirty[t][c] /\ dirty[t][c] # None
    BY <1>2, CommitRows DEF View
  <2>2. dirty[t][c].supersedes # None => rowLock[dirty[t][c].supersedes] = t
    BY <1>2, <2>1 DEF StoreInv, TxOK, SuccOK
  <2> QED BY <2>1, <2>2
<1> QED BY <1>1, <1>2

\* The committed chains stay linear: the one new row succeeds a closed entry
\* that had no successor.
LEMMA CommitLinear ==
  ASSUME StoreInv, NEW t \in Tx, Commit(t)
  PROVE  LinearHistory'
<1> SUFFICES ASSUME NEW a \in Entry, NEW b \in Entry, db'[b] # None, db'[b].supersedes = a
             PROVE  /\ db'[a] # None /\ db'[a].archived /\ db'[a].validTo # Open
                    /\ db'[a].validTo <= db'[b].validFrom
                    /\ \A c \in Entry : db'[c] # None /\ db'[c].supersedes = a => c = b
  BY DEF LinearHistory, Exists
<1>1. ASSUME NEW c \in Entry, db[c] = None, db'[c] # None, db'[c].supersedes = a
      PROVE  /\ c = req[t].fresh /\ NoSuccessor(a) /\ db[a] # None
             /\ db'[a].archived /\ db'[a].validTo <= db'[c].validFrom
  <2>1. c = req[t].fresh /\ dirty[t][c] # None /\ db'[c] = dirty[t][c] /\ db'[a] = View(t, a)
    BY <1>1, CommitRows DEF View
  <2>2. SuccOK(t) /\ dirty[t][c].supersedes = a
    BY <1>1, <2>1 DEF StoreInv, TxOK
  <2> QED BY <1>1, <2>1, <2>2 DEF SuccOK
<1>2. CASE db[b] # None
  <2>1. db[b].supersedes = a /\ db'[b].validFrom = db[b].validFrom
    BY <1>2, CommitRows
  <2>2. /\ db[a] # None /\ db[a].archived /\ db[a].validTo # Open
        /\ db[a].validTo <= db[b].validFrom
        /\ \A c \in Entry : db[c] # None /\ db[c].supersedes = a => c = b
    BY <1>2, <2>1 DEF StoreInv, LinearHistory, Exists
  <2>3. db'[a] = db[a]
    BY <2>2, CommitRows
  <2>4. ASSUME NEW c \in Entry, db'[c] # None, db'[c].supersedes = a PROVE c = b
    <3>1. db[c] # None
      BY <1>1, <1>2, <2>1, <2>4 DEF NoSuccessor
    <3> QED BY <2>2, <2>4, <3>1, CommitRows
  <2> QED BY <2>1, <2>2, <2>3, <2>4
<1>3. CASE db[b] = None
  <2>1. /\ b = req[t].fresh /\ NoSuccessor(a) /\ db[a] # None
        /\ db'[a].archived /\ db'[a].validTo <= db'[b].validFrom
    BY <1>1, <1>3
  <2>2. db'[a] # None /\ WellFormed(db'[a])
    BY <2>1, CommitRows
  <2>3. ASSUME NEW c \in Entry, db'[c] # None, db'[c].supersedes = a PROVE c = b
    <3>1. CASE db[c] # None
      BY <2>1, <2>3, <3>1, CommitRows DEF NoSuccessor
    <3>2. CASE db[c] = None
      BY <1>1, <2>1, <2>3, <3>2
    <3> QED BY <3>1, <3>2
  <2> QED BY <2>1, <2>2, <2>3 DEF WellFormed
<1> QED BY <1>2, <1>3

\* A commit of t leaves what another transaction has locked and written.
LEMMA CommitOthers ==
  ASSUME StoreInv, NEW t \in Tx, Commit(t), NEW u \in Tx \ {t}
  PROVE  TxOK(u)'
<1>0. /\ req'[u] = req[u] /\ dirty'[u] = dirty[u] /\ now' = now
      /\ \A e \in Entry : rowLock'[e] = u <=> rowLock[e] = u
      /\ \A e \in Entry : dirty'[t][e] = None
      /\ \A v \in Tx \ {t} : dirty'[v] = dirty[v]
  BY EndTxStore DEF Commit
<1>1. /\ HoldOK(u) /\ DirtyOK(u) /\ WriteOK(u) /\ SuccOK(u) /\ RowsOK(u)
      /\ PathOK(req[u]) /\ NamesOK(req[u]) /\ req[u] \in Request
  BY DEF StoreInv, TypeInv, TypeOK, ReqInv, TxOK
<1>2. ASSUME NEW e \in Entry, rowLock[e] = u, db[e] # None PROVE db'[e] = db[e]
  BY <1>2, CommitRows
<1>3. HoldOK(u)'
  <2>1. /\ req[u].op \in {"revise", "archive", "assign", "restore"} => req[u].target \in Entry
        /\ req[u].op = "stale" /\ req[u].pc \in {"check", "write"} => req[u].target \in Entry
        /\ req[u].op = "restore" /\ req[u].pc \notin BeforeLeaf => req[u].leaf \in Entry
    BY <1>1 DEF NamesOK, Committed
  <2> QED BY <1>0, <1>1, <2>1 DEF HoldOK
<1>4. DirtyOK(u)'
  <2> SUFFICES ASSUME NEW e \in Entry, dirty[u][e] # None
               PROVE  \/ /\ db'[e] = None /\ e = req[u].fresh
                         /\ \A v \in Tx \ {u} : dirty'[v][e] = None
                      \/ /\ db'[e] # None /\ rowLock'[e] = u
                         /\ \/ dirty[u][e] = db'[e] /\ db'[e].archived
                            \/ IsOpen(db'[e]) /\ dirty[u][e] = Close(db'[e], dirty[u][e].validTo)
    BY <1>0 DEF DirtyOK, IsOpen, Close
  <2>1. CASE db[e] = None
    <3>1. e = req[u].fresh /\ \A v \in Tx \ {u} : dirty[v][e] = None
      BY <1>1, <2>1 DEF DirtyOK
    <3>2. \A v \in Tx \ {u} : dirty'[v][e] = None
      BY <1>0, <3>1
    <3>3. db'[e] = None
      BY <2>1, <3>1, CommitRows DEF View
    <3> QED BY <3>1, <3>2, <3>3
  <2>2. CASE db[e] # None
    <3>1. /\ rowLock[e] = u
          /\ \/ dirty[u][e] = db[e] /\ db[e].archived
             \/ IsOpen(db[e]) /\ dirty[u][e] = Close(db[e], dirty[u][e].validTo)
      BY <1>1, <2>2 DEF DirtyOK
    <3> QED BY <1>0, <1>2, <2>2, <3>1
  <2> QED BY <2>1, <2>2
<1>5. WriteOK(u)'
  <2> SUFFICES ASSUME req[u].pc = "write"
               PROVE  /\ req[u].op # "restore" =>
                           IsOpen(db'[req[u].target]) /\ dirty'[u][req[u].target] = None
                      /\ req[u].op = "revise" =>
                           \A c \in Entry : db'[c] # None => db'[c].supersedes # req[u].target
                      /\ req[u].op = "restore" =>
                           \A c \in Entry : db'[c] # None => db'[c].supersedes # req[u].leaf
    BY <1>0 DEF WriteOK, IsOpen, NoSuccessor
  <2>1. req[u].op \in {"revise", "archive", "assign", "stale", "restore"}
    BY <1>1 DEF PathOK, Request, OpNames
  <2>2. CASE req[u].op = "restore"
    <3>1. req[u].leaf \in Entry /\ rowLock[req[u].leaf] = u /\ NoSuccessor(req[u].leaf)
      BY <1>1, <2>2 DEF HoldOK, NamesOK, Committed, WriteOK, BeforeLeaf
    <3> QED BY <2>2, <3>1, CommitSuccessor
  <2>3. CASE req[u].op # "restore"
    <3>1. /\ req[u].target \in Entry /\ db[req[u].target] # None
          /\ rowLock[req[u].target] = u
          /\ IsOpen(db[req[u].target]) /\ dirty[u][req[u].target] = None
          /\ req[u].op = "revise" => NoSuccessor(req[u].target)
      BY <1>1, <2>1, <2>3 DEF HoldOK, NamesOK, Committed, WriteOK
    <3>2. db'[req[u].target] = db[req[u].target]
      BY <1>2, <3>1
    <3> QED BY <1>0, <2>3, <3>1, <3>2, CommitSuccessor
  <2> QED BY <2>2, <2>3
<1>6. SuccOK(u)'
  <2>1. ASSUME NEW s \in Entry, NEW x, x = dirty[u][s].supersedes,
               dirty[u][s] # None, db'[s] = None, x # None
        PROVE  /\ db'[x] # None /\ rowLock'[x] = u
               /\ \A c \in Entry : db'[c] # None => db'[c].supersedes # x
               /\ LET v == IF dirty[u][x] # None THEN dirty[u][x] ELSE db'[x] IN
                  v.archived /\ v.validTo <= dirty[u][s].validFrom
    <3>1. db[s] = None
      BY <2>1, CommitRows
    <3>2. x \in Entry
      BY <2>1 DEF StoreInv, TypeInv, TypeOK, Row
    <3>3. /\ db[x] # None /\ rowLock[x] = u /\ NoSuccessor(x)
          /\ View(u, x).archived /\ View(u, x).validTo <= dirty[u][s].validFrom
      BY <1>1, <2>1, <3>1 DEF SuccOK
    <3>4. db'[x] = db[x]
      BY <1>2, <3>2, <3>3
    <3> QED BY <1>0, <3>2, <3>3, <3>4, CommitSuccessor DEF View
  <2> QED BY <1>0, <2>1 DEF SuccOK, NoSuccessor, View
<1>7. RowsOK(u)'
  BY <1>0, <1>1 DEF RowsOK, WellFormed, IntervalHolds
<1> QED BY <1>3, <1>4, <1>5, <1>6, <1>7 DEF TxOK

LEMMA CommitStore ==
  ASSUME StoreInv, TypeInv', NEW t \in Tx, Commit(t)
  PROVE  StoreInv'
<1>1. CommittedOK'
  <2>1. now' = now /\ \A e \in Entry : db'[e] # None => WellFormed(db'[e])
    BY CommitRows DEF Commit
  <2> QED BY <2>1 DEF CommittedOK, WellFormed, IntervalHolds
<1>2. TxOK(t)'
  BY EndTxStore, IdleStore DEF Commit
<1>3. \A u \in Tx \ {t} : TxOK(u)'
  BY CommitOthers
<1> QED BY <1>1, <1>2, <1>3, CommitLinear DEF StoreInv

LEMMA OutsideStore ==
  ASSUME StoreInv, TypeInv', Outside
  PROVE  StoreInv'
<1>1. UNCHANGED <<db, req, dirty, rowLock>> /\ now <= now'
  BY DEF Outside, CreateLink, DeleteLink, Tick, vars, tables, uncommitted, locks,
         StoreInv, TypeInv, TypeOK
<1>2. CommittedOK' /\ LinearHistory'
  BY <1>1, CommittedKept
<1>3. ASSUME NEW t \in Tx PROVE TxOK(t)'
  <2>1. HoldOK(t) /\ DirtyOK(t) /\ WriteOK(t) /\ SuccOK(t) /\ RowsOK(t)
    BY DEF StoreInv, TxOK
  <2>2. HoldOK(t)' /\ DirtyOK(t)' /\ WriteOK(t)' /\ SuccOK(t)'
    BY <1>1, <2>1 DEF HoldOK, DirtyOK, WriteOK, SuccOK, NoSuccessor, View
  <2>3. ASSUME NEW e \in Entry, dirty[t][e] # None
        PROVE  /\ dirty[t][e].archived <=> dirty[t][e].validTo # Open
               /\ IntervalHolds(dirty[t][e]) /\ dirty[t][e].validTo <= now'
    <3>1. dirty[t][e] \in Row /\ now \in Nat /\ now' \in Nat
      BY <2>3 DEF StoreInv, TypeInv, TypeOK
    <3> QED BY <1>1, <2>1, <2>3, <3>1 DEF RowsOK, WellFormed, Row, Open
  <2>4. RowsOK(t)'
    BY <1>1, <2>3 DEF RowsOK, WellFormed, IntervalHolds
  <2> QED BY <2>2, <2>4 DEF TxOK
<1> QED BY <1>2, <1>3 DEF StoreInv

LEMMA NextStoreInv == StoreInv /\ [Next]_vars => StoreInv'
<1> SUFFICES ASSUME StoreInv, [Next]_vars PROVE StoreInv'
  OBVIOUS
<1>1. TypeInv'
  BY NextTypeInv DEF StoreInv
<1> QED BY <1>1, NextCases, OutsideStore, ArriveStore, ControlStepStore, LockTargetStore,
           LockLeafStore, ArchiveWriteStore, CommitStore, RollbackStore, CreateInsertStore,
           ReviseWriteStore, AssignWriteStore, RestoreWriteStore, LinksAndEventsStore

LEMMA StoreInvariance == Spec => []StoreInv
BY InitStoreInv, NextStoreInv, PTL DEF Spec

\* restore, revise and GET /memory/{id}/history: committed chains are linear
\* and each entry is closed before its successor begins.
THEOREM ChainsAreLinear == Spec => []LinearHistory
<1>1. StoreInv => LinearHistory
  BY DEF StoreInv
<1> QED BY <1>1, StoreInvariance, PTL

\* archived and valid_to are set together, so restore never meets a leaf that
\* is neither current nor archived.
THEOREM RowsAreOpenOrClosed == Spec => []ClosedMeansArchived
<1>1. StoreInv => ClosedMeansArchived
  BY DEF StoreInv, CommittedOK, WellFormed, ClosedMeansArchived, Exists
<1> QED BY <1>1, StoreInvariance, PTL

\* history and restore: the chain of every entry is linear and each of its
\* entries is either open or closed and archived.
THEOREM HistoriesAreWellFormed == Spec => []HistoryWellFormed
BY ChainsAreLinear, RowsAreOpenOrClosed, PTL DEF HistoryWellFormed

\* get_for_update: the lock on the entry it closes makes revise or restore
\* the only request that gives it a successor; uq_memory_single_successor
\* never decides a race.
THEOREM RowLockOrdersAppends == Spec => []LeafIsMine
<1>1. ASSUME StoreInv, NEW t \in Tx, NEW e \in Entry,
             rowLock[e] = t, NoSuccessor(e), \A f \in Entry : dirty[t][f] = None
      PROVE  ~IndexWaits(t, e) /\ ~IndexFails(t, e)
  <2>1. ASSUME NEW u \in Tx \ {t}, NEW s \in Entry, dirty[u][s] # None
        PROVE  dirty[u][s].supersedes # e
    <3>1. CASE db[s] = None
      <4>1. dirty[u][s].supersedes # None => rowLock[dirty[u][s].supersedes] = u
        BY <1>1, <2>1, <3>1 DEF StoreInv, TxOK, SuccOK
      <4> QED BY <1>1, <4>1
    <3>2. CASE db[s] # None
      BY <1>1, <2>1, <3>2, DirtyFields DEF NoSuccessor
    <3> QED BY <3>1, <3>2
  <2>2. ~IndexFails(t, e)
    BY <1>1 DEF IndexFails, HasSuccessor, IsSuccessor, View, NoSuccessor
  <2> QED BY <2>1, <2>2 DEF IndexWaits
<1>2. ASSUME StoreInv, NEW t \in Tx, req[t].pc = "write", req[t].op = "revise"
      PROVE  ~IndexWaits(t, req[t].target) /\ ~IndexFails(t, req[t].target)
  <2>1. /\ HoldOK(t) /\ WriteOK(t) /\ NamesOK(req[t]) /\ CleanOK(t)
    BY <1>2, StartOfControl DEF StoreInv, TxOK
  <2>2. /\ req[t].target \in Entry /\ rowLock[req[t].target] = t /\ NoSuccessor(req[t].target)
        /\ \A f \in Entry : dirty[t][f] = None
    BY <1>2, <2>1 DEF HoldOK, WriteOK, NamesOK, Committed, CleanOK, BeforeWrite
  <2> QED BY <1>1, <1>2, <2>2
<1>3. ASSUME StoreInv, NEW t \in Tx, req[t].pc = "write", req[t].op = "restore"
      PROVE  ~IndexWaits(t, req[t].leaf) /\ ~IndexFails(t, req[t].leaf)
  <2>1. /\ HoldOK(t) /\ WriteOK(t) /\ NamesOK(req[t]) /\ CleanOK(t)
    BY <1>3, StartOfControl DEF StoreInv, TxOK
  <2>2. /\ req[t].leaf \in Entry /\ rowLock[req[t].leaf] = t /\ NoSuccessor(req[t].leaf)
        /\ \A f \in Entry : dirty[t][f] = None
    BY <1>3, <2>1 DEF HoldOK, WriteOK, NamesOK, Committed, CleanOK, BeforeWrite, BeforeLeaf
  <2> QED BY <1>1, <1>3, <2>2
<1>4. StoreInv => LeafIsMine
  BY <1>2, <1>3 DEF LeafIsMine, At
<1> QED BY <1>4, StoreInvariance, PTL

\* Only a commit changes committed rows, events and feeds.
LEMMA StateChangesByCommit ==
  ASSUME [Next]_vars
  PROVE  UNCHANGED <<db, feed, events>> \/ \E t \in Tx : Commit(t)
<1> DEFINE Kept == UNCHANGED <<db, feed, events>>
<1>1. Outside => Kept
  BY DEF Outside, CreateLink, DeleteLink, Tick, vars, tables
<1>2. ASSUME NEW t \in Tx, Arrive(t) \/ Control(t) PROVE Kept
  BY <1>2 DEF Arrive, BeginCreate, BeginRevise, BeginArchive, BeginRestore, BeginAssign,
              BeginStale, Begin, Control, AutoLinkDone, CheckTarget, CheckChain, CheckLeaf,
              WalkToLeaf, ReadLinks, EmitNothing, NextStale, tables
<1>3. ASSUME NEW t \in Tx, LockTarget(t) \/ LockLeaf(t) \/ ArchiveWrite(t) \/ Rollback(t)
      PROVE  Kept
  BY <1>3 DEF LockTarget, LockLeaf, ArchiveWrite, Rollback, tables
<1>4. ASSUME NEW t \in Tx, NEW n \in Entry,
             CreateInsert(t, n) \/ ReviseWrite(t, n) \/ AssignWrite(t, n)
             \/ RestoreWrite(t, n) \/ AutoLink(t, n)
      PROVE  Kept
  BY <1>4 DEF CreateInsert, ReviseWrite, AssignWrite, RestoreWrite, AutoLink, tables
<1>5. ASSUME NEW t \in Tx, NEW l \in Entry \X Entry, InheritLink(t, l) PROVE Kept
  BY <1>5 DEF InheritLink, tables
<1>6. ASSUME NEW t \in Tx, NEW p \in Project, Emit(t, p) PROVE Kept
  BY <1>6 DEF Emit, tables
<1> HIDE DEF Kept
<1>7. Kept \/ \E t \in Tx : Commit(t)
  BY <1>1, <1>2, <1>3, <1>4, <1>5, <1>6, NextCases
<1> QED BY <1>7 DEF Kept

\* Close of revise, restore, archive and assign: no committed row disappears
\* or changes except an open one, which is closed, whatever requests run.
THEOREM HistoryNeverRewritten == Spec => HistoryImmutable
<1> DEFINE Kept == \A e \in Entry : Exists(e) =>
                     /\ db'[e] # None
                     /\ \/ db'[e] = db[e]
                        \/ IsOpen(db[e]) /\ db'[e] = Close(db[e], db'[e].validTo)
<1>1. StoreInv /\ [Next]_vars => [Kept]_vars
  <2> SUFFICES ASSUME StoreInv, [Next]_vars PROVE Kept
    OBVIOUS
  <2>1. CASE db' = db
    BY <2>1 DEF Exists
  <2>2. CASE \E t \in Tx : Commit(t)
    BY <2>2, CommitRows DEF Exists
  <2> QED BY <2>1, <2>2, StateChangesByCommit
<1> QED BY <1>1, StoreInvariance, PTL DEF Spec, HistoryImmutable

-----------------------------------------------------------------------------
(* Chains.                                                                  *)

USE EntryAssumption

\* A walk of at most N steps along up, stopping at the entries of top.
Walks(w, N, top, up) ==
  w = [n \in 0..N |->
         [e \in Entry |-> IF n = 0 \/ e \in top THEN e ELSE w[n - 1][up[e]]]]

LEMMA WalkExists ==
  ASSUME NEW N \in Nat, NEW top, NEW up \in [Entry -> Entry]
  PROVE  \E w : Walks(w, N, top, up)
<1> DEFINE T == {n \in Nat : ~ \E w : Walks(w, n, top, up)}
<1> SUFFICES ASSUME T # {} PROVE FALSE
  OBVIOUS
<1>1. PICK n \in T : \A m \in T : n <= m
  BY LeastNumber
<1>2. CASE n = 0
  <2> DEFINE w == [k \in 0..0 |-> [e \in Entry |-> e]]
  <2>1. w = [k \in 0..0 |-> [e \in Entry |-> IF k = 0 \/ e \in top THEN e ELSE w[k - 1][up[e]]]]
    OBVIOUS
  <2> QED BY <1>2, <2>1 DEF Walks
<1>3. CASE n # 0
  <2>1. n - 1 \in Nat /\ n - 1 \notin T
    BY <1>1, <1>3
  <2>2. PICK w : Walks(w, n - 1, top, up)
    BY <2>1
  <2> DEFINE v == [k \in 0..n |-> [e \in Entry |->
                     IF k = 0 \/ e \in top THEN e ELSE w[k - 1][up[e]]]]
  <2>3. \A k \in 0..(n - 1), e \in Entry : v[k][e] = w[k][e]
    BY <2>2 DEF Walks
  <2>4. ASSUME NEW k \in 0..n, NEW e \in Entry
        PROVE  (IF k = 0 \/ e \in top THEN e ELSE w[k - 1][up[e]])
                 = (IF k = 0 \/ e \in top THEN e ELSE v[k - 1][up[e]])
    <3>1. k # 0 => k - 1 \in 0..(n - 1)
      BY <1>1
    <3> HIDE DEF v
    <3> QED BY <2>3, <3>1
  <2>6. ASSUME NEW k \in 0..n
        PROVE  [e \in Entry |-> IF k = 0 \/ e \in top THEN e ELSE w[k - 1][up[e]]]
                 = [e \in Entry |-> IF k = 0 \/ e \in top THEN e ELSE v[k - 1][up[e]]]
    <3> HIDE DEF v
    <3> QED BY <2>4
  <2>5. v = [k \in 0..n |-> [e \in Entry |->
               IF k = 0 \/ e \in top THEN e ELSE v[k - 1][up[e]]]]
    BY <2>6, Zenon
  <2> HIDE DEF v
  <2> QED BY <1>1, <2>5 DEF Walks
<1> QED BY <1>2, <1>3

Top(table) == {e \in Entry : table[e] = None \/ table[e].supersedes = None}
Up(table) == [e \in Entry |-> IF e \in Top(table) THEN e ELSE table[e].supersedes]

LEMMA RootWalk ==
  ASSUME NEW table \in [Entry -> Row \cup {None}]
  PROVE  \E w : /\ Walks(w, Cardinality(Entry), Top(table), Up(table))
                /\ Roots(table) = w[Cardinality(Entry)]
<1>1. Up(table) \in [Entry -> Entry]
  BY DEF Up, Top, Row
<1>2. Cardinality(Entry) \in Nat
  BY FS_CardinalityType
<1> DEFINE Def(w) == w = [n \in 0..Cardinality(Entry) |-> [e \in Entry |->
           IF n = 0 \/ table[e] = None \/ table[e].supersedes = None THEN e
           ELSE w[n - 1][table[e].supersedes]]]
<1>3. ASSUME NEW w PROVE Def(w) <=> Walks(w, Cardinality(Entry), Top(table), Up(table))
  BY DEF Walks, Top, Up
<1>4. Roots(table) = (CHOOSE w : Def(w))[Cardinality(Entry)]
  BY DEF Roots
<1> HIDE DEF Def
<1>5. \E w : Def(w)
  <2>1. PICK z : Walks(z, Cardinality(Entry), Top(table), Up(table))
    BY <1>1, <1>2, WalkExists
  <2>2. Def(z)
    BY <1>3, <2>1
  <2> QED BY <2>2
<1>6. Def(CHOOSE w : Def(w))
  BY <1>5
<1> QED BY <1>3, <1>4, <1>6

LEMMA WalkStep ==
  ASSUME NEW N \in Nat, NEW top, NEW up, NEW w, Walks(w, N, top, up),
         NEW k \in 0..N, NEW e \in Entry
  PROVE  w[k][e] = IF k = 0 \/ e \in top THEN e ELSE w[k - 1][up[e]]
<1> DEFINE next(n) == [f \in Entry |-> IF n = 0 \/ f \in top THEN f ELSE w[n - 1][up[f]]]
<1>1. w = [n \in 0..N |-> next(n)]
  BY DEF Walks
<1>2. next(k)[e] = IF k = 0 \/ e \in top THEN e ELSE w[k - 1][up[e]]
  OBVIOUS
<1> HIDE DEF next
<1>3. w[k] = next(k)
  BY <1>1
<1> QED BY <1>2, <1>3

\* One step further along a walk, taken at its far end.
LEMMA WalkFurther ==
  ASSUME NEW N \in Nat, NEW table \in [Entry -> Row \cup {None}], NEW w,
         Walks(w, N, Top(table), Up(table)), NEW n \in 0..N, NEW e \in Entry
  PROVE  /\ w[n][e] \in Entry
         /\ n # 0 => w[n][e] = Up(table)[w[n - 1][e]]
<1> DEFINE up == Up(table)
           top == Top(table)
           Fine(k, f) == w[k][f] \in Entry /\ (k # 0 => w[k][f] = up[w[k - 1][f]])
           T == {k \in 0..N : ~ \A f \in Entry : Fine(k, f)}
<1>1. up \in [Entry -> Entry] /\ \A f \in top : up[f] = f
  BY DEF Up, Top, Row
<1>3. SUFFICES ASSUME T # {} PROVE FALSE
  OBVIOUS
<1> HIDE DEF up, top
<1>2. \A k \in 0..N, f \in Entry :
        w[k][f] = IF k = 0 \/ f \in top THEN f ELSE w[k - 1][up[f]]
  BY WalkStep DEF up, top
<1>4. PICK k \in T : \A m \in T : k <= m
  <2> T \in SUBSET Nat
    OBVIOUS
  <2> HIDE DEF T
  <2> QED BY <1>3, LeastNumber
<1>5. PICK f \in Entry : ~Fine(k, f)
  OBVIOUS
<1>6. k # 0 /\ f \notin top
  <2>1. CASE k = 0
    BY <1>2, <1>5, <2>1
  <2>2. CASE k # 0 /\ f \in top
    <3>1. k - 1 \in 0..N /\ w[k][f] = f /\ w[k - 1][f] = f
      BY <1>2, <2>2
    <3> QED BY <1>1, <1>5, <2>2, <3>1
  <2> QED BY <2>1, <2>2
<1>7. k - 1 \in 0..N /\ k - 1 \notin T /\ up[f] \in Entry
  BY <1>1, <1>4, <1>6
<1>8. w[k][f] = w[k - 1][up[f]] /\ Fine(k - 1, up[f])
  BY <1>2, <1>6, <1>7
<1>9. CASE k = 1
  BY <1>2, <1>5, <1>7, <1>8, <1>9
<1>10. CASE k # 1
  <2>1. k - 2 \in 0..N /\ w[k - 1][f] = w[k - 2][up[f]]
    BY <1>2, <1>6, <1>7, <1>10
  <2>2. k - 1 - 1 = k - 2 /\ k - 1 # 0
    BY <1>7, <1>10
  <2> QED BY <1>5, <1>8, <2>1, <2>2
<1> QED BY <1>9, <1>10

\* S holds the predecessor of each of its entries, and what f says of an entry
\* it says of the predecessor.
Inherits(table, S, f) ==
  /\ table \in [Entry -> Row \cup {None}] /\ S \subseteq Entry
  /\ \A x \in S \ Top(table) :
       table[x].supersedes \in S /\ f[table[x].supersedes] = f[x]

\* What each entry has in common with its predecessor it has in common with
\* the start of its chain.
LEMMA RootKeeps ==
  ASSUME NEW table, NEW S, NEW f, Inherits(table, S, f)
  PROVE  \A e \in S : Roots(table)[e] \in S /\ f[Roots(table)[e]] = f[e]
<1>0. /\ table \in [Entry -> Row \cup {None}] /\ S \in SUBSET Entry
      /\ \A x \in S \ Top(table) :
           table[x].supersedes \in S /\ f[table[x].supersedes] = f[x]
  BY DEF Inherits
<1> DEFINE N == Cardinality(Entry)
<1>1. N \in Nat
  BY FS_CardinalityType
<1>2. PICK w : Walks(w, N, Top(table), Up(table)) /\ Roots(table) = w[N]
  BY <1>0, RootWalk
<1> HIDE DEF N
<1> DEFINE T == {k \in 0..N : ~ \A e \in S : w[k][e] \in S /\ f[w[k][e]] = f[e]}
<1>3. SUFFICES ASSUME T # {} PROVE FALSE
  BY <1>0, <1>1, <1>2
<1>4. PICK k \in T : \A m \in T : k <= m
  <2> T \in SUBSET Nat
    BY <1>1
  <2> HIDE DEF T
  <2> QED BY <1>3, LeastNumber
<1>5. PICK e \in S : ~ (w[k][e] \in S /\ f[w[k][e]] = f[e])
  OBVIOUS
<1>6. k # 0
  BY <1>0, <1>1, <1>2, <1>5, WalkStep
<1>7. k - 1 \in 0..N /\ k - 1 \notin T
  BY <1>1, <1>4, <1>6
<1>8. w[k - 1][e] \in S /\ f[w[k - 1][e]] = f[e]
  BY <1>7
<1>9. w[k][e] = Up(table)[w[k - 1][e]]
  BY <1>0, <1>1, <1>2, <1>6, WalkFurther
<1> QED BY <1>0, <1>5, <1>8, <1>9 DEF Up

\* Entries whose predecessors are the same in two tables have the same start.
LEMMA SameRoots ==
  ASSUME NEW old \in [Entry -> Row \cup {None}], NEW new \in [Entry -> Row \cup {None}],
         NEW S \in SUBSET Entry,
         \A e \in S : (e \in Top(old) <=> e \in Top(new))
                     /\ (e \notin Top(old) => /\ old[e].supersedes \in S
                                             /\ new[e].supersedes = old[e].supersedes)
  PROVE  \A e \in S : Roots(new)[e] = Roots(old)[e]
<1> DEFINE N == Cardinality(Entry)
<1>1. N \in Nat
  BY FS_CardinalityType
<1>2. PICK w : Walks(w, N, Top(old), Up(old)) /\ Roots(old) = w[N]
  BY RootWalk
<1>3. PICK v : Walks(v, N, Top(new), Up(new)) /\ Roots(new) = v[N]
  BY RootWalk
<1> HIDE DEF N
<1> DEFINE T == {k \in 0..N : ~ \A e \in S : w[k][e] = v[k][e]}
<1>4. SUFFICES ASSUME T # {} PROVE FALSE
  BY <1>1, <1>2, <1>3
<1>5. PICK k \in T : \A m \in T : k <= m
  <2> T \in SUBSET Nat
    BY <1>1
  <2> HIDE DEF T
  <2> QED BY <1>4, LeastNumber
<1>6. PICK e \in S : w[k][e] # v[k][e]
  OBVIOUS
<1>7. k # 0 /\ e \notin Top(old)
  BY <1>2, <1>3, <1>6 DEF Walks
<1>8. k - 1 \in 0..N /\ k - 1 \notin T
  BY <1>1, <1>5, <1>7
<1>9. Up(old)[e] \in S /\ Up(new)[e] = Up(old)[e]
  BY <1>7 DEF Up
<1>10. w[k - 1][Up(old)[e]] = v[k - 1][Up(old)[e]]
  BY <1>8, <1>9
<1>11. /\ w[k][e] = w[k - 1][Up(old)[e]]
       /\ v[k][e] = IF e \in Top(new) THEN e ELSE v[k - 1][Up(new)[e]]
  BY <1>1, <1>2, <1>3, <1>7, WalkStep
<1> QED BY <1>6, <1>7, <1>9, <1>10, <1>11

\* No entry of S has two successors in it, and R holds between an entry and
\* those that descend from it.
Unbranched(table, S, R) ==
  /\ table \in [Entry -> Row \cup {None}] /\ S \subseteq Entry
  /\ \A x \in S \ Top(table) : table[x].supersedes \in S
  /\ \A x, y \in S \ Top(table) : table[x].supersedes = table[y].supersedes => x = y
  /\ \A x \in S : <<x, x>> \in R
  /\ \A x \in S \ Top(table), y \in S :
       <<x, y>> \in R => <<table[x].supersedes, y>> \in R

\* Of two entries with one start, one descends from the other.
LEMMA SameChain ==
  ASSUME NEW table, NEW S, NEW R, Unbranched(table, S, R),
         NEW a \in S, NEW b \in S, Roots(table)[a] = Roots(table)[b]
  PROVE  <<a, b>> \in R \/ <<b, a>> \in R
<1>0. /\ table \in [Entry -> Row \cup {None}] /\ S \in SUBSET Entry
      /\ \A x \in S \ Top(table) : table[x].supersedes \in S
      /\ \A x, y \in S \ Top(table) : table[x].supersedes = table[y].supersedes => x = y
      /\ \A x \in S : <<x, x>> \in R
      /\ \A x \in S \ Top(table), y \in S :
           <<x, y>> \in R => <<table[x].supersedes, y>> \in R
  BY DEF Unbranched
<1> DEFINE N == Cardinality(Entry)
           up == Up(table)
           top == Top(table)
<1>1. N \in Nat
  BY FS_CardinalityType
<1>2. PICK w : Walks(w, N, top, up) /\ Roots(table) = w[N]
  BY <1>0, RootWalk
<1>3. \A x \in S : up[x] \in S
  BY <1>0 DEF Up
<1>4. \A x \in S, y \in S : <<x, y>> \in R => <<up[x], y>> \in R
  BY <1>0 DEF Up
<1>5. \A x \in S, y \in S : up[x] = up[y] => x = y \/ up[x] = x \/ up[y] = y
  BY <1>0 DEF Up
<1>6. \A k \in 0..N, e \in Entry : k # 0 => w[k][e] = up[w[k - 1][e]]
  BY <1>0, <1>1, <1>2, WalkFurther
<1>7. \A e \in Entry : w[0][e] = e
  BY <1>0, <1>1, <1>2, WalkStep
<1> HIDE DEF N, up, top
<1>8. \A k \in 0..N, e \in S : w[k][e] \in S /\ <<w[k][e], e>> \in R
  <2> DEFINE T == {k \in 0..N : ~ \A e \in S : w[k][e] \in S /\ <<w[k][e], e>> \in R}
  <2> SUFFICES ASSUME T # {} PROVE FALSE
    OBVIOUS
  <2>1. PICK k \in T : \A m \in T : k <= m
    <3> T \in SUBSET Nat
      BY <1>1
    <3> HIDE DEF T
    <3> QED BY LeastNumber
  <2>2. PICK e \in S : ~ (w[k][e] \in S /\ <<w[k][e], e>> \in R)
    OBVIOUS
  <2>3. k # 0
    BY <1>0, <1>7, <2>2
  <2>4. k - 1 \in 0..N /\ k - 1 \notin T
    BY <1>1, <2>1, <2>3
  <2>5. w[k - 1][e] \in S /\ <<w[k - 1][e], e>> \in R
    BY <2>4
  <2>6. w[k][e] = up[w[k - 1][e]]
    BY <1>0, <1>6, <2>3
  <2> QED BY <1>3, <1>4, <2>2, <2>5, <2>6
<1> DEFINE Related(x, y) == <<x, y>> \in R \/ <<y, x>> \in R
           Meets(s) == \A k \in 0..N, m \in 0..N :
                         k + m = s => \A x, y \in S : w[k][x] = w[m][y] => Related(x, y)
           T == {s \in Nat : ~Meets(s)}
<1>9. Meets(N + N) => Related(a, b)
  BY <1>1, <1>2
<1> SUFFICES ASSUME T # {} PROVE FALSE
  <2>1. N + N \in Nat
    BY <1>1
  <2> HIDE DEF Meets, Related
  <2>2. T = {} => Meets(N + N)
    BY <2>1
  <2> QED BY <1>9, <2>2 DEF Related
<1>11. PICK s \in T : \A r \in T : s <= r
  <2> T \in SUBSET Nat
    OBVIOUS
  <2> HIDE DEF T
  <2> QED BY LeastNumber
<1>12. PICK k \in 0..N, m \in 0..N, x \in S, y \in S :
         k + m = s /\ w[k][x] = w[m][y] /\ ~Related(x, y)
  BY <1>11
<1>13. k # 0 /\ m # 0
  BY <1>0, <1>1, <1>7, <1>8, <1>12
<1>14. /\ k - 1 \in 0..N /\ m - 1 \in 0..N
       /\ (k - 1) + m < s /\ k + (m - 1) < s /\ (k - 1) + (m - 1) < s
  BY <1>1, <1>12, <1>13
<1>15. \A i \in 0..N, j \in 0..N : i + j < s => w[i][x] # w[j][y]
  <2> SUFFICES ASSUME NEW i \in 0..N, NEW j \in 0..N, i + j < s PROVE w[i][x] # w[j][y]
    OBVIOUS
  <2>1. i + j \in Nat /\ ~ (s <= i + j)
    BY <1>1
  <2>2. Meets(i + j)
    <3> HIDE DEF Meets
    <3> QED BY <1>11, <2>1
  <2> HIDE DEF Related
  <2> QED BY <1>12, <2>2
<1>16. w[k - 1][x] \in S /\ w[m - 1][y] \in S
  BY <1>8, <1>14
<1>17. w[k - 1][x] # w[m - 1][y] /\ w[k - 1][x] # w[m][y] /\ w[k][x] # w[m - 1][y]
  BY <1>12, <1>14, <1>15
<1>18. w[k][x] = up[w[k - 1][x]] /\ w[m][y] = up[w[m - 1][y]]
  BY <1>0, <1>6, <1>13
<1>19. up[w[k - 1][x]] = up[w[m - 1][y]]
  BY <1>12, <1>18
<1> QED BY <1>5, <1>16, <1>17, <1>18, <1>19

\* In S every entry succeeds an entry of S that comes before it.
Ranked(table, S, rank) ==
  /\ table \in [Entry -> Row \cup {None}] /\ S \subseteq Entry /\ rank \in [Entry -> Int]
  /\ \A x \in S \ Top(table) :
       table[x].supersedes \in S /\ rank[table[x].supersedes] < rank[x]

\* Then a walk is long enough: an entry and its predecessor have one start.
LEMMA RootStep ==
  ASSUME NEW table, NEW S, NEW rank, Ranked(table, S, rank), NEW x \in S \ Top(table)
  PROVE  Roots(table)[x] = Roots(table)[table[x].supersedes]
<1>0. /\ table \in [Entry -> Row \cup {None}] /\ S \in SUBSET Entry /\ rank \in [Entry -> Int]
      /\ \A y \in S \ Top(table) :
           table[y].supersedes \in S /\ rank[table[y].supersedes] < rank[y]
  BY DEF Ranked
<1> DEFINE N == Cardinality(Entry)
           up == Up(table)
           top == Top(table)
           Below(y) == {z \in S : rank[z] < rank[y]}
<1>1. N \in Nat
  BY FS_CardinalityType
<1>2. PICK w : Walks(w, N, top, up) /\ Roots(table) = w[N]
  BY <1>0, RootWalk
<1>3. \A y \in S \ top : up[y] \in S /\ rank[up[y]] < rank[y] /\ up[y] = table[y].supersedes
  BY <1>0 DEF Up
<1>4. \A y \in top : up[y] = y
  BY DEF Up, Top
<1>5. \A k \in 0..N, y \in Entry :
        w[k][y] = IF k = 0 \/ y \in top THEN y ELSE w[k - 1][up[y]]
  BY <1>1, <1>2, WalkStep
<1>6. \A k \in 0..N, y \in Entry : k # 0 => w[k][y] = up[w[k - 1][y]]
  BY <1>0, <1>1, <1>2, WalkFurther
<1> HIDE DEF N, up, top
<1>7. ASSUME NEW y \in S
      PROVE  IsFiniteSet(Below(y)) /\ Cardinality(Below(y)) \in Nat
             /\ Cardinality(Below(y)) < N
  <2>1. Below(y) \in SUBSET Entry /\ y \in Entry /\ y \notin Below(y)
    BY <1>0
  <2> HIDE DEF Below
  <2>2. /\ IsFiniteSet(Below(y)) /\ Cardinality(Below(y)) <= Cardinality(Entry)
        /\ Cardinality(Entry) = Cardinality(Below(y)) => Entry = Below(y)
    BY <2>1, FS_Subset
  <2>3. Cardinality(Below(y)) \in Nat
    BY <2>2, FS_CardinalityType
  <2> QED BY <1>1, <2>1, <2>2, <2>3 DEF N
<1>8. ASSUME NEW y \in S \ top
      PROVE  Cardinality(Below(up[y])) < Cardinality(Below(y))
  <2>1. up[y] \in S /\ rank[up[y]] < rank[y]
    BY <1>3
  <2>2. /\ Below(up[y]) \in SUBSET Below(y)
        /\ up[y] \in Below(y) /\ up[y] \notin Below(up[y])
    BY <1>0, <2>1
  <2>3. /\ IsFiniteSet(Below(y))
        /\ Cardinality(Below(y)) \in Nat /\ Cardinality(Below(up[y])) \in Nat
    BY <1>7, <2>1
  <2> HIDE DEF Below
  <2>4. /\ Cardinality(Below(up[y])) <= Cardinality(Below(y))
        /\ Cardinality(Below(y)) = Cardinality(Below(up[y])) => Below(y) = Below(up[y])
    BY <2>2, <2>3, FS_Subset
  <2> QED BY <2>2, <2>3, <2>4
<1> DEFINE c(y) == Cardinality(Below(y))
<1>9. \A y \in S : c(y) \in Nat /\ c(y) < N
  BY <1>7
<1>10. \A y \in S \ top : c(up[y]) < c(y)
  BY <1>8
<1> HIDE DEF c, Below
<1>11. \A k \in 0..N, y \in S : c(y) <= k => w[k][y] \in top
  <2> DEFINE T == {k \in 0..N : ~ \A y \in S : c(y) <= k => w[k][y] \in top}
  <2> SUFFICES ASSUME T # {} PROVE FALSE
    OBVIOUS
  <2>1. PICK k \in T : \A m \in T : k <= m
    <3> T \in SUBSET Nat
      BY <1>1
    <3> HIDE DEF T
    <3> QED BY LeastNumber
  <2>2. PICK y \in S : c(y) <= k /\ w[k][y] \notin top
    OBVIOUS
  <2>3. y \in Entry /\ k \in 0..N
    BY <1>0
  <2>4. y \notin top
    BY <1>5, <2>2, <2>3
  <2>5. up[y] \in S /\ c(up[y]) < c(y) /\ c(up[y]) \in Nat /\ c(y) \in Nat
    BY <1>3, <1>9, <1>10, <2>4
  <2>6. k # 0 /\ k - 1 \in 0..N /\ c(up[y]) <= k - 1
    BY <1>1, <2>2, <2>3, <2>5
  <2>7. k - 1 \notin T
    BY <2>1, <2>3, <2>6
  <2>8. w[k - 1][up[y]] \in top
    BY <2>5, <2>6, <2>7
  <2>9. w[k][y] = w[k - 1][up[y]]
    BY <1>5, <2>3, <2>4, <2>6
  <2> QED BY <2>2, <2>8, <2>9
<1>12. x \in S \ top /\ x \in Entry
  BY <1>0 DEF top
<1>13. up[x] \in S /\ up[x] \in Entry /\ up[x] = table[x].supersedes
  BY <1>0, <1>3, <1>12
<1>14. N # 0 /\ N - 1 \in 0..N /\ N \in 0..N /\ c(up[x]) <= N - 1
  <2>1. c(up[x]) < c(x) /\ c(x) < N /\ c(x) \in Nat /\ c(up[x]) \in Nat
    BY <1>9, <1>10, <1>12, <1>13
  <2> QED BY <1>1, <2>1
<1>15. w[N - 1][up[x]] \in top
  BY <1>11, <1>13, <1>14
<1>16. w[N][x] = w[N - 1][up[x]]
  BY <1>5, <1>12, <1>14
<1>17. w[N][up[x]] = w[N - 1][up[x]]
  BY <1>4, <1>6, <1>13, <1>14, <1>15
<1> QED BY <1>2, <1>13, <1>16, <1>17

-----------------------------------------------------------------------------
(* What a request has written, and the chains it has read.                  *)

\* A row whose history is unknown is archived and in no chain; an entry
\* belongs to the project of the entry it succeeds.
HeirsOK ==
  \A e \in Entry : db[e] # None =>
    /\ db[e].history \/ db[e].archived
    /\ db[e].supersedes # None =>
         /\ db[e].history /\ db[db[e].supersedes].history
         /\ db[db[e].supersedes].project = db[e].project

\* The source and the leaf of a restore are in the chain of its target.
SourceOK(t) ==
  req[t].op = "restore" /\ req[t].pc \notin {"lock", "chain"} =>
    /\ db[req[t].source].history
    /\ RootOf[req[t].source] = RootOf[req[t].target]
    /\ req[t].pc \notin BeforeLeaf => RootOf[req[t].leaf] = RootOf[req[t].target]

Wrote(t) == req[t].pc \notin BeforeWrite

\* The version with which t begins an entry of p that succeeds x, and the
\* closing of e at the same moment.
Inserted(t, p, x) ==
  dirty[t][req[t].fresh] = NewRow(p, dirty[t][req[t].fresh].validFrom, x)

Replaced(t, e) ==
  IsOpen(db[e]) /\ dirty[t][e] = Close(db[e], dirty[t][req[t].fresh].validFrom)

OnlyWrote(t, S) == \A e \in Entry \ S : dirty[t][e] = None

\* Everything each operation has written once it has written.
ArchivedOK(t) ==
  req[t].op \in {"archive", "stale"} =>
    /\ \A e \in Entry : dirty[t][e] # None =>
         db[e] # None /\ IsOpen(db[e]) /\ dirty[t][e] = Close(db[e], dirty[t][e].validTo)
    /\ req[t].op = "archive" /\ Wrote(t) =>
         dirty[t][req[t].target] # None /\ OnlyWrote(t, {req[t].target})

CreatedOK(t) ==
  req[t].op = "create" /\ Wrote(t) =>
    Inserted(t, req[t].project, None) /\ OnlyWrote(t, {req[t].fresh})

RevisedOK(t) ==
  req[t].op = "revise" /\ Wrote(t) =>
    /\ Inserted(t, db[req[t].target].project, req[t].target)
    /\ Replaced(t, req[t].target)
    /\ OnlyWrote(t, {req[t].fresh, req[t].target})

RestoredOK(t) ==
  req[t].op = "restore" /\ Wrote(t) =>
    /\ Inserted(t, db[req[t].leaf].project, req[t].leaf)
    /\ IsOpen(db[req[t].leaf]) => Replaced(t, req[t].leaf) /\ req[t].source # req[t].leaf
    /\ ~IsOpen(db[req[t].leaf]) => dirty[t][req[t].leaf] = db[req[t].leaf]
    /\ OnlyWrote(t, {req[t].fresh, req[t].leaf})

AssignedOK(t) ==
  req[t].op = "assign" /\ Wrote(t) =>
    /\ Inserted(t, req[t].project, None)
    /\ Replaced(t, req[t].target)
    /\ db[req[t].target].project = None /\ db[req[t].target].supersedes = None
    /\ OnlyWrote(t, {req[t].fresh, req[t].target})

WrittenOK(t) ==
  ArchivedOK(t) /\ CreatedOK(t) /\ RevisedOK(t) /\ RestoredOK(t) /\ AssignedOK(t)

\* What the checks of restore and assign found, until the request writes.
CheckedOK(t) ==
  req[t].pc = "write" =>
    /\ req[t].op = "restore" /\ IsOpen(db[req[t].leaf]) => req[t].source # req[t].leaf
    /\ req[t].op = "assign" =>
         db[req[t].target].project = None /\ db[req[t].target].supersedes = None

TxHeirs(t) == SourceOK(t) /\ WrittenOK(t) /\ CheckedOK(t)

ChainInv == StoreInv /\ HeirsOK /\ \A t \in Tx : TxHeirs(t)

-----------------------------------------------------------------------------

Chained == {e \in Entry : db[e] # None}

LEMMA ChainedFacts ==
  ASSUME StoreInv
  PROVE  /\ db \in [Entry -> Row \cup {None}]
         /\ Chained \in SUBSET Entry
         /\ \A x \in Chained \ Top(db) : db[x].supersedes \in Chained
<1>1. db \in [Entry -> Row \cup {None}]
  BY DEF StoreInv, TypeInv, TypeOK
<1>2. ASSUME NEW x \in Chained \ Top(db) PROVE db[x].supersedes \in Chained
  <2>1. db[x] # None /\ db[x].supersedes # None /\ db[x].supersedes \in Entry
    BY <1>1 DEF Chained, Top, Row
  <2> QED BY <2>1 DEF StoreInv, LinearHistory, Exists, Chained
<1> QED BY <1>1, <1>2 DEF Chained

\* Entries of one chain are of one project, and all have a known history if
\* one has.
LEMMA ChainHeirs ==
  ASSUME StoreInv, HeirsOK, NEW a \in Entry, NEW b \in Entry,
         db[a] # None, db[b] # None, RootOf[a] = RootOf[b]
  PROVE  /\ db[a].project = db[b].project
         /\ db[a].history => db[b].history
<1>1. a \in Chained /\ b \in Chained
  BY DEF Chained
<1> DEFINE f == [e \in Entry |-> db[e].project]
           Known == {e \in Chained : db[e].history}
           Unknown == {e \in Chained : ~db[e].history}
<1>2. \A x \in Chained \ Top(db) :
        /\ db[x].supersedes \in Chained /\ f[db[x].supersedes] = f[x]
        /\ db[x].history /\ db[db[x].supersedes].history
  BY ChainedFacts DEF HeirsOK, Chained, Top
<1>3. Inherits(db, Chained, f) /\ Inherits(db, Known, f) /\ Inherits(db, Unknown, f)
  <2> HIDE DEF f
  <2> QED BY <1>2, ChainedFacts DEF Inherits
<1>4. a \in Entry /\ b \in Entry /\ f[a] = db[a].project /\ f[b] = db[b].project
  OBVIOUS
<1> HIDE DEF f
<1>5. f[a] = f[b]
  <2>1. f[Roots(db)[a]] = f[a] /\ f[Roots(db)[b]] = f[b]
    BY <1>1, <1>3, RootKeeps
  <2> QED BY <2>1 DEF RootOf
<1>6. ASSUME db[a].history, ~db[b].history PROVE FALSE
  <2>1. a \in Known /\ b \in Unknown
    BY <1>1, <1>6
  <2>2. Roots(db)[a] \in Known /\ Roots(db)[b] \in Unknown
    <3> HIDE DEF Known, Unknown
    <3> QED BY <1>3, <2>1, RootKeeps
  <2> QED BY <2>2 DEF RootOf
<1> QED BY <1>4, <1>5, <1>6

\* A commit leaves the start of every committed chain where it was.
LEMMA RootsKept ==
  ASSUME StoreInv, TypeInv', NEW t \in Tx, Commit(t), NEW e \in Entry, db[e] # None
  PROVE  RootOf'[e] = RootOf[e]
<1>1. db \in [Entry -> Row \cup {None}] /\ db' \in [Entry -> Row \cup {None}]
  BY ChainedFacts DEF TypeInv, TypeOK
<1>2. ASSUME NEW x \in Chained
      PROVE  /\ x \in Top(db) <=> x \in Top(db')
             /\ x \notin Top(db) => /\ db[x].supersedes \in Chained
                                    /\ db'[x].supersedes = db[x].supersedes
  <2>1. db[x] # None /\ x \in Entry
    BY DEF Chained
  <2>2. db'[x] # None /\ db'[x].supersedes = db[x].supersedes
    BY <2>1, CommitRows
  <2> QED BY <2>1, <2>2, ChainedFacts DEF Top
<1>3. Chained \in SUBSET Entry /\ e \in Chained
  BY DEF Chained
<1>4. Roots(db')[e] = Roots(db)[e]
  BY <1>1, <1>2, <1>3, SameRoots
<1> QED BY <1>4 DEF RootOf

\* How the steps that only move a request move it.
LEMMA ControlMoves ==
  ASSUME TypeInv, NEW t \in Tx, Control(t)
  PROVE  /\ UNCHANGED <<db, feed, events, now, uncommitted, locks>>
         /\ \A u \in Tx \ {t} : req'[u] = req[u]
         /\ req'[t].op = req[t].op /\ req'[t].source = req[t].source
         /\ req'[t].project = req[t].project /\ req'[t].fresh = req[t].fresh
         /\ req[t].pc = "next" \/ req'[t].target = req[t].target
         /\ req[t].pc = "walk" \/ req'[t].leaf = req[t].leaf
         /\ \/ req[t].pc = "check" /\ req'[t].pc = "write"
            \/ req[t].pc = "chain" /\ req'[t].pc = "walk"
            \/ req[t].pc = "walk" /\ req'[t].pc = "lockleaf"
            \/ req[t].pc = "next" /\ req'[t].pc \in {"lock", "commit"}
            \/ req[t].pc = "emit" /\ req'[t].pc = AfterEmit(t) /\ EmitNothing(t)
            \/ req[t].pc = "autolink" /\ req'[t].pc = "emit"
            \/ req[t].pc = "readlinks" /\ req'[t].pc \in {"emit", "inherit"}
<1>0. req[t] \in Request /\ req \in [Tx -> Request]
  BY StartOfControl
<1>1. UNCHANGED <<db, feed, events, now, uncommitted, locks>>
  BY DEF Control, AutoLinkDone, CheckTarget, CheckChain, CheckLeaf, WalkToLeaf,
         ReadLinks, EmitNothing, NextStale, tables
<1> DEFINE Frame == /\ \A u \in Tx \ {t} : req'[u] = req[u]
                    /\ req'[t].op = req[t].op /\ req'[t].source = req[t].source
                    /\ req'[t].project = req[t].project /\ req'[t].fresh = req[t].fresh
                    /\ req[t].pc = "next" \/ req'[t].target = req[t].target
                    /\ req[t].pc = "walk" \/ req'[t].leaf = req[t].leaf
<1>2. CheckTarget(t) \/ CheckLeaf(t) => Frame /\ req[t].pc = "check" /\ req'[t].pc = "write"
  BY <1>0 DEF CheckTarget, CheckLeaf, At, Goto, Request
<1>3. CheckChain(t) => Frame /\ req[t].pc = "chain" /\ req'[t].pc = "walk"
  BY <1>0 DEF CheckChain, At, Goto, Request
<1>4. WalkToLeaf(t) => Frame /\ req[t].pc = "walk" /\ req'[t].pc = "lockleaf"
  BY <1>0 DEF WalkToLeaf, At, Request
<1>5. NextStale(t) => Frame /\ req[t].pc = "next" /\ req'[t].pc \in {"lock", "commit"}
  <2>1. ASSUME NextStale(t), NEW e \in req[t].todo,
               req' = [req EXCEPT ![t].pc = "lock", ![t].target = e, ![t].todo = @ \ {e}]
        PROVE  Frame /\ req[t].pc = "next" /\ req'[t].pc = "lock"
    BY <1>0, <2>1 DEF NextStale, At, Request
  <2>2. ASSUME NextStale(t), Goto(t, "commit")
        PROVE  Frame /\ req[t].pc = "next" /\ req'[t].pc = "commit"
    BY <1>0, <2>2 DEF NextStale, At, Goto, Request
  <2>3. ASSUME NextStale(t)
        PROVE  \/ Goto(t, "commit")
               \/ \E e \in req[t].todo :
                    req' = [req EXCEPT ![t].pc = "lock", ![t].target = e, ![t].todo = @ \ {e}]
    BY <2>3 DEF NextStale
  <2> QED BY <2>1, <2>2, <2>3
<1>6. EmitNothing(t) => Frame /\ req[t].pc = "emit" /\ req'[t].pc = AfterEmit(t)
  BY <1>0 DEF EmitNothing, AfterEmit, At, Goto, Request
<1>7. AutoLinkDone(t) => Frame /\ req[t].pc = "autolink" /\ req'[t].pc = "emit"
  BY <1>0 DEF AutoLinkDone, At, Goto, Request
<1>8. ReadLinks(t) => Frame /\ req[t].pc = "readlinks" /\ req'[t].pc \in {"emit", "inherit"}
  BY <1>0 DEF ReadLinks, AfterLinks, At, Request
<1> QED BY <1>1, <1>2, <1>3, <1>4, <1>5, <1>6, <1>7, <1>8 DEF Control

LEMMA InitChainInv == Init => ChainInv
<1> SUFFICES ASSUME Init PROVE ChainInv
  OBVIOUS
<1>1. ASSUME NEW e \in Entry, db[e] # None
      PROVE  (db[e].history \/ db[e].archived) /\ db[e].supersedes = None
  <2> DEFINE first == NewRow(Home[e], 0, None)
             last == [Close(first, Cutover) EXCEPT !.history = FALSE]
  <2>1. db[e] = MigratedTable[e]
    BY DEF Init
  <2>2. CASE e \in Migrated
    BY <2>1, <2>2 DEF MigratedTable, NewRow
  <2>3. CASE e \notin Migrated /\ e \in Legacy
    <3>1. first \in Row /\ first.supersedes = None
      BY <2>3, NewRowType DEF NewRow
    <3>2. last.archived /\ last.supersedes = None
      BY <3>1 DEF Close, Row
    <3>3. db[e] = last
      BY <2>1, <2>3 DEF MigratedTable
    <3> HIDE DEF first, last
    <3> QED BY <3>2, <3>3
  <2> QED BY <1>1, <2>1, <2>2, <2>3 DEF MigratedTable
<1>2. HeirsOK
  BY <1>1 DEF HeirsOK
<1>3. ASSUME NEW t \in Tx PROVE TxHeirs(t)
  BY DEF Init, TxHeirs, SourceOK, CheckedOK, WrittenOK, ArchivedOK, CreatedOK, RevisedOK,
         RestoredOK, AssignedOK, Idle, OpNames
<1> QED BY <1>2, <1>3, InitStoreInv DEF ChainInv

\* A step of t that commits nothing.
LEMMA QuietHeirs ==
  ASSUME ChainInv, StoreInv', NEW t \in Tx, UNCHANGED db,
         \A u \in Tx \ {t} : req'[u] = req[u] /\ dirty'[u] = dirty[u],
         TxHeirs(t)'
  PROVE  ChainInv'
<1>1. HeirsOK'
  BY DEF ChainInv, HeirsOK
<1>2. ASSUME NEW u \in Tx \ {t} PROVE TxHeirs(u)'
  <2>1. SourceOK(u) /\ WrittenOK(u) /\ CheckedOK(u) /\ req'[u] = req[u] /\ dirty'[u] = dirty[u]
    BY DEF ChainInv, TxHeirs
  <2>2. SourceOK(u)' /\ CheckedOK(u)'
    <3>1. RootOf' = RootOf
      BY DEF RootOf
    <3>2. SourceOK(u)'
      BY <2>1, <3>1 DEF SourceOK
    <3>3. CheckedOK(u)'
      BY <2>1 DEF CheckedOK, IsOpen
    <3> QED BY <3>2, <3>3
  <2>3. WrittenOK(u)'
    <3>1. ArchivedOK(u)' /\ CreatedOK(u)'
      BY <2>1 DEF WrittenOK, ArchivedOK, CreatedOK, Wrote, Inserted, OnlyWrote, IsOpen,
                  Close, NewRow
    <3>2. RevisedOK(u)'
      BY <2>1 DEF WrittenOK, RevisedOK, Wrote, Inserted, Replaced, OnlyWrote, IsOpen,
                  Close, NewRow
    <3>3. RestoredOK(u)'
      BY <2>1 DEF WrittenOK, RestoredOK, Wrote, Inserted, Replaced, OnlyWrote, IsOpen,
                  Close, NewRow
    <3>4. AssignedOK(u)'
      BY <2>1 DEF WrittenOK, AssignedOK, Wrote, Inserted, Replaced, OnlyWrote, IsOpen,
                  Close, NewRow
    <3> QED BY <3>1, <3>2, <3>3, <3>4 DEF WrittenOK
  <2> QED BY <2>2, <2>3 DEF TxHeirs
<1> QED BY <1>1, <1>2 DEF ChainInv

\* A step that moves the request of t and writes no row.
LEMMA MoveHeirs ==
  ASSUME ChainInv, StoreInv', NEW t \in Tx, UNCHANGED <<db, dirty>>,
         \A u \in Tx \ {t} : req'[u] = req[u],
         req'[t].op = req[t].op, req'[t].source = req[t].source,
         req'[t].project = req[t].project, req'[t].fresh = req[t].fresh,
         req[t].pc = "next" \/ req'[t].target = req[t].target,
         req[t].pc = "walk" \/ req'[t].leaf = req[t].leaf,
         Wrote(t)' => Wrote(t),
         SourceOK(t)', CheckedOK(t)'
  PROVE  ChainInv'
<1>1. WrittenOK(t) /\ PathOK(req[t])
  BY StartOfControl DEF ChainInv, TxHeirs, StoreInv
<1>2. req[t].pc = "next" => req[t].op = "stale"
  BY <1>1, StartOfControl DEF PathOK, Request, OpNames, ChainInv, StoreInv
<1>3. req[t].pc = "walk" => ~Wrote(t)
  BY DEF Wrote, BeforeWrite
<1>4. WrittenOK(t)'
  <2>1. ArchivedOK(t)' /\ CreatedOK(t)'
    BY <1>1, <1>2 DEF WrittenOK, ArchivedOK, CreatedOK, Inserted, OnlyWrote, IsOpen, Close,
                      NewRow
  <2>2. RevisedOK(t)'
    BY <1>1, <1>2 DEF WrittenOK, RevisedOK, Inserted, Replaced, OnlyWrote, IsOpen, Close,
                      NewRow
  <2>3. RestoredOK(t)'
    BY <1>1, <1>3 DEF WrittenOK, RestoredOK, Inserted, Replaced, OnlyWrote, IsOpen, Close,
                      NewRow
  <2>4. AssignedOK(t)'
    BY <1>1, <1>2 DEF WrittenOK, AssignedOK, Inserted, Replaced, OnlyWrote, IsOpen, Close,
                      NewRow
  <2> QED BY <2>1, <2>2, <2>3, <2>4 DEF WrittenOK
<1> QED BY <1>4, QuietHeirs DEF TxHeirs

LEMMA ArriveHeirs ==
  ASSUME ChainInv, StoreInv', NEW t \in Tx, Arrive(t)
  PROVE  ChainInv'
<1>1. PICK r \in Request : Begin(t, r) /\ PathOK(r) /\ r.pc \in {"insert", "lock", "next"}
  BY ArriveRequest
<1>2. /\ req[t].pc = "idle" /\ req' = [req EXCEPT ![t] = r]
      /\ UNCHANGED <<db, dirty>>
  BY <1>1 DEF Begin, At, tables, uncommitted
<1>3. req'[t] = r /\ \A u \in Tx \ {t} : req'[u] = req[u]
  BY <1>2 DEF ChainInv, StoreInv, TypeInv, TypeOK
<1>4. \A e \in Entry : dirty[t][e] = None
  BY <1>2, StartOfControl DEF ChainInv, StoreInv, CleanOK, PathOK, BeforeWrite
<1>5. r.op = "restore" => r.pc = "lock"
  BY <1>1 DEF PathOK
<1>6. r.pc = "next" => r.op = "stale"
  BY <1>1 DEF PathOK, Request, OpNames
<1>7. SourceOK(t)' /\ CheckedOK(t)'
  BY <1>1, <1>3, <1>5 DEF SourceOK, CheckedOK
<1>8. WrittenOK(t)'
  BY <1>1, <1>2, <1>3, <1>4, <1>6 
  DEF WrittenOK, ArchivedOK, CreatedOK, RevisedOK, RestoredOK, AssignedOK, Wrote,
      BeforeWrite, OnlyWrote
<1> QED BY <1>2, <1>3, <1>7, <1>8, QuietHeirs DEF TxHeirs

\* The check of the source reads the chain as it is committed.
LEMMA ReadChain ==
  ASSUME StoreInv, NEW t \in Tx, \A e \in Entry : dirty[t][e] = None, NEW e \in Entry
  PROVE  ChainOf(t, e) = {s \in Entry : db[s] # None /\ RootOf[s] = RootOf[e]}
<1>1. \A s \in Entry : View(t, s) = db[s]
  BY DEF View
<1>2. [s \in Entry |-> View(t, s)] = db
  BY <1>1, ChainedFacts
<1> QED BY <1>1, <1>2 DEF ChainOf, RootOf

LEMMA ControlHeirs ==
  ASSUME ChainInv, StoreInv', NEW t \in Tx, Control(t)
  PROVE  ChainInv'
<1>0. /\ PathOK(req[t]) /\ NamesOK(req[t]) /\ CleanOK(t) /\ req[t] \in Request
      /\ SourceOK(t) /\ CheckedOK(t) /\ StoreInv
  BY StartOfControl DEF ChainInv, StoreInv, TxHeirs
<1>1. /\ UNCHANGED <<db, dirty>>
      /\ \A u \in Tx \ {t} : req'[u] = req[u]
      /\ req'[t].op = req[t].op /\ req'[t].source = req[t].source
      /\ req'[t].project = req[t].project /\ req'[t].fresh = req[t].fresh
      /\ req[t].pc = "next" \/ req'[t].target = req[t].target
      /\ req[t].pc = "walk" \/ req'[t].leaf = req[t].leaf
      /\ \/ req[t].pc = "check" /\ req'[t].pc = "write"
         \/ req[t].pc = "chain" /\ req'[t].pc = "walk"
         \/ req[t].pc = "walk" /\ req'[t].pc = "lockleaf"
         \/ req[t].pc = "next" /\ req'[t].pc \in {"lock", "commit"}
         \/ req[t].pc = "emit" /\ req'[t].pc \in {"next", "commit"}
         \/ req[t].pc = "autolink" /\ req'[t].pc = "emit"
         \/ req[t].pc = "readlinks" /\ req'[t].pc \in {"emit", "inherit"}
  BY <1>0, ControlMoves DEF StoreInv, uncommitted, AfterEmit
<1>2. Wrote(t)' => Wrote(t)
  BY <1>1 DEF Wrote, BeforeWrite
<1>3. RootOf' = RootOf
  BY <1>1 DEF RootOf
<1>4. ASSUME req[t].op = "restore", req[t].pc \in BeforeWrite, NEW e \in Entry
      PROVE  /\ ChainOf(t, e) = {s \in Entry : db[s] # None /\ RootOf[s] = RootOf[e]}
             /\ View(t, e) = db[e]
  BY <1>0, <1>4, ReadChain DEF CleanOK, View
<1>5. CASE req[t].pc = "chain"
  <2>1. req[t].op = "restore" /\ req[t].source \in Entry /\ req[t].target \in Entry
    BY <1>0, <1>5 DEF PathOK, NamesOK, Committed, Request, OpNames
  <2>2. CheckChain(t)
    BY <1>5 DEF Control, AutoLinkDone, CheckTarget, CheckLeaf, WalkToLeaf, ReadLinks,
                EmitNothing, NextStale, At
  <2>3. db[req[t].source].history /\ RootOf[req[t].source] = RootOf[req[t].target]
    BY <1>4, <1>5, <2>1, <2>2 DEF CheckChain, MayRestore, BeforeWrite
  <2>4. req'[t].pc = "walk" /\ req'[t].target = req[t].target
    BY <1>1, <1>5
  <2>5. SourceOK(t)' /\ CheckedOK(t)'
    BY <1>1, <1>3, <2>3, <2>4 DEF SourceOK, CheckedOK, BeforeLeaf
  <2> QED BY <1>1, <1>2, <2>5, MoveHeirs
<1>6. CASE req[t].pc = "walk"
  <2>1. req[t].op = "restore" /\ req[t].source \in Entry /\ req[t].target \in Entry
    BY <1>0, <1>6 DEF PathOK, NamesOK, Committed, Request, OpNames
  <2>2. WalkToLeaf(t)
    BY <1>6 DEF Control, AutoLinkDone, CheckTarget, CheckLeaf, CheckChain, ReadLinks,
                EmitNothing, NextStale, At
  <2>3. PICK l \in ChainOf(t, req[t].target) :
          req' = [req EXCEPT ![t].pc = "lockleaf", ![t].leaf = l]
    BY <2>2 DEF WalkToLeaf
  <2>4. req'[t].leaf = l
    BY <1>0, <2>3 DEF StoreInv, TypeInv, TypeOK, Request
  <2>5. RootOf[req'[t].leaf] = RootOf[req[t].target]
    BY <1>4, <1>6, <2>1, <2>3, <2>4 DEF BeforeWrite
  <2>6. req'[t].pc = "lockleaf" /\ req'[t].target = req[t].target
    BY <1>1, <1>6
  <2>7. SourceOK(t)
    BY <1>0
  <2>8. SourceOK(t)' /\ CheckedOK(t)'
    BY <1>1, <1>3, <1>6, <2>1, <2>5, <2>6, <2>7 DEF SourceOK, CheckedOK
  <2> QED BY <1>1, <1>2, <2>8, MoveHeirs
<1>7. CASE req[t].pc = "check"
  <2>1. req'[t].pc = "write" /\ req'[t].target = req[t].target /\ req'[t].leaf = req[t].leaf
    BY <1>1, <1>7
  <2>2. SourceOK(t)'
    BY <1>0, <1>1, <1>3, <1>7, <2>1 DEF SourceOK, BeforeLeaf
  <2>3. CheckTarget(t) \/ CheckLeaf(t)
    BY <1>7 DEF Control, AutoLinkDone, WalkToLeaf, CheckChain, ReadLinks,
                EmitNothing, NextStale, At
  <2>4. ASSUME req[t].op = "restore", IsOpen(db[req[t].leaf])
        PROVE  req[t].source # req[t].leaf
    <3>1. CheckLeaf(t) /\ req[t].leaf \in Entry
      BY <1>0, <1>7, <2>3, <2>4 DEF CheckTarget, NamesOK, Committed, BeforeLeaf
    <3> QED BY <1>4, <1>7, <2>4, <3>1 DEF CheckLeaf, LeafUsable, BeforeWrite
  <2>5. ASSUME req[t].op = "assign"
        PROVE  db[req[t].target].project = None /\ db[req[t].target].supersedes = None
    <3>1. CheckTarget(t) /\ req[t].target \in Entry
      BY <1>0, <1>7, <2>3, <2>5 DEF CheckLeaf, NamesOK, Committed
    <3>2. View(t, req[t].target) = db[req[t].target]
      BY <1>0, <1>7, <2>5, <3>1 DEF CleanOK, View, BeforeWrite
    <3> QED BY <2>5, <3>1, <3>2 DEF CheckTarget, MayClose
  <2>6. CheckedOK(t)'
    BY <1>1, <2>1, <2>4, <2>5 DEF CheckedOK, IsOpen
  <2> QED BY <1>1, <1>2, <2>2, <2>6, MoveHeirs
<1>8. CASE req[t].pc \notin {"chain", "walk", "check"}
  <2>1. /\ req'[t].pc # "write" /\ req'[t].leaf = req[t].leaf
        /\ req[t].op = "restore" => /\ req'[t].target = req[t].target
                                    /\ req[t].pc \notin {"lock", "chain"} \cup BeforeLeaf
    BY <1>0, <1>1, <1>8 DEF PathOK, BeforeLeaf
  <2>2. SourceOK(t)' /\ CheckedOK(t)'
    BY <1>0, <1>1, <1>3, <2>1 DEF SourceOK, CheckedOK
  <2> QED BY <1>1, <1>2, <2>2, MoveHeirs
<1> QED BY <1>5, <1>6, <1>7, <1>8

LEMMA LockHeirs ==
  ASSUME ChainInv, StoreInv', NEW t \in Tx, LockTarget(t) \/ LockLeaf(t)
  PROVE  ChainInv'
<1>0. /\ req[t] \in Request /\ req \in [Tx -> Request] /\ SourceOK(t) /\ CheckedOK(t)
  BY StartOfControl DEF ChainInv, StoreInv, TxHeirs
<1>1. /\ UNCHANGED <<db, dirty>>
      /\ \A u \in Tx \ {t} : req'[u] = req[u]
      /\ req'[t].op = req[t].op /\ req'[t].source = req[t].source
      /\ req'[t].project = req[t].project /\ req'[t].fresh = req[t].fresh
      /\ req'[t].target = req[t].target /\ req'[t].leaf = req[t].leaf
      /\ \/ req[t].pc = "lock" /\ req'[t].pc = IF req[t].op = "restore" THEN "chain" ELSE "check"
         \/ req[t].pc = "lockleaf" /\ req'[t].pc = "check"
  BY <1>0 DEF LockTarget, LockLeaf, At, Goto, Request, tables, uncommitted
<1>2. RootOf' = RootOf
  BY <1>1 DEF RootOf
<1>3. SourceOK(t)' /\ CheckedOK(t)'
  BY <1>0, <1>1, <1>2 DEF SourceOK, CheckedOK, BeforeLeaf
<1>4. Wrote(t)' => Wrote(t)
  BY <1>1 DEF Wrote, BeforeWrite
<1> QED BY <1>1, <1>3, <1>4, MoveHeirs

LEMMA LinksAndEventsHeirs ==
  ASSUME ChainInv, StoreInv', NEW t \in Tx,
         \/ \E c \in Entry : AutoLink(t, c)
         \/ \E l \in Entry \X Entry : InheritLink(t, l)
         \/ \E p \in Project : Emit(t, p)
  PROVE  ChainInv'
<1>0. /\ req[t] \in Request /\ req \in [Tx -> Request] /\ SourceOK(t) /\ CheckedOK(t)
  BY StartOfControl DEF ChainInv, StoreInv, TxHeirs
<1>1. UNCHANGED <<db, dirty>>
  BY DEF AutoLink, InheritLink, Emit, tables
<1>2. /\ \A u \in Tx \ {t} : req'[u] = req[u]
      /\ req'[t].op = req[t].op /\ req'[t].source = req[t].source
      /\ req'[t].project = req[t].project /\ req'[t].fresh = req[t].fresh
      /\ req'[t].target = req[t].target /\ req'[t].leaf = req[t].leaf
      /\ req[t].pc \in {"autolink", "inherit", "emit"}
      /\ req'[t].pc \in {"autolink", "inherit", "emit", "next", "commit"}
  <2>1. CASE \E c \in Entry : AutoLink(t, c)
    BY <2>1 DEF AutoLink, At
  <2>2. CASE \E l \in Entry \X Entry : InheritLink(t, l)
    <3>1. PICK l \in Entry \X Entry :
            req' = [req EXCEPT ![t].pending = req[t].pending \ {l},
                               ![t].pc = AfterLinks(req[t].pending \ {l})]
      BY <2>2 DEF InheritLink
    <3>2. AfterLinks(req[t].pending \ {l}) \in {"emit", "inherit"}
      BY DEF AfterLinks
    <3>3. req[t].pc = "inherit"
      BY <2>2 DEF InheritLink, At
    <3> QED BY <1>0, <3>1, <3>2, <3>3 DEF Request
  <2>3. CASE \E p \in Project : Emit(t, p)
    BY <1>0, <2>3 DEF Emit, AfterEmit, At, Goto, Request
  <2> QED BY <2>1, <2>2, <2>3
<1>3. RootOf' = RootOf
  BY <1>1 DEF RootOf
<1>4. SourceOK(t)' /\ CheckedOK(t)'
  BY <1>0, <1>1, <1>2, <1>3 DEF SourceOK, CheckedOK, BeforeLeaf
<1>5. Wrote(t)' => Wrote(t)
  BY <1>2 DEF Wrote, BeforeWrite
<1> QED BY <1>1, <1>2, <1>4, <1>5, MoveHeirs

LEMMA OutsideHeirs ==
  ASSUME ChainInv, StoreInv', Outside
  PROVE  ChainInv'
<1>1. UNCHANGED <<db, req, dirty>>
  BY DEF Outside, CreateLink, DeleteLink, Tick, vars, tables, uncommitted
<1>2. HeirsOK'
  BY <1>1 DEF ChainInv, HeirsOK
<1>3. ASSUME NEW t \in Tx PROVE TxHeirs(t)'
  <2>1. SourceOK(t) /\ WrittenOK(t) /\ CheckedOK(t)
    BY DEF ChainInv, TxHeirs
  <2>2. RootOf' = RootOf
    BY <1>1 DEF RootOf
  <2>3. SourceOK(t)' /\ CheckedOK(t)'
    BY <1>1, <2>1, <2>2 DEF SourceOK, CheckedOK, IsOpen
  <2>4. WrittenOK(t)'
    BY <1>1, <2>1
    DEF WrittenOK, ArchivedOK, CreatedOK, RevisedOK, RestoredOK, AssignedOK,
        Wrote, Inserted, Replaced, OnlyWrote, IsOpen, Close, NewRow
  <2> QED BY <2>3, <2>4 DEF TxHeirs
<1> QED BY <1>2, <1>3 DEF ChainInv

LEMMA RollbackHeirs ==
  ASSUME ChainInv, StoreInv', NEW t \in Tx, Rollback(t)
  PROVE  ChainInv'
<1>1. /\ UNCHANGED db /\ req'[t] = Idle /\ \A e \in Entry : dirty'[t][e] = None
      /\ \A u \in Tx \ {t} : req'[u] = req[u] /\ dirty'[u] = dirty[u]
  BY EndTxStore DEF Rollback, tables, ChainInv
<1>2. TxHeirs(t)'
  BY <1>1 DEF TxHeirs, SourceOK, CheckedOK, WrittenOK, ArchivedOK, CreatedOK, RevisedOK,
              RestoredOK, AssignedOK, Idle, OpNames
<1> QED BY <1>1, <1>2, QuietHeirs

LEMMA CreateInsertHeirs ==
  ASSUME ChainInv, StoreInv', NEW t \in Tx, NEW n \in Entry, CreateInsert(t, n)
  PROVE  ChainInv'
<1>0. /\ PathOK(req[t]) /\ CleanOK(t) /\ req[t] \in Request /\ req \in [Tx -> Request]
  BY StartOfControl DEF ChainInv, StoreInv
<1>1. /\ req[t].pc = "insert" /\ UNCHANGED db
      /\ req' = [req EXCEPT ![t].pc = "autolink", ![t].fresh = n]
  BY DEF CreateInsert, At, tables
<1>2. PICK from \in Given \cup {now} :
        dirty' = [dirty EXCEPT ![t][n] = NewRow(req[t].project, from, None)]
  BY DEF CreateInsert
<1>3. \A e \in Entry : dirty[t][e] = None
  BY <1>0, <1>1 DEF CleanOK, PathOK, BeforeWrite
<1>4. /\ \A u \in Tx \ {t} : req'[u] = req[u]
      /\ req'[t].op = "create" /\ req'[t].project = req[t].project
      /\ req'[t].fresh = n /\ req'[t].pc = "autolink"
  BY <1>0, <1>1 DEF Request, PathOK, OpNames
<1>5. /\ dirty'[t][n] = NewRow(req[t].project, from, None)
      /\ \A e \in Entry \ {n} : dirty'[t][e] = None
      /\ \A u \in Tx \ {t} : dirty'[u] = dirty[u]
  <2> DEFINE new == NewRow(req[t].project, from, None)
  <2> HIDE DEF new
  <2>1. dirty' = [dirty EXCEPT ![t][n] = new]
    BY <1>2 DEF new
  <2>2. /\ dirty'[t][n] = new /\ \A e \in Entry \ {n} : dirty'[t][e] = None
        /\ \A u \in Tx \ {t} : dirty'[u] = dirty[u]
    BY <1>3, <2>1 DEF ChainInv, StoreInv, TypeInv, TypeOK
  <2> QED BY <2>2 DEF new
<1>6. dirty'[t][n].validFrom = from
  BY <1>5 DEF NewRow
<1>7. CreatedOK(t)'
  BY <1>4, <1>5, <1>6 DEF CreatedOK, Inserted, OnlyWrote, NewRow
<1>8. TxHeirs(t)'
  BY <1>4, <1>7 DEF TxHeirs, SourceOK, CheckedOK, WrittenOK, ArchivedOK, RevisedOK,
                    RestoredOK, AssignedOK
<1> QED BY <1>1, <1>4, <1>5, <1>8, QuietHeirs

LEMMA ArchiveWriteHeirs ==
  ASSUME ChainInv, StoreInv', NEW t \in Tx, ArchiveWrite(t)
  PROVE  ChainInv'
<1>0. /\ PathOK(req[t]) /\ NamesOK(req[t]) /\ CleanOK(t) /\ req[t] \in Request
      /\ req \in [Tx -> Request] /\ WriteOK(t) /\ ArchivedOK(t)
  BY StartOfControl DEF ChainInv, StoreInv, TxOK, TxHeirs, WrittenOK
<1> DEFINE e == req[t].target
           closed == Close(View(t, e), now)
<1>1. /\ req[t].pc = "write" /\ req[t].op \in {"archive", "stale"} /\ UNCHANGED db
      /\ dirty' = [dirty EXCEPT ![t][e] = closed]
      /\ req' = [req EXCEPT ![t].pc = "emit"]
  BY DEF ArchiveWrite, At, Goto, tables
<1>2. e \in Entry /\ db[e] # None
  BY <1>0, <1>1 DEF NamesOK, Committed
<1>3. IsOpen(db[e]) /\ closed = Close(db[e], now)
  BY <1>0, <1>1, <1>2 DEF View, WriteOK
<1>4. closed = Close(db[e], closed.validTo) /\ closed # None
  <2>1. db[e] \in Row /\ now \in Nat
    BY <1>2 DEF ChainInv, StoreInv, TypeInv, TypeOK
  <2> QED BY <1>3, <2>1, CloseFields, CloseType
<1> HIDE DEF closed
<1>5. /\ \A u \in Tx \ {t} : req'[u] = req[u]
      /\ req'[t].pc = "emit" /\ req'[t].op = req[t].op /\ req'[t].target = e
  BY <1>0, <1>1 DEF Request
<1> HIDE DEF e
<1>6. /\ dirty'[t][e] = closed /\ \A f \in Entry \ {e} : dirty'[t][f] = dirty[t][f]
      /\ \A u \in Tx \ {t} : dirty'[u] = dirty[u]
  BY <1>1, <1>2 DEF ChainInv, StoreInv, TypeInv, TypeOK
<1>7. ASSUME NEW f \in Entry, dirty'[t][f] # None
      PROVE  db[f] # None /\ IsOpen(db[f]) /\ dirty'[t][f] = Close(db[f], dirty'[t][f].validTo)
  <2>1. CASE f = e
    BY <1>2, <1>3, <1>4, <1>6, <2>1
  <2>2. CASE f # e
    BY <1>0, <1>1, <1>6, <1>7, <2>2 DEF ArchivedOK
  <2> QED BY <2>1, <2>2
<1>8. req[t].op = "archive" => \A f \in Entry \ {e} : dirty'[t][f] = None
  BY <1>0, <1>1, <1>6 DEF CleanOK, BeforeWrite
<1>9. ArchivedOK(t)'
  <2>1. \A f \in Entry : dirty'[t][f] # None =>
          db'[f] # None /\ IsOpen(db'[f]) /\ dirty'[t][f] = Close(db'[f], dirty'[t][f].validTo)
    BY <1>1, <1>7
  <2>2. req'[t].op = "archive" =>
          dirty'[t][e] # None /\ \A f \in Entry \ {e} : dirty'[t][f] = None
    BY <1>4, <1>5, <1>6, <1>8
  <2> QED BY <1>5, <2>1, <2>2 DEF ArchivedOK, OnlyWrote
<1>10. TxHeirs(t)'
  BY <1>1, <1>5, <1>9 DEF TxHeirs, SourceOK, CheckedOK, WrittenOK, CreatedOK, RevisedOK,
                         RestoredOK, AssignedOK
<1> QED BY <1>1, <1>5, <1>6, <1>10, QuietHeirs

LEMMA ReviseWriteHeirs ==
  ASSUME ChainInv, StoreInv', NEW t \in Tx, NEW n \in Entry, ReviseWrite(t, n)
  PROVE  ChainInv'
<1>0. /\ PathOK(req[t]) /\ NamesOK(req[t]) /\ CleanOK(t) /\ req[t] \in Request
      /\ req \in [Tx -> Request] /\ WriteOK(t) /\ TypeInv
  BY StartOfControl DEF ChainInv, StoreInv, TxOK
<1> DEFINE e == req[t].target
           closed == Close(View(t, e), now)
           new == NewRow(closed.project, now, e)
<1>1. /\ req[t].pc = "write" /\ req[t].op = "revise" /\ Unused(n) /\ UNCHANGED db
      /\ dirty' = [dirty EXCEPT ![t][e] = closed, ![t][n] = new]
      /\ req' = [req EXCEPT ![t].pc = "readlinks", ![t].fresh = n, ![t].leaf = e]
  BY DEF ReviseWrite, At, tables
<1>2. e \in Entry /\ db[e] # None /\ n # e
  BY <1>0, <1>1 DEF NamesOK, Committed, Unused
<1>3. \A f \in Entry : dirty[t][f] = None
  BY <1>0, <1>1 DEF CleanOK, BeforeWrite
<1>4. IsOpen(db[e]) /\ closed = Close(db[e], now)
  BY <1>0, <1>1, <1>2, <1>3 DEF View, WriteOK
<1>5. closed.project = db[e].project
  BY <1>2, <1>4, CloseFields DEF ChainInv, StoreInv, TypeInv, TypeOK
<1>6. new = NewRow(db[e].project, now, e) /\ new.validFrom = now
  BY <1>5 DEF NewRow
<1> HIDE DEF closed, new
<1>7. /\ \A u \in Tx \ {t} : req'[u] = req[u]
      /\ req'[t].pc = "readlinks" /\ req'[t].fresh = n /\ req'[t].op = "revise"
      /\ req'[t].target = e
  BY <1>0, <1>1 DEF Request
<1> HIDE DEF e
<1>8. /\ dirty'[t][n] = new /\ dirty'[t][e] = closed
      /\ \A f \in Entry \ {n, e} : dirty'[t][f] = None
      /\ \A u \in Tx \ {t} : dirty'[u] = dirty[u]
  BY <1>0, <1>1, <1>2, <1>3, TwoWrites
<1>9. RevisedOK(t)'
  <2>1. dirty'[t][n] = NewRow(db[e].project, dirty'[t][n].validFrom, e)
    BY <1>6, <1>8
  <2>2. dirty'[t][e] = Close(db[e], dirty'[t][n].validFrom)
    BY <1>6, <1>8, <1>4
  <2> QED BY <1>1, <1>4, <1>6, <1>7, <1>8, <2>1, <2>2 DEF RevisedOK, Inserted, Replaced, OnlyWrote
<1>10. TxHeirs(t)'
  BY <1>7, <1>9 DEF TxHeirs, SourceOK, CheckedOK, WrittenOK, ArchivedOK, CreatedOK,
                    RestoredOK, AssignedOK
<1> QED BY <1>1, <1>7, <1>8, <1>10, QuietHeirs

LEMMA AssignWriteHeirs ==
  ASSUME ChainInv, StoreInv', NEW t \in Tx, NEW n \in Entry, AssignWrite(t, n)
  PROVE  ChainInv'
<1>0. /\ PathOK(req[t]) /\ NamesOK(req[t]) /\ CleanOK(t) /\ req[t] \in Request
      /\ req \in [Tx -> Request] /\ WriteOK(t) /\ TypeInv /\ CheckedOK(t)
  BY StartOfControl DEF ChainInv, StoreInv, TxOK, TxHeirs
<1> DEFINE e == req[t].target
           closed == Close(View(t, e), now)
           new == NewRow(req[t].project, now, None)
<1>1. /\ req[t].pc = "write" /\ req[t].op = "assign" /\ Unused(n) /\ UNCHANGED db
      /\ dirty' = [dirty EXCEPT ![t][e] = closed, ![t][n] = new]
      /\ req' = [req EXCEPT ![t].pc = "autolink", ![t].fresh = n]
  BY DEF AssignWrite, At, tables
<1>2. e \in Entry /\ db[e] # None /\ n # e
  BY <1>0, <1>1 DEF NamesOK, Committed, Unused
<1>3. \A f \in Entry : dirty[t][f] = None
  BY <1>0, <1>1 DEF CleanOK, BeforeWrite
<1>4. /\ IsOpen(db[e]) /\ closed = Close(db[e], now)
      /\ db[e].project = None /\ db[e].supersedes = None
  BY <1>0, <1>1, <1>2, <1>3 DEF View, WriteOK, CheckedOK
<1>6. new = NewRow(req[t].project, now, None) /\ new.validFrom = now
  BY DEF NewRow
<1> HIDE DEF closed, new
<1>7. /\ \A u \in Tx \ {t} : req'[u] = req[u]
      /\ req'[t].pc = "autolink" /\ req'[t].fresh = n /\ req'[t].op = "assign"
      /\ req'[t].target = e /\ req'[t].project = req[t].project
  BY <1>0, <1>1 DEF Request
<1> HIDE DEF e
<1>8. /\ dirty'[t][n] = new /\ dirty'[t][e] = closed
      /\ \A f \in Entry \ {n, e} : dirty'[t][f] = None
      /\ \A u \in Tx \ {t} : dirty'[u] = dirty[u]
  BY <1>0, <1>1, <1>2, <1>3, TwoWrites
<1>9. AssignedOK(t)'
  <2>1. dirty'[t][n] = NewRow(req[t].project, dirty'[t][n].validFrom, None)
    BY <1>6, <1>8
  <2>2. dirty'[t][e] = Close(db[e], dirty'[t][n].validFrom)
    BY <1>6, <1>8, <1>4
  <2> QED BY <1>1, <1>4, <1>6, <1>7, <1>8, <2>1, <2>2 DEF AssignedOK, Inserted, Replaced, OnlyWrote
<1>10. TxHeirs(t)'
  BY <1>7, <1>9 DEF TxHeirs, SourceOK, CheckedOK, WrittenOK, ArchivedOK, CreatedOK,
                    RestoredOK, RevisedOK
<1> QED BY <1>1, <1>7, <1>8, <1>10, QuietHeirs

LEMMA RestoreWriteHeirs ==
  ASSUME ChainInv, StoreInv', NEW t \in Tx, NEW n \in Entry, RestoreWrite(t, n)
  PROVE  ChainInv'
<1>0. /\ PathOK(req[t]) /\ NamesOK(req[t]) /\ CleanOK(t) /\ req[t] \in Request
      /\ req \in [Tx -> Request] /\ TypeInv /\ StoreInv
      /\ CheckedOK(t) /\ SourceOK(t) /\ HeirsOK
  BY StartOfControl DEF ChainInv, StoreInv, TxOK, TxHeirs
<1> DEFINE l == req[t].leaf
           s == req[t].source
           closed == IF IsOpen(View(t, l)) THEN Close(View(t, l), now) ELSE View(t, l)
           new == NewRow(View(t, s).project, now, l)
<1>1. /\ req[t].pc = "write" /\ req[t].op = "restore" /\ Unused(n) /\ UNCHANGED db
      /\ dirty' = [dirty EXCEPT ![t][l] = closed, ![t][n] = new]
      /\ req' = [req EXCEPT ![t].pc = "readlinks", ![t].fresh = n]
  BY DEF RestoreWrite, At, tables
<1>2. /\ l \in Entry /\ db[l] # None /\ s \in Entry /\ db[s] # None /\ n # l
      /\ req[t].target \in Entry /\ db[req[t].target] # None
  BY <1>0, <1>1 DEF NamesOK, Committed, BeforeLeaf, Unused
<1>3. \A f \in Entry : dirty[t][f] = None
  BY <1>0, <1>1 DEF CleanOK, BeforeWrite
<1>4. View(t, l) = db[l] /\ View(t, s) = db[s]
  BY <1>2, <1>3 DEF View
<1>5. RootOf[s] = RootOf[l] /\ (IsOpen(db[l]) => s # l) /\ db[s].history
  BY <1>0, <1>1 DEF CheckedOK, SourceOK, BeforeLeaf
<1>6. db[s].project = db[l].project
  BY <1>0, <1>2, <1>5, ChainHeirs
<1>7. /\ new = NewRow(db[l].project, now, l) /\ new.validFrom = now
      /\ IsOpen(db[l]) => closed = Close(db[l], now)
      /\ ~IsOpen(db[l]) => closed = db[l]
  BY <1>4, <1>6 DEF NewRow
<1> HIDE DEF closed, new
<1>8. /\ \A u \in Tx \ {t} : req'[u] = req[u]
      /\ req'[t].pc = "readlinks" /\ req'[t].fresh = n /\ req'[t].op = "restore"
      /\ req'[t].leaf = l /\ req'[t].source = s /\ req'[t].target = req[t].target
  BY <1>0, <1>1 DEF Request
<1> HIDE DEF l, s
<1>9. /\ dirty'[t][n] = new /\ dirty'[t][l] = closed
      /\ \A f \in Entry \ {n, l} : dirty'[t][f] = None
      /\ \A u \in Tx \ {t} : dirty'[u] = dirty[u]
  BY <1>0, <1>1, <1>2, <1>3, TwoWrites
<1>10. RestoredOK(t)'
  <2>1. dirty'[t][n] = NewRow(db[l].project, dirty'[t][n].validFrom, l)
    BY <1>7, <1>9
  <2>2. IsOpen(db[l]) => dirty'[t][l] = Close(db[l], dirty'[t][n].validFrom)
    BY <1>7, <1>9, <1>7
  <2>3. ~IsOpen(db[l]) => dirty'[t][l] = db[l]
    BY <1>7, <1>9
  <2>4. dirty'[t][n].validFrom = now /\ db' = db
    BY <1>1, <1>7, <1>9
  <2> QED BY <1>5, <1>8, <1>9, <2>1, <2>2, <2>3, <2>4
          DEF RestoredOK, Inserted, Replaced, OnlyWrote
<1>11. RootOf' = RootOf
  BY <1>1 DEF RootOf
<1>12. SourceOK(t)'
  BY <1>0, <1>1, <1>8, <1>11 DEF SourceOK, BeforeLeaf, l, s
<1>13. TxHeirs(t)'
  BY <1>8, <1>10, <1>12 DEF TxHeirs, CheckedOK, WrittenOK, ArchivedOK, CreatedOK,
                    AssignedOK, RevisedOK
<1> QED BY <1>1, <1>8, <1>9, <1>13, QuietHeirs

LEMMA CommitKeeps ==
  ASSUME StoreInv, NEW t \in Tx, Commit(t), NEW e \in Entry, db[e] # None
  PROVE  /\ db'[e] # None /\ db'[e].supersedes = db[e].supersedes
         /\ db'[e].project = db[e].project /\ db'[e].history = db[e].history
         /\ db[e].archived => db'[e].archived
<1>1. db[e] \in Row /\ now \in Nat
  BY DEF StoreInv, TypeInv, TypeOK
<1>2. db'[e] = db[e] \/ db'[e] = Close(db[e], db'[e].validTo)
  BY CommitRows
<1>3. db'[e] # None /\ db'[e].supersedes = db[e].supersedes
      /\ (db[e].archived => db'[e] = db[e])
  BY CommitRows
<1>4. \A v : /\ Close(db[e], v).project = db[e].project
             /\ Close(db[e], v).history = db[e].history
  BY <1>1 DEF Close, Row
<1> QED BY <1>2, <1>3, <1>4

\* The row a commit adds has the project of the row it succeeds.
LEMMA CommitNewRow ==
  ASSUME ChainInv, NEW t \in Tx, Commit(t), NEW e \in Entry, db[e] = None, db'[e] # None
  PROVE  /\ db'[e].history
         /\ db'[e].supersedes # None =>
              /\ db'[e].supersedes \in Entry /\ db[db'[e].supersedes] # None
              /\ db[db'[e].supersedes].history
              /\ db[db'[e].supersedes].project = db'[e].project
<1>0. /\ PathOK(req[t]) /\ NamesOK(req[t]) /\ req[t] \in Request /\ req[t].pc = "commit"
      /\ WrittenOK(t) /\ SourceOK(t) /\ HeirsOK /\ StoreInv
  BY StartOfControl DEF ChainInv, StoreInv, TxHeirs, Commit, At
<1>1. e = req[t].fresh /\ db'[e] = dirty[t][e] /\ dirty[t][e] # None
  BY <1>0, CommitRows DEF View
<1>2. req[t].op \in {"create", "revise", "restore", "assign"} /\ Wrote(t)
  BY <1>0, <1>1 DEF PathOK, NamesOK, Request, OpNames, Wrote, BeforeWrite
<1> DEFINE from == dirty[t][e].validFrom
<1>3. CASE req[t].op \in {"create", "assign"}
  <2>1. dirty[t][e] = NewRow(req[t].project, from, None)
    BY <1>0, <1>1, <1>2, <1>3 DEF WrittenOK, CreatedOK, AssignedOK, Inserted
  <2> HIDE DEF from
  <2>2. dirty[t][e].history /\ dirty[t][e].supersedes = None
    BY <2>1 DEF NewRow
  <2> QED BY <1>1, <2>2
<1>4. ASSUME NEW x \in Entry, db[x] # None, db[x].history,
             dirty[t][e] = NewRow(db[x].project, from, x)
      PROVE  /\ db'[e].history /\ db'[e].supersedes = x
             /\ db[x].project = db'[e].project
  <2> HIDE DEF from
  <2> QED BY <1>1, <1>4 DEF NewRow
<1>5. CASE req[t].op = "revise"
  <2>1. /\ req[t].target \in Entry /\ db[req[t].target] # None
        /\ dirty[t][e] = NewRow(db[req[t].target].project, from, req[t].target)
        /\ IsOpen(db[req[t].target])
    BY <1>0, <1>1, <1>2, <1>5
    DEF WrittenOK, RevisedOK, Inserted, Replaced, NamesOK, Committed
  <2>2. db[req[t].target].history
    BY <1>0, <2>1 DEF HeirsOK, IsOpen
  <2> HIDE DEF from
  <2> QED BY <1>4, <2>1, <2>2
<1>6. CASE req[t].op = "restore"
  <2>1. /\ req[t].leaf \in Entry /\ db[req[t].leaf] # None
        /\ req[t].source \in Entry /\ db[req[t].source] # None
        /\ dirty[t][e] = NewRow(db[req[t].leaf].project, from, req[t].leaf)
    BY <1>0, <1>1, <1>2, <1>6
    DEF WrittenOK, RestoredOK, Inserted, NamesOK, Committed, BeforeLeaf
  <2>2. db[req[t].leaf].history
    <3>1. RootOf[req[t].source] = RootOf[req[t].leaf] /\ db[req[t].source].history
      BY <1>0, <1>6 DEF SourceOK, BeforeLeaf
    <3> QED BY <1>0, <2>1, <3>1, ChainHeirs
  <2> HIDE DEF from
  <2> QED BY <1>4, <2>1, <2>2
<1> QED BY <1>2, <1>3, <1>5, <1>6

LEMMA CommitOthersHeirs ==
  ASSUME ChainInv, StoreInv', NEW t \in Tx, Commit(t), NEW u \in Tx \ {t}
  PROVE  TxHeirs(u)'
<1>0. req'[u] = req[u] /\ dirty'[u] = dirty[u]
  BY EndTxStore DEF Commit, ChainInv
<1>1. /\ HoldOK(u) /\ DirtyOK(u) /\ PathOK(req[u]) /\ NamesOK(req[u]) /\ req[u] \in Request
      /\ SourceOK(u) /\ WrittenOK(u) /\ CheckedOK(u) /\ StoreInv /\ TypeInv'
  BY StartOfControl DEF ChainInv, StoreInv, TxOK, TxHeirs
<1>2. ASSUME NEW e \in Entry, rowLock[e] = u, db[e] # None PROVE db'[e] = db[e]
  BY <1>1, <1>2, CommitRows
<1>3. /\ req[u].op \in {"revise", "archive", "assign"} /\ req[u].pc # "lock"
           => /\ req[u].target \in Entry /\ db[req[u].target] # None
              /\ db'[req[u].target] = db[req[u].target]
      /\ req[u].op = "restore" /\ req[u].pc \notin BeforeLeaf \cup {"lockleaf"}
           => /\ req[u].leaf \in Entry /\ db[req[u].leaf] # None
              /\ db'[req[u].leaf] = db[req[u].leaf]
  BY <1>1, <1>2 DEF HoldOK, NamesOK, Committed
<1>4. SourceOK(u)'
  <2>1. ASSUME NEW e \in Entry, db[e] # None
        PROVE  RootOf'[e] = RootOf[e] /\ db'[e].history = db[e].history
    BY <1>1, <2>1, RootsKept, CommitKeeps
  <2>2. ASSUME req[u].op = "restore", req[u].pc \notin {"lock", "chain"}
        PROVE  /\ db'[req[u].source].history
               /\ RootOf'[req[u].source] = RootOf'[req[u].target]
               /\ req[u].pc \notin BeforeLeaf => RootOf'[req[u].leaf] = RootOf'[req[u].target]
    <3>1. /\ req[u].source \in Entry /\ db[req[u].source] # None
          /\ req[u].target \in Entry /\ db[req[u].target] # None
          /\ req[u].pc \notin BeforeLeaf => req[u].leaf \in Entry /\ db[req[u].leaf] # None
      BY <1>1, <2>2 DEF NamesOK, Committed
    <3> QED BY <1>1, <2>1, <2>2, <3>1 DEF SourceOK
  <2> QED BY <1>0, <2>2 DEF SourceOK
<1>5. CheckedOK(u)'
  BY <1>0, <1>1, <1>3 DEF CheckedOK, BeforeLeaf
<1>6. ArchivedOK(u)'
  <2>1. ASSUME req[u].op \in {"archive", "stale"}, NEW e \in Entry, dirty[u][e] # None
        PROVE  db'[e] # None /\ IsOpen(db'[e]) /\ dirty[u][e] = Close(db'[e], dirty[u][e].validTo)
    <3>1. db[e] # None /\ rowLock[e] = u
      BY <1>1, <2>1 DEF DirtyOK, WrittenOK, ArchivedOK
    <3>2. db'[e] = db[e]
      BY <1>2, <3>1
    <3> QED BY <1>1, <2>1, <3>1, <3>2 DEF WrittenOK, ArchivedOK
  <2> QED BY <1>0, <1>1, <2>1 DEF WrittenOK, ArchivedOK, Wrote, OnlyWrote
<1>7. CreatedOK(u)'
  BY <1>0, <1>1 DEF WrittenOK, CreatedOK, Wrote, Inserted, OnlyWrote
<1>8. RevisedOK(u)'
  BY <1>0, <1>1, <1>3 DEF WrittenOK, RevisedOK, Wrote, Inserted, Replaced, OnlyWrote, BeforeWrite
<1>9. RestoredOK(u)'
  BY <1>0, <1>1, <1>3 DEF WrittenOK, RestoredOK, Wrote, Inserted, Replaced, OnlyWrote,
                          BeforeWrite, BeforeLeaf
<1>10. AssignedOK(u)'
  BY <1>0, <1>1, <1>3 DEF WrittenOK, AssignedOK, Wrote, Inserted, Replaced, OnlyWrote, BeforeWrite
<1> QED BY <1>4, <1>5, <1>6, <1>7, <1>8, <1>9, <1>10 DEF TxHeirs, WrittenOK

LEMMA CommitHeirs ==
  ASSUME ChainInv, StoreInv', NEW t \in Tx, Commit(t)
  PROVE  ChainInv'
<1>1. ASSUME NEW e \in Entry, db'[e] # None
      PROVE  /\ db'[e].history \/ db'[e].archived
             /\ db'[e].supersedes # None =>
                  /\ db'[e].history /\ db'[db'[e].supersedes].history
                  /\ db'[db'[e].supersedes].project = db'[e].project
  <2>1. CASE db[e] # None
    <3>1. /\ db[e].history \/ db[e].archived
          /\ db[e].supersedes # None =>
               /\ db[e].history /\ db[db[e].supersedes].history
               /\ db[db[e].supersedes].project = db[e].project
               /\ db[e].supersedes \in Entry /\ db[db[e].supersedes] # None
      BY <2>1 DEF ChainInv, HeirsOK, StoreInv, TypeInv, TypeOK, Row, LinearHistory, Exists
    <3> QED BY <2>1, <3>1, CommitKeeps DEF ChainInv
  <2>2. CASE db[e] = None
    BY <1>1, <2>2, CommitNewRow, CommitKeeps DEF ChainInv
  <2> QED BY <2>1, <2>2
<1>2. HeirsOK'
  BY <1>1 DEF HeirsOK
<1>3. TxHeirs(t)'
  <2>1. req'[t] = Idle /\ \A e \in Entry : dirty'[t][e] = None
    BY EndTxStore DEF Commit, ChainInv
  <2> QED BY <2>1 DEF TxHeirs, SourceOK, CheckedOK, WrittenOK, ArchivedOK, CreatedOK, RevisedOK,
              RestoredOK, AssignedOK, Idle, OpNames
<1> QED BY <1>2, <1>3, CommitOthersHeirs DEF ChainInv

LEMMA NextChainInv == ChainInv /\ [Next]_vars => ChainInv'
<1> SUFFICES ASSUME ChainInv, [Next]_vars PROVE ChainInv'
  OBVIOUS
<1>1. StoreInv'
  BY NextStoreInv DEF ChainInv
<1> QED BY <1>1, NextCases, OutsideHeirs, ArriveHeirs, ControlHeirs, LockHeirs,
           ArchiveWriteHeirs, CommitHeirs, RollbackHeirs, CreateInsertHeirs,
           ReviseWriteHeirs, AssignWriteHeirs, RestoreWriteHeirs, LinksAndEventsHeirs

LEMMA ChainInvariance == Spec => []ChainInv
BY InitChainInv, NextChainInv, PTL DEF Spec

\* restore copies the project of a source it reads without a lock; the chain
\* nevertheless stays in the project of its first entry.
THEOREM ChainsKeepTheirProject == Spec => []ChainKeepsProject
<1>1. ASSUME ChainInv, NEW e \in Entry, db[e] # None
      PROVE  db[e].project = db[RootOf[e]].project
  <2> DEFINE f == [x \in Entry |-> db[x].project]
  <2>1. Inherits(db, Chained, f)
    <3>1. \A x \in Chained \ Top(db) : f[db[x].supersedes] = f[x]
      BY <1>1, ChainedFacts DEF ChainInv, HeirsOK, Chained, Top
    <3> HIDE DEF f
    <3> QED BY <1>1, <3>1, ChainedFacts DEF Inherits, ChainInv
  <2>2. Roots(db)[e] \in Chained /\ f[Roots(db)[e]] = f[e]
    <3> HIDE DEF f
    <3> QED BY <1>1, <2>1, RootKeeps DEF Chained
  <2> QED BY <2>2 DEF RootOf, Chained
<1>2. ChainInv => ChainKeepsProject
  BY <1>1 DEF ChainKeepsProject, Exists
<1> QED BY <1>2, ChainInvariance, PTL

\* x is y or was closed before y began.
Earlier == {q \in Chained \X Chained :
              \/ q[1] = q[2]
              \/ db[q[1]].validTo # Open /\ db[q[1]].validTo <= db[q[2]].validFrom}

LEMMA ChainsInOrder ==
  ASSUME StoreInv
  PROVE  Unbranched(db, Chained, Earlier)
<1>1. ASSUME NEW x \in Chained \ Top(db)
      PROVE  /\ db[x].supersedes \in Chained
             /\ db[db[x].supersedes].validTo # Open
             /\ db[db[x].supersedes].validTo <= db[x].validFrom
             /\ \A c \in Chained : db[c].supersedes = db[x].supersedes => c = x
  BY ChainedFacts DEF StoreInv, LinearHistory, Exists, Chained, Top
<1>2. \A x \in Chained : <<x, x>> \in Earlier
  BY DEF Earlier
<1>3. ASSUME NEW x \in Chained \ Top(db), NEW y \in Chained, <<x, y>> \in Earlier
      PROVE  <<db[x].supersedes, y>> \in Earlier
  <2> DEFINE p == db[x].supersedes
  <2>1. p \in Chained /\ db[p].validTo # Open /\ db[p].validTo <= db[x].validFrom
    BY <1>1
  <2>2. db[p] \in Row /\ db[x] \in Row /\ db[y] \in Row
    BY <2>1, ChainedFacts DEF Chained
  <2>3. WellFormed(db[x])
    BY DEF StoreInv, CommittedOK, Chained
  <2> HIDE DEF p
  <2>4. x = y \/ (db[x].validTo # Open /\ db[x].validTo <= db[y].validFrom)
    BY <1>3 DEF Earlier
  <2>5. db[p].validTo <= db[y].validFrom
    BY <2>1, <2>2, <2>3, <2>4 DEF WellFormed, IntervalHolds, Row, Open
  <2>6. <<p, y>> \in Earlier
    BY <2>1, <2>5 DEF Earlier
  <2> QED BY <2>6 DEF p
<1>4. \A x, y \in Chained \ Top(db) : db[x].supersedes = db[y].supersedes => x = y
  BY <1>1
<1> HIDE DEF Earlier
<1> QED BY <1>1, <1>2, <1>3, <1>4, ChainedFacts DEF Unbranched

\* historical_predicate: at no moment are two revisions of one chain valid,
\* whatever revise, restore, archive and assign requests interleave.
THEOREM AsOfIsUnambiguous == Spec => []OneRevisionAsOf
<1>1. ASSUME StoreInv, NEW at \in 0..MaxTime, NEW a \in Entry, NEW b \in Entry,
             db[a] # None, db[b] # None, a # b,
             IsValidAt(db[a], at), IsValidAt(db[b], at), RootOf[a] = RootOf[b]
      PROVE  FALSE
  <2>1. a \in Chained /\ b \in Chained
    BY <1>1 DEF Chained
  <2>2. <<a, b>> \in Earlier \/ <<b, a>> \in Earlier
    BY <1>1, <2>1, ChainsInOrder, SameChain DEF RootOf
  <2>3. db[a] \in Row /\ db[b] \in Row
    BY <1>1, ChainedFacts
  <2> QED BY <1>1, <2>2, <2>3 DEF Earlier, IsValidAt, Row, Open
<1>2. StoreInv => OneRevisionAsOf
  BY <1>1 DEF OneRevisionAsOf, Exists
<1> QED BY <1>2, StoreInvariance, PTL

-----------------------------------------------------------------------------
(* What a request reports.                                                  *)

\* The entries whose story the request has told or that have no feed.
Told(t) ==
  IF req[t].op \in {"archive", "stale"}
  THEN {e \in Entry : dirty[t][e] # None /\ ~(req[t].pc = "emit" /\ e = req[t].target)}
  ELSE {e \in {req[t].fresh} : req[t].pc = "commit"}

\* One event for each of them that has a project, and no other.
ReportOK(t) ==
  /\ \A x \in devents[t] :
       /\ x.entry \in Told(t) /\ x.project = dirty[t][x.entry].project
       /\ x.kind = EmitKind(t) /\ x.previous = EmitPrevious(t)
  /\ \A e \in Told(t) :
       dirty[t][e].project # None => \E x \in devents[t] : x.entry = e
  /\ \A x, y \in devents[t] : x.entry = y.entry => x = y

\* What it writes about is written; it is dated by the clock or the client.
DatedOK(t) ==
  /\ req[t].pc = "emit" => EmitEntry(t) \in Entry /\ dirty[t][EmitEntry(t)] # None
  /\ req[t].fresh # None => dirty[t][req[t].fresh].validFrom \in (0..now) \cup Given

ReportInv ==
  /\ ChainInv /\ FeedInv /\ now <= MaxTime
  /\ \A t \in Tx : ReportOK(t) /\ DatedOK(t)

\* The row a request has inserted.
LEMMA FreshRow ==
  ASSUME ReportInv, NEW t \in Tx, req[t].fresh # None
  PROVE  /\ req[t].fresh \in Entry /\ db[req[t].fresh] = None
         /\ dirty[t][req[t].fresh] # None /\ dirty[t][req[t].fresh] \in Row
         /\ req[t].op \in {"create", "assign", "revise", "restore"} /\ Wrote(t)
<1>0. /\ PathOK(req[t]) /\ NamesOK(req[t]) /\ req[t] \in Request /\ WrittenOK(t)
      /\ DatedOK(t) /\ DirtyOK(t) /\ TypeOK
  BY StartOfControl DEF ReportInv, ChainInv, StoreInv, TypeInv, TxHeirs, TxOK
<1> DEFINE n == req[t].fresh
           from == dirty[t][n].validFrom
<1>1. n \in Entry /\ req[t].op \in {"create", "assign", "revise", "restore"} /\ Wrote(t)
  BY <1>0 DEF NamesOK, PathOK, Request, OpNames, Wrote, BeforeWrite
<1>2. from \in Nat
  <2>1. from \in (0..now) \cup Given
    BY <1>0 DEF DatedOK
  <2>2. now \in Nat /\ Given \subseteq Nat
    BY <1>0 DEF TypeOK
  <2> HIDE DEF from
  <2> QED BY <2>1, <2>2
<1>3. \E p \in Project \cup {None}, x \in Entry \cup {None} : dirty[t][n] = NewRow(p, from, x)
  <2>1. CASE req[t].op \in {"create", "assign"}
    BY <1>0, <1>1, <2>1 DEF WrittenOK, CreatedOK, AssignedOK, Inserted, Request
  <2>2. ASSUME NEW e \in Entry, db[e] # None, dirty[t][n] = NewRow(db[e].project, from, e)
        PROVE  \E p \in Project \cup {None}, x \in Entry \cup {None} :
                 dirty[t][n] = NewRow(p, from, x)
    <3>1. db[e].project \in Project \cup {None}
      BY <1>0, <2>2 DEF TypeOK, Row
    <3> HIDE DEF from, n
    <3> QED BY <2>2, <3>1
  <2>3. CASE req[t].op = "revise"
    BY <1>0, <1>1, <2>2, <2>3 DEF WrittenOK, RevisedOK, Inserted, NamesOK, Committed
  <2>4. CASE req[t].op = "restore"
    BY <1>0, <1>1, <2>2, <2>4
    DEF WrittenOK, RestoredOK, Inserted, NamesOK, Committed, Wrote, BeforeWrite, BeforeLeaf
  <2> QED BY <1>1, <2>1, <2>3, <2>4
<1> HIDE DEF from
<1>4. dirty[t][n] \in Row /\ dirty[t][n] # None /\ ~dirty[t][n].archived
  BY <1>2, <1>3, NewRowType DEF NewRow
<1>5. db[n] = None
  <2> SUFFICES ASSUME db[n] # None PROVE FALSE
    OBVIOUS
  <2>1. dirty[t][n].archived
    BY <1>1, <1>4, DirtyFields DEF ReportInv, ChainInv
  <2> QED BY <1>4, <2>1
<1> QED BY <1>1, <1>4, <1>5

LEMMA InitReportInv == Init => ReportInv
<1> SUFFICES ASSUME Init PROVE ReportInv
  OBVIOUS
<1>1. now <= MaxTime
  BY DEF Init, Cutover
<1>2. ASSUME NEW t \in Tx PROVE ReportOK(t) /\ DatedOK(t)
  BY DEF Init, ReportOK, DatedOK, Told, Idle
<1> QED BY <1>1, <1>2, InitChainInv, InitFeedInv DEF ReportInv

\* A step of t disturbs no other report.
LEMMA OtherReports ==
  ASSUME ReportInv, ChainInv', FeedInv', NEW t \in Tx, now' = now,
         \A u \in Tx \ {t} : /\ req'[u] = req[u] /\ dirty'[u] = dirty[u]
                             /\ devents'[u] = devents[u],
         ReportOK(t)', DatedOK(t)'
  PROVE  ReportInv'
<1>1. ASSUME NEW u \in Tx \ {t} PROVE ReportOK(u)' /\ DatedOK(u)'
  <2>1. ReportOK(u) /\ DatedOK(u)
    BY DEF ReportInv
  <2>2. EmitEntry(u)' = EmitEntry(u) /\ EmitKind(u)' = EmitKind(u)
        /\ EmitPrevious(u)' = EmitPrevious(u)
    BY DEF EmitEntry, EmitKind, EmitPrevious
  <2>3. Told(u)' = Told(u)
    <3>1. req'[u] = req[u] /\ dirty'[u] = dirty[u]
      OBVIOUS
    <3> QED BY <3>1 DEF Told
  <2> QED BY <2>1, <2>2, <2>3 DEF ReportOK, DatedOK
<1> QED BY <1>1 DEF ReportInv

\* A step of t that tells nothing new.
LEMMA NothingTold ==
  ASSUME ReportInv, NEW t \in Tx, devents'[t] = devents[t], Told(t)' = Told(t),
         \A e \in Told(t) : dirty'[t][e] = dirty[t][e],
         Told(t) = {} \/ (/\ EmitKind(t)' = EmitKind(t)
                          /\ EmitPrevious(t)' = EmitPrevious(t))
  PROVE  ReportOK(t)'
<1>1. ReportOK(t)
  BY DEF ReportInv
<1>2. CASE Told(t) = {}
  BY <1>1, <1>2 DEF ReportOK
<1>3. CASE EmitKind(t)' = EmitKind(t) /\ EmitPrevious(t)' = EmitPrevious(t)
  <2>1. \A x \in devents[t] : dirty'[t][x.entry] = dirty[t][x.entry]
    BY <1>1 DEF ReportOK
  <2> QED BY <1>1, <1>3, <2>1 DEF ReportOK
<1> QED BY <1>2, <1>3

LEMMA ArriveReports ==
  ASSUME ReportInv, ChainInv', FeedInv', NEW t \in Tx, Arrive(t)
  PROVE  ReportInv'
<1>1. PICK r \in Request :
        Begin(t, r) /\ PathOK(r) /\ NamesOK(r) /\ r.pc \in {"insert", "lock", "next"}
  BY ArriveRequest
<1>2. /\ req[t].pc = "idle" /\ req' = [req EXCEPT ![t] = r]
      /\ UNCHANGED <<now, dirty, devents>>
  BY <1>1 DEF Begin, At, uncommitted
<1>3. req'[t] = r /\ \A u \in Tx \ {t} : req'[u] = req[u]
  BY <1>2 DEF ReportInv, ChainInv, StoreInv, TypeInv, TypeOK
<1>4. \A e \in Entry : dirty[t][e] = None
  BY <1>2, StartOfControl
  DEF ReportInv, ChainInv, StoreInv, CleanOK, PathOK, BeforeWrite
<1>5. req[t].op = None
  BY <1>2, StartOfControl DEF ReportInv, ChainInv, StoreInv, PathOK
<1>6. Told(t) = {} /\ Told(t)' = {}
  BY <1>1, <1>2, <1>3, <1>4, <1>5 DEF Told, OpNames
<1>7. ReportOK(t)'
  BY <1>2, <1>6, NothingTold
<1>8. r.fresh = None
  <2>1. r.pc \in {"insert", "lock"} => r.fresh = None
    BY <1>1 DEF NamesOK, BeforeWrite
  <2>2. r.pc = "next" => r.op = "stale"
    BY <1>1 DEF PathOK, Request, OpNames
  <2> QED BY <1>1, <2>1, <2>2 DEF NamesOK, Request
<1>9. DatedOK(t)'
  BY <1>1, <1>3, <1>8 DEF DatedOK
<1> QED BY <1>2, <1>3, <1>7, <1>9, OtherReports

LEMMA ControlReports ==
  ASSUME ReportInv, ChainInv', FeedInv', NEW t \in Tx, Control(t)
  PROVE  ReportInv'
<1>0. /\ PathOK(req[t]) /\ NamesOK(req[t]) /\ req[t] \in Request
      /\ ReportOK(t) /\ DatedOK(t) /\ WrittenOK(t) /\ TypeInv
  BY StartOfControl DEF ReportInv, ChainInv, StoreInv, TxHeirs
<1>1. /\ UNCHANGED <<now, dirty, devents>>
      /\ \A u \in Tx \ {t} : req'[u] = req[u]
      /\ req'[t].op = req[t].op /\ req'[t].fresh = req[t].fresh
      /\ req[t].pc = "next" \/ req'[t].target = req[t].target
      /\ req[t].pc = "walk" \/ req'[t].leaf = req[t].leaf
      /\ \/ req[t].pc = "check" /\ req'[t].pc = "write"
         \/ req[t].pc = "chain" /\ req'[t].pc = "walk"
         \/ req[t].pc = "walk" /\ req'[t].pc = "lockleaf"
         \/ req[t].pc = "next" /\ req'[t].pc \in {"lock", "commit"}
         \/ req[t].pc = "emit" /\ req'[t].pc = AfterEmit(t) /\ EmitNothing(t)
         \/ req[t].pc = "autolink" /\ req'[t].pc = "emit"
         \/ req[t].pc = "readlinks" /\ req'[t].pc \in {"emit", "inherit"}
  BY <1>0, ControlMoves DEF uncommitted
<1>2. EmitKind(t)' = EmitKind(t)
  BY <1>1 DEF EmitKind
<1>3. ASSUME req[t].op \notin {"archive", "stale"}, req[t].pc \in {"autolink", "readlinks"}
      PROVE  req[t].fresh \in Entry /\ dirty[t][req[t].fresh] # None
  <2>1. req[t].fresh # None
    BY <1>0, <1>3 DEF NamesOK, BeforeWrite
  <2> QED BY <2>1, FreshRow
<1>4. CASE req[t].pc \notin {"emit", "autolink", "readlinks"}
  <2>0. req'[t].pc # "emit"
    BY <1>0, <1>1, <1>4 DEF PathOK, Request, OpNames
  <2>1. Told(t)' = Told(t) /\ req'[t].pc # "emit"
    <3>1. CASE req[t].op \in {"archive", "stale"}
      BY <1>1, <1>4, <2>0, <3>1 DEF Told
    <3>2. CASE req[t].op \notin {"archive", "stale"}
      <4>1. req[t].pc # "commit" /\ req'[t].pc # "commit"
        BY <1>0, <1>1, <1>4, <3>2 DEF PathOK, Request, OpNames
      <4> QED BY <1>1, <2>0, <3>2, <4>1 DEF Told
    <3> QED BY <3>1, <3>2
  <2>2. req[t].op \in {"archive", "stale"} => EmitPrevious(t)' = EmitPrevious(t)
    BY <1>1 DEF EmitPrevious
  <2>3. req[t].op \notin {"archive", "stale"} => Told(t) = {}
    BY <1>0, <1>1, <1>4 DEF Told, PathOK
  <2>4. ReportOK(t)'
    BY <1>1, <1>2, <2>1, <2>2, <2>3, NothingTold
  <2>5. DatedOK(t)'
    BY <1>0, <1>1, <2>1 DEF DatedOK
  <2> QED BY <1>1, <2>4, <2>5, OtherReports
<1>5. CASE req[t].pc \in {"autolink", "readlinks"}
  <2>1. req[t].op \notin {"archive", "stale"} /\ req'[t].pc \in {"emit", "inherit"}
    BY <1>0, <1>1, <1>5 DEF PathOK
  <2>2. Told(t)' = {} /\ Told(t) = {}
    BY <1>1, <1>5, <2>1 DEF Told
  <2>3. ReportOK(t)'
    BY <1>1, <2>2, NothingTold
  <2>4. DatedOK(t)'
    BY <1>0, <1>1, <1>3, <1>5, <2>1 DEF DatedOK, EmitEntry
  <2> QED BY <1>1, <2>3, <2>4, OtherReports
<1>6. CASE req[t].pc = "emit"
  <2> DEFINE e == EmitEntry(t)
  <2>1. /\ e \in Entry /\ dirty[t][e] # None /\ View(t, e).project = None
        /\ req'[t].pc \in {"next", "commit"} /\ req'[t].target = req[t].target
        /\ req'[t].leaf = req[t].leaf
        /\ req[t].op \notin {"archive", "stale"} => req'[t].pc = "commit"
    BY <1>0, <1>1, <1>6 DEF DatedOK, EmitNothing, AfterEmit
  <2>2. Told(t)' = Told(t) \cup {e}
    BY <1>1, <1>6, <2>1 DEF Told, EmitEntry
  <2>3. EmitPrevious(t)' = EmitPrevious(t)
    BY <1>1, <2>1 DEF EmitPrevious
  <2>4. dirty[t][e].project = None
    BY <2>1 DEF View
  <2> HIDE DEF e
  <2>5. ReportOK(t)'
    BY <1>0, <1>1, <1>2, <2>2, <2>3, <2>4 DEF ReportOK
  <2>6. DatedOK(t)'
    BY <1>0, <1>1, <2>1 DEF DatedOK
  <2> QED BY <1>1, <2>5, <2>6, OtherReports
<1> QED BY <1>4, <1>5, <1>6

\* A step that only moves a request that has written its rows and not yet
\* told of them, or has not written.
LEMMA MoveReports ==
  ASSUME ReportInv, ChainInv', FeedInv', NEW t \in Tx, UNCHANGED <<now, dirty, devents>>,
         \A u \in Tx \ {t} : req'[u] = req[u],
         req'[t].op = req[t].op, req'[t].fresh = req[t].fresh,
         req'[t].target = req[t].target, req'[t].leaf = req[t].leaf,
         req[t].pc \notin {"emit", "commit"}, req'[t].pc # "commit",
         req'[t].pc = "emit" => req[t].pc = "inherit"
  PROVE  ReportInv'
<1>0. /\ PathOK(req[t]) /\ NamesOK(req[t]) /\ req[t] \in Request /\ DatedOK(t)
  BY StartOfControl DEF ReportInv, ChainInv, StoreInv
<1>1. req[t].pc = "inherit" => req[t].op \in {"revise", "restore"}
  BY <1>0 DEF PathOK, Request, OpNames
<1>2. Told(t)' = Told(t)
  BY <1>1 DEF Told
<1>3. EmitKind(t)' = EmitKind(t) /\ EmitPrevious(t)' = EmitPrevious(t)
  BY DEF EmitKind, EmitPrevious
<1>4. ReportOK(t)'
  BY <1>2, <1>3, NothingTold
<1>5. req[t].pc = "inherit" => req[t].fresh \in Entry /\ dirty[t][req[t].fresh] # None
  <2>1. req[t].pc = "inherit" => req[t].fresh # None
    BY <1>0, <1>1 DEF NamesOK, BeforeWrite
  <2> QED BY <2>1, FreshRow
<1>6. DatedOK(t)'
  BY <1>0, <1>1, <1>5 DEF DatedOK, EmitEntry
<1> QED BY <1>4, <1>6, OtherReports

LEMMA LockReports ==
  ASSUME ReportInv, ChainInv', FeedInv', NEW t \in Tx, LockTarget(t) \/ LockLeaf(t)
  PROVE  ReportInv'
<1>0. /\ req[t] \in Request /\ req \in [Tx -> Request]
  BY StartOfControl DEF ReportInv, ChainInv, StoreInv
<1>1. UNCHANGED <<now, dirty, devents>>
  BY DEF LockTarget, LockLeaf, uncommitted
<1>2. /\ \A u \in Tx \ {t} : req'[u] = req[u]
      /\ req'[t].op = req[t].op /\ req'[t].fresh = req[t].fresh
      /\ req'[t].target = req[t].target /\ req'[t].leaf = req[t].leaf
      /\ req[t].pc \in {"lock", "lockleaf"} /\ req'[t].pc \in {"chain", "check"}
  BY <1>0 DEF LockTarget, LockLeaf, At, Goto, Request
<1> QED BY <1>1, <1>2, MoveReports

LEMMA LinkReports ==
  ASSUME ReportInv, ChainInv', FeedInv', NEW t \in Tx,
         \/ \E c \in Entry : AutoLink(t, c)
         \/ \E l \in Entry \X Entry : InheritLink(t, l)
  PROVE  ReportInv'
<1>0. /\ req[t] \in Request /\ req \in [Tx -> Request]
  BY StartOfControl DEF ReportInv, ChainInv, StoreInv
<1>1. UNCHANGED <<now, dirty, devents>>
  BY DEF AutoLink, InheritLink
<1>2. CASE \E c \in Entry : AutoLink(t, c)
  <2>1. UNCHANGED req /\ req[t].pc = "autolink"
    BY <1>2 DEF AutoLink, At
  <2> QED BY <1>1, <2>1, MoveReports
<1>3. CASE \E l \in Entry \X Entry : InheritLink(t, l)
  <2>1. PICK l \in Entry \X Entry :
          req' = [req EXCEPT ![t].pending = req[t].pending \ {l},
                             ![t].pc = AfterLinks(req[t].pending \ {l})]
    BY <1>3 DEF InheritLink
  <2>2. AfterLinks(req[t].pending \ {l}) \in {"emit", "inherit"}
    BY DEF AfterLinks
  <2>3. req[t].pc = "inherit"
    BY <1>3 DEF InheritLink, At
  <2>4. /\ \A u \in Tx \ {t} : req'[u] = req[u]
        /\ req'[t].op = req[t].op /\ req'[t].fresh = req[t].fresh
        /\ req'[t].target = req[t].target /\ req'[t].leaf = req[t].leaf
        /\ req'[t].pc \in {"emit", "inherit"}
    BY <1>0, <2>1, <2>2 DEF Request
  <2> QED BY <1>1, <2>3, <2>4, MoveReports
<1> QED BY <1>2, <1>3

LEMMA OutsideReports ==
  ASSUME ReportInv, ChainInv', FeedInv', Outside
  PROVE  ReportInv'
<1>1. UNCHANGED <<req, dirty, devents>> /\ now' \in now..MaxTime
  <2>1. now \in Nat /\ now <= MaxTime
    BY DEF ReportInv, ChainInv, StoreInv, TypeInv, TypeOK
  <2> QED BY <2>1 DEF Outside, CreateLink, DeleteLink, Tick, vars, uncommitted
<1>2. ASSUME NEW t \in Tx PROVE ReportOK(t)' /\ DatedOK(t)'
  <2>1. ReportOK(t) /\ DatedOK(t) /\ now \in Nat
    BY DEF ReportInv, ChainInv, StoreInv, TypeInv, TypeOK
  <2>2. /\ EmitEntry(t)' = EmitEntry(t) /\ EmitKind(t)' = EmitKind(t)
        /\ EmitPrevious(t)' = EmitPrevious(t) /\ Told(t)' = Told(t)
    BY <1>1 DEF EmitEntry, EmitKind, EmitPrevious, Told
  <2>3. ReportOK(t)'
    BY <1>1, <2>1, <2>2 DEF ReportOK
  <2>4. (0..now) \subseteq (0..now')
    BY <1>1, <2>1
  <2>5. DatedOK(t)'
    BY <1>1, <2>1, <2>2, <2>4 DEF DatedOK
  <2> QED BY <2>3, <2>5
<1> QED BY <1>1, <1>2 DEF ReportInv

\* A request that ends forgets its report.
LEMMA EndReports ==
  ASSUME ReportInv, ChainInv', FeedInv', NEW t \in Tx, Rollback(t) \/ Commit(t)
  PROVE  ReportInv'
<1>0. EndTx(t) /\ UNCHANGED now
  BY DEF Rollback, Commit
<1>1. /\ req'[t] = Idle /\ \A u \in Tx \ {t} : req'[u] = req[u] /\ dirty'[u] = dirty[u]
  BY <1>0, EndTxStore DEF ReportInv, ChainInv
<1>2. devents'[t] = {} /\ \A u \in Tx \ {t} : devents'[u] = devents[u]
  BY <1>0, EndTxFeed DEF ReportInv
<1>3. Told(t)' = {}
  BY <1>1 DEF Told, Idle, OpNames
<1>4. ReportOK(t)'
  BY <1>2, <1>3 DEF ReportOK
<1>5. DatedOK(t)'
  BY <1>1 DEF DatedOK, Idle
<1> QED BY <1>0, <1>1, <1>2, <1>4, <1>5, OtherReports

\* A request that writes its new row.
LEMMA InsertReports ==
  ASSUME ReportInv, ChainInv', FeedInv', NEW t \in Tx, NEW n \in Entry,
         \/ CreateInsert(t, n) \/ ReviseWrite(t, n)
         \/ AssignWrite(t, n) \/ RestoreWrite(t, n)
  PROVE  ReportInv'
<1>0. /\ PathOK(req[t]) /\ NamesOK(req[t]) /\ req[t] \in Request /\ req \in [Tx -> Request]
      /\ now \in Nat /\ dirty \in [Tx -> [Entry -> Row \cup {None}]]
  BY StartOfControl DEF ReportInv, ChainInv, StoreInv, TypeInv, TypeOK
<1>1. /\ UNCHANGED <<now, devents>>
      /\ req[t].pc \in {"insert", "write"}
      /\ req[t].op \in {"create", "revise", "assign", "restore"}
  BY <1>0
  DEF CreateInsert, ReviseWrite, AssignWrite, RestoreWrite, At, PathOK, Request, OpNames
<1>2. /\ \A u \in Tx \ {t} : req'[u] = req[u]
      /\ req'[t].op = req[t].op /\ req'[t].fresh = n
      /\ req'[t].pc \in {"autolink", "readlinks"}
  BY <1>0 DEF CreateInsert, ReviseWrite, AssignWrite, RestoreWrite, Request
<1>3. /\ \A u \in Tx \ {t} : dirty'[u] = dirty[u]
      /\ dirty'[t][n].validFrom \in (0..now) \cup Given
  <2>1. CASE CreateInsert(t, n)
    <3>1. PICK from \in Given \cup {now} :
            dirty' = [dirty EXCEPT ![t][n] = NewRow(req[t].project, from, None)]
      BY <2>1 DEF CreateInsert
    <3> DEFINE new == NewRow(req[t].project, from, None)
    <3>2. new.validFrom = from
      BY DEF NewRow
    <3> HIDE DEF new
    <3>3. dirty' = [dirty EXCEPT ![t][n] = new]
      BY <3>1 DEF new
    <3>4. dirty'[t][n] = new /\ \A u \in Tx \ {t} : dirty'[u] = dirty[u]
      BY <1>0, <3>3
    <3> QED BY <1>0, <3>2, <3>4
  <2>2. ASSUME NEW e, NEW closed, NEW p, NEW x,
               dirty' = [dirty EXCEPT ![t][e] = closed, ![t][n] = NewRow(p, now, x)]
        PROVE  /\ \A u \in Tx \ {t} : dirty'[u] = dirty[u]
               /\ dirty'[t][n].validFrom \in (0..now) \cup Given
    <3> DEFINE new == NewRow(p, now, x)
    <3>2. new.validFrom = now
      BY DEF NewRow
    <3> HIDE DEF new
    <3>3. dirty' = [dirty EXCEPT ![t][e] = closed, ![t][n] = new]
      BY <2>2 DEF new
    <3>4. dirty'[t][n] = new /\ \A u \in Tx \ {t} : dirty'[u] = dirty[u]
      BY <1>0, <3>3
    <3> QED BY <1>0, <3>2, <3>4
  <2>3. CASE ReviseWrite(t, n)
    BY <2>2, <2>3 DEF ReviseWrite
  <2>4. CASE AssignWrite(t, n)
    BY <2>2, <2>4 DEF AssignWrite
  <2>5. CASE RestoreWrite(t, n)
    BY <2>2, <2>5 DEF RestoreWrite
  <2> QED BY <2>1, <2>3, <2>4, <2>5
<1>4. Told(t) = {} /\ Told(t)' = {}
  BY <1>1, <1>2 DEF Told
<1>5. ReportOK(t)'
  BY <1>1, <1>4, NothingTold
<1>6. DatedOK(t)'
  BY <1>1, <1>2, <1>3 DEF DatedOK
<1> QED BY <1>1, <1>2, <1>3, <1>5, <1>6, OtherReports

LEMMA ArchiveWriteReports ==
  ASSUME ReportInv, ChainInv', FeedInv', NEW t \in Tx, ArchiveWrite(t)
  PROVE  ReportInv'
<1>0. /\ PathOK(req[t]) /\ NamesOK(req[t]) /\ req[t] \in Request /\ req \in [Tx -> Request]
      /\ WriteOK(t) /\ dirty \in [Tx -> [Entry -> Row \cup {None}]] /\ TypeInv /\ now \in Nat
      /\ db \in [Entry -> Row \cup {None}]
  BY StartOfControl DEF ReportInv, ChainInv, StoreInv, TypeInv, TypeOK, TxOK
<1> DEFINE e == req[t].target
           closed == Close(View(t, e), now)
<1>1. /\ req[t].pc = "write" /\ req[t].op \in {"archive", "stale"}
      /\ UNCHANGED <<now, devents>>
      /\ dirty' = [dirty EXCEPT ![t][e] = closed]
      /\ req' = [req EXCEPT ![t].pc = "emit"]
  BY DEF ArchiveWrite, At, Goto
<1>2. e \in Entry /\ db[e] # None /\ dirty[t][e] = None
  BY <1>0, <1>1 DEF NamesOK, Committed, WriteOK
<1>3. closed # None
  BY <1>0, <1>2, CloseType DEF View
<1>4. /\ \A u \in Tx \ {t} : req'[u] = req[u]
      /\ req'[t].pc = "emit" /\ req'[t].op = req[t].op /\ req'[t].target = e
      /\ req'[t].fresh = None
  BY <1>0, <1>1 DEF Request, NamesOK
<1> HIDE DEF closed, e
<1>5. /\ dirty'[t][e] = closed /\ \A f \in Entry \ {e} : dirty'[t][f] = dirty[t][f]
      /\ \A u \in Tx \ {t} : dirty'[u] = dirty[u]
  BY <1>0, <1>1, <1>2
<1>6. /\ Told(t)' = {f \in Entry : dirty'[t][f] # None /\ f # e}
      /\ Told(t) = {f \in Entry : dirty[t][f] # None}
  BY <1>1, <1>4 DEF Told, e
<1>7. Told(t)' = Told(t)
  BY <1>2, <1>5, <1>6
<1>8. EmitKind(t)' = EmitKind(t) /\ EmitPrevious(t)' = EmitPrevious(t)
  BY <1>1, <1>4 DEF EmitKind, EmitPrevious
<1>9. \A f \in Told(t) : dirty'[t][f] = dirty[t][f]
  BY <1>2, <1>5, <1>6
<1>10. ReportOK(t)'
  BY <1>1, <1>7, <1>8, <1>9, NothingTold
<1>11. DatedOK(t)'
  BY <1>1, <1>2, <1>3, <1>4, <1>5 DEF DatedOK, EmitEntry
<1> QED BY <1>1, <1>4, <1>5, <1>10, <1>11, OtherReports

LEMMA EmitReports ==
  ASSUME ReportInv, ChainInv', FeedInv', NEW t \in Tx, NEW p \in Project, Emit(t, p)
  PROVE  ReportInv'
<1>0. /\ PathOK(req[t]) /\ NamesOK(req[t]) /\ req[t] \in Request /\ req \in [Tx -> Request]
      /\ ReportOK(t) /\ DatedOK(t) /\ TypeInv /\ devents \in [Tx -> SUBSET Event]
  BY StartOfControl DEF ReportInv, ChainInv, StoreInv, TypeInv, TypeOK
<1> DEFINE e == EmitEntry(t)
           ev == [project |-> p, seq |-> SequenceOf(t, p) + 1, kind |-> EmitKind(t),
                  entry |-> EmitEntry(t), previous |-> EmitPrevious(t)]
<1>1. /\ req[t].pc = "emit" /\ UNCHANGED <<now, dirty>>
      /\ View(t, e).project = p
      /\ devents' = [devents EXCEPT ![t] = @ \cup {ev}]
      /\ req' = [req EXCEPT ![t].pc = AfterEmit(t)]
  BY DEF Emit, At, Goto
<1>2. /\ ev.project = p /\ ev.kind = EmitKind(t) /\ ev.entry = e
      /\ ev.previous = EmitPrevious(t)
  OBVIOUS
<1>3. e \in Entry /\ dirty[t][e] # None /\ dirty[t][e].project = p
  BY <1>0, <1>1 DEF DatedOK, View
<1>4. /\ \A u \in Tx \ {t} : req'[u] = req[u]
      /\ req'[t].op = req[t].op /\ req'[t].target = req[t].target
      /\ req'[t].fresh = req[t].fresh /\ req'[t].leaf = req[t].leaf
      /\ req'[t].pc \in {"next", "commit"}
      /\ req[t].op \notin {"archive", "stale"} => req'[t].pc = "commit"
  BY <1>0, <1>1 DEF Request, AfterEmit
<1>5. Told(t)' = Told(t) \cup {e} /\ e \notin Told(t)
  BY <1>1, <1>3, <1>4 DEF Told, EmitEntry
<1>6. EmitKind(t)' = EmitKind(t) /\ EmitPrevious(t)' = EmitPrevious(t)
  BY <1>4 DEF EmitKind, EmitPrevious
<1> HIDE DEF ev, e
<1>7. devents'[t] = devents[t] \cup {ev} /\ \A u \in Tx \ {t} : devents'[u] = devents[u]
  BY <1>0, <1>1
<1>8. ReportOK(t)'
  <2>1. \A x \in devents'[t] :
          /\ x.entry \in Told(t)' /\ x.project = dirty'[t][x.entry].project
          /\ x.kind = EmitKind(t)' /\ x.previous = EmitPrevious(t)'
    BY <1>0, <1>1, <1>2, <1>3, <1>5, <1>6, <1>7 DEF ReportOK
  <2>2. \A f \in Told(t)' :
          dirty'[t][f].project # None => \E x \in devents'[t] : x.entry = f
    BY <1>0, <1>1, <1>2, <1>5, <1>7 DEF ReportOK
  <2>3. \A x \in devents[t] : x.entry # e
    BY <1>0, <1>5 DEF ReportOK
  <2>4. \A x, y \in devents'[t] : x.entry = y.entry => x = y
    BY <1>0, <1>2, <1>7, <2>3 DEF ReportOK
  <2> QED BY <2>1, <2>2, <2>4 DEF ReportOK
<1>9. DatedOK(t)'
  BY <1>0, <1>1, <1>4 DEF DatedOK
<1> QED BY <1>1, <1>4, <1>7, <1>8, <1>9, OtherReports

LEMMA NextReportInv == ReportInv /\ [Next]_vars => ReportInv'
<1> SUFFICES ASSUME ReportInv, [Next]_vars PROVE ReportInv'
  OBVIOUS
<1>1. ChainInv' /\ FeedInv'
  BY NextChainInv, NextFeedInv DEF ReportInv
<1> QED BY <1>1, NextCases, OutsideReports, ArriveReports, ControlReports, LockReports,
           ArchiveWriteReports, EndReports, InsertReports, LinkReports, EmitReports

LEMMA ReportInvariance == Spec => []ReportInv
BY InitReportInv, NextReportInv, PTL DEF Spec

-----------------------------------------------------------------------------
(* The abstract history: every commit is one of its steps.                  *)

\* The two specifications speak of rows in the same terms.
LEMMA SameTerms ==
  /\ \A r, at : History!Close(r, at) = Close(r, at)
  /\ \A p, from, x : History!NewRow(p, from, x) = NewRow(p, from, x)
  /\ \A r : (History!IsOpen(r) <=> IsOpen(r)) /\ (History!IntervalHolds(r) <=> IntervalHolds(r))
<1>1. \A r, at : History!Close(r, at) = Close(r, at)
  BY DEF History!Close, Close
<1>2. \A p, from, x : History!NewRow(p, from, x) = NewRow(p, from, x)
  BY DEF History!NewRow, NewRow, History!Open, Open
<1>3. \A r : (History!IsOpen(r) <=> IsOpen(r)) /\ (History!IntervalHolds(r) <=> IntervalHolds(r))
  BY DEF History!IsOpen, IsOpen, History!IntervalHolds, IntervalHolds, History!Open, Open
<1> QED BY <1>1, <1>2, <1>3

LEMMA SameRootOf == History!Roots(db) = RootOf
<1>1. History!Cardinality(Entry) = Cardinality(Entry)
  BY DEF History!Cardinality, Cardinality
<1> QED BY <1>1 DEF History!Roots, RootOf, Roots

LEMMA InitHistory == Init => History!Init
BY DEF Init, History!Init

\* The facts a transaction has told when it commits.
Facts(t) == {History!Fact(dirty[t][e].project, EmitKind(t), e, EmitPrevious(t)) : e \in Told(t)}

LEMMA FactFields ==
  ASSUME NEW p, NEW k, NEW e, NEW q
  PROVE  /\ History!Fact(p, k, e, q).project = p /\ History!Fact(p, k, e, q).kind = k
         /\ History!Fact(p, k, e, q).entry = e /\ History!Fact(p, k, e, q).previous = q
BY DEF History!Fact

LEMMA CommitAppends ==
  ASSUME ReportInv, NEW t \in Tx, Commit(t)
  PROVE  History!Append(Facts(t))
<1>0. /\ events' = events \cup devents[t]
      /\ feed' = [p \in Project |-> SequenceOf(t, p)]
      /\ \A p \in Project : feed'[p] = IF feedLock[p] = t THEN dseq[t][p] ELSE feed[p]
  BY DEF Commit, SequenceOf
<1>1. /\ FeedOK(t) /\ LogOK /\ ReportOK(t)
      /\ \A p \in Project : feed[p] \in Nat /\ dseq[t][p] \in Nat
  BY DEF ReportInv, FeedInv, TypeInv, TypeOK
<1>2. /\ \A x \in events : x.project \in Project /\ x.seq \in Nat
      /\ \A x \in devents[t] : x.project \in Project /\ x.seq \in Nat
  BY DEF ReportInv, FeedInv, TypeInv, TypeOK, Event
<1>3. events \cap devents[t] = {}
  <2> SUFFICES ASSUME NEW x \in events, x \in devents[t] PROVE FALSE
    OBVIOUS
  <2>1. x.seq <= feed[x.project] /\ feed[x.project] < x.seq
    BY <1>1, <1>2 DEF LogOK, FeedOK
  <2> QED BY <1>1, <1>2, <2>1
<1> DEFINE new == events' \ events
           W(x) == History!What(x)
<1>4. new = devents[t] /\ events \subseteq events'
  BY <1>0, <1>3
<1>5. \A x : W(x) = History!Fact(x.project, x.kind, x.entry, x.previous)
  BY DEF History!What, History!Fact
<1>6. {W(x) : x \in new} = {f \in Facts(t) : f.project # None}
  <2> HIDE DEF W
  <2>1. ASSUME NEW x \in devents[t]
        PROVE  /\ W(x) \in Facts(t) /\ W(x).project # None
               /\ W(x) = History!Fact(dirty[t][x.entry].project, EmitKind(t), x.entry, EmitPrevious(t))
    <3>1. W(x) = History!Fact(dirty[t][x.entry].project, EmitKind(t), x.entry, EmitPrevious(t))
          /\ x.entry \in Told(t)
      BY <1>1, <1>5 DEF ReportOK
    <3>2. W(x) \in Facts(t)
      BY <3>1 DEF Facts
    <3>3. W(x).project = x.project
      BY <1>5, FactFields
    <3> QED BY <1>2, <3>1, <3>2, <3>3
  <2>2. ASSUME NEW f \in Facts(t), f.project # None
        PROVE  \E x \in devents[t] : f = W(x)
    <3>1. PICK e \in Told(t) :
            f = History!Fact(dirty[t][e].project, EmitKind(t), e, EmitPrevious(t))
      BY DEF Facts
    <3>2. dirty[t][e].project # None
      BY <2>2, <3>1, FactFields
    <3>3. PICK x \in devents[t] : x.entry = e
      BY <1>1, <3>2 DEF ReportOK
    <3> QED BY <2>1, <3>1, <3>3
  <2> QED BY <1>4, <2>1, <2>2
<1>7. \A x, y \in new : W(x) = W(y) => x = y
  <2>1. \A x : W(x).entry = x.entry
    BY DEF History!What
  <2> HIDE DEF W
  <2> QED BY <1>1, <1>4, <2>1 DEF ReportOK
<1>8. DOMAIN feed' = Project
  BY <1>0
<1>9. ASSUME NEW p \in Project
      PROVE  /\ feed'[p] >= feed[p]
             /\ {x.seq : x \in {y \in new : y.project = p}} = (feed[p] + 1) .. feed'[p]
             /\ \A x, y \in new : x.project = p /\ y.project = p /\ x.seq = y.seq => x = y
  <2> HIDE DEF new
  <2>1. feed'[p] >= feed[p] /\ feed'[p] \in Nat
    BY <1>0, <1>1 DEF FeedOK
  <2>2. \A n \in Nat : n \in {x.seq : x \in {y \in new : y.project = p}}
                         <=> n \in (feed[p] + 1) .. feed'[p]
    <3> TAKE n \in Nat
    <3>1. n \in {x.seq : x \in {y \in new : y.project = p}}
            <=> \E x \in devents[t] : x.project = p /\ x.seq = n
      BY <1>4
    <3>2. (\E x \in devents[t] : x.project = p /\ x.seq = n)
            <=> feedLock[p] = t /\ feed[p] < n /\ n <= dseq[t][p]
      BY <1>1 DEF FeedOK
    <3> QED BY <1>0, <1>1, <3>1, <3>2
  <2>3. {x.seq : x \in {y \in new : y.project = p}} \subseteq Nat
    BY <1>2, <1>4
  <2>4. (feed[p] + 1) .. feed'[p] \subseteq Nat
    BY <1>1, <2>1
  <2>5. {x.seq : x \in {y \in new : y.project = p}} = (feed[p] + 1) .. feed'[p]
    BY <2>2, <2>3, <2>4
  <2>6. \A x, y \in new : x.project = p /\ y.project = p /\ x.seq = y.seq => x = y
    BY <1>1, <1>4 DEF FeedOK
  <2> QED BY <2>1, <2>5, <2>6
<1> QED BY <1>4, <1>6, <1>7, <1>8, <1>9 DEF History!Append

\* What is known of a request that commits.
LEMMA AtCommit ==
  ASSUME ReportInv, NEW t \in Tx, Commit(t)
  PROVE  /\ req[t].pc = "commit" /\ req[t] \in Request /\ PathOK(req[t]) /\ NamesOK(req[t])
         /\ Wrote(t) /\ WrittenOK(t) /\ SourceOK(t) /\ DatedOK(t) /\ TxOK(t)
         /\ StoreInv /\ LinearHistory /\ now \in Nat /\ now <= MaxTime
         /\ db \in [Entry -> Row \cup {None}] /\ dirty[t] \in [Entry -> Row \cup {None}]
         /\ db' = [e \in Entry |-> View(t, e)]
         /\ History!Append(Facts(t))
<1>1. req[t].pc = "commit" /\ db' = [e \in Entry |-> View(t, e)]
  BY DEF Commit, At
<1>2. Wrote(t)
  BY <1>1 DEF Wrote, BeforeWrite
<1>3. /\ PathOK(req[t]) /\ NamesOK(req[t]) /\ req[t] \in Request /\ StoreInv
      /\ WrittenOK(t) /\ SourceOK(t) /\ DatedOK(t) /\ TxOK(t)
      /\ now <= MaxTime
  BY StartOfControl DEF ReportInv, ChainInv, StoreInv, TxHeirs
<1>4. /\ LinearHistory /\ now \in Nat
      /\ db \in [Entry -> Row \cup {None}] /\ dirty[t] \in [Entry -> Row \cup {None}]
  BY <1>3 DEF StoreInv, TypeInv, TypeOK
<1> QED BY <1>1, <1>2, <1>3, <1>4, CommitAppends

\* The facts of a request with one new row.
LEMMA FreshFacts ==
  ASSUME NEW t \in Tx, req[t].pc = "commit", req[t].op \notin {"archive", "stale"},
         NEW p, dirty[t][req[t].fresh].project = p, NEW k, EmitKind(t) = k,
         NEW x, EmitPrevious(t) = x
  PROVE  Facts(t) = {History!Fact(p, k, req[t].fresh, x)}
<1>1. Told(t) = {req[t].fresh}
  BY DEF Told
<1> QED BY <1>1 DEF Facts

\* An open entry is the end of its chain.
LEMMA OpenIsLast ==
  ASSUME LinearHistory, NEW e \in Entry, IsOpen(db[e])
  PROVE  ~History!Succeeded(e)
BY DEF LinearHistory, Exists, IsOpen, History!Succeeded

LEMMA CreateCommit ==
  ASSUME ReportInv, NEW t \in Tx, Commit(t), req[t].op = "create"
  PROVE  History!Next
<1> DEFINE n == req[t].fresh
           p == req[t].project
           from == dirty[t][n].validFrom
<1>1. n # None
  BY AtCommit DEF NamesOK, Wrote
<1>2. n \in Entry /\ db[n] = None /\ from \in 0..MaxTime \cup Given /\ p \in Project \cup {None}
  <2>1. n \in Entry /\ db[n] = None /\ p \in Project \cup {None}
    BY <1>1, FreshRow, AtCommit DEF Request
  <2>2. from \in (0..now) \cup Given
    BY <1>1, AtCommit DEF DatedOK
  <2>3. now \in Nat /\ now <= MaxTime
    BY AtCommit
  <2> HIDE DEF from
  <2> QED BY <2>1, <2>2, <2>3
<1>3. dirty[t][n] = NewRow(p, from, None) /\ \A e \in Entry \ {n} : dirty[t][e] = None
  BY AtCommit DEF WrittenOK, CreatedOK, Inserted, OnlyWrote
<1> DEFINE new == NewRow(p, from, None)
<1>4. new # None /\ new.project = p
  <2>1. new # None
    BY <1>1, <1>3, FreshRow
  <2>2. new.project = p
    BY DEF NewRow
  <2> QED BY <2>1, <2>2
<1> HIDE DEF from, p, new
<1>5. dirty[t][n] = new
  BY <1>3 DEF new
<1>6. db' = [db EXCEPT ![n] = new]
  <2>1. \A e \in Entry : View(t, e) = IF e = n THEN new ELSE db[e]
    BY <1>2, <1>3, <1>4, <1>5 DEF View
  <2>2. db' = [e \in Entry |-> View(t, e)] /\ db \in [Entry -> Row \cup {None}]
    BY AtCommit
  <2> HIDE DEF n
  <2> QED BY <1>2, <2>1, <2>2
<1>7. EmitKind(t) = "created" /\ EmitPrevious(t) = None
  BY DEF EmitKind, EmitPrevious
<1>8. Facts(t) = {History!Fact(p, "created", n, None)}
  BY <1>4, <1>5, <1>7, AtCommit, FreshFacts
<1>9. History!Create(n, p, from)
  <2>1. new = History!NewRow(p, from, None)
    BY SameTerms DEF new
  <2>2. History!Append({History!Fact(p, "created", n, None)})
    BY <1>8, CommitAppends
  <2> QED BY <1>2, <1>6, <2>1, <2>2 DEF History!Create
<1> QED BY <1>2, <1>9 DEF History!Next

\* The rows after a commit that closes e and inserts n.
LEMMA TwoRows ==
  ASSUME NEW t \in Tx, NEW e \in Entry, NEW n \in Entry, NEW old, NEW new,
         old # None, new # None, e # n,
         dirty[t][e] = old, dirty[t][n] = new, OnlyWrote(t, {n, e}),
         db \in [Entry -> Row \cup {None}], db' = [x \in Entry |-> View(t, x)]
  PROVE  db' = [db EXCEPT ![e] = old, ![n] = new]
<1>1. \A x \in Entry : View(t, x) = IF x = n THEN new ELSE IF x = e THEN old ELSE db[x]
  BY DEF View, OnlyWrote
<1> QED BY <1>1

\* The entry a commit closes for its successor, and the date.
LEMMA ReplacedFacts ==
  ASSUME ReportInv, NEW t \in Tx, Commit(t), NEW e \in Entry, db[e] # None,
         Replaced(t, e), req[t].fresh # None
  PROVE  LET at == dirty[t][req[t].fresh].validFrom IN
         /\ at \in 0..MaxTime \cup Given
         /\ at > db[e].validFrom /\ IsOpen(db[e]) /\ ~History!Succeeded(e)
         /\ dirty[t][e] = Close(db[e], at) /\ dirty[t][e] # None
         /\ e # req[t].fresh
<1> DEFINE at == dirty[t][req[t].fresh].validFrom
<1>1. at \in (0..now) \cup Given
  BY AtCommit DEF DatedOK
<1>2. dirty[t][e] = Close(db[e], at) /\ IsOpen(db[e])
  BY DEF Replaced
<1> HIDE DEF at
<1>3. at \in 0..MaxTime \cup Given /\ at \in Nat
  <2>1. now \in Nat /\ now <= MaxTime
    BY AtCommit
  <2>2. CASE at \in Given
    BY <2>2
  <2>3. CASE at \in 0..now
    BY <2>1, <2>3
  <2> QED BY <1>1, <2>2, <2>3
<1>4. db[e] \in Row
  BY AtCommit
<1>5. /\ dirty[t][e] # None /\ dirty[t][e].validTo = at
      /\ dirty[t][e].validFrom = db[e].validFrom
  <2>1. Close(db[e], at) # None /\ Close(db[e], at).validTo = at
    BY <1>3, <1>4, CloseType, CloseFields
  <2>2. Close(db[e], at).validFrom = db[e].validFrom
    BY <1>4 DEF Close, Row
  <2> QED BY <1>2, <2>1, <2>2
<1>6. at > db[e].validFrom
  <2>1. IntervalHolds(dirty[t][e])
    BY <1>5, AtCommit DEF TxOK, RowsOK, WellFormed
  <2> QED BY <1>3, <1>5, <2>1 DEF IntervalHolds, Open
<1>7. e # req[t].fresh
  BY FreshRow
<1>8. ~History!Succeeded(e)
  BY <1>2, OpenIsLast, AtCommit
<1> QED BY <1>2, <1>3, <1>5, <1>6, <1>7, <1>8 DEF at

LEMMA ReviseCommit ==
  ASSUME ReportInv, NEW t \in Tx, Commit(t), req[t].op = "revise"
  PROVE  History!Next
<1> DEFINE n == req[t].fresh
           e == req[t].target
           at == dirty[t][n].validFrom
           new == NewRow(db[e].project, at, e)
           old == Close(db[e], at)
<1>1. n # None /\ e \in Entry /\ db[e] # None /\ req[t].leaf = e
  BY AtCommit DEF NamesOK, Wrote, Committed
<1>2. n \in Entry /\ db[n] = None /\ dirty[t][n] # None
  BY <1>1, FreshRow
<1>3. Replaced(t, e) /\ OnlyWrote(t, {n, e}) /\ dirty[t][n] = new
  BY AtCommit DEF WrittenOK, RevisedOK, Inserted
<1>4. /\ at \in 0..MaxTime \cup Given
      /\ at > db[e].validFrom /\ IsOpen(db[e]) /\ ~History!Succeeded(e)
      /\ dirty[t][e] = old /\ old # None /\ e # n
  BY <1>1, <1>3, ReplacedFacts
<1>5. new.project = db[e].project
  BY DEF NewRow
<1> HIDE DEF at, new, old
<1>6. db' = [db EXCEPT ![e] = old, ![n] = new]
  BY <1>1, <1>2, <1>3, <1>4, AtCommit, TwoRows
<1>7. EmitKind(t) = "revised" /\ EmitPrevious(t) = e
  BY <1>1 DEF EmitKind, EmitPrevious
<1>8. Facts(t) = {History!Fact(db[e].project, "revised", n, e)}
  BY <1>3, <1>5, <1>7, AtCommit, FreshFacts
<1>9. History!Revise(e, n, at)
  <2>1. /\ new = History!NewRow(db[e].project, at, e) /\ old = History!Close(db[e], at)
        /\ History!IsOpen(db[e])
    BY <1>4, SameTerms DEF new, old
  <2>2. History!Append({History!Fact(db[e].project, "revised", n, e)})
    BY <1>8, CommitAppends
  <2> QED BY <1>1, <1>2, <1>4, <1>6, <2>1, <2>2 DEF History!Revise
<1> QED BY <1>1, <1>2, <1>4, <1>9 DEF History!Next

LEMMA AssignCommit ==
  ASSUME ReportInv, NEW t \in Tx, Commit(t), req[t].op = "assign"
  PROVE  History!Next
<1> DEFINE n == req[t].fresh
           e == req[t].target
           p == req[t].project
           at == dirty[t][n].validFrom
           new == NewRow(p, at, None)
           old == Close(db[e], at)
<1>1. n # None /\ e \in Entry /\ db[e] # None /\ p \in Project
  BY AtCommit DEF NamesOK, Wrote, Committed
<1>2. n \in Entry /\ db[n] = None /\ dirty[t][n] # None
  BY <1>1, FreshRow
<1>3. /\ Replaced(t, e) /\ OnlyWrote(t, {n, e}) /\ dirty[t][n] = new
      /\ db[e].project = None /\ db[e].supersedes = None
  BY AtCommit DEF WrittenOK, AssignedOK, Inserted
<1>4. /\ at \in 0..MaxTime \cup Given
      /\ at > db[e].validFrom /\ IsOpen(db[e])
      /\ dirty[t][e] = old /\ old # None /\ e # n
  BY <1>1, <1>3, ReplacedFacts
<1>5. new.project = p
  BY DEF NewRow
<1> HIDE DEF at, new, old
<1>6. db' = [db EXCEPT ![e] = old, ![n] = new]
  BY <1>1, <1>2, <1>3, <1>4, AtCommit, TwoRows
<1>7. EmitKind(t) = "created" /\ EmitPrevious(t) = None
  BY DEF EmitKind, EmitPrevious
<1>8. Facts(t) = {History!Fact(p, "created", n, None)}
  BY <1>3, <1>5, <1>7, AtCommit, FreshFacts
<1>9. History!Assign(e, n, p, at)
  <2>1. new = History!NewRow(p, at, None) /\ old = History!Close(db[e], at)
    BY SameTerms DEF new, old
  <2>2. History!Append({History!Fact(p, "created", n, None)})
    BY <1>8, CommitAppends
  <2>3. db[e] # None /\ History!IsOpen(db[e])
    BY <1>1, <1>4, SameTerms
  <2>4. db' = [db EXCEPT ![e] = History!Close(@, at), ![n] = new]
    BY <1>6, <2>1
  <2> QED BY <1>1, <1>2, <1>3, <1>4, <2>1, <2>2, <2>3, <2>4 DEF History!Assign
<1> QED BY <1>1, <1>2, <1>4, <1>9 DEF History!Next

LEMMA ArchiveCommit ==
  ASSUME ReportInv, NEW t \in Tx, Commit(t), req[t].op \in {"archive", "stale"}
  PROVE  History!Next
<1> DEFINE S == {e \in Entry : dirty[t][e] # None}
<1>1. ASSUME NEW e \in S
      PROVE  /\ e \in Entry /\ db[e] # None /\ IsOpen(db[e]) /\ ~History!Succeeded(e)
             /\ db'[e] = dirty[t][e] /\ db'[e] = Close(db[e], db'[e].validTo)
             /\ db'[e].validTo \in 0..MaxTime \cup Given /\ IntervalHolds(db'[e])
             /\ dirty[t][e].project = db[e].project
  <2>1. /\ e \in Entry /\ dirty[t][e] # None /\ db[e] # None /\ IsOpen(db[e])
        /\ dirty[t][e] = Close(db[e], dirty[t][e].validTo)
    BY AtCommit DEF WrittenOK, ArchivedOK
  <2>2. ~History!Succeeded(e)
    BY <2>1, OpenIsLast, AtCommit
  <2>3. db'[e] = dirty[t][e]
    BY <2>1, AtCommit DEF View
  <2>4. db[e] \in Row /\ dirty[t][e] \in Row /\ now \in Nat /\ now <= MaxTime
    BY <2>1, AtCommit
  <2>5. WellFormed(dirty[t][e])
    BY <2>1, AtCommit DEF TxOK, RowsOK
  <2>6. dirty[t][e].archived /\ dirty[t][e].project = db[e].project
    BY <2>1, <2>4 DEF Close, Row
  <2>7. dirty[t][e].validTo \in Nat \cup {Open}
    BY <2>4 DEF Row
  <2>8. dirty[t][e].validTo \in 0..MaxTime /\ IntervalHolds(dirty[t][e])
    BY <2>4, <2>5, <2>6, <2>7 DEF WellFormed
  <2> QED BY <2>1, <2>2, <2>3, <2>6, <2>8
<1>2. ASSUME NEW e \in Entry, e \notin S PROVE db'[e] = db[e]
  BY <1>2, AtCommit DEF View
<1>3. db' = [e \in Entry |-> db'[e]]
  BY AtCommit
<1>4. S \in SUBSET Entry
  OBVIOUS
<1>5. Facts(t) = {History!Fact(dirty[t][e].project, "archived", e, None) : e \in S}
  <2>1. EmitKind(t) = "archived" /\ EmitPrevious(t) = None
    BY DEF EmitKind, EmitPrevious
  <2>2. Told(t) = S
    BY AtCommit DEF Told
  <2> HIDE DEF S
  <2> QED BY <2>1, <2>2 DEF Facts
<1> HIDE DEF S
<1>6. Facts(t) = {History!Fact(db[e].project, "archived", e, None) : e \in S}
  BY <1>1, <1>5
<1>7. db' = [e \in Entry |-> IF e \in S THEN History!Close(db[e], db'[e].validTo) ELSE db[e]]
  <2>1. \A e \in Entry :
          db'[e] = IF e \in S THEN History!Close(db[e], db'[e].validTo) ELSE db[e]
    BY <1>1, <1>2, SameTerms
  <2> QED BY <1>3, <2>1
<1>8. \A e \in S : /\ db[e] # None /\ History!IsOpen(db[e]) /\ ~History!Succeeded(e)
                   /\ db'[e].validTo \in 0..MaxTime \cup Given /\ History!IntervalHolds(db'[e])
  BY <1>1, SameTerms
<1>9. History!Append({History!Fact(db[e].project, "archived", e, None) : e \in S})
  BY <1>6, CommitAppends
<1>10. History!Archive(S)
  BY <1>7, <1>8, <1>9 DEF History!Archive
<1> QED BY <1>4, <1>10 DEF History!Next

LEMMA TimesAreNumbers == \A x \in 0..MaxTime \cup Given : x \in Int
<1> SUFFICES ASSUME NEW x \in 0..MaxTime \cup Given PROVE x \in Int
  OBVIOUS
<1>1. CASE x \in 0..MaxTime
  BY <1>1
<1>2. CASE x \in Given
  <2>1. Given \subseteq Nat
    OBVIOUS
  <2> QED BY <1>2, <2>1
<1> QED BY <1>1, <1>2

\* The end of the chain that a commit of restore continues.
LEMMA RestoredLeaf ==
  ASSUME ReportInv, NEW t \in Tx, Commit(t), req[t].op = "restore"
  PROVE  LET l == req[t].leaf
             s == req[t].source
             n == req[t].fresh
             at == dirty[t][n].validFrom
         IN
         /\ l \in Entry /\ s \in Entry /\ n \in Entry
         /\ db[l] # None /\ db[s] # None /\ db[n] = None /\ dirty[t][n] # None
         /\ db[l].history /\ db[s].history /\ RootOf[l] = RootOf[s]
         /\ at \in 0..MaxTime \cup Given /\ ~History!Succeeded(l)
         /\ dirty[t][n] = NewRow(db[l].project, at, l)
         /\ IsOpen(db[l]) => /\ s # l /\ at > db[l].validFrom
                             /\ dirty[t][l] = Close(db[l], at)
         /\ ~IsOpen(db[l]) => /\ db[l].archived /\ at >= db[l].validTo
                              /\ dirty[t][l] = db[l]
         /\ dirty[t][l] # None /\ l # n /\ OnlyWrote(t, {n, l})
<1> DEFINE l == req[t].leaf
           s == req[t].source
           n == req[t].fresh
           at == dirty[t][n].validFrom
<1>0. StoreInv /\ HeirsOK
  BY DEF ReportInv, ChainInv
<1>1. /\ n # None /\ l \in Entry /\ db[l] # None /\ s \in Entry /\ db[s] # None
  BY AtCommit DEF NamesOK, Wrote, Committed, BeforeLeaf
<1>2. n \in Entry /\ db[n] = None /\ dirty[t][n] # None
  BY <1>1, FreshRow
<1>3. /\ dirty[t][n] = NewRow(db[l].project, at, l)
      /\ IsOpen(db[l]) => Replaced(t, l) /\ s # l
      /\ ~IsOpen(db[l]) => dirty[t][l] = db[l]
      /\ OnlyWrote(t, {n, l})
  BY AtCommit DEF WrittenOK, RestoredOK, Inserted
<1>4. /\ db[s].history /\ RootOf[l] = RootOf[s]
  BY AtCommit DEF SourceOK, BeforeLeaf
<1>5. db[l].history
  BY <1>0, <1>1, <1>4, ChainHeirs
<1>6. dirty[t][n].supersedes = l
  BY <1>3 DEF NewRow
<1>7. /\ at \in (0..now) \cup Given /\ now \in Nat /\ now <= MaxTime
  BY <1>1, AtCommit DEF DatedOK
<1>8. at \in 0..MaxTime \cup Given
  <2> HIDE DEF at
  <2> QED BY <1>7
<1>9. /\ NoSuccessor(l) /\ View(t, l).archived /\ View(t, l).validTo <= at
  BY <1>1, <1>2, <1>6, AtCommit DEF TxOK, SuccOK
<1>10. ~History!Succeeded(l)
  BY <1>9 DEF NoSuccessor, History!Succeeded
<1>11. IsOpen(db[l]) => at > db[l].validFrom /\ dirty[t][l] = Close(db[l], at)
                        /\ dirty[t][l] # None
  BY <1>1, <1>3, ReplacedFacts
<1>12. ~IsOpen(db[l]) => db[l].archived /\ at >= db[l].validTo
  <2> SUFFICES ASSUME ~IsOpen(db[l]) PROVE db[l].archived /\ at >= db[l].validTo
    OBVIOUS
  <2>1. View(t, l) = db[l]
    BY <1>1, <1>3 DEF View
  <2>2. db[l].validTo \in Int /\ at \in Int
    <3>1. db[l].validTo \in Int
      <4>1. db[l] \in Row
        BY <1>1, AtCommit
      <4> HIDE DEF at
      <4> QED BY <4>1 DEF Row, Open
    <3>2. at \in Int
      <4> HIDE DEF at
      <4> QED BY <1>8, TimesAreNumbers
    <3> QED BY <3>1, <3>2
  <2> HIDE DEF at
  <2> QED BY <1>9, <2>1, <2>2
<1>13. l # n
  BY <1>1, <1>2
<1> HIDE DEF at, l, n, s
<1>14. dirty[t][l] # None
  BY <1>1, <1>3, <1>11
<1> QED BY <1>1, <1>2, <1>3, <1>4, <1>5, <1>8, <1>10, <1>11, <1>12, <1>13, <1>14
        DEF at, l, n, s

LEMMA RestoreCommit ==
  ASSUME ReportInv, NEW t \in Tx, Commit(t), req[t].op = "restore"
  PROVE  History!Next
<1> DEFINE l == req[t].leaf
           s == req[t].source
           n == req[t].fresh
           at == dirty[t][n].validFrom
           new == NewRow(db[l].project, at, l)
           old == dirty[t][l]
<1>1. /\ l \in Entry /\ s \in Entry /\ n \in Entry
      /\ db[l] # None /\ db[s] # None /\ db[n] = None /\ new # None
      /\ db[l].history /\ db[s].history /\ RootOf[l] = RootOf[s]
      /\ at \in 0..MaxTime \cup Given /\ ~History!Succeeded(l)
      /\ dirty[t][n] = new
      /\ IsOpen(db[l]) => s # l /\ at > db[l].validFrom /\ old = Close(db[l], at)
      /\ ~IsOpen(db[l]) => db[l].archived /\ at >= db[l].validTo /\ old = db[l]
      /\ old # None /\ dirty[t][l] = old /\ l # n /\ OnlyWrote(t, {n, l})
  BY RestoredLeaf
<1>2. new.project = db[l].project
  BY DEF NewRow
<1>3. new = History!NewRow(db[l].project, at, l)
  BY SameTerms
<1>4. EmitKind(t) = "restored" /\ EmitPrevious(t) = l
  BY DEF EmitKind, EmitPrevious
<1> HIDE DEF at, new, old
<1>5. Facts(t) = {History!Fact(db[l].project, "restored", n, l)}
  BY <1>1, <1>2, <1>4, AtCommit, FreshFacts
<1>6. db' = [db EXCEPT ![l] = old, ![n] = new]
  BY <1>1, AtCommit, TwoRows
<1>7. History!Append({History!Fact(db[l].project, "restored", n, l)})
  BY <1>5, CommitAppends
<1>8. old = IF History!IsOpen(db[l]) THEN History!Close(db[l], at) ELSE db[l]
  BY <1>1, SameTerms
<1>9. IF History!IsOpen(db[l]) THEN s # l /\ at > db[l].validFrom
                               ELSE db[l].archived /\ at >= db[l].validTo
  BY <1>1, SameTerms
<1>10. History!Roots(db)[l] = History!Roots(db)[s]
  BY <1>1, SameRootOf
<1> HIDE DEF l, s, n
<1>11. History!Restore(l, s, n, at)
  BY <1>1, <1>3, <1>6, <1>7, <1>8, <1>9, <1>10 DEF History!Restore
<1> QED BY <1>1, <1>11 DEF History!Next

\* Whatever a request did between its statements, its commit is one atomic
\* write of the promised history.
LEMMA CommitImplements ==
  ASSUME ReportInv, NEW t \in Tx, Commit(t)
  PROVE  History!Next
<1>1. req[t].op \in {"create", "revise", "assign", "restore", "archive", "stale"}
  BY AtCommit DEF PathOK, Request, OpNames
<1> QED BY <1>1, CreateCommit, ReviseCommit, AssignCommit, RestoreCommit, ArchiveCommit

\* Every interleaving of requests looks, in the committed tables, like the
\* requests that commit, run one after the other: each commit is one atomic
\* write with its events numbered in the same step, and no other statement
\* takes effect.
THEOREM StoreImplementsHistory == Spec => ImplementsHistory
<1>1. ReportInv /\ [Next]_vars => [History!Next]_(History!vars)
  <2> SUFFICES ASSUME ReportInv, [Next]_vars PROVE [History!Next]_(History!vars)
    OBVIOUS
  <2>1. CASE UNCHANGED <<db, feed, events>>
    BY <2>1 DEF History!vars
  <2>2. CASE \E t \in Tx : Commit(t)
    BY <2>2, CommitImplements
  <2> QED BY <2>1, <2>2, StateChangesByCommit
<1> QED BY <1>1, InitHistory, ReportInvariance, PTL DEF Spec, ImplementsHistory, History!Spec

-----------------------------------------------------------------------------
(* The feed as its readers see it.                                          *)

\* The parts of FeedReplaysProject.
OpenOf(p)   == {e \in Entry : Exists(e) /\ db[e].project = p /\ IsOpen(db[e])}
OpenedBy(E, p) == {ev.entry : ev \in {x \in E : x.project = p /\ x.kind # "archived"}}
ClosedBy(E, p) == {ev.entry : ev \in {x \in E : x.project = p /\ x.kind = "archived"}}
                  \cup {ev.previous : ev \in {x \in E : x.project = p /\ x.previous # None}}
Before(p)   == {e \in Migrated : Home[e] = p}

LEMMA ReplayParts ==
  FeedReplaysProject <=>
    \A p \in Project : OpenOf(p) = (Before(p) \cup OpenedBy(events, p)) \ ClosedBy(events, p)
<1> SUFFICES ASSUME NEW p \in Project
             PROVE  LET mine == {ev \in events : ev.project = p}
                        opened == {ev.entry : ev \in {x \in mine : x.kind # "archived"}}
                        closed == {ev.entry : ev \in {x \in mine : x.kind = "archived"}}
                                  \cup {ev.previous : ev \in {x \in mine : x.previous # None}}
                    IN  /\ opened = OpenedBy(events, p)
                        /\ closed = ClosedBy(events, p)
  <2> HIDE DEF OpenedBy, ClosedBy
  <2> QED BY DEF FeedReplaysProject, OpenOf, Before
<1> DEFINE mine == {ev \in events : ev.project = p}
<1>1. \A x : /\ x \in {y \in mine : y.kind # "archived"}
                  <=> x \in {y \in events : y.project = p /\ y.kind # "archived"}
             /\ x \in {y \in mine : y.kind = "archived"}
                  <=> x \in {y \in events : y.project = p /\ y.kind = "archived"}
             /\ x \in {y \in mine : y.previous # None}
                  <=> x \in {y \in events : y.project = p /\ y.previous # None}
  OBVIOUS
<1>2. /\ {y \in mine : y.kind # "archived"} = {y \in events : y.project = p /\ y.kind # "archived"}
      /\ {y \in mine : y.kind = "archived"} = {y \in events : y.project = p /\ y.kind = "archived"}
      /\ {y \in mine : y.previous # None} = {y \in events : y.project = p /\ y.previous # None}
  OBVIOUS
<1> QED BY <1>2 DEF OpenedBy, ClosedBy

\* Every entry the feed speaks of exists.
EventsExist ==
  \A x \in events : db[x.entry] # None /\ (x.previous # None => db[x.previous] # None)

TellsInv == FeedInv /\ EventsExist /\ FeedTellsHistory

LEMMA InitTellsInv == Init => TellsInv
<1> SUFFICES ASSUME Init PROVE TellsInv
  OBVIOUS
<1>1. events = {} /\ db = MigratedTable
  BY DEF Init
<1>2. EventsExist /\ FeedOrdersLineage
  BY <1>1 DEF EventsExist, FeedOrdersLineage
<1>3. ASSUME NEW p \in Project
      PROVE  OpenOf(p) = (Before(p) \cup OpenedBy(events, p)) \ ClosedBy(events, p)
  <2>1. OpenedBy(events, p) = {} /\ ClosedBy(events, p) = {}
    BY <1>1 DEF OpenedBy, ClosedBy
  <2>2. ASSUME NEW e \in Migrated
        PROVE  db[e] # None /\ db[e].project = Home[e] /\ IsOpen(db[e])
    <3>1. db[e] = NewRow(Home[e], 0, None) /\ Home[e] \in Project \cup {None}
      BY <1>1 DEF MigratedTable
    <3>2. NewRow(Home[e], 0, None) # None
      BY <3>1, NewRowType
    <3> QED BY <3>1, <3>2 DEF NewRow, IsOpen, Open
  <2>3. ASSUME NEW e \in Entry \ Migrated, db[e] # None PROVE ~IsOpen(db[e])
    <3>1. e \in Legacy
             /\ db[e] = [Close(NewRow(Home[e], 0, None), Cutover) EXCEPT !.history = FALSE]
      BY <1>1, <2>3 DEF MigratedTable
    <3>2. db[e].archived
      BY <3>1 DEF Close, NewRow
    <3> QED BY <3>2 DEF IsOpen
  <2>4. \A e : e \in OpenOf(p) <=> e \in Before(p)
    BY <2>2, <2>3 DEF OpenOf, Before, Exists
  <2> HIDE DEF OpenOf, Before
  <2> QED BY <2>1, <2>4
<1> QED BY <1>2, <1>3, ReplayParts, InitFeedInv DEF TellsInv, FeedTellsHistory

-----------------------------------------------------------------------------

\* What F tells of a step that brings the entries Come in and closes Gone.
TellsOf(F, Come, Gone) ==
  \A p \in Project : OpenedBy(F, p) = {e \in Come : db'[e].project = p}
                  /\ ClosedBy(F, p) = {e \in Gone : db'[e].project = p}

\* The events of a step bear the facts that concern a project.
LEMMA NewEvents ==
  ASSUME NEW F, History!Append(F), \A x \in events' \ events : x.project # None
  PROVE  /\ events \subseteq events'
         /\ \A x \in events' \ events :
              \E f \in F : /\ f.project = x.project /\ f.kind = x.kind
                           /\ f.entry = x.entry /\ f.previous = x.previous
         /\ \A f \in F : f.project # None =>
              \E x \in events' \ events :
                           /\ f.project = x.project /\ f.kind = x.kind
                           /\ f.entry = x.entry /\ f.previous = x.previous
<1> DEFINE new == events' \ events
           real == {f \in F : f.project # None}
<1>1. events \subseteq events' /\ {History!What(x) : x \in new} = real
  BY DEF History!Append
<1>2. \A x : /\ History!What(x).project = x.project /\ History!What(x).kind = x.kind
             /\ History!What(x).entry = x.entry /\ History!What(x).previous = x.previous
  BY DEF History!What
<1> HIDE DEF new
<1>3. ASSUME NEW x \in new
      PROVE  \E f \in F : /\ f.project = x.project /\ f.kind = x.kind
                          /\ f.entry = x.entry /\ f.previous = x.previous
  BY <1>1, <1>2
<1>4. ASSUME NEW f \in F, f.project # None
      PROVE  \E x \in new : /\ f.project = x.project /\ f.kind = x.kind
                            /\ f.entry = x.entry /\ f.previous = x.previous
  <2>1. f \in real
    BY <1>4
  <2> HIDE DEF real
  <2>2. PICK x \in new : f = History!What(x)
    BY <1>1, <2>1
  <2> QED BY <1>2, <2>2
<1> QED BY <1>1, <1>3, <1>4 DEF new

LEMMA EventsGrow ==
  ASSUME NEW F, History!Append(F), \A x \in events' \ events : x.project # None,
         NEW p \in Project
  PROVE  /\ OpenedBy(events', p) = OpenedBy(events, p) \cup OpenedBy(F, p)
         /\ ClosedBy(events', p) = ClosedBy(events, p) \cup ClosedBy(F, p)
<1>1. ASSUME NEW e
      PROVE  e \in OpenedBy(events', p) <=> e \in OpenedBy(events, p) \cup OpenedBy(F, p)
  BY NewEvents DEF OpenedBy
<1>2. ASSUME NEW e
      PROVE  e \in ClosedBy(events', p) <=> e \in ClosedBy(events, p) \cup ClosedBy(F, p)
  BY NewEvents DEF ClosedBy
<1> HIDE DEF OpenedBy, ClosedBy
<1> QED BY <1>1, <1>2

LEMMA StepTells ==
  ASSUME TellsInv, FeedInv', NEW F, History!Append(F),
         NEW Come \in SUBSET Entry, NEW Gone \in SUBSET Entry, TellsOf(F, Come, Gone),
         \A e \in Come : db[e] = None /\ db'[e] # None /\ IsOpen(db'[e]),
         \A e \in Gone : /\ db[e] # None /\ db'[e] # None /\ ~IsOpen(db'[e])
                         /\ db'[e].project = db[e].project,
         \A e \in Entry \ (Come \cup Gone) : db'[e] = db[e]
  PROVE  TellsInv'
<1>0. /\ EventsExist /\ FeedOrdersLineage /\ LogOK
      /\ \A p \in Project : OpenOf(p) = (Before(p) \cup OpenedBy(events, p)) \ ClosedBy(events, p)
  BY ReplayParts DEF TellsInv, FeedTellsHistory, FeedInv
<1>1. /\ events \subseteq Event /\ events' \subseteq Event
      /\ \A p \in Project : feed[p] \in Nat /\ feed'[p] \in Nat
  BY DEF TellsInv, FeedInv, TypeInv, TypeOK
<1>2. \A x \in events' : /\ x.project \in Project /\ x.project # None /\ x.seq \in Nat
                         /\ x.entry \in Entry /\ x.previous \in Entry \cup {None}
  BY <1>1 DEF Event
<1>3. events \subseteq events'
  BY <1>2, NewEvents
<1>4. ASSUME NEW x \in events' \ events
      PROVE  /\ x.kind # "archived" => x.entry \in Come
             /\ x.kind = "archived" => x.entry \in Gone
             /\ x.previous # None => x.previous \in Gone
             /\ feed[x.project] < x.seq
  <2>1. PICK f \in F : /\ f.project = x.project /\ f.kind = x.kind
                       /\ f.entry = x.entry /\ f.previous = x.previous
    BY <1>2, NewEvents
  <2>2. /\ x.kind # "archived" => x.entry \in OpenedBy(F, x.project)
        /\ x.kind = "archived" => x.entry \in ClosedBy(F, x.project)
        /\ x.previous # None => x.previous \in ClosedBy(F, x.project)
    BY <2>1 DEF OpenedBy, ClosedBy
  <2>3. x.project \in Project
    BY <1>2
  <2>4. feed[x.project] < x.seq
    <3>1. x.seq \in {y.seq : y \in {z \in events' \ events : z.project = x.project}}
      BY <1>2
    <3>2. x.seq \in (feed[x.project] + 1) .. feed'[x.project]
      BY <2>3, <3>1 DEF History!Append
    <3> QED BY <1>1, <1>2, <2>3, <3>2
  <2> QED BY <2>2, <2>3, <2>4 DEF TellsOf
<1>5. ASSUME NEW e \in Entry, db[e] # None PROVE db'[e] # None
  BY <1>5
<1>6. EventsExist'
  BY <1>0, <1>2, <1>4, <1>5 DEF EventsExist
<1>7. FeedOrdersLineage'
  <2> SUFFICES ASSUME NEW x \in events', NEW y \in events', x.project = y.project,
                      x.kind # "archived",
                      y.previous = x.entry \/ (y.kind = "archived" /\ y.entry = x.entry)
               PROVE  x.seq < y.seq
    BY DEF FeedOrdersLineage
  <2>1. CASE x \in events /\ y \in events
    BY <1>0, <2>1 DEF FeedOrdersLineage
  <2>2. CASE x \in events /\ y \notin events
    <3>1. x.seq <= feed[x.project]
      BY <1>0, <1>2, <2>2 DEF LogOK
    <3>2. feed[y.project] < y.seq
      BY <1>4, <2>2
    <3> QED BY <1>1, <1>2, <3>1, <3>2
  <2>3. CASE x \notin events
    <3>1. x.entry \in Come /\ x.entry # None
      BY <1>2, <1>4, <2>3
    <3>2. CASE y \in events
      BY <1>0, <3>1, <3>2 DEF EventsExist
    <3>3. CASE y \notin events
      BY <1>4, <3>1, <3>3
    <3> QED BY <3>2, <3>3
  <2> QED BY <2>1, <2>2, <2>3
<1>8. ASSUME NEW p \in Project
      PROVE  OpenOf(p)' = (Before(p) \cup OpenedBy(events', p)) \ ClosedBy(events', p)
  <2>1. /\ OpenedBy(events', p) = OpenedBy(events, p) \cup {e \in Come : db'[e].project = p}
        /\ ClosedBy(events', p) = ClosedBy(events, p) \cup {e \in Gone : db'[e].project = p}
    BY <1>2, EventsGrow DEF TellsOf
  <2>2. \A e : e \in OpenOf(p)' <=> \/ e \in OpenOf(p) /\ e \notin Gone
                                    \/ e \in Come /\ db'[e].project = p
    BY DEF OpenOf, Exists
  <2>3. \A e \in Come : e \notin ClosedBy(events, p) /\ e \notin Gone
    BY <1>0, <1>2, <1>3 DEF ClosedBy, EventsExist
  <2>4. \A e \in OpenOf(p) : e \in Gone <=> e \in Gone /\ db'[e].project = p
    BY DEF OpenOf
  <2>5. \A e : e \in OpenOf(p) <=> e \in (Before(p) \cup OpenedBy(events, p)) \ ClosedBy(events, p)
    BY <1>0
  <2> HIDE DEF OpenOf, OpenedBy, ClosedBy, Before
  <2>6. \A e : e \in OpenOf(p)'
                 <=> e \in (Before(p) \cup OpenedBy(events', p)) \ ClosedBy(events', p)
    BY <2>1, <2>2, <2>3, <2>4, <2>5
  <2> QED BY <2>6
<1>9. FeedReplaysProject'
  <2>1. \A p \in Project : Before(p)' = Before(p) /\ OpenedBy(events, p)' = OpenedBy(events', p)
                           /\ ClosedBy(events, p)' = ClosedBy(events', p)
    BY DEF Before, OpenedBy, ClosedBy
  <2>2. (FeedReplaysProject <=>
           \A p \in Project :
             OpenOf(p) = (Before(p) \cup OpenedBy(events, p)) \ ClosedBy(events, p))'
    BY ReplayParts, PTL
  <2> HIDE DEF OpenOf, OpenedBy, ClosedBy, Before
  <2> QED BY <1>8, <2>1, <2>2
<1> QED BY <1>6, <1>7, <1>9 DEF TellsInv, FeedTellsHistory

\* The rows a step opens and closes.
LEMMA OpenedRow ==
  ASSUME NEW p \in Project \cup {None}, NEW from \in Nat, NEW x \in Entry \cup {None}
  PROVE  LET r == NewRow(p, from, x) IN r # None /\ IsOpen(r) /\ r.project = p
<1>1. NewRow(p, from, x) # None
  BY NewRowType
<1> QED BY <1>1 DEF NewRow, IsOpen, Open

LEMMA ClosedRow ==
  ASSUME NEW r \in Row, NEW at \in Nat
  PROVE  LET c == Close(r, at) IN c # None /\ ~IsOpen(c) /\ c.project = r.project
<1>1. Close(r, at) # None
  BY CloseType
<1>2. Close(r, at).archived /\ Close(r, at).project = r.project
  BY DEF Close, Row
<1> QED BY <1>1, <1>2 DEF IsOpen

\* The feed's part of one event that brings n in and closes e or nothing.
LEMMA OneFact ==
  ASSUME NEW p \in Project \cup {None}, NEW k, k # "archived",
         NEW n \in Entry, db'[n].project = p, NEW e \in Entry \cup {None},
         NEW Gone \in SUBSET Entry,
         IF e = None THEN \A f \in Gone : db'[f].project = None
                     ELSE Gone = {e} /\ db'[e].project = p
  PROVE  TellsOf({History!Fact(p, k, n, e)}, {n}, Gone)
<1> SUFFICES ASSUME NEW q \in Project
             PROVE  /\ OpenedBy({History!Fact(p, k, n, e)}, q) = {x \in {n} : db'[x].project = q}
                    /\ ClosedBy({History!Fact(p, k, n, e)}, q) = {x \in Gone : db'[x].project = q}
  BY DEF TellsOf
<1> DEFINE f == History!Fact(p, k, n, e)
<1>1. f.project = p /\ f.kind = k /\ f.entry = n /\ f.previous = e
  BY FactFields
<1> HIDE DEF f
<1>2. OpenedBy({f}, q) = {x \in {n} : db'[x].project = q}
  BY <1>1 DEF OpenedBy
<1>3. ClosedBy({f}, q) = {x \in {e} : x # None /\ p = q}
  BY <1>1 DEF ClosedBy
<1>4. {x \in {e} : x # None /\ p = q} = {x \in Gone : db'[x].project = q}
  OBVIOUS
<1> QED BY <1>2, <1>3, <1>4 DEF f

LEMMA CreateTells ==
  ASSUME TellsInv, FeedInv', NEW n \in Entry, NEW p \in Project \cup {None},
         NEW from \in Nat, History!Create(n, p, from)
  PROVE  TellsInv'
<1> DEFINE new == NewRow(p, from, None)
<1>1. /\ db[n] = None /\ db' = [db EXCEPT ![n] = new]
      /\ History!Append({History!Fact(p, "created", n, None)})
  BY SameTerms DEF History!Create
<1>2. new # None /\ IsOpen(new) /\ new.project = p
  BY OpenedRow
<1> HIDE DEF new
<1>3. db'[n] = new /\ \A e \in Entry \ {n} : db'[e] = db[e]
  BY <1>1 DEF TellsInv, FeedInv, TypeInv, TypeOK
<1>4. TellsOf({History!Fact(p, "created", n, None)}, {n}, {})
  BY <1>2, <1>3, OneFact
<1> QED BY <1>1, <1>2, <1>3, <1>4, StepTells

\* Revise, restore and assign: e is closed if it is open, n comes in.
LEMMA AppendTells ==
  ASSUME TellsInv, FeedInv', NEW e \in Entry, NEW n \in Entry,
         NEW p \in Project \cup {None}, NEW at \in Nat, NEW x \in Entry \cup {None}, NEW k,
         db[e] # None, db[n] = None, k # "archived",
         IF x = None THEN db[e].project = None ELSE x = e /\ db[e].project = p,
         db' = [db EXCEPT ![e] = IF IsOpen(db[e]) THEN Close(db[e], at) ELSE db[e],
                          ![n] = NewRow(p, at, x)],
         History!Append({History!Fact(p, k, n, x)})
  PROVE  TellsInv'
<1> DEFINE new == NewRow(p, at, x)
           old == IF IsOpen(db[e]) THEN Close(db[e], at) ELSE db[e]
<1>1. new # None /\ IsOpen(new) /\ new.project = p
  BY OpenedRow
<1>2. db[e] \in Row /\ db \in [Entry -> Row \cup {None}]
  BY DEF TellsInv, FeedInv, TypeInv, TypeOK
<1>3. old # None /\ ~IsOpen(old) /\ old.project = db[e].project
  BY <1>2, ClosedRow
<1>4. db' = [db EXCEPT ![e] = old, ![n] = new]
  OBVIOUS
<1> HIDE DEF new, old
<1>5. db'[n] = new /\ db'[e] = old /\ \A f \in Entry \ ({n} \cup {e}) : db'[f] = db[f]
  BY <1>2, <1>4
<1>6. TellsOf({History!Fact(p, k, n, x)}, {n}, {e})
  <2> DEFINE Closed == {e}
  <2>1. IF x = None THEN \A f \in Closed : db'[f].project = None
                    ELSE Closed = {x} /\ db'[x].project = p
    BY <1>3, <1>5
  <2> HIDE DEF Closed
  <2>2. Closed \in SUBSET Entry /\ db'[n].project = p
    BY <1>1, <1>5 DEF Closed
  <2>3. TellsOf({History!Fact(p, k, n, x)}, {n}, Closed)
    BY <2>1, <2>2, OneFact
  <2> QED BY <2>3 DEF Closed
<1> DEFINE Come == {n}
           Gone == {e}
<1>7. /\ Come \in SUBSET Entry /\ Gone \in SUBSET Entry
      /\ \A f \in Come : db[f] = None /\ db'[f] # None /\ IsOpen(db'[f])
      /\ \A f \in Gone : /\ db[f] # None /\ db'[f] # None /\ ~IsOpen(db'[f])
                         /\ db'[f].project = db[f].project
      /\ \A f \in Entry \ (Come \cup Gone) : db'[f] = db[f]
  BY <1>1, <1>3, <1>5
<1>8. TellsOf({History!Fact(p, k, n, x)}, Come, Gone)
  BY <1>6
<1> HIDE DEF Come, Gone
<1> QED BY <1>7, <1>8, StepTells

LEMMA ArchiveTells ==
  ASSUME TellsInv, FeedInv', NEW S \in SUBSET Entry, History!Archive(S)
  PROVE  TellsInv'
<1> DEFINE F == {History!Fact(db[e].project, "archived", e, None) : e \in S}
<1>1. History!Append(F)
  BY DEF History!Archive
<1>2. \A e \in Entry : db'[e] = IF e \in S THEN Close(db[e], db'[e].validTo) ELSE db[e]
  BY SameTerms DEF History!Archive
<1>3. \A e \in S : db[e] # None /\ db[e] \in Row /\ db'[e].validTo \in Nat
  <2>1. db \in [Entry -> Row \cup {None}]
    BY DEF TellsInv, FeedInv, TypeInv, TypeOK
  <2>2. \A e \in S : db[e] # None /\ db'[e].validTo \in 0..MaxTime \cup Given
    BY DEF History!Archive
  <2>3. \A at \in 0..MaxTime \cup Given : at \in Nat
    OBVIOUS
  <2> QED BY <2>1, <2>2, <2>3
<1>4. \A e \in S : /\ db[e] # None /\ db'[e] # None /\ ~IsOpen(db'[e])
                   /\ db'[e].project = db[e].project
  BY <1>2, <1>3, ClosedRow
<1>5. TellsOf(F, {}, S)
  <2> SUFFICES ASSUME NEW p \in Project
               PROVE  OpenedBy(F, p) = {} /\ ClosedBy(F, p) = {e \in S : db'[e].project = p}
    BY DEF TellsOf
  <2>1. \A f \in F : f.kind = "archived" /\ f.previous = None
    BY FactFields
  <2>2. ASSUME NEW e \in S PROVE \E f \in F : f.entry = e /\ f.project = db[e].project
    <3>1. History!Fact(db[e].project, "archived", e, None) \in F
      OBVIOUS
    <3> HIDE DEF F
    <3> QED BY <3>1, FactFields
  <2>3. \A f \in F : f.entry \in S /\ f.project = db[f.entry].project
    BY FactFields
  <2> HIDE DEF F
  <2>4. OpenedBy(F, p) = {}
    BY <2>1 DEF OpenedBy
  <2>5. \A e : e \in ClosedBy(F, p) <=> e \in S /\ db[e].project = p
    BY <2>1, <2>2, <2>3 DEF ClosedBy
  <2> QED BY <1>4, <2>4, <2>5
<1> HIDE DEF F
<1> QED BY <1>1, <1>2, <1>4, <1>5, StepTells

LEMMA HistoryTells ==
  ASSUME TellsInv, FeedInv', History!Next
  PROVE  TellsInv'
<1>0. /\ \A at \in 0..MaxTime \cup Given : at \in Nat
      /\ \A e \in Entry : db[e] # None => db[e] \in Row /\ db[e].project \in Project \cup {None}
  BY DEF TellsInv, FeedInv, TypeInv, TypeOK, Row
<1>1. ASSUME NEW n \in Entry, NEW p \in Project \cup {None}, NEW from \in 0..MaxTime \cup Given,
             History!Create(n, p, from)
      PROVE  TellsInv'
  BY <1>0, <1>1, CreateTells
<1>2. ASSUME NEW e \in Entry, NEW n \in Entry, NEW at \in 0..MaxTime \cup Given,
             History!Revise(e, n, at)
      PROVE  TellsInv'
  <2> DEFINE p == db[e].project
  <2>1. /\ db[e] # None /\ db[n] = None /\ IsOpen(db[e])
        /\ db' = [db EXCEPT ![e] = Close(db[e], at), ![n] = NewRow(p, at, e)]
        /\ History!Append({History!Fact(p, "revised", n, e)})
    BY <1>2, SameTerms DEF History!Revise
  <2>2. db' = [db EXCEPT ![e] = IF IsOpen(db[e]) THEN Close(db[e], at) ELSE db[e],
                         ![n] = NewRow(p, at, e)]
    BY <2>1
  <2>3. p \in Project \cup {None} /\ at \in Nat /\ e # None /\ e \in Entry \cup {None}
    BY <1>0, <2>1
  <2> HIDE DEF p
  <2> QED BY <2>1, <2>2, <2>3, AppendTells DEF p
<1>3. ASSUME NEW S \in SUBSET Entry, History!Archive(S) PROVE TellsInv'
  BY <1>3, ArchiveTells
<1>4. ASSUME NEW l \in Entry, NEW s \in Entry, NEW n \in Entry,
             NEW at \in 0..MaxTime \cup Given, History!Restore(l, s, n, at)
      PROVE  TellsInv'
  <2> DEFINE p == db[l].project
  <2>1. /\ db[l] # None /\ db[n] = None
        /\ db' = [db EXCEPT ![l] = IF IsOpen(db[l]) THEN Close(db[l], at) ELSE db[l],
                            ![n] = NewRow(p, at, l)]
        /\ History!Append({History!Fact(p, "restored", n, l)})
    BY <1>4, SameTerms DEF History!Restore
  <2>2. p \in Project \cup {None} /\ at \in Nat /\ l # None /\ l \in Entry \cup {None}
    BY <1>0, <2>1
  <2> HIDE DEF p
  <2> QED BY <2>1, <2>2, AppendTells DEF p
<1>5. ASSUME NEW e \in Entry, NEW n \in Entry, NEW p \in Project,
             NEW at \in 0..MaxTime \cup Given, History!Assign(e, n, p, at)
      PROVE  TellsInv'
  <2>1. /\ db[e] # None /\ db[n] = None /\ IsOpen(db[e]) /\ db[e].project = None
        /\ db' = [db EXCEPT ![e] = Close(db[e], at), ![n] = NewRow(p, at, None)]
        /\ History!Append({History!Fact(p, "created", n, None)})
    BY <1>5, SameTerms DEF History!Assign
  <2>2. db' = [db EXCEPT ![e] = IF IsOpen(db[e]) THEN Close(db[e], at) ELSE db[e],
                         ![n] = NewRow(p, at, None)]
    BY <2>1
  <2> QED BY <1>0, <2>1, <2>2, AppendTells
<1> QED BY <1>1, <1>2, <1>3, <1>4, <1>5 DEF History!Next

LEMMA TellsFrame ==
  ASSUME TellsInv, FeedInv', UNCHANGED <<db, feed, events>>
  PROVE  TellsInv'
<1>1. EventsExist' /\ FeedOrdersLineage'
  BY DEF TellsInv, FeedTellsHistory, EventsExist, FeedOrdersLineage
<1>2. FeedReplaysProject'
  <2>1. FeedReplaysProject
    BY DEF TellsInv, FeedTellsHistory
  <2> QED BY <2>1 DEF FeedReplaysProject, Exists, IsOpen
<1> QED BY <1>1, <1>2 DEF TellsInv, FeedTellsHistory

\* A client that replays a project's feed in order has exactly the project's
\* open entries, and meets no entry after the event that closes it: emit
\* numbers its events in the transaction that writes the rows.
THEOREM FeedTellsTheHistory == Spec => []FeedTellsHistory
<1>1. ReportInv /\ ReportInv' /\ TellsInv /\ [Next]_vars => TellsInv'
  <2> SUFFICES ASSUME ReportInv, ReportInv', TellsInv, [Next]_vars PROVE TellsInv'
    OBVIOUS
  <2>1. FeedInv'
    BY DEF ReportInv
  <2>2. CASE UNCHANGED <<db, feed, events>>
    BY <2>1, <2>2, TellsFrame
  <2>3. ASSUME NEW t \in Tx, Commit(t) PROVE TellsInv'
    BY <2>1, <2>3, CommitImplements, HistoryTells
  <2> QED BY <2>2, <2>3, StateChangesByCommit
<1>2. Spec => []TellsInv
  BY <1>1, InitTellsInv, ReportInvariance, PTL DEF Spec
<1>3. TellsInv => FeedTellsHistory
  BY DEF TellsInv
<1> QED BY <1>2, <1>3, PTL

-----------------------------------------------------------------------------
(* Links.                                                                   *)

\* An entry begins after its predecessor did, so committed chains do not turn
\* back on themselves.
Succession == \A x \in Chained \ Top(db) : RootOf[x] = RootOf[db[x].supersedes]

LEMMA SuccessionHolds == StoreInv => Succession
<1> SUFFICES ASSUME StoreInv PROVE Succession
  OBVIOUS
<1> DEFINE rank == [e \in Entry |-> IF db[e] = None THEN 0 ELSE db[e].validFrom]
<1>1. db \in [Entry -> Row \cup {None}] /\ Chained \in SUBSET Entry
  BY ChainedFacts
<1>2. \A e \in Entry : db[e] # None => db[e] \in Row /\ rank[e] = db[e].validFrom
  BY <1>1
<1>3. rank \in [Entry -> Int]
  BY <1>1 DEF Row
<1> HIDE DEF rank
<1>4. ASSUME NEW x \in Chained \ Top(db)
      PROVE  db[x].supersedes \in Chained /\ rank[db[x].supersedes] < rank[x]
  <2> DEFINE y == db[x].supersedes
  <2>1. y \in Chained
    BY ChainedFacts
  <2>2. x \in Entry /\ db[x] # None /\ y \in Entry /\ db[y] # None
    BY <2>1 DEF Chained
  <2>3. db[y].validTo # Open /\ db[y].validTo <= db[x].validFrom
    BY <2>2 DEF StoreInv, LinearHistory, Exists
  <2>4. IntervalHolds(db[y])
    BY <2>2 DEF StoreInv, CommittedOK, WellFormed
  <2>5. db[y] \in Row /\ db[x] \in Row /\ rank[x] = db[x].validFrom /\ rank[y] = db[y].validFrom
    BY <1>2, <2>2
  <2>6. /\ db[y].validFrom \in Int /\ db[y].validTo \in Int /\ db[x].validFrom \in Int
    BY <2>5 DEF Row, Open
  <2> HIDE DEF y
  <2>7. rank[y] < rank[x]
    BY <2>3, <2>4, <2>5, <2>6 DEF IntervalHolds
  <2> QED BY <2>1, <2>7 DEF y
<1>5. Ranked(db, Chained, rank)
  BY <1>1, <1>3, <1>4 DEF Ranked
<1> QED BY <1>5, RootStep DEF Succession, RootOf

LinksExist == \A l \in links : db[l[1]] # None /\ db[l[2]] # None

\* FOR UPDATE excludes FOR KEY SHARE of another transaction.
Exclusive ==
  \A t \in Tx, e \in Entry : rowLock[e] = t => \A u \in Tx \ {t} : e \notin keyShare[u]

ShareOK(t) == \A e \in keyShare[t] : db[e] # None

\* The foreign keys of an uncommitted link hold its ends but for the new entry.
EndsOK(t) ==
  \A l \in dlinks[t] : /\ l[1] \in keyShare[t] \/ l[1] = req[t].fresh
                       /\ l[2] \in keyShare[t] \/ l[2] = req[t].fresh

\* The links still to copy have the new revision at one end.
PendingOK(t) ==
  /\ req[t].pending # {} => req[t].pc = "inherit"
  /\ \A l \in req[t].pending : \/ l[1] = req[t].fresh /\ db[l[2]] # None
                               \/ l[2] = req[t].fresh /\ db[l[1]] # None

\* What a revision has copied or has still to copy is all that is committed.
InheritOK(t) ==
  req[t].op \in {"revise", "restore"} /\ req[t].pc \in {"inherit", "emit", "commit"} =>
    Inherited(req[t].leaf, req[t].fresh, links) \subseteq dlinks[t] \cup req[t].pending

LinkOK(t) == ShareOK(t) /\ EndsOK(t) /\ PendingOK(t) /\ InheritOK(t)

LinkInv == LinksExist /\ Exclusive /\ \A t \in Tx : LinkOK(t)

LEMMA InitLinkInv == Init => LinkInv
<1> SUFFICES ASSUME Init PROVE LinkInv
  OBVIOUS
<1>1. ASSUME NEW e \in Migrated PROVE db[e] # None
  <2>1. db[e] = NewRow(Home[e], 0, None)
    BY DEF Init, MigratedTable
  <2> QED BY <2>1, NewRowType
<1>2. LinksExist
  BY <1>1 DEF Init, LinksExist
<1>3. Exclusive
  BY DEF Init, Exclusive
<1>4. ASSUME NEW t \in Tx PROVE LinkOK(t)
  BY DEF Init, LinkOK, ShareOK, EndsOK, PendingOK, InheritOK, Idle
<1> QED BY <1>2, <1>3, <1>4 DEF LinkInv

LEMMA StartOfLinks ==
  ASSUME ReportInv, LinkInv, NEW t \in Tx
  PROVE  /\ TypeOK /\ StoreInv /\ PathOK(req[t]) /\ NamesOK(req[t]) /\ HoldOK(t)
         /\ req \in [Tx -> Request] /\ req[t] \in Request /\ db \in [Entry -> Row \cup {None}]
         /\ ShareOK(t) /\ EndsOK(t) /\ PendingOK(t) /\ InheritOK(t)
<1>1. StoreInv /\ TypeInv /\ TxOK(t)
  BY DEF ReportInv, ChainInv, StoreInv
<1> QED BY <1>1, StartOfControl DEF TypeInv, TypeOK, TxOK, LinkInv, LinkOK

\* A step of t that commits nothing.
LEMMA OtherLinks ==
  ASSUME ReportInv, LinkInv, NEW t \in Tx, UNCHANGED <<db, links>>,
         \A u \in Tx \ {t} : /\ req'[u] = req[u] /\ dlinks'[u] = dlinks[u]
                             /\ keyShare'[u] = keyShare[u],
         Exclusive', LinkOK(t)'
  PROVE  LinkInv'
<1>1. LinksExist'
  BY DEF LinkInv, LinksExist
<1>2. ASSUME NEW u \in Tx \ {t} PROVE LinkOK(u)'
  BY DEF LinkInv, LinkOK, ShareOK, EndsOK, PendingOK, InheritOK, Inherited
<1> QED BY <1>1, <1>2 DEF LinkInv

\* A step that moves the request of t, and takes no lock and copies no link.
LEMMA QuietLinks ==
  ASSUME ReportInv, LinkInv, NEW t \in Tx, UNCHANGED <<db, links, dlinks, rowLock, keyShare>>,
         \A u \in Tx \ {t} : req'[u] = req[u],
         req'[t].fresh = req[t].fresh \/ req[t].fresh = None,
         PendingOK(t)', InheritOK(t)'
  PROVE  LinkInv'
<1>0. TypeOK /\ ShareOK(t) /\ EndsOK(t)
  BY StartOfLinks
<1>1. Exclusive'
  BY DEF LinkInv, Exclusive
<1>2. ShareOK(t)'
  BY <1>0 DEF ShareOK
<1>3. EndsOK(t)'
  <2>1. \A l \in dlinks[t] : l[1] # None /\ l[2] # None
    BY <1>0 DEF TypeOK
  <2> QED BY <1>0, <2>1 DEF EndsOK
<1> QED BY <1>1, <1>2, <1>3, OtherLinks DEF LinkOK

\* Outside ReadLinks and InheritLink there is nothing to copy.
LEMMA MoveLinks ==
  ASSUME ReportInv, LinkInv, NEW t \in Tx, UNCHANGED <<db, links, dlinks, rowLock, keyShare>>,
         \A u \in Tx \ {t} : req'[u] = req[u],
         req'[t].fresh = req[t].fresh \/ req[t].fresh = None,
         req[t].pc # "inherit",
         req'[t].pending = req[t].pending \/ req'[t].pending = {},
         req'[t].op \in {"revise", "restore"} /\ req'[t].pc \in {"inherit", "emit", "commit"}
           => /\ req[t].pc = "emit" /\ req'[t].op = req[t].op
              /\ req'[t].leaf = req[t].leaf /\ req'[t].fresh = req[t].fresh
  PROVE  LinkInv'
<1>0. PendingOK(t) /\ InheritOK(t)
  BY StartOfLinks
<1>1. req[t].pending = {} /\ req'[t].pending = {}
  BY <1>0 DEF PendingOK
<1>2. PendingOK(t)'
  BY <1>1 DEF PendingOK
<1>3. InheritOK(t)'
  BY <1>0, <1>1 DEF InheritOK, Inherited
<1> QED BY <1>2, <1>3, QuietLinks

LEMMA ArriveLinks ==
  ASSUME ReportInv, LinkInv, NEW t \in Tx, Arrive(t)
  PROVE  LinkInv'
<1>1. PICK r \in Request :
        /\ Begin(t, r) /\ PathOK(r) /\ NamesOK(r)
        /\ r.pc \in {"insert", "lock", "next"} /\ r.pending = {}
  BY ArriveRequest
<1>2. /\ req[t].pc = "idle" /\ req' = [req EXCEPT ![t] = r]
      /\ UNCHANGED <<db, links, dlinks, rowLock, keyShare>>
  BY <1>1 DEF Begin, At, tables, uncommitted, locks
<1>3. req'[t] = r /\ \A u \in Tx \ {t} : req'[u] = req[u]
  BY <1>2, StartOfLinks
<1>4. req[t].fresh = None
  BY <1>2, StartOfLinks DEF NamesOK, BeforeWrite
<1> QED BY <1>1, <1>2, <1>3, <1>4, MoveLinks

LEMMA ReadLinksLinks ==
  ASSUME ReportInv, LinkInv, NEW t \in Tx, ReadLinks(t)
  PROVE  LinkInv'
<1>0. /\ req \in [Tx -> Request] /\ req[t] \in Request /\ LinksExist
  BY StartOfLinks DEF LinkInv
<1> DEFINE todo == Inherited(req[t].leaf, req[t].fresh, links)
<1>1. /\ req' = [req EXCEPT ![t].pending = todo, ![t].pc = AfterLinks(todo)]
      /\ UNCHANGED <<db, links, dlinks, rowLock, keyShare>>
  BY DEF ReadLinks, tables, uncommitted, locks
<1>2. \A l \in todo : \/ l[1] = req[t].fresh /\ db[l[2]] # None
                      \/ l[2] = req[t].fresh /\ db[l[1]] # None
  BY <1>0 DEF Inherited, LinksExist
<1> HIDE DEF todo
<1>3. /\ \A u \in Tx \ {t} : req'[u] = req[u]
      /\ req'[t].fresh = req[t].fresh /\ req'[t].leaf = req[t].leaf
      /\ req'[t].pending = todo /\ req'[t].pc = AfterLinks(todo)
  BY <1>0, <1>1 DEF Request
<1>4. PendingOK(t)'
  BY <1>1, <1>2, <1>3 DEF PendingOK, AfterLinks
<1>5. Inherited(req[t].leaf, req[t].fresh, links)' = todo
  BY <1>1, <1>3 DEF todo
<1>6. InheritOK(t)'
  BY <1>3, <1>5 DEF InheritOK
<1> QED BY <1>1, <1>3, <1>4, <1>6, QuietLinks

LEMMA ControlLinks ==
  ASSUME ReportInv, LinkInv, NEW t \in Tx, Control(t)
  PROVE  LinkInv'
<1>0. /\ PathOK(req[t]) /\ req[t] \in Request /\ req \in [Tx -> Request] /\ TypeInv
  BY StartOfLinks DEF StoreInv
<1>1. CASE ReadLinks(t)
  BY <1>1, ReadLinksLinks
<1>2. CASE ~ReadLinks(t)
  <2>1. req'[t].pending = req[t].pending
    <3>1. CASE NextStale(t)
      <4>1. ASSUME NEW e \in req[t].todo,
                   req' = [req EXCEPT ![t].pc = "lock", ![t].target = e, ![t].todo = @ \ {e}]
            PROVE  req'[t].pending = req[t].pending
        BY <1>0, <4>1 DEF Request
      <4>2. ASSUME Goto(t, "commit") PROVE req'[t].pending = req[t].pending
        BY <1>0, <4>2 DEF Goto, Request
      <4> QED BY <3>1, <4>1, <4>2 DEF NextStale
    <3>2. CASE WalkToLeaf(t)
      <4>1. PICK l \in Entry : req' = [req EXCEPT ![t].pc = "lockleaf", ![t].leaf = l]
        BY <3>2 DEF WalkToLeaf, ChainOf
      <4> QED BY <1>0, <4>1 DEF Request
    <3>3. CASE \E pc : Goto(t, pc)
      BY <1>0, <3>3 DEF Goto, Request
    <3> QED BY <1>2, <3>1, <3>2, <3>3
        DEF Control, AutoLinkDone, CheckTarget, CheckChain, CheckLeaf, EmitNothing
  <2>2. /\ UNCHANGED <<db, uncommitted, locks>>
        /\ \A u \in Tx \ {t} : req'[u] = req[u]
        /\ req'[t].op = req[t].op /\ req'[t].fresh = req[t].fresh
        /\ req[t].pc = "walk" \/ req'[t].leaf = req[t].leaf
        /\ \/ req[t].pc = "check" /\ req'[t].pc = "write"
           \/ req[t].pc = "chain" /\ req'[t].pc = "walk"
           \/ req[t].pc = "walk" /\ req'[t].pc = "lockleaf"
           \/ req[t].pc = "next" /\ req'[t].pc \in {"lock", "commit"}
           \/ req[t].pc = "emit"
           \/ req[t].pc = "autolink" /\ req'[t].pc = "emit"
           \/ req[t].pc = "readlinks"
    BY <1>0, ControlMoves
  <2>3. UNCHANGED links
    BY DEF Control, AutoLinkDone, CheckTarget, CheckChain, CheckLeaf, WalkToLeaf, ReadLinks,
           EmitNothing, NextStale, tables
  <2>4. req[t].pc # "readlinks"
    BY <1>2 DEF Control, AutoLinkDone, CheckTarget, CheckChain, CheckLeaf, WalkToLeaf,
                EmitNothing, NextStale, At
  <2>5. req[t].op \in {"revise", "restore"} => req[t].pc \notin {"next", "autolink"}
    BY <1>0 DEF PathOK
  <2>6. UNCHANGED <<db, links, dlinks, rowLock, keyShare>>
    BY <2>2, <2>3 DEF uncommitted, locks
  <2> QED BY <2>1, <2>2, <2>4, <2>5, <2>6, MoveLinks
<1> QED BY <1>1, <1>2

LEMMA WriteLinks ==
  ASSUME ReportInv, LinkInv, NEW t \in Tx,
         \/ ArchiveWrite(t)
         \/ \E n \in Entry : CreateInsert(t, n) \/ ReviseWrite(t, n) \/ AssignWrite(t, n)
                             \/ RestoreWrite(t, n)
         \/ \E p \in Project : Emit(t, p)
  PROVE  LinkInv'
<1>0. /\ PathOK(req[t]) /\ NamesOK(req[t]) /\ req[t] \in Request /\ req \in [Tx -> Request]
  BY StartOfLinks
<1>1. UNCHANGED <<db, links, dlinks, rowLock, keyShare>>
  BY DEF ArchiveWrite, CreateInsert, ReviseWrite, AssignWrite, RestoreWrite, Emit,
         tables, locks
<1> DEFINE Writes == /\ req[t].pc \in {"insert", "write"}
                     /\ \A u \in Tx \ {t} : req'[u] = req[u]
                     /\ req'[t].pending = req[t].pending
                     /\ req'[t].op = req[t].op
                     /\ req[t].op \in {"revise", "restore"} => req'[t].pc = "readlinks"
<1>2. CASE ArchiveWrite(t)
  <2>1. Writes /\ req'[t].fresh = req[t].fresh
    BY <1>0, <1>2 DEF ArchiveWrite, At, Goto, Request
  <2> QED BY <1>1, <2>1, MoveLinks
<1>3. CASE \E n \in Entry : CreateInsert(t, n) \/ ReviseWrite(t, n) \/ AssignWrite(t, n)
                            \/ RestoreWrite(t, n)
  <2>1. PICK n \in Entry : CreateInsert(t, n) \/ ReviseWrite(t, n) \/ AssignWrite(t, n)
                           \/ RestoreWrite(t, n)
    BY <1>3
  <2>2. CreateInsert(t, n) => Writes
    <3>1. ASSUME CreateInsert(t, n)
          PROVE  /\ req[t].pc = "insert"
                 /\ req' = [req EXCEPT ![t].pc = "autolink", ![t].fresh = n]
      BY <3>1 DEF CreateInsert, At
    <3> QED BY <1>0, <3>1 DEF Request, PathOK
  <2>3. ReviseWrite(t, n) => Writes
    <3>1. ASSUME ReviseWrite(t, n)
          PROVE  /\ req[t].pc = "write" /\ req[t].op = "revise"
                 /\ req' = [req EXCEPT ![t].pc = "readlinks", ![t].fresh = n, ![t].leaf = req[t].target]
      BY <3>1 DEF ReviseWrite, At
    <3> QED BY <1>0, <3>1 DEF Request
  <2>4. AssignWrite(t, n) => Writes
    <3>1. ASSUME AssignWrite(t, n)
          PROVE  /\ req[t].pc = "write" /\ req[t].op = "assign"
                 /\ req' = [req EXCEPT ![t].pc = "autolink", ![t].fresh = n]
      BY <3>1 DEF AssignWrite, At
    <3> QED BY <1>0, <3>1 DEF Request
  <2>5. RestoreWrite(t, n) => Writes
    <3>1. ASSUME RestoreWrite(t, n)
          PROVE  /\ req[t].pc = "write" /\ req[t].op = "restore"
                 /\ req' = [req EXCEPT ![t].pc = "readlinks", ![t].fresh = n]
      BY <3>1 DEF RestoreWrite, At
    <3> QED BY <1>0, <3>1 DEF Request
  <2>6. Writes
    BY <2>1, <2>2, <2>3, <2>4, <2>5
  <2>7. req[t].fresh = None
    BY <1>0, <2>6 DEF NamesOK, BeforeWrite
  <2> QED BY <1>1, <2>6, <2>7, MoveLinks
<1>4. CASE \E p \in Project : Emit(t, p)
  <2>1. /\ req[t].pc = "emit" /\ \A u \in Tx \ {t} : req'[u] = req[u]
        /\ req'[t].op = req[t].op /\ req'[t].leaf = req[t].leaf
        /\ req'[t].fresh = req[t].fresh /\ req'[t].pending = req[t].pending
    BY <1>0, <1>4 DEF Emit, At, Goto, Request
  <2> QED BY <1>1, <2>1, MoveLinks
<1> QED BY <1>2, <1>3, <1>4

\* A row is locked FOR UPDATE only when no other request holds its key.
LEMMA LockLinks ==
  ASSUME ReportInv, LinkInv, NEW t \in Tx, LockTarget(t) \/ LockLeaf(t)
  PROVE  LinkInv'
<1>0. /\ PathOK(req[t]) /\ req[t] \in Request /\ req \in [Tx -> Request] /\ TypeOK
      /\ ShareOK(t) /\ EndsOK(t) /\ PendingOK(t) /\ Exclusive
  BY StartOfLinks DEF LinkInv
<1>1. /\ UNCHANGED <<db, links, dlinks, keyShare>>
      /\ \A u \in Tx \ {t} : req'[u] = req[u]
      /\ req'[t].fresh = req[t].fresh /\ req'[t].pending = req[t].pending
      /\ req[t].pc \in {"lock", "lockleaf"} /\ req'[t].pc \in {"chain", "check"}
  BY <1>0 DEF LockTarget, LockLeaf, At, Goto, Request, tables, uncommitted
<1>2. \E e : UpdateLockFree(t, e) /\ rowLock' = [rowLock EXCEPT ![e] = t]
  BY DEF LockTarget, LockLeaf
<1>3. Exclusive'
  BY <1>0, <1>1, <1>2 DEF Exclusive, UpdateLockFree, TypeOK
<1>4. ShareOK(t)' /\ EndsOK(t)' /\ PendingOK(t)' /\ InheritOK(t)'
  BY <1>0, <1>1 DEF ShareOK, EndsOK, PendingOK, InheritOK
<1> QED BY <1>1, <1>3, <1>4, OtherLinks DEF LinkOK

\* A link holds the keys of its ends, which nobody else has locked.
LEMMA ShareExclusive ==
  ASSUME Exclusive, TypeOK, NEW t \in Tx, NEW e \in Entry, ShareLockFree(t, e),
         UNCHANGED rowLock, keyShare' = [keyShare EXCEPT ![t] = @ \cup {e}]
  PROVE  Exclusive'
<1> SUFFICES ASSUME NEW u \in Tx, NEW f \in Entry, rowLock[f] = u, NEW v \in Tx \ {u}
             PROVE  f \notin keyShare'[v]
  BY DEF Exclusive
<1>1. f \notin keyShare[v]
  BY DEF Exclusive
<1>2. v = t /\ f = e => FALSE
  BY DEF ShareLockFree
<1> QED BY <1>1, <1>2 DEF TypeOK

LEMMA AutoLinkLinks ==
  ASSUME ReportInv, LinkInv, NEW t \in Tx, NEW c \in Entry, AutoLink(t, c)
  PROVE  LinkInv'
<1>0. /\ PathOK(req[t]) /\ req[t] \in Request /\ req \in [Tx -> Request] /\ TypeOK
      /\ ShareOK(t) /\ EndsOK(t) /\ PendingOK(t) /\ Exclusive /\ DirtyOK(t)
  BY StartOfLinks DEF LinkInv, StoreInv, TxOK
<1>1. /\ req[t].pc = "autolink" /\ c # req[t].fresh /\ View(t, c) # None
      /\ ShareLockFree(t, c)
      /\ keyShare' = [keyShare EXCEPT ![t] = @ \cup {c}]
      /\ dlinks' = [dlinks EXCEPT ![t] = @ \cup {<<req[t].fresh, c>>}]
      /\ UNCHANGED <<db, links, req, rowLock>>
  BY DEF AutoLink, At, tables
<1>2. /\ keyShare'[t] = keyShare[t] \cup {c}
      /\ dlinks'[t] = dlinks[t] \cup {<<req[t].fresh, c>>}
      /\ \A u \in Tx \ {t} : keyShare'[u] = keyShare[u] /\ dlinks'[u] = dlinks[u]
  BY <1>0, <1>1 DEF TypeOK
<1>3. db[c] # None
  BY <1>0, <1>1 DEF DirtyOK, View
<1>4. Exclusive'
  BY <1>0, <1>1, ShareExclusive
<1>5. ShareOK(t)' /\ EndsOK(t)'
  BY <1>0, <1>1, <1>2, <1>3 DEF ShareOK, EndsOK
<1>6. PendingOK(t)' /\ InheritOK(t)'
  BY <1>0, <1>1 DEF PendingOK, InheritOK, PathOK
<1> QED BY <1>1, <1>2, <1>4, <1>5, <1>6, OtherLinks DEF LinkOK

LEMMA InheritLinkLinks ==
  ASSUME ReportInv, LinkInv, NEW t \in Tx, NEW l \in Entry \X Entry, InheritLink(t, l)
  PROVE  LinkInv'
<1>0. /\ PathOK(req[t]) /\ req[t] \in Request /\ req \in [Tx -> Request] /\ TypeOK
      /\ ShareOK(t) /\ EndsOK(t) /\ PendingOK(t) /\ InheritOK(t) /\ Exclusive
  BY StartOfLinks DEF LinkInv
<1> DEFINE opposite == IF l[1] = req[t].fresh THEN l[2] ELSE l[1]
           rest == req[t].pending \ {l}
<1>1. /\ req[t].pc = "inherit" /\ l \in req[t].pending /\ ShareLockFree(t, opposite)
      /\ keyShare' = [keyShare EXCEPT ![t] = @ \cup {opposite}]
      /\ dlinks' = [dlinks EXCEPT ![t] = @ \cup {l}]
      /\ req' = [req EXCEPT ![t].pending = rest, ![t].pc = AfterLinks(rest)]
      /\ UNCHANGED <<db, links, rowLock>>
  BY DEF InheritLink, At, tables
<1>2. /\ opposite \in Entry /\ db[opposite] # None
      /\ {l[1], l[2]} = {opposite, req[t].fresh}
  <2>1. l[1] \in Entry /\ l[2] \in Entry
    OBVIOUS
  <2>2. \/ l[1] = req[t].fresh /\ db[l[2]] # None
        \/ l[2] = req[t].fresh /\ db[l[1]] # None
    BY <1>0, <1>1 DEF PendingOK
  <2> QED BY <2>1, <2>2
<1> HIDE DEF opposite
<1>3. /\ keyShare'[t] = keyShare[t] \cup {opposite}
      /\ dlinks'[t] = dlinks[t] \cup {l}
      /\ \A u \in Tx \ {t} : keyShare'[u] = keyShare[u] /\ dlinks'[u] = dlinks[u]
  BY <1>0, <1>1 DEF TypeOK
<1>4. /\ \A u \in Tx \ {t} : req'[u] = req[u]
      /\ req'[t].op = req[t].op /\ req'[t].leaf = req[t].leaf /\ req'[t].fresh = req[t].fresh
      /\ req'[t].pending = rest /\ req'[t].pc = AfterLinks(rest)
  <2> HIDE DEF rest
  <2> QED BY <1>0, <1>1 DEF Request
<1>5. Exclusive'
  BY <1>0, <1>1, <1>2, ShareExclusive
<1>6. ShareOK(t)' /\ EndsOK(t)'
  <2>1. ShareOK(t)'
    BY <1>0, <1>1, <1>2, <1>3 DEF ShareOK
  <2>2. /\ l[1] \in keyShare'[t] \/ l[1] = req'[t].fresh
        /\ l[2] \in keyShare'[t] \/ l[2] = req'[t].fresh
    BY <1>2, <1>3, <1>4
  <2>3. EndsOK(t)'
    BY <1>0, <1>3, <1>4, <2>2 DEF EndsOK
  <2> QED BY <2>1, <2>3
<1>7. PendingOK(t)'
  BY <1>0, <1>1, <1>4 DEF PendingOK, AfterLinks
<1>8. req[t].op \in {"revise", "restore"} =>
        Inherited(req[t].leaf, req[t].fresh, links) \subseteq dlinks'[t] \cup rest
  BY <1>0, <1>1, <1>3 DEF InheritOK
<1>9. InheritOK(t)'
  <2> HIDE DEF rest
  <2>1. Inherited(req[t].leaf, req[t].fresh, links)'
          = Inherited(req[t].leaf, req[t].fresh, links)
    <3>1. links' = links /\ req'[t].leaf = req[t].leaf /\ req'[t].fresh = req[t].fresh
      BY <1>1, <1>4
    <3> QED BY <3>1
  <2> QED BY <1>4, <1>8, <2>1 DEF InheritOK
<1> QED BY <1>1, <1>3, <1>4, <1>5, <1>6, <1>7, <1>9, OtherLinks DEF LinkOK

LEMMA EndLinks ==
  ASSUME ReportInv, NEW t \in Tx, EndTx(t)
  PROVE  /\ req'[t] = Idle /\ dlinks'[t] = {} /\ keyShare'[t] = {}
         /\ \A u \in Tx \ {t} : /\ req'[u] = req[u] /\ dlinks'[u] = dlinks[u]
                                /\ keyShare'[u] = keyShare[u]
         /\ Exclusive => Exclusive'
<1>1. TypeOK
  BY DEF ReportInv, ChainInv, StoreInv, TypeInv
<1>2. \A u \in Tx : keyShare'[u] \subseteq keyShare[u]
  BY <1>1 DEF EndTx, TypeOK
<1>3. \A e \in Entry, u \in Tx : rowLock'[e] = u => rowLock[e] = u
  BY <1>1 DEF EndTx, TypeOK
<1>4. Exclusive => Exclusive'
  BY <1>2, <1>3 DEF Exclusive
<1> QED BY <1>1, <1>4 DEF EndTx, TypeOK

LEMMA IdleLinks ==
  ASSUME NEW t \in Tx, req'[t] = Idle, dlinks'[t] = {}, keyShare'[t] = {}
  PROVE  LinkOK(t)'
BY DEF LinkOK, ShareOK, EndsOK, PendingOK, InheritOK, Idle

LEMMA RollbackLinks ==
  ASSUME ReportInv, LinkInv, NEW t \in Tx, Rollback(t)
  PROVE  LinkInv'
<1>1. EndTx(t) /\ UNCHANGED <<db, links>>
  BY DEF Rollback, tables
<1> QED BY <1>1, EndLinks, IdleLinks, OtherLinks DEF LinkInv

\* New links between entries none of which another revision has locked.
LEMMA NewLinks ==
  ASSUME ReportInv, LinkInv, NEW t \in Tx, LinkOK(t), req'[t] = req[t],
         dlinks'[t] = dlinks[t], keyShare'[t] = keyShare[t],
         \A e \in Entry : db[e] # None => db'[e] # None,
         \A l \in links' \ links : /\ l[1] \in Entry /\ l[2] \in Entry
                                   /\ rowLock[l[1]] # t \/ db[l[1]] = None
                                   /\ rowLock[l[2]] # t \/ db[l[2]] = None
  PROVE  LinkOK(t)'
<1>0. /\ NamesOK(req[t]) /\ HoldOK(t) /\ TypeOK /\ req[t] \in Request
      /\ ShareOK(t) /\ EndsOK(t) /\ PendingOK(t) /\ InheritOK(t)
  BY StartOfLinks
<1>1. ShareOK(t)'
  BY <1>0 DEF ShareOK, TypeOK
<1>2. EndsOK(t)' /\ PendingOK(t)'
  <2>1. \A l \in req[t].pending : l[1] \in Entry /\ l[2] \in Entry
    BY <1>0 DEF Request
  <2> QED BY <1>0, <2>1 DEF EndsOK, PendingOK
<1>3. InheritOK(t)'
  <2> SUFFICES ASSUME req[t].op \in {"revise", "restore"},
                      req[t].pc \in {"inherit", "emit", "commit"}
               PROVE  Inherited(req[t].leaf, req[t].fresh, links')
                        \subseteq dlinks[t] \cup req[t].pending
    BY DEF InheritOK, Inherited
  <2> DEFINE e == req[t].leaf
  <2>1. e \in Entry /\ db[e] # None
    BY <1>0 DEF NamesOK, Committed, BeforeWrite, BeforeLeaf
  <2>2. rowLock[e] = t
    BY <1>0 DEF NamesOK, HoldOK, BeforeWrite, BeforeLeaf
  <2> HIDE DEF e
  <2>3. \A l \in links' \ links : l[1] # e /\ l[2] # e
    BY <2>1, <2>2
  <2>4. Inherited(e, req[t].fresh, links') \subseteq Inherited(e, req[t].fresh, links)
    BY <2>3 DEF Inherited
  <2>5. Inherited(e, req[t].fresh, links) \subseteq dlinks[t] \cup req[t].pending
    BY <1>0 DEF InheritOK, e
  <2> QED BY <2>4, <2>5 DEF e
<1> QED BY <1>1, <1>2, <1>3 DEF LinkOK

LEMMA CommitLinks ==
  ASSUME ReportInv, LinkInv, NEW t \in Tx, Commit(t)
  PROVE  LinkInv'
<1>0. TypeOK /\ StoreInv /\ ShareOK(t) /\ EndsOK(t) /\ LinksExist /\ Exclusive
  BY StartOfLinks DEF LinkInv
<1>1. EndTx(t) /\ links' = links \cup dlinks[t]
  BY DEF Commit
<1>2. \A e \in Entry : db[e] # None => db'[e] # None
  BY <1>0, CommitKeeps
<1>3. req[t].fresh # None =>
        req[t].fresh \in Entry /\ db[req[t].fresh] = None /\ db'[req[t].fresh] # None
  BY <1>0, FreshRow, CommitRows DEF View
<1>4. ASSUME NEW e \in Entry, e \in keyShare[t] \/ e = req[t].fresh
      PROVE  /\ db'[e] # None
             /\ db[e] = None \/ e \in keyShare[t]
  BY <1>0, <1>2, <1>3, <1>4 DEF ShareOK
<1>5. \A l \in dlinks[t] : l[1] \in Entry /\ l[2] \in Entry
  BY <1>0 DEF TypeOK
<1>6. LinksExist'
  <2>1. \A l \in links : l[1] \in Entry /\ l[2] \in Entry
    BY <1>0 DEF TypeOK
  <2> QED BY <1>0, <1>1, <1>2, <1>4, <1>5, <2>1 DEF LinksExist, EndsOK
<1>7. ASSUME NEW u \in Tx \ {t} PROVE LinkOK(u)'
  <2>1. \A e \in keyShare[t] : rowLock[e] # u
    BY <1>0 DEF Exclusive, TypeOK
  <2>2. \A l \in links' \ links : /\ l[1] \in Entry /\ l[2] \in Entry
                                  /\ rowLock[l[1]] # u \/ db[l[1]] = None
                                  /\ rowLock[l[2]] # u \/ db[l[2]] = None
    BY <1>0, <1>1, <1>4, <1>5, <2>1 DEF EndsOK
  <2>3. req'[u] = req[u] /\ dlinks'[u] = dlinks[u] /\ keyShare'[u] = keyShare[u]
    BY <1>1, EndLinks
  <2>4. LinkOK(u)
    BY DEF LinkInv
  <2> QED BY <1>2, <2>2, <2>3, <2>4, NewLinks
<1>8. LinkOK(t)'
  BY <1>1, EndLinks, IdleLinks
<1>9. Exclusive'
  BY <1>0, <1>1, EndLinks
<1> QED BY <1>6, <1>7, <1>8, <1>9 DEF LinkInv

LEMMA OutsideLinks ==
  ASSUME ReportInv, LinkInv, Outside
  PROVE  LinkInv'
<1>1. UNCHANGED <<db, req, dlinks, rowLock, keyShare>>
  BY DEF Outside, CreateLink, DeleteLink, Tick, vars, tables, uncommitted, locks
<1>2. \A l \in links' \ links :
        /\ l[1] \in Entry /\ db[l[1]] # None /\ rowLock[l[1]] = None
        /\ l[2] \in Entry /\ db[l[2]] # None /\ rowLock[l[2]] = None
  BY DEF Outside, CreateLink, DeleteLink, Tick, vars, tables
<1>3. LinksExist'
  BY <1>1, <1>2 DEF LinkInv, LinksExist
<1>4. Exclusive'
  BY <1>1 DEF LinkInv, Exclusive
<1>5. ASSUME NEW t \in Tx PROVE LinkOK(t)'
  <2>1. t # None /\ LinkOK(t)
    BY DEF LinkInv
  <2> QED BY <1>1, <1>2, <2>1, NewLinks
<1> QED BY <1>3, <1>4, <1>5 DEF LinkInv

LEMMA NextLinkInv == ReportInv /\ LinkInv /\ [Next]_vars => LinkInv'
BY NextCases, OutsideLinks, ArriveLinks, ControlLinks, LockLinks, WriteLinks, CommitLinks,
   RollbackLinks, AutoLinkLinks, InheritLinkLinks

LEMMA LinkInvariance == Spec => []LinkInv
BY InitLinkInv, NextLinkInv, ReportInvariance, PTL DEF Spec

\* The one entry a commit may supersede is the leaf of a revision.
LEMMA CommitSupersedes ==
  ASSUME ReportInv, NEW t \in Tx, Commit(t), NEW e \in Entry, db[e] # None,
         ~IsSuperseded(e), IsSuperseded(e)'
  PROVE  /\ req[t].op \in {"revise", "restore"} /\ e = req[t].leaf
         /\ req[t].fresh \in Entry /\ db[req[t].fresh] = None
         /\ db'[req[t].fresh] # None /\ db'[req[t].fresh].supersedes = e
         /\ \A c \in Entry : db'[c] # None => db'[c].supersedes # req[t].fresh
<1>0. /\ StoreInv /\ PathOK(req[t]) /\ NamesOK(req[t]) /\ Wrote(t) /\ WrittenOK(t)
      /\ LinearHistory /\ db \in [Entry -> Row \cup {None}]
  BY AtCommit
<1> DEFINE n == req[t].fresh
           from == dirty[t][n].validFrom
<1>1. PICK s \in Entry : db'[s] # None /\ db'[s].supersedes = e
  BY DEF IsSuperseded
<1>2. db[s] = None
  BY <1>0, <1>1, CommitKeeps DEF IsSuperseded
<1>3. s = n /\ dirty[t][s] # None /\ db'[s] = dirty[t][s]
  BY <1>0, <1>1, <1>2, CommitRows DEF View
<1>4. n # None
  BY <1>3
<1>5. req[t].op \in {"create", "assign", "revise", "restore"}
  BY <1>4, FreshRow
<1>6. \A p, x : dirty[t][n] = NewRow(p, from, x) => dirty[t][n].supersedes = x
  <2> HIDE DEF from
  <2> QED BY DEF NewRow
<1>7. dirty[t][n].supersedes =
        CASE req[t].op \in {"create", "assign"} -> None
          [] req[t].op = "revise" -> req[t].target
          [] req[t].op = "restore" -> req[t].leaf
  <2> HIDE DEF from
  <2>1. req[t].op \in {"create", "assign"} => dirty[t][n].supersedes = None
    BY <1>0, <1>6 DEF WrittenOK, CreatedOK, AssignedOK, Inserted, from
  <2>2. req[t].op = "revise" => dirty[t][n].supersedes = req[t].target
    BY <1>0, <1>6 DEF WrittenOK, RevisedOK, Inserted, from
  <2>3. req[t].op = "restore" => dirty[t][n].supersedes = req[t].leaf
    BY <1>0, <1>6 DEF WrittenOK, RestoredOK, Inserted, from
  <2> QED BY <1>5, <2>1, <2>2, <2>3
<1>8. req[t].op = "revise" => req[t].leaf = req[t].target
  BY <1>0 DEF NamesOK, Wrote
<1>9. req[t].op \in {"revise", "restore"} /\ e = req[t].leaf
  BY <1>1, <1>3, <1>5, <1>7, <1>8
<1>10. ASSUME NEW c \in Entry, db'[c] # None PROVE db'[c].supersedes # n
  <2>1. CASE db[c] = None
    <3>1. c = n
      BY <1>0, <1>10, <2>1, CommitRows
    <3> QED BY <1>1, <1>2, <1>3, <3>1
  <2>2. CASE db[c] # None
    <3>1. db'[c].supersedes = db[c].supersedes
      BY <1>0, <2>2, CommitKeeps
    <3> QED BY <1>0, <1>2, <1>3, <2>2, <3>1 DEF LinearHistory, Exists
  <2> QED BY <2>1, <2>2
<1> QED BY <1>1, <1>2, <1>3, <1>9, <1>10

\* A commit leaves of every chain its latest revision or a new one, which t
\* has brought in.
Carries(t, e, a) ==
  /\ a \in Entry /\ \A s \in Entry : db'[s] # None => db'[s].supersedes # a
  /\ RootOf'[a] = RootOf[e]
  /\ \/ a = e
     \/ /\ a = req[t].fresh /\ e = req[t].leaf /\ db[a] = None
        /\ req[t].op \in {"revise", "restore"}

LEMMA LatestCarried ==
  ASSUME ReportInv, ReportInv', NEW t \in Tx, Commit(t), NEW e \in Entry, db[e] # None,
         ~IsSuperseded(e)
  PROVE  /\ \E a : Carries(t, e, a)
         /\ e # req[t].leaf \/ req[t].op \notin {"revise", "restore"} => Carries(t, e, e)
<1>0. StoreInv /\ StoreInv' /\ TypeInv'
  BY DEF ReportInv, ChainInv, StoreInv
<1>1. RootOf'[e] = RootOf[e]
  BY <1>0, RootsKept
<1>2. CASE ~IsSuperseded(e)'
  BY <1>1, <1>2 DEF Carries, IsSuperseded
<1>3. CASE IsSuperseded(e)'
  <2> DEFINE n == req[t].fresh
  <2>1. /\ req[t].op \in {"revise", "restore"} /\ e = req[t].leaf
        /\ n \in Entry /\ db[n] = None /\ db'[n] # None /\ db'[n].supersedes = e
        /\ \A s \in Entry : db'[s] # None => db'[s].supersedes # n
    BY <1>3, CommitSupersedes
  <2>2. Succession'
    <3>1. (StoreInv => Succession)'
      BY SuccessionHolds, PTL
    <3> QED BY <1>0, <3>1
  <2>3. n \in Chained' \ Top(db')
    BY <2>1 DEF Chained, Top
  <2>4. RootOf'[n] = RootOf'[e]
    BY <2>1, <2>2, <2>3 DEF Succession
  <2>5. Carries(t, e, n)
    BY <1>1, <2>1, <2>4 DEF Carries
  <2> QED BY <2>1, <2>5
<1> QED BY <1>2, <1>3

\* For each link of two latest revisions it leaves one of theirs.
LEMMA LinkCarried ==
  ASSUME ReportInv, ReportInv', LinkInv, NEW t \in Tx, Commit(t), NEW l \in links,
         ~IsSuperseded(l[1]), ~IsSuperseded(l[2]), l[1] # l[2]
  PROVE  \E a, b \in Entry : /\ Carries(t, l[1], a) /\ Carries(t, l[2], b)
                             /\ a # b /\ <<a, b>> \in links'
<1>0. TypeOK /\ PendingOK(t) /\ InheritOK(t) /\ LinksExist
  BY StartOfLinks DEF LinkInv
<1>1. req[t].pc = "commit" /\ links' = links \cup dlinks[t]
  BY DEF Commit, At
<1>2. l = <<l[1], l[2]>> /\ l[1] \in Entry /\ l[2] \in Entry /\ db[l[1]] # None /\ db[l[2]] # None
  BY <1>0 DEF TypeOK, LinksExist
<1>3. req[t].op \in {"revise", "restore"} =>
        Inherited(req[t].leaf, req[t].fresh, links) \subseteq links'
  BY <1>0, <1>1 DEF PendingOK, InheritOK
<1>4. PICK a, b : Carries(t, l[1], a) /\ Carries(t, l[2], b)
  BY <1>2, LatestCarried
<1>5. a \in Entry /\ b \in Entry
  BY <1>4 DEF Carries
<1>6. CASE a = l[1] /\ b = l[2]
  BY <1>1, <1>2, <1>4, <1>5, <1>6
<1>7. CASE a # l[1]
  <2>1. /\ req[t].op \in {"revise", "restore"} /\ l[1] = req[t].leaf
        /\ a = req[t].fresh /\ db[a] = None
    BY <1>4, <1>7 DEF Carries
  <2>2. Carries(t, l[2], l[2])
    BY <1>2, <2>1, LatestCarried
  <2>3. <<a, l[2]>> \in links' /\ a # l[2]
    BY <1>2, <1>3, <2>1 DEF Inherited
  <2> QED BY <1>2, <1>4, <1>5, <2>2, <2>3
<1>8. CASE b # l[2]
  <2>1. /\ req[t].op \in {"revise", "restore"} /\ l[2] = req[t].leaf
        /\ b = req[t].fresh /\ db[b] = None
    BY <1>4, <1>8 DEF Carries
  <2>2. Carries(t, l[1], l[1])
    BY <1>2, <2>1, LatestCarried
  <2>3. <<l[1], b>> \in links' /\ l[1] # b
    BY <1>2, <1>3, <2>1 DEF Inherited
  <2> QED BY <1>2, <1>4, <1>5, <2>2, <2>3
<1> QED BY <1>6, <1>7, <1>8

\* inherit_for_revision, and the foreign key locks behind it: a relation
\* between the latest revisions of two entries is carried over to the new one
\* by every revision and restore, whatever other requests do to either end.
THEOREM RelationsSurvive == Spec => LinksSurviveRevision
<1> DEFINE Survive == links \subseteq links' => LinkedRoots \subseteq LinkedRoots'
<1>1. ReportInv /\ ReportInv' /\ LinkInv /\ [Next]_vars => [Survive]_vars
  <2> SUFFICES ASSUME ReportInv, ReportInv', LinkInv, [Next]_vars, links \subseteq links',
                      NEW l \in links, ~IsSuperseded(l[1]), ~IsSuperseded(l[2]), l[1] # l[2]
               PROVE  {RootOf[l[1]], RootOf[l[2]]} \in LinkedRoots'
    BY DEF LinkedRoots
  <2>1. l[1] \in Entry /\ l[2] \in Entry /\ db[l[1]] # None /\ db[l[2]] # None
    <3>1. TypeOK /\ LinksExist
      BY DEF ReportInv, ChainInv, StoreInv, TypeInv, LinkInv
    <3> QED BY <3>1 DEF TypeOK, LinksExist
  <2>2. CASE UNCHANGED <<db, feed, events>>
    <3>1. RootOf' = RootOf /\ \A e : IsSuperseded(e)' <=> IsSuperseded(e)
      BY <2>2 DEF RootOf, IsSuperseded
    <3> QED BY <3>1 DEF LinkedRoots
  <2>3. ASSUME NEW t \in Tx, Commit(t)
        PROVE  {RootOf[l[1]], RootOf[l[2]]} \in LinkedRoots'
    <3>1. PICK a, b \in Entry : /\ Carries(t, l[1], a) /\ Carries(t, l[2], b)
                                /\ a # b /\ <<a, b>> \in links'
      BY <2>3, LinkCarried
    <3>2. /\ ~IsSuperseded(a)' /\ RootOf'[a] = RootOf[l[1]]
          /\ ~IsSuperseded(b)' /\ RootOf'[b] = RootOf[l[2]]
      BY <3>1 DEF Carries, IsSuperseded
    <3> DEFINE k == <<a, b>>
    <3>3. k[1] = a /\ k[2] = b /\ k \in links'
      BY <3>1
    <3> HIDE DEF k
    <3> QED BY <3>1, <3>2, <3>3 DEF LinkedRoots
  <2> QED BY <2>2, <2>3, StateChangesByCommit
<1> QED BY <1>1, ReportInvariance, LinkInvariance, PTL DEF Spec, LinksSurviveRevision
=============================================================================
