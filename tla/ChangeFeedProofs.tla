--------------------------- MODULE ChangeFeedProofs ---------------------------
(***************************************************************************)
(* Safety of ChangeFeed for every number of writers and clients, page size *)
(* and bound.  The inductive invariant says who may hold the state row and *)
(* what it has written to it (LockInv), which events are committed         *)
(* (LogInv) and what a poll and a client know (PollInv).                   *)
(***************************************************************************)
EXTENDS ChangeFeed, FiniteSetTheorems, TLAPS

Answering == {"check", "page", "respond", "rejected"}

Base == IF state = None THEN 0 ELSE state.seq

\* The uncommitted events of the transaction that holds the state row: those
\* after the committed sequence.
Numbered == {ev \in Event : ev.epoch = mine.epoch /\ Base < ev.seq /\ ev.seq <= mine.seq}

LockInv ==
  /\ holder = None <=> mine = None
  /\ holder # None /\ state # None => mine.epoch = state.epoch /\ state.seq <= mine.seq
  /\ \A r \in Reader : holder = r => state = None /\ mine.seq = 0 /\ pc[r] \in Answering
  /\ \A w \in Writer : holder = w <=> pc[w] \in {"append", "commit"}
  /\ \A w \in Writer : pending[w] = IF holder = w THEN Numbered ELSE {}

LogInv ==
  \A ev \in Event :
    ev \in log <=> state # None /\ ev.epoch = state.epoch /\ 0 < ev.seq /\ ev.seq <= state.seq

SeenOK(r) ==
  /\ seen[r] # None <=> pc[r] \in Answering
  /\ seen[r] # None =>
       IF state = None THEN holder = r /\ seen[r] = mine
       ELSE seen[r].epoch = state.epoch /\ seen[r].seq <= state.seq

CursorOK(r) ==
  cursor[r] # None =>
    /\ state # None /\ cursor[r].epoch = state.epoch /\ cursor[r].seq <= state.seq
    /\ seen[r] # None => cursor[r].seq <= seen[r].seq

PageOK(r) ==
  IF pc[r] = "respond"
  THEN /\ page[r] \subseteq Window(r)
       /\ \A ev \in page[r], o \in Window(r) : o.seq < ev.seq => o \in page[r]
  ELSE page[r] = {}

ScopeOK(r) == pc[r] \in {"page", "respond", "rejected"} => scope[r] # None

PollInv ==
  \A r \in Reader : SeenOK(r) /\ CursorOK(r) /\ PageOK(r) /\ ScopeOK(r)

IInv == TypeOK /\ LockInv /\ LogInv /\ PollInv /\ CursorSkipsNothing

-----------------------------------------------------------------------------

\* A finite non-empty set of events has a last event, so that LastOf is one.
LEMMA LastExists ==
  ASSUME NEW S \in SUBSET Event, IsFiniteSet(S), S # {}
  PROVE  \E ev \in S : \A other \in S : other.seq <= ev.seq
<1> DEFINE Above(x) == {o \in S : o.seq > x.seq}
           T == {Above(x) : x \in S}
<1>1. \A x \in S : Above(x) \in FiniteSubsetsOf(S)
  BY FS_Subset DEF FiniteSubsetsOf
<1>2. T \subseteq FiniteSubsetsOf(S) /\ T # {}
  BY <1>1
<1>3. PICK A \in T : \A B \in T : <<B, A>> \notin StrictSubsetOrdering(S)
  BY <1>2, FS_StrictSubsetOrderingWellFounded, WFMin
<1>4. PICK x \in S : A = Above(x)
  OBVIOUS
<1>5. ASSUME NEW y \in S, ~(y.seq <= x.seq)
      PROVE  FALSE
  <2>1. x.seq \in Nat /\ y.seq \in Nat
    BY DEF Event
  <2>2. Above(y) \subseteq Above(x) /\ y \in Above(x) /\ y \notin Above(y)
    <3>1. \A o \in S : o.seq \in Nat
      BY DEF Event
    <3> QED BY <2>1, <3>1, <1>5
  <2>3. <<Above(y), Above(x)>> \in StrictSubsetOrdering(S)
    BY <2>2 DEF StrictSubsetOrdering
  <2> QED BY <2>3, <1>3, <1>4
<1> QED BY <1>4, <1>5

LEMMA InitIInv == Init => IInv
BY FeedAssumption
DEF Init, IInv, TypeOK, LockInv, LogInv, PollInv, SeenOK, CursorOK, PageOK, ScopeOK,
    CursorSkipsNothing, Proc, PCs, Answering, Numbered

LEMMA BeginStep == ASSUME IInv, NEW x \in Proc, Begin(x) PROVE IInv'
<1> USE FeedAssumption DEF IInv, Begin, Goto, writerVars, readerVars, tenantVars
<1>1. TypeOK'
  BY DEF TypeOK, PCs
<1>2. LockInv'
  BY DEF TypeOK, LockInv, Answering, Numbered, Base, Proc
<1>3. LogInv'
  BY DEF LogInv
<1>4. PollInv'
  BY DEF TypeOK, PollInv, SeenOK, CursorOK, PageOK, ScopeOK, Window, After, Answering, Proc
<1>5. CursorSkipsNothing'
  BY DEF CursorSkipsNothing
<1> QED BY <1>1, <1>2, <1>3, <1>4, <1>5

LEMMA SelectStep == ASSUME IInv, NEW x \in Proc, Select(x) PROVE IInv'
<1> USE FeedAssumption DEF IInv, Select, ReadState, AfterState, Goto, writerVars, tenantVars
<1>1. TypeOK'
  BY DEF TypeOK, PCs, Proc
<1>2. LockInv'
  <2>1. CASE x \in Reader
    <3>1. UNCHANGED <<state, holder, mine, pending>> /\ Numbered' = Numbered
      BY <2>1 DEF Numbered, Base
    <3>2. \A w \in Writer : pc'[w] = pc[w]
      BY <2>1 DEF TypeOK, Proc
    <3>3. \A r \in Reader : pc[r] \in Answering => pc'[r] \in Answering
      BY <2>1 DEF TypeOK, Proc, Answering
    <3> QED BY <3>1, <3>2, <3>3 DEF LockInv
  <2>2. CASE x \in Writer
    <3>1. holder = None /\ holder' = x /\ mine' = state /\ pc'[x] = "append"
      BY <2>2 DEF TypeOK, Proc
    <3>2. Numbered' = {}
      BY <3>1 DEF Numbered, Base, TypeOK, StateRow, Event
    <3>3. \A w \in Writer : pending'[w] = {}
      BY <3>1 DEF LockInv
    <3>4. \A w \in Writer \ {x} : pc'[w] \notin {"append", "commit"}
      BY <3>1 DEF LockInv, TypeOK, Proc
    <3>5. mine' # None /\ state' = mine' /\ state.seq \in Nat
      BY <3>1 DEF TypeOK, StateRow
    <3> QED BY <2>2, <3>1, <3>2, <3>3, <3>4, <3>5 DEF LockInv, Proc
  <2> QED BY <2>1, <2>2 DEF Proc
<1>3. LogInv'
  BY DEF LogInv
<1>4. PollInv'
  BY DEF TypeOK, LockInv, PollInv, SeenOK, CursorOK, PageOK, ScopeOK, Window, After, Answering,
         Proc, StateRow
<1>5. CursorSkipsNothing'
  BY DEF CursorSkipsNothing
<1> QED BY <1>1, <1>2, <1>3, <1>4, <1>5

LEMMA SelectNothingStep == ASSUME IInv, NEW x \in Proc, SelectNothing(x) PROVE IInv'
<1> USE FeedAssumption DEF IInv, SelectNothing, Goto, writerVars, readerVars, tenantVars
<1>1. TypeOK'
  BY DEF TypeOK, PCs
<1>2. LockInv'
  BY DEF TypeOK, LockInv, Answering, Numbered, Base, Proc
<1>3. LogInv'
  BY DEF LogInv
<1>4. PollInv'
  BY DEF TypeOK, PollInv, SeenOK, CursorOK, PageOK, ScopeOK, Window, After, Answering, Proc
<1>5. CursorSkipsNothing'
  BY DEF CursorSkipsNothing
<1> QED BY <1>1, <1>2, <1>3, <1>4, <1>5

LEMMA InsertStep == ASSUME IInv, NEW x \in Proc, Insert(x) PROVE IInv'
<1> USE FeedAssumption DEF IInv
<1>1. PICK ep \in Epoch \ used :
        /\ used' = used \cup {ep}
        /\ mine' = [epoch |-> ep, seq |-> 0]
        /\ seen' = IF x \in Reader THEN [seen EXCEPT ![x] = mine'] ELSE seen
  BY DEF Insert
<1>2. /\ pc[x] = "insert" /\ state = None /\ holder = None /\ holder' = x
      /\ pc' = [pc EXCEPT ![x] = IF x \in Writer THEN "append" ELSE "check"]
      /\ UNCHANGED <<state, log, pending, tenant, patching, scope, page, cursor, got>>
  BY DEF Insert, Goto, AfterState, writerVars, tenantVars
<1>3. mine' \in StateRow /\ mine' # None
  BY <1>1 DEF StateRow
<1>4. TypeOK'
  BY <1>1, <1>2, <1>3 DEF TypeOK, PCs, Proc
<1>5. LockInv'
  <2>1. Numbered' = {}
    BY <1>1, <1>2 DEF Numbered, Base, Event
  <2>2. \A w \in Writer : pending'[w] = {} /\ (holder' = w <=> pc'[w] \in {"append", "commit"})
    BY <1>2 DEF LockInv, TypeOK, Proc
  <2>3. \A r \in Reader : holder' = r => pc'[r] \in Answering
    BY <1>2 DEF Answering, TypeOK, Proc
  <2> QED BY <1>1, <1>2, <1>3, <2>1, <2>2, <2>3 DEF LockInv, Proc
<1>6. LogInv'
  BY <1>2 DEF LogInv
<1>7. PollInv'
  BY <1>1, <1>2, <1>3 DEF TypeOK, PollInv, SeenOK, CursorOK, PageOK, ScopeOK, Answering, Proc
<1>8. CursorSkipsNothing'
  BY <1>2 DEF CursorSkipsNothing
<1> QED BY <1>4, <1>5, <1>6, <1>7, <1>8

LEMMA InsertConflictStep == ASSUME IInv, NEW x \in Proc, InsertConflict(x) PROVE IInv'
<1> USE FeedAssumption DEF IInv, InsertConflict, Goto, writerVars, readerVars, tenantVars
<1>1. TypeOK'
  BY DEF TypeOK, PCs
<1>2. LockInv'
  BY DEF TypeOK, LockInv, Answering, Numbered, Base, Proc
<1>3. LogInv'
  BY DEF LogInv
<1>4. PollInv'
  BY DEF TypeOK, PollInv, SeenOK, CursorOK, PageOK, ScopeOK, Window, After, Answering, Proc
<1>5. CursorSkipsNothing'
  BY DEF CursorSkipsNothing
<1> QED BY <1>1, <1>2, <1>3, <1>4, <1>5

LEMMA AppendStep == ASSUME IInv, NEW w \in Writer, AppendEvent(w) PROVE IInv'
<1> USE FeedAssumption DEF IInv
<1>1. /\ pc[w] \in {"append", "commit"}
      /\ mine' = [mine EXCEPT !.seq = @ + 1]
      /\ pending' = [pending EXCEPT ![w] = @ \cup {[epoch |-> mine.epoch, seq |-> mine.seq + 1]}]
      /\ pc' = [pc EXCEPT ![w] = "commit"]
      /\ UNCHANGED <<state, log, holder, used, tenant, patching, scope, seen, page, cursor, got>>
  BY DEF AppendEvent, Goto, readerVars, tenantVars
<1>2. holder = w /\ mine \in StateRow /\ w \in Proc /\ w \notin Reader
  BY <1>1 DEF LockInv, TypeOK, Proc
<1>3. mine' = [epoch |-> mine.epoch, seq |-> mine.seq + 1]
  BY <1>1, <1>2 DEF StateRow
<1>4. mine' \in StateRow /\ mine' \in Event /\ mine' # None
  BY <1>2, <1>3 DEF StateRow, Event
<1>5. TypeOK'
  BY SMT, ZenonT(60), <1>1, <1>2, <1>3, <1>4 DEF TypeOK, PCs, Proc
<1>6. LockInv'
  <2>1. Base \in Nat /\ Base <= mine.seq /\ mine.seq \in Nat
    BY <1>2 DEF Base, LockInv, TypeOK, StateRow
  <2>2. Numbered' = Numbered \cup {mine'}
    <3>1. Numbered' = {ev \in Event : ev.epoch = mine.epoch /\ Base < ev.seq
                                        /\ ev.seq <= mine.seq + 1}
      BY <1>1, <1>3 DEF Numbered, Base
    <3>2. \A ev \in Event : ev.seq \in Nat /\ ev = [epoch |-> ev.epoch, seq |-> ev.seq]
      BY DEF Event
    <3> QED BY <1>3, <1>4, <2>1, <3>1, <3>2 DEF Numbered
  <2>3. \A v \in Writer : pending'[v] = IF holder' = v THEN Numbered' ELSE {}
    BY <1>1, <1>2, <1>3, <2>2 DEF LockInv, TypeOK
  <2>4. \A v \in Writer : holder' = v <=> pc'[v] \in {"append", "commit"}
    BY <1>1, <1>2 DEF LockInv, TypeOK
  <2>5. holder' # None /\ mine' # None /\ \A r \in Reader : holder' # r
    BY <1>1, <1>2, <1>4
  <2>6. state' # None => mine'.epoch = state'.epoch /\ state'.seq <= mine'.seq
    BY <1>1, <1>2, <1>3, <2>1 DEF LockInv, TypeOK, StateRow
  <2> QED BY <2>3, <2>4, <2>5, <2>6 DEF LockInv
<1>7. LogInv'
  BY <1>1 DEF LogInv
<1>8. PollInv'
  <2>1. ASSUME state = None, NEW r \in Reader PROVE seen[r] = None
    BY <1>2, <2>1 DEF PollInv, SeenOK
  <2>2. \A r \in Reader : pc'[r] = pc[r]
    BY <1>1, <1>2 DEF TypeOK
  <2> QED BY <1>1, <2>1, <2>2 DEF PollInv, SeenOK, CursorOK, PageOK, ScopeOK, Window, After
<1>9. CursorSkipsNothing'
  BY <1>1 DEF CursorSkipsNothing
<1> QED BY <1>5, <1>6, <1>7, <1>8, <1>9

LEMMA CommitStep == ASSUME IInv, NEW w \in Writer, CommitWriter(w) PROVE IInv'
<1> USE FeedAssumption DEF IInv
<1>1. /\ pc[w] = "commit" /\ pc' = [pc EXCEPT ![w] = "idle"]
      /\ state' = mine /\ log' = log \cup pending[w]
      /\ holder' = None /\ mine' = None
      /\ pending' = [pending EXCEPT ![w] = {}]
      /\ UNCHANGED <<used, tenant, patching, scope, seen, page, cursor, got>>
  BY DEF CommitWriter, Goto, readerVars, tenantVars
<1>2. holder = w /\ mine \in StateRow /\ mine # None /\ w \in Proc /\ w \notin Reader
  BY <1>1 DEF LockInv, TypeOK, Proc
<1>3. pending[w] = Numbered
  BY <1>2 DEF LockInv
<1>4. /\ Base \in Nat /\ Base <= mine.seq /\ mine.seq \in Nat
      /\ state # None => mine.epoch = state.epoch
  BY <1>2 DEF Base, LockInv, TypeOK, StateRow
<1>5. TypeOK'
  BY <1>1, <1>2 DEF TypeOK, PCs, Proc
<1>6. LockInv'
  <2>1. \A v \in Writer : pending'[v] = {} /\ pc'[v] \notin {"append", "commit"}
    BY <1>1, <1>2 DEF LockInv, TypeOK, Proc
  <2> QED BY <1>1, <2>1 DEF LockInv, Proc
<1>7. LogInv'
  <2> SUFFICES ASSUME NEW ev \in Event
               PROVE  ev \in log' <=> /\ mine # None /\ ev.epoch = mine.epoch
                                      /\ 0 < ev.seq /\ ev.seq <= mine.seq
    BY <1>1 DEF LogInv
  <2>1. ev.seq \in Nat
    BY DEF Event
  <2>2. ev \in log' <=> \/ state # None /\ ev.epoch = state.epoch /\ 0 < ev.seq
                           /\ ev.seq <= state.seq
                        \/ ev.epoch = mine.epoch /\ Base < ev.seq /\ ev.seq <= mine.seq
    BY <1>1, <1>3 DEF LogInv, Numbered
  <2>3. CASE state = None
    BY <1>2, <2>1, <2>2, <2>3 DEF Base
  <2>4. CASE state # None
    BY <1>2, <1>4, <2>1, <2>2, <2>4 DEF Base, TypeOK, StateRow
  <2> QED BY <2>3, <2>4
<1>8. \A r \in Reader : /\ pc'[r] = pc[r]
                        /\ seen[r] # None => state # None
  BY <1>1, <1>2 DEF PollInv, SeenOK, TypeOK
<1>9. \A ev \in log' \ log : Base < ev.seq /\ ev.seq \in Nat
  BY <1>1, <1>3 DEF Numbered, Event
<1>10. PollInv'
  <2> SUFFICES ASSUME NEW r \in Reader PROVE (SeenOK(r) /\ CursorOK(r) /\ PageOK(r) /\ ScopeOK(r))'
    BY DEF PollInv
  <2>1. SeenOK(r)'
    BY <1>1, <1>2, <1>4, <1>8 DEF PollInv, SeenOK, Base, TypeOK, StateRow
  <2>2. CursorOK(r)'
    BY <1>1, <1>2, <1>4, <1>8 DEF PollInv, CursorOK, Base, TypeOK, StateRow, Cursor
  <2>3. pc[r] = "respond" => Window(r)' = Window(r)
    <3> HAVE pc[r] = "respond"
    <3>1. seen[r] # None
      BY DEF PollInv, SeenOK, Answering
    <3>2. seen[r] \in StateRow /\ seen[r].seq <= Base
      BY <3>1, <1>8 DEF PollInv, SeenOK, Base, TypeOK
    <3>3. \A ev \in log' \ log : ~(ev.seq <= seen[r].seq)
      BY <3>2, <1>4, <1>9 DEF StateRow
    <3> QED BY <1>1, <3>3 DEF Window, After
  <2>4. PageOK(r)'
    BY <1>1, <1>8, <2>3 DEF PollInv, PageOK
  <2> QED BY <1>1, <1>8, <2>1, <2>2, <2>4 DEF PollInv, ScopeOK
<1>11. CursorSkipsNothing'
  <2> SUFFICES ASSUME NEW r \in Reader, cursor[r] # None
               PROVE  {ev \in log' : ev.seq <= cursor[r].seq} = {ev \in log : ev.seq <= cursor[r].seq}
    BY <1>1 DEF CursorSkipsNothing
  <2>1. cursor[r].seq <= Base /\ cursor[r].seq \in Nat
    BY DEF PollInv, CursorOK, Base, TypeOK, StateRow, Cursor
  <2> QED BY <1>1, <1>4, <1>9, <2>1
<1> QED BY <1>5, <1>6, <1>7, <1>10, <1>11

LEMMA AbortWriterStep == ASSUME IInv, NEW w \in Writer, AbortWriter(w) PROVE IInv'
<1> USE FeedAssumption DEF IInv
<1>1. /\ pc[w] # "idle" /\ pc' = [pc EXCEPT ![w] = "idle"]
      /\ IF holder = w THEN holder' = None /\ mine' = None
                       ELSE UNCHANGED <<holder, mine>>
      /\ pending' = [pending EXCEPT ![w] = {}]
      /\ UNCHANGED <<state, log, used, tenant, patching, scope, seen, page, cursor, got>>
  BY DEF AbortWriter, DropHold, Goto, readerVars, tenantVars
<1>2. w \in Proc /\ w \notin Reader /\ w # None
  BY DEF Proc
<1>3. TypeOK'
  BY <1>1, <1>2 DEF TypeOK, PCs, Proc
<1>4. LockInv'
  <2>1. CASE holder = w
    <3>1. \A v \in Writer : pending'[v] = {} /\ pc'[v] \notin {"append", "commit"}
      BY <1>1, <1>2, <2>1 DEF LockInv, TypeOK, Proc
    <3> QED BY <1>1, <2>1, <3>1 DEF LockInv, Proc
  <2>2. CASE holder # w
    <3>1. pending' = pending /\ UNCHANGED <<holder, mine>> /\ Numbered' = Numbered
      BY <1>1, <2>2 DEF LockInv, TypeOK, Numbered, Base
    <3>2. \A v \in Writer : holder' = v <=> pc'[v] \in {"append", "commit"}
      BY <1>1, <1>2, <2>2, <3>1 DEF LockInv, TypeOK, Proc
    <3>3. \A r \in Reader : pc'[r] = pc[r]
      BY <1>1, <1>2 DEF TypeOK
    <3> QED BY <1>1, <3>1, <3>2, <3>3 DEF LockInv
  <2> QED BY <2>1, <2>2
<1>5. LogInv'
  BY <1>1 DEF LogInv
<1>6. PollInv'
  <2>1. \A r \in Reader : pc'[r] = pc[r]
    BY <1>1, <1>2 DEF TypeOK
  <2>2. \A r \in Reader : state = None /\ seen[r] # None => holder = r /\ UNCHANGED mine /\ holder' = r
    BY <1>1, <1>2 DEF PollInv, SeenOK
  <2> QED BY <1>1, <2>1, <2>2 DEF PollInv, SeenOK, CursorOK, PageOK, ScopeOK, Window, After
<1>7. CursorSkipsNothing'
  BY <1>1 DEF CursorSkipsNothing
<1> QED BY <1>3, <1>4, <1>5, <1>6, <1>7

LEMMA CheckCursorStep == ASSUME IInv, NEW r \in Reader, CheckCursor(r) PROVE IInv'
<1> USE FeedAssumption DEF IInv
<1>1. PICK next \in {"page", "rejected"} : pc' = [pc EXCEPT ![r] = next]
  BY DEF CheckCursor, Goto
<1>2. /\ pc[r] = "check" /\ scope' = [scope EXCEPT ![r] = Scope(r)]
      /\ UNCHANGED <<state, holder, mine, used, log, pending, tenant, patching,
                     seen, page, cursor, got>>
  BY DEF CheckCursor, writerVars, tenantVars
<1>3. Scope(r) \in Tenant
  BY DEF Scope, TypeOK
<1>4. TypeOK'
  BY <1>1, <1>2, <1>3 DEF TypeOK, PCs, Proc
<1>5. LockInv'
  BY <1>1, <1>2 DEF TypeOK, LockInv, Answering, Numbered, Base, Proc
<1>6. LogInv'
  BY <1>2 DEF LogInv
<1>7. PollInv'
  BY <1>1, <1>2, <1>3 DEF TypeOK, PollInv, SeenOK, CursorOK, PageOK, ScopeOK, Window, After,
                          Answering, Proc
<1>8. CursorSkipsNothing'
  BY <1>2 DEF CursorSkipsNothing
<1> QED BY <1>4, <1>5, <1>6, <1>7, <1>8

\* What a poll selects from is finite: at most one event to a sequence number.
LEMMA WindowFinite ==
  ASSUME IInv, NEW r \in Reader, seen[r] \in StateRow
  PROVE  Window(r) \in SUBSET Event /\ IsFiniteSet(Window(r))
<1> DEFINE W == Window(r)
           n == seen[r].seq
           f == [ev \in W |-> ev.seq]
<1>1. W \in SUBSET Event /\ n \in Nat
  BY DEF IInv, TypeOK, Window, StateRow
<1>2. \A ev \in W : ev.seq \in 0..n /\ ev = [epoch |-> seen[r].epoch, seq |-> ev.seq]
  BY <1>1 DEF Window, Event
<1>3. f \in [W -> 0..n] /\ \A a, b \in W : f[a] = f[b] => a = b
  <2>1. f \in [W -> 0..n]
    BY <1>2
  <2>2. \A a, b \in W : a.seq = b.seq => a = b
    BY <1>2
  <2> QED BY <2>1, <2>2
<1>4. f \in Injection(W, 0..n)
  BY <1>3 DEF Injection, IsInjective
<1>5. IsFiniteSet(0..n)
  BY <1>1, FS_Interval
<1> QED BY <1>1, <1>4, <1>5, FS_Injection

LEMMA ListPageStep == ASSUME IInv, NEW r \in Reader, ListPage(r) PROVE IInv'
<1> USE FeedAssumption DEF IInv
<1> DEFINE W == Window(r)
           Before(ev) == {o \in W : o.seq < ev.seq}
           P == {ev \in W : Cardinality(Before(ev)) < Limit}
<1>1. /\ pc[r] = "page" /\ pc' = [pc EXCEPT ![r] = "respond"]
      /\ page' = [page EXCEPT ![r] = P]
      /\ UNCHANGED <<state, holder, mine, used, log, pending, tenant, patching, scope,
                     seen, cursor, got>>
  BY DEF ListPage, Goto, writerVars, tenantVars
<1>2. seen[r] # None /\ seen[r] \in StateRow
  BY <1>1 DEF PollInv, SeenOK, Answering, TypeOK
<1>3. W \in SUBSET Event /\ IsFiniteSet(W)
  BY <1>2, WindowFinite
<1>4. \A ev \in P, o \in W : o.seq < ev.seq => o \in P
  <2> SUFFICES ASSUME NEW ev \in P, NEW o \in W, o.seq < ev.seq
               PROVE  Cardinality(Before(o)) < Limit
    OBVIOUS
  <2>1. \A q \in W : q.seq \in Nat
    BY <1>3 DEF Event
  <2>2. Before(o) \in SUBSET Before(ev)
    BY <2>1
  <2>3. IsFiniteSet(Before(ev)) /\ IsFiniteSet(Before(o))
    BY <1>3, FS_Subset
  <2>4. Cardinality(Before(o)) <= Cardinality(Before(ev))
    BY <2>2, <2>3, FS_Subset
  <2>5. Cardinality(Before(o)) \in Nat /\ Cardinality(Before(ev)) \in Nat
    BY <2>3, FS_CardinalityType
  <2>6. Cardinality(Before(ev)) < Limit
    OBVIOUS
  <2> HIDE DEF Before, P, W
  <2> QED BY <2>4, <2>5, <2>6
<1>5. P \subseteq W
  OBVIOUS
<1> HIDE DEF P
<1>6. TypeOK'
  BY <1>1, <1>3, <1>5 DEF TypeOK, PCs, Proc
<1>7. LockInv'
  BY <1>1 DEF TypeOK, LockInv, Answering, Numbered, Base, Proc
<1>8. LogInv'
  BY <1>1 DEF LogInv
<1>9. PollInv'
  <2>1. \A q \in Reader : Window(q)' = Window(q)
    BY <1>1 DEF Window, After
  <2>2. \A q \in Reader \ {r} : pc'[q] = pc[q] /\ page'[q] = page[q]
    BY <1>1 DEF TypeOK
  <2>3. pc'[r] = "respond" /\ page'[r] = P
    BY <1>1 DEF TypeOK, Proc
  <2>4. PageOK(r)'
    BY <1>4, <1>5, <2>1, <2>3 DEF PageOK
  <2>5. \A q \in Reader : PageOK(q)'
    BY <2>1, <2>2, <2>4 DEF PollInv, PageOK
  <2>6. \A q \in Reader : SeenOK(q)' /\ CursorOK(q)' /\ ScopeOK(q)'
    BY <1>1, <2>2, <2>3 DEF PollInv, SeenOK, CursorOK, ScopeOK, Answering
  <2> QED BY <2>2, <2>3, <2>5, <2>6 DEF PollInv
<1>10. CursorSkipsNothing'
  BY <1>1 DEF CursorSkipsNothing
<1> QED BY <1>6, <1>7, <1>8, <1>9, <1>10

\* The state a poll answers from is the committed one, or is committed with it.
LEMMA EndPollState ==
  ASSUME IInv, NEW r \in Reader, pc[r] = "respond", EndPoll(r)
  PROVE  /\ seen[r] \in StateRow /\ seen[r] # None
         /\ state' \in StateRow /\ state' # None
         /\ state'.epoch = seen[r].epoch /\ seen[r].seq <= state'.seq
         /\ IF state = None THEN holder = r /\ state' = seen[r] /\ state'.seq = 0
                            ELSE holder # r /\ state' = state
<1> USE FeedAssumption DEF IInv
<1>1. seen[r] \in StateRow /\ seen[r] # None
  BY DEF PollInv, SeenOK, Answering, TypeOK
<1>2. CASE state = None
  <2>1. holder = r /\ seen[r] = mine /\ mine.seq = 0
    BY <1>1, <1>2 DEF PollInv, SeenOK, LockInv
  <2> QED BY <1>1, <1>2, <2>1 DEF EndPoll, StateRow
<1>3. CASE state # None
  <2>1. holder # r
    BY <1>3 DEF LockInv
  <2> QED BY <1>1, <1>3, <2>1 DEF EndPoll, PollInv, SeenOK, TypeOK
<1> QED BY <1>2, <1>3

LEMMA EndPollStep ==
  ASSUME IInv, NEW r \in Reader, pc[r] = "respond", EndPoll(r),
         cursor' \in [Reader -> Cursor \cup {None}], got' \in [Reader -> SUBSET Event],
         \A q \in Reader \ {r} : cursor'[q] = cursor[q] /\ got'[q] = got[q],
         CursorOK(r)',
         got'[r] = IF cursor'[r] = None THEN {} ELSE {ev \in log : ev.seq <= cursor'[r].seq}
  PROVE  IInv'
<1> USE FeedAssumption DEF IInv
<1>1. /\ seen' = [seen EXCEPT ![r] = None] /\ page' = [page EXCEPT ![r] = {}]
      /\ scope' = [scope EXCEPT ![r] = None]
      /\ pc' = [pc EXCEPT ![r] = "idle"] /\ UNCHANGED <<used, log, pending, tenant, patching>>
      /\ IF holder = r THEN state' = mine /\ holder' = None /\ mine' = None
                       ELSE UNCHANGED <<state, holder, mine>>
      /\ r \in Proc /\ r \notin Writer /\ r # None
  BY DEF EndPoll, ForgetPoll, Goto, writerVars, tenantVars, Proc
<1>2. /\ seen[r] \in StateRow /\ seen[r] # None /\ state' \in StateRow /\ state' # None
      /\ state'.epoch = seen[r].epoch /\ seen[r].seq <= state'.seq
      /\ IF state = None THEN holder = r /\ state' = seen[r] /\ state'.seq = 0
                         ELSE holder # r /\ state' = state
  BY EndPollState
<1>3. TypeOK'
  BY <1>1, <1>2 DEF TypeOK, PCs, Proc
<1>4. \A q \in Proc \ {r} : pc'[q] = pc[q]
  BY <1>1 DEF TypeOK
<1>5. LockInv'
  <2>1. CASE holder = r
    <3>1. \A w \in Writer : pending'[w] = {} /\ pc'[w] \notin {"append", "commit"}
      BY <1>1, <1>4, <2>1 DEF LockInv, Proc
    <3> QED BY <1>1, <2>1, <3>1 DEF LockInv, Proc
  <2>2. CASE holder # r
    <3>1. UNCHANGED <<state, holder, mine, pending>> /\ Numbered' = Numbered
      BY <1>1, <2>2 DEF Numbered, Base
    <3> QED BY <1>1, <1>4, <2>2, <3>1 DEF LockInv, Proc
  <2> QED BY <2>1, <2>2
<1>6. LogInv'
  <2>1. \A ev \in Event : ev.seq \in Nat
    BY DEF Event
  <2> QED BY <1>1, <1>2, <2>1 DEF LogInv, StateRow
<1>7. PollInv'
  <2> SUFFICES ASSUME NEW q \in Reader
               PROVE  (SeenOK(q) /\ CursorOK(q) /\ PageOK(q) /\ ScopeOK(q))'
    BY DEF PollInv
  <2>1. CASE q = r
    BY <1>1, <2>1 DEF SeenOK, PageOK, ScopeOK, Answering, TypeOK, Proc
  <2>2. CASE q # r
    <3>1. /\ pc'[q] = pc[q] /\ seen'[q] = seen[q] /\ page'[q] = page[q]
          /\ cursor'[q] = cursor[q] /\ scope'[q] = scope[q]
      BY <1>1, <1>4, <2>2 DEF TypeOK, Proc
    <3>2. Window(q)' = Window(q)
      BY <1>1, <3>1 DEF Window, After
    <3>3. seen[q] # None => state # None
      BY <1>2, <2>2 DEF PollInv, SeenOK
    <3>4. SeenOK(q)'
      BY <1>2, <3>1, <3>3 DEF PollInv, SeenOK
    <3>5. CursorOK(q)'
      BY <1>2, <3>1 DEF PollInv, CursorOK
    <3>6. PageOK(q)'
      BY <3>1, <3>2 DEF PollInv, PageOK
    <3> QED BY <3>1, <3>4, <3>5, <3>6 DEF PollInv, ScopeOK
  <2> QED BY <2>1, <2>2
<1>8. CursorSkipsNothing'
  BY <1>1 DEF CursorSkipsNothing
<1> QED BY <1>3, <1>5, <1>6, <1>7, <1>8

LEMMA LoseResponseStep == ASSUME IInv, NEW r \in Reader, LoseResponse(r) PROVE IInv'
<1> USE DEF IInv
<1>1. pc[r] = "respond" /\ EndPoll(r) /\ UNCHANGED <<cursor, got>>
  BY DEF LoseResponse
<1>2. CursorOK(r)'
  <2>1. seen'[r] = None
    BY <1>1 DEF EndPoll, ForgetPoll, TypeOK
  <2> QED BY <1>1, <2>1, EndPollState DEF PollInv, CursorOK
<1> QED BY <1>1, <1>2, EndPollStep DEF TypeOK, CursorSkipsNothing

\* The new checkpoint of a poll lies between the old one and the watermark, and
\* the page holds just the events it passes.
LEMMA LastOfPage ==
  ASSUME IInv, NEW r \in Reader, pc[r] = "respond"
  PROVE  /\ LastOf(r) \in Nat /\ After(r) \in Nat
         /\ After(r) <= LastOf(r) /\ LastOf(r) <= seen[r].seq
         /\ page[r] = {ev \in Window(r) : ev.seq <= LastOf(r)}
<1> USE FeedAssumption DEF IInv
<1>1. seen[r] \in StateRow /\ seen[r] # None /\ seen[r].seq \in Nat
  BY DEF PollInv, SeenOK, Answering, TypeOK, StateRow
<1>2. After(r) \in Nat /\ After(r) <= seen[r].seq
  BY <1>1 DEF After, PollInv, CursorOK, TypeOK, StateRow, Cursor
<1>3. /\ page[r] \subseteq Window(r)
      /\ \A ev \in page[r], o \in Window(r) : o.seq < ev.seq => o \in page[r]
  BY DEF PollInv, PageOK
<1>4. /\ Window(r) \in SUBSET Event /\ IsFiniteSet(Window(r))
      /\ \A ev \in Window(r) : ev.seq \in Nat /\ After(r) < ev.seq /\ ev.seq <= seen[r].seq
                              /\ ev = [epoch |-> seen[r].epoch, seq |-> ev.seq]
  <2>1. Window(r) \in SUBSET Event /\ IsFiniteSet(Window(r))
    BY <1>1, WindowFinite
  <2> QED BY <2>1 DEF Window, Event
<1>5. CASE page[r] = {}
  <2>1. LastOf(r) = After(r)
    BY <1>5 DEF LastOf
  <2> QED BY <1>2, <1>4, <1>5, <2>1
<1>6. CASE page[r] # {}
  <2> DEFINE Last(ev) == \A other \in page[r] : other.seq <= ev.seq
  <2>1. \E ev \in page[r] : Last(ev)
    <3>1. page[r] \in SUBSET Event /\ IsFiniteSet(page[r])
      BY <1>3, <1>4, FS_Subset
    <3> QED BY <1>6, <3>1, LastExists
  <2>2. PICK ev \in page[r] : Last(ev) /\ LastOf(r) = ev.seq
    BY <1>6, <2>1 DEF LastOf
  <2>3. \A o \in Window(r) : o.seq <= ev.seq => o \in page[r]
    BY <1>3, <1>4, <2>2
  <2> QED BY <1>2, <1>3, <1>4, <2>2, <2>3
<1> QED BY <1>5, <1>6

LEMMA RespondStep == ASSUME IInv, NEW r \in Reader, Respond(r) PROVE IInv'
<1> USE FeedAssumption DEF IInv
<1> DEFINE next == [tenant |-> scope[r], epoch |-> seen[r].epoch, seq |-> LastOf(r)]
<1>1. /\ pc[r] = "respond" /\ EndPoll(r)
      /\ cursor' = [cursor EXCEPT ![r] = next]
      /\ got' = [got EXCEPT ![r] = @ \cup page[r]]
      /\ seen' = [seen EXCEPT ![r] = None]
  BY DEF Respond, EndPoll, ForgetPoll
<1>2. /\ seen[r] \in StateRow /\ seen[r] # None /\ state' \in StateRow /\ state' # None
      /\ state'.epoch = seen[r].epoch /\ seen[r].seq <= state'.seq
      /\ IF state = None THEN state'.seq = 0 ELSE state' = state
  BY <1>1, EndPollState
<1>3. /\ LastOf(r) \in Nat /\ After(r) \in Nat
      /\ After(r) <= LastOf(r) /\ LastOf(r) <= seen[r].seq
      /\ page[r] = {ev \in Window(r) : ev.seq <= LastOf(r)}
  BY <1>1, LastOfPage
<1>4. next \in Cursor /\ next # None
  BY <1>1, <1>2, <1>3 DEF StateRow, Cursor, TypeOK, PollInv, ScopeOK
<1>5. cursor'[r] = next /\ got'[r] = got[r] \cup page[r] /\ seen'[r] = None
  BY <1>1 DEF TypeOK
<1>6. CursorOK(r)'
  BY <1>2, <1>3, <1>5 DEF CursorOK, StateRow
<1>7. got'[r] = {ev \in log : ev.seq <= LastOf(r)}
  <2>1. \A ev \in log : ev.seq \in Nat /\ 0 < ev.seq
    BY DEF TypeOK, Event, LogInv
  <2>2. \A ev \in log : ev.epoch = seen[r].epoch
    BY <1>2 DEF TypeOK, LogInv
  <2>3. got[r] = {ev \in log : ev.seq <= After(r)}
    <3>1. CASE cursor[r] = None
      <4>1. After(r) = 0 /\ got[r] = {}
        BY <3>1 DEF CursorSkipsNothing, After
      <4> QED BY <2>1, <4>1
    <3>2. CASE cursor[r] # None
      BY <3>2 DEF CursorSkipsNothing, After
    <3> QED BY <3>1, <3>2
  <2>4. seen[r].seq \in Nat
    BY <1>2 DEF StateRow
  <2>5. page[r] = {ev \in log : After(r) < ev.seq /\ ev.seq <= LastOf(r)}
    BY <1>3, <2>1, <2>2, <2>4 DEF Window
  <2> QED BY <1>3, <1>5, <2>1, <2>3, <2>5
<1>8. page[r] \subseteq Event
  BY DEF TypeOK
<1>9. /\ cursor' \in [Reader -> Cursor \cup {None}] /\ got' \in [Reader -> SUBSET Event]
      /\ \A q \in Reader \ {r} : cursor'[q] = cursor[q] /\ got'[q] = got[q]
  BY <1>1, <1>4, <1>8 DEF TypeOK
<1> QED BY <1>1, <1>4, <1>5, <1>6, <1>7, <1>9, EndPollStep

LEMMA RollBackPollStep == ASSUME IInv, NEW r \in Reader, RollBackPoll(r) PROVE IInv'
<1> USE FeedAssumption DEF IInv
<1>1. /\ pc' = [pc EXCEPT ![r] = "idle"]
      /\ seen' = [seen EXCEPT ![r] = None] /\ page' = [page EXCEPT ![r] = {}]
      /\ scope' = [scope EXCEPT ![r] = None]
      /\ IF holder = r THEN holder' = None /\ mine' = None
                       ELSE UNCHANGED <<holder, mine>>
      /\ UNCHANGED <<state, used, log, pending, tenant, patching, cursor, got>>
      /\ r \in Proc /\ r \notin Writer /\ r # None
  BY DEF RollBackPoll, ForgetPoll, DropHold, Goto, writerVars, tenantVars, Proc
<1>2. \A x \in Proc \ {r} : pc'[x] = pc[x]
  BY <1>1 DEF TypeOK
<1>3. TypeOK'
  BY <1>1 DEF TypeOK, PCs, Proc
<1>4. LockInv'
  <2>1. CASE holder = r
    BY <1>1, <1>2, <2>1 DEF LockInv, Proc
  <2>2. CASE holder # r
    <3>1. UNCHANGED <<holder, mine>> /\ Numbered' = Numbered
      BY <1>1, <2>2 DEF Numbered, Base
    <3> QED BY <1>1, <1>2, <2>2, <3>1 DEF LockInv, Proc
  <2> QED BY <2>1, <2>2
<1>5. LogInv'
  BY <1>1 DEF LogInv
<1>6. PollInv'
  <2> SUFFICES ASSUME NEW q \in Reader
               PROVE  (SeenOK(q) /\ CursorOK(q) /\ PageOK(q) /\ ScopeOK(q))'
    BY DEF PollInv
  <2>1. CASE q = r
    BY <1>1, <2>1 DEF PollInv, SeenOK, CursorOK, PageOK, ScopeOK, Answering, TypeOK, Proc
  <2>2. CASE q # r
    BY <1>1, <1>2, <2>2 DEF PollInv, SeenOK, CursorOK, PageOK, ScopeOK, Window, After, TypeOK, Proc
  <2> QED BY <2>1, <2>2
<1>7. CursorSkipsNothing'
  BY <1>1 DEF CursorSkipsNothing
<1> QED BY <1>3, <1>4, <1>5, <1>6, <1>7

LEMMA BeginPatchStep == ASSUME IInv, NEW t \in Tenant, BeginPatch(t) PROVE IInv'
BY DEF BeginPatch, readerVars, IInv, TypeOK, LockInv, LogInv, PollInv, SeenOK, CursorOK, PageOK,
       ScopeOK, Window, After, Numbered, Base, CursorSkipsNothing

LEMMA CommitPatchStep == ASSUME IInv, NEW t \in Tenant, CommitPatch(t) PROVE IInv'
BY DEF CommitPatch, readerVars, IInv, TypeOK, LockInv, LogInv, PollInv, SeenOK, CursorOK, PageOK,
       ScopeOK, Window, After, Numbered, Base, CursorSkipsNothing

-----------------------------------------------------------------------------

\* Every step of a transaction, a poll or a client preserves the invariant.
LEMMA NextIInv == IInv /\ [Next]_vars => IInv'
<1> SUFFICES ASSUME IInv, [Next]_vars PROVE IInv'
  OBVIOUS
<1>1. ASSUME NEW x \in Proc, Begin(x) PROVE IInv'
  BY <1>1, BeginStep
<1>2. ASSUME NEW x \in Proc, GetState(x) PROVE IInv'
  BY <1>2, SelectStep, SelectNothingStep, InsertStep, InsertConflictStep DEF GetState
<1>3. ASSUME NEW w \in Writer, AppendEvent(w) \/ CommitWriter(w) \/ AbortWriter(w) PROVE IInv'
  BY <1>3, AppendStep, CommitStep, AbortWriterStep
<1>4. ASSUME NEW r \in Reader,
             CheckCursor(r) \/ ListPage(r) \/ Respond(r) \/ LoseResponse(r)
      PROVE  IInv'
  BY <1>4, CheckCursorStep, ListPageStep, RespondStep, LoseResponseStep
<1>6. ASSUME NEW r \in Reader, AbortPoll(r) \/ Refuse(r) PROVE IInv'
  BY <1>6, RollBackPollStep DEF AbortPoll, Refuse
<1>7. ASSUME NEW t \in Tenant, BeginPatch(t) \/ CommitPatch(t) PROVE IInv'
  BY <1>7, BeginPatchStep, CommitPatchStep
<1>5. CASE UNCHANGED vars
  BY <1>5 DEF vars, IInv, TypeOK, LockInv, LogInv, PollInv, SeenOK, CursorOK, PageOK, ScopeOK,
              Window, After, Numbered, Base, CursorSkipsNothing
<1> QED BY <1>1, <1>2, <1>3, <1>4, <1>5, <1>6, <1>7 DEF Next

\* The inductive invariant holds in every reachable state.
THEOREM Invariance == Spec => []IInv
BY InitIInv, NextIInv, PTL DEF Spec

\* Types of all variables (the ORM models' columns, the handlers' locals).
THEOREM TypeCorrect == Spec => []TypeOK
BY Invariance, PTL DEF IInv

\* emit and get_or_create_state: the committed events are the gapless sequence
\* up to the committed high watermark, whatever transactions roll back.
THEOREM LogIsGapless == Spec => []LogMatchesState
<1>1. IInv => LogMatchesState
  <2> SUFFICES ASSUME IInv PROVE LogMatchesState
    OBVIOUS
  <2>1. log \subseteq Event /\ state \in StateRow \cup {None} /\ LogInv
    BY DEF IInv, TypeOK
  <2>2. CASE state = None
    BY <2>1, <2>2 DEF LogInv, LogMatchesState
  <2>3. CASE state # None
    <3>1. state \in StateRow /\ state.seq \in Nat /\ state.epoch \in Epoch
      BY <2>1, <2>3 DEF StateRow
    <3>2. \A ev \in log : ev \in [epoch : {state.epoch}, seq : 1..state.seq]
      BY <2>1, <2>3, <3>1 DEF LogInv, Event
    <3>3. \A ev \in [epoch : {state.epoch}, seq : 1..state.seq] : ev \in log
      BY <2>1, <2>3, <3>1 DEF LogInv, Event
    <3> QED BY <2>3, <3>2, <3>3 DEF LogMatchesState
  <2> QED BY <2>2, <2>3
<1> QED BY <1>1, Invariance, PTL

\* list_changes: a client that follows its cursor never misses a committed event.
THEOREM NothingSkipped == Spec => []CursorSkipsNothing
BY Invariance, PTL DEF IInv

\* list_changes: a cursor the server signed is answered with 422 only where the
\* poll finds the project under another tenant than the one that was signed.
THEOREM CursorsStayValid == Spec => []IssuedCursorAccepted
<1>1. Init => IssuedCursorAccepted
  BY DEF Init, IssuedCursorAccepted, Proc
<1>2. IInv /\ IssuedCursorAccepted /\ [Next]_vars => IssuedCursorAccepted'
  <2> SUFFICES ASSUME IInv, IssuedCursorAccepted, [Next]_vars,
                      NEW r \in Reader, pc'[r] = "rejected"
               PROVE  cursor'[r] # None /\ cursor'[r].tenant # scope'[r]
    BY DEF IssuedCursorAccepted
  <2>1. CASE CheckCursor(r)
    <3>1. ~CursorAccepted(r) /\ pc[r] = "check" /\ scope'[r] = Scope(r) /\ UNCHANGED cursor
      BY <2>1 DEF CheckCursor, Goto, IInv, TypeOK, Proc
    <3>2. seen[r] # None /\ seen[r] \in StateRow
      BY <3>1 DEF IInv, PollInv, SeenOK, Answering, TypeOK
    <3>3. cursor[r] = None => CursorAccepted(r)
      BY <3>2 DEF CursorAccepted, After, StateRow
    <3>4. cursor[r] # None => cursor[r].epoch = seen[r].epoch /\ After(r) <= seen[r].seq
      BY <3>2 DEF IInv, PollInv, SeenOK, CursorOK, After
    <3> QED BY <3>1, <3>3, <3>4 DEF CursorAccepted
  <2>2. CASE ~CheckCursor(r)
    <3> DEFINE Kept == pc[r] = "rejected" /\ cursor'[r] = cursor[r] /\ scope'[r] = scope[r]
    <3>0. r \in Proc /\ r \notin Writer /\ pc \in [Proc -> PCs] /\ scope \in [Reader -> Tenant \cup {None}]
          /\ cursor \in [Reader -> Cursor \cup {None}]
      BY FeedAssumption DEF IInv, TypeOK, Proc
    <3>1. ASSUME NEW x \in Proc, Begin(x) \/ GetState(x) PROVE Kept
      BY <3>0, <3>1 DEF Begin, GetState, Select, SelectNothing, Insert, InsertConflict, Goto,
                        AfterState, readerVars
    <3>2. ASSUME NEW w \in Writer, AppendEvent(w) \/ CommitWriter(w) \/ AbortWriter(w) PROVE Kept
      BY <3>0, <3>2 DEF AppendEvent, CommitWriter, AbortWriter, Goto, readerVars
    <3>3. ASSUME NEW q \in Reader, CheckCursor(q) \/ ListPage(q) PROVE Kept
      BY <2>2, <3>0, <3>3 DEF CheckCursor, ListPage, Goto
    <3>4. ASSUME NEW q \in Reader, Respond(q) \/ LoseResponse(q) \/ AbortPoll(q) \/ Refuse(q)
          PROVE  Kept
      BY <3>0, <3>4 DEF Respond, LoseResponse, AbortPoll, Refuse, EndPoll, RollBackPoll,
                        ForgetPoll, Goto
    <3>5. ASSUME NEW t \in Tenant, BeginPatch(t) \/ CommitPatch(t) PROVE Kept
      BY <3>5 DEF BeginPatch, CommitPatch, readerVars
    <3>6. ASSUME UNCHANGED vars PROVE Kept
      <4>1. UNCHANGED <<pc, cursor, scope>>
        BY <3>6 DEF vars
      <4> QED BY <4>1
    <3>7. Next => Kept
      <4> HIDE DEF Kept
      <4> QED BY <3>1, <3>2, <3>3, <3>4, <3>5 DEF Next
    <3>8. Kept
      BY <3>6, <3>7
    <3> QED BY <3>8 DEF IssuedCursorAccepted
  <2> QED BY <2>1, <2>2
<1> QED BY <1>1, <1>2, Invariance, PTL DEF Spec

\* list_changes: no event is delivered twice to a client that keeps its cursor.
THEOREM DeliveredOnce == Spec => []NoRedelivery
<1>1. IInv => NoRedelivery
  <2> SUFFICES ASSUME IInv, NEW r \in Reader PROVE page[r] \cap got[r] = {}
    BY DEF NoRedelivery
  <2>1. CASE pc[r] # "respond"
    BY <2>1 DEF IInv, PollInv, PageOK
  <2>2. CASE pc[r] = "respond"
    <3>1. \A ev \in page[r] : After(r) < ev.seq /\ ev.seq \in Nat
      BY <2>2 DEF IInv, PollInv, PageOK, Window, TypeOK, Event
    <3>2. After(r) \in Nat
      BY DEF IInv, After, TypeOK, Cursor
    <3>3. \A ev \in got[r] : ev.seq <= After(r)
      BY DEF IInv, CursorSkipsNothing, After
    <3> QED BY <3>1, <3>2, <3>3
  <2> QED BY <2>1, <2>2
<1> QED BY <1>1, Invariance, PTL

\* list_changes: the three together are what a polling client relies on.
THEOREM DeliveryIsExact == Spec => []DeliveryExact
BY NothingSkipped, CursorsStayValid, DeliveredOnce, PTL DEF DeliveryExact

\* get_or_create_state: the feed is created once; a lost insert race or a
\* rolled back creator never replaces a committed epoch or sequence.
THEOREM FeedIsCreatedOnce == Spec => FeedNeverRestarts
<1> DEFINE Kept == state # None => /\ state' # None
                                   /\ state'.epoch = state.epoch
                                   /\ state'.seq >= state.seq
<1>1. IInv /\ [Next]_vars => [Kept]_vars
  <2> SUFFICES ASSUME IInv, Next, state # None PROVE Kept
    OBVIOUS
  <2>1. state \in StateRow /\ state.seq \in Nat
    BY DEF IInv, TypeOK, StateRow
  <2>2. ASSUME NEW w \in Writer, CommitWriter(w) PROVE Kept
    <3>1. holder = w /\ w # None /\ state' = mine
      BY <2>2, FeedAssumption DEF CommitWriter, IInv, LockInv
    <3>2. mine # None /\ mine \in StateRow /\ mine.epoch = state.epoch /\ state.seq <= mine.seq
      BY <3>1 DEF IInv, LockInv, TypeOK
    <3> QED BY <2>1, <3>1, <3>2 DEF StateRow
  <2>3. ASSUME NEW r \in Reader, Respond(r) \/ LoseResponse(r) PROVE Kept
    <3>1. state' = state
      BY <2>3, EndPollState DEF Respond, LoseResponse
    <3> QED BY <2>1, <3>1
  <2>4. UNCHANGED state => Kept
    BY <2>1
  <2>5. CASE UNCHANGED state
    BY <2>4, <2>5
  <2> QED BY <2>2, <2>3, <2>5
          DEF Next, GetState, Begin, Select, SelectNothing, Insert, InsertConflict,
              AppendEvent, AbortWriter, CheckCursor, ListPage, AbortPoll, Refuse,
              RollBackPoll, BeginPatch, CommitPatch
<1> QED BY <1>1, Invariance, PTL DEF Spec, FeedNeverRestarts
=============================================================================
