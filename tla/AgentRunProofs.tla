---------------------------- MODULE AgentRunProofs ----------------------------
(***************************************************************************)
(* What holds of every number of agents, runs and entries: types, that     *)
(* equal entries come from overlaps or past the gate, that logs tell the truth,   *)
(* that no entry is read twice, and that provenance is what was read.      *)
(***************************************************************************)
EXTENDS AgentRun, OrderedProofs, SequenceTheorems, TLAPS

-----------------------------------------------------------------------------
(* Types, and how runs, posts and logs belong together.                     *)

Active(a) == agent[a].pc # "idle"

Running == [pc : {"read", "act", "save", "link", "log"}, run : 1..runs, scope : 1..3,
            context : Seq(DOMAIN row), linked : Seq(DOMAIN row)]

PostType == [by : Agent, run : 1..runs, project : Project \cup {None}, text : Text,
             pc : {"begin", "insert"}, seen : SUBSET DOMAIN row]

RowsType ==
  /\ \E n \in 0..MaxEntries : row \in [1..n -> Row]
  /\ exists \subseteq Project
  /\ access \subseteq (1..runs) \X (DOMAIN row)
  /\ links \subseteq (DOMAIN row) \X (DOMAIN row)

RunsType ==
  /\ runs \in 0..MaxRuns
  /\ result \in [1..runs -> DOMAIN row \cup {0}]
  /\ agent \in [Agent -> {Idle} \cup Running]
  /\ posts \subseteq PostType
  /\ \A x \in logs : /\ DOMAIN x = {"run", "entry", "used", "linked"}
                     /\ x.run \in 1..runs /\ x.entry \in DOMAIN row
                     /\ x.used \in Seq(DOMAIN row) /\ x.linked \in Seq(DOMAIN row)

\* No two agents, and no two posts, have one run.
RunsApart ==
  /\ \A a, b \in Agent : Active(a) /\ Active(b) /\ agent[a].run = agent[b].run => a = b
  /\ \A p, q \in posts : p.run = q.run => p = q

\* A run has a result from the end of its post on; only an agent that has
\* given up, or waits, leaves a post behind.
ResultsFollowPosts ==
  /\ \A q \in posts : /\ result[q.run] = 0
                      /\ \A a \in Agent : Active(a) /\ agent[a].run = q.run => agent[a].pc = "save"
  /\ \A a \in Agent :
       /\ agent[a].pc \in {"read", "act", "save"} => result[agent[a].run] = 0 /\ agent[a].linked = << >>
       /\ agent[a].pc \in {"link", "log"} => result[agent[a].run] # 0

ContextBounded == \A a \in Agent : Active(a) => Len(agent[a].context) <= Limit

TInv == RowsType /\ RunsType /\ RunsApart /\ ResultsFollowPosts /\ ContextBounded

-----------------------------------------------------------------------------
(* Duplicates: a post about to be inserted saw no equal entry.              *)

SeenNothing == \A q \in posts : q.pc = "insert" /\ q.project # None => q.seen = {}

DInv == SeenNothing /\ DuplicateNeedsOverlap

-----------------------------------------------------------------------------
(* Logs: the items linked so far begin the list of those to link.           *)

ContextWasRead ==
  \A a \in Agent : Active(a) => \A e \in Items(agent[a].context) : <<agent[a].run, e>> \in access

LinkedSoFar ==
  \A a \in Agent : Active(a) =>
    LET q == agent[a] IN
    /\ Len(q.linked) <= Len(ToLink(q))
    /\ \A n \in DOMAIN q.linked : q.linked[n] = q.context[n] /\ <<result[q.run], q.linked[n]>> \in links
    /\ q.pc = "log" => Len(q.linked) = Len(ToLink(q))

LoggedOnce == \A x \in logs : result[x.run] # 0 /\ \A a \in Agent : Active(a) => agent[a].run # x.run

LInv == ContextWasRead /\ LinkedSoFar /\ LoggedOnce /\ LogTellsRun

-----------------------------------------------------------------------------
(* Chains: a row continues an earlier one, which is closed then; of each    *)
(* entry one row has no successor, and what an agent that still reads has   *)
(* in its context has none, unless it was replaced meanwhile.               *)

ChainsBack ==
  \A e \in DOMAIN row :
    /\ row[e].supersedes \in DOMAIN row \cup {0} /\ row[e].copyOf \in DOMAIN row \cup {0}
    /\ \A b \in {row[e].supersedes, row[e].copyOf} \ {0} : ~row[b].current

Leaf(e) == \A f \in DOMAIN row : Before(f) # e

OneLeaf == \A e, f \in DOMAIN row : Leaf(e) /\ Leaf(f) /\ Akin(e, f) => e = f

ReadsLeaves ==
  \A a \in Agent : agent[a].pc = "read" /\ agent[a].run \notin moved =>
    \A e \in Items(agent[a].context) : Leaf(e)

CInv == ChainsBack /\ OneLeaf /\ ReadsLeaves /\ OneVersionInContext

-----------------------------------------------------------------------------
(* Provenance.                                                              *)

PInv == DerivedFromWasRead

-----------------------------------------------------------------------------
(* Lemmas about the operators of the module.                                *)

LEMMA Constants ==
  /\ MaxEntries \in Nat /\ MaxRuns \in Nat /\ Limit \in Nat \ {0} /\ LinkCap \in Nat \ {0}
  /\ Home \in [Agent -> Project \cup {None}] /\ None \notin Project \cup Text
BY AgentAssumption

\* A new row goes behind the others.
LEMMA AddRow ==
  ASSUME RowsType, NewId \in Id, NEW rows \in [DOMAIN row -> Row], NEW v \in Row
  PROVE  /\ NewId \notin DOMAIN row /\ NewId # 0 /\ 0 \notin DOMAIN row
         /\ DOMAIN Add(rows, v) = DOMAIN row \cup {NewId}
         /\ Add(rows, v)[NewId] = v /\ \A e \in DOMAIN row : Add(rows, v)[e] = rows[e]
         /\ \E n \in 0..MaxEntries : Add(rows, v) \in [1..n -> Row]
<1>1. PICK n \in 0..MaxEntries : row \in [1..n -> Row]
  BY DEF RowsType
<1>2. n \in Nat /\ MaxEntries \in Nat
  BY Constants
<1>3. NewId = n + 1
  <2>1. Cardinality(1..n) = IF 1 > n THEN 0 ELSE n - 1 + 1
    BY <1>2, FS_Interval
  <2>2. DOMAIN row = 1..n
    BY <1>1
  <2> QED BY <1>2, <2>1, <2>2 DEF NewId
<1>4. n + 1 \in 0..MaxEntries /\ n + 1 \in 1..n + 1 /\ n + 1 \notin 1..n
  BY <1>2, <1>3 DEF Id
<1>5. \A e : e \in 1..n + 1 <=> e \in 1..n \/ e = n + 1
  BY <1>2
<1>6. DOMAIN row = 1..n
  BY <1>1
<1>7. Add(rows, v) = [e \in 1..n + 1 |-> IF e = n + 1 THEN v ELSE rows[e]]
  BY <1>3 DEF Add
<1>8. Add(rows, v) \in [1..n + 1 -> Row]
  BY <1>5, <1>6, <1>7
<1> QED BY <1>2, <1>3, <1>4, <1>5, <1>6, <1>7, <1>8

LEMMA NoRowZero ==
  ASSUME RowsType
  PROVE  0 \notin DOMAIN row /\ row \in [DOMAIN row -> Row]
BY Constants DEF RowsType

\* More rows and more runs only widen the types.
LEMMA Wider ==
  ASSUME DOMAIN row \subseteq DOMAIN row', runs \in Nat, runs' \in Nat, runs <= runs'
  PROVE  Running \subseteq Running' /\ PostType \subseteq PostType'
<1>1. \A s \in Seq(DOMAIN row) : s \in Seq(DOMAIN row')
  BY SeqMonotonic
<1>2. \A r \in 1..runs : r \in 1..runs'
  OBVIOUS
<1>3. ASSUME NEW q \in Running PROVE q \in Running'
  BY <1>1, <1>2, <1>3 DEF Running
<1>4. ASSUME NEW q \in PostType PROVE q \in PostType'
  BY <1>2, <1>4 DEF PostType
<1> QED BY <1>3, <1>4

\* One agent moves, and only it.
LEMMA AgentMoves ==
  ASSUME RunsType, NEW a \in Agent, NEW r \in {Idle} \cup Running, agent' = [agent EXCEPT ![a] = r]
  PROVE  /\ agent' \in [Agent -> {Idle} \cup Running]
         /\ agent'[a] = r /\ \A b \in Agent \ {a} : agent'[b] = agent[b]
BY DEF RunsType

\* What an answer holds.
LEMMA FoundList ==
  ASSUME NEW S, NEW s \in Found(S)
  PROVE  /\ s \in Seq(S) /\ Len(s) \in Nat /\ Items(s) \subseteq S
         /\ \A m, n \in 1..Len(s) : s[m] = s[n] => m = n
<1>1. PICK n \in 0..Limit : s \in [1..n -> S]
  BY DEF Found
<1>2. n \in Nat
  BY Constants
<1>3. s \in Seq(S) /\ Len(s) = n /\ DOMAIN s = 1..n
  BY <1>1, <1>2
<1>4. \A k, m \in DOMAIN s : s[k] = s[m] => k = m
  BY DEF Found
<1> QED BY <1>1, <1>2, <1>3, <1>4 DEF Items

\* A context keeps its items, takes over new ones, none of them twice, and
\* never exceeds the limit.
LEMMA MergedList ==
  ASSUME NEW S, NEW c \in Seq(S), NEW s \in Seq(S),
         \A m, n \in 1..Len(s) : s[m] = s[n] => m = n
  PROVE  /\ Merged(c, s) \in Seq(S) /\ Len(Merged(c, s)) <= Limit
         /\ \A n \in DOMAIN Merged(c, s) :
              \/ n \in DOMAIN c /\ Merged(c, s)[n] = c[n]
              \/ n \notin DOMAIN c /\ Merged(c, s)[n] \in Items(s) \ Items(c)
         /\ \A m, n \in DOMAIN Merged(c, s) : m # n /\ m \notin DOMAIN c /\ n \notin DOMAIN c
              => Merged(c, s)[m] # Merged(c, s)[n]
<1> DEFINE fresh == {n \in DOMAIN s : s[n] \notin Items(c)}
           new   == NewItems(c, s)
           all   == c \o new
           len   == IF Len(all) < Limit THEN Len(all) ELSE Limit
<1>1. DOMAIN s = 1..Len(s) /\ Len(s) \in Nat /\ DOMAIN c = 1..Len(c) /\ Len(c) \in Nat
  OBVIOUS
<1>2. fresh \in SUBSET Nat /\ IsFiniteSet(fresh)
  <2>1. IsFiniteSet(1..Len(s)) /\ fresh \in SUBSET (1..Len(s))
    BY <1>1, FS_Interval
  <2> QED BY <1>1, <2>1, FS_Subset
<1> DEFINE k == Cardinality(fresh)
<1>3. /\ k \in Nat /\ Ascending(fresh) \in [1..k -> fresh]
      /\ \A m, n \in 1..k : m < n => Ascending(fresh)[m] < Ascending(fresh)[n]
  BY <1>2, AscendingLists
<1>4. new = [n \in 1..k |-> s[Ascending(fresh)[n]]]
  BY DEF NewItems
<1>5. \A x \in fresh : x \in 1..Len(s) /\ s[x] \in S /\ s[x] \in Items(s) \ Items(c)
  BY <1>1 DEF Items
<1> HIDE DEF fresh, k, new
<1>6. /\ new \in [1..k -> S]
      /\ \A n \in 1..k : new[n] \in Items(s) \ Items(c)
  BY <1>3, <1>4, <1>5
<1>7. ASSUME NEW m \in 1..k, NEW n \in 1..k, m # n PROVE new[m] # new[n]
  <2>1. Ascending(fresh)[m] # Ascending(fresh)[n]
    <3>1. m < n \/ n < m
      BY <1>3, <1>7
    <3>2. Ascending(fresh)[m] \in Nat /\ Ascending(fresh)[n] \in Nat
      BY <1>2, <1>3
    <3> QED BY <1>3, <3>1, <3>2
  <2>2. Ascending(fresh)[m] \in 1..Len(s) /\ Ascending(fresh)[n] \in 1..Len(s)
    BY <1>3, <1>5
  <2> QED BY <1>4, <2>1, <2>2
<1>8. new \in Seq(S) /\ Len(new) = k
  BY <1>3, <1>6
<1>9. /\ all \in Seq(S) /\ Len(all) = Len(c) + k
      /\ \A n \in 1..Len(c) + k : all[n] = IF n <= Len(c) THEN c[n] ELSE new[n - Len(c)]
  BY <1>8, ConcatProperties
<1>10. Merged(c, s) = SubSeq(all, 1, len)
  BY DEF Merged, new
<1> HIDE DEF all
<1>11. len \in Nat /\ len <= Limit /\ len <= Len(c) + k
  BY <1>1, <1>3, <1>9, Constants
<1> HIDE DEF len
<1>12. \A n \in 1..len : all[n] \in S
  BY <1>1, <1>3, <1>9, <1>11
<1>13. /\ Merged(c, s) \in Seq(S) /\ Len(Merged(c, s)) = len
       /\ \A n \in 1..len : Merged(c, s)[n] = all[n]
  <2>1. /\ SubSeq(all, 1, len) \in Seq(S)
        /\ Len(SubSeq(all, 1, len)) = IF 1 <= len THEN len - 1 + 1 ELSE 0
        /\ \A n \in 1..len - 1 + 1 : SubSeq(all, 1, len)[n] = all[1 + n - 1]
    BY <1>11, <1>12, SubSeqProperties
  <2> QED BY <1>10, <1>11, <2>1
<1>14. DOMAIN Merged(c, s) = 1..len
  BY <1>13
<1>15. ASSUME NEW n \in 1..len
       PROVE  \/ n \in 1..Len(c) /\ Merged(c, s)[n] = c[n]
              \/ n \notin 1..Len(c) /\ n - Len(c) \in 1..k /\ Merged(c, s)[n] = new[n - Len(c)]
  BY <1>1, <1>3, <1>9, <1>11, <1>13
<1>16. ASSUME NEW m \in 1..len, NEW n \in 1..len, m # n, m \notin 1..Len(c), n \notin 1..Len(c)
       PROVE  Merged(c, s)[m] # Merged(c, s)[n]
  <2>1. m - Len(c) # n - Len(c)
    BY <1>1, <1>11, <1>16
  <2> QED BY <1>7, <1>15, <1>16, <2>1
<1>17. \A n \in 1..len : \/ n \in 1..Len(c) /\ Merged(c, s)[n] = c[n]
                         \/ n \notin 1..Len(c) /\ Merged(c, s)[n] \in Items(s) \ Items(c)
  BY <1>6, <1>15
<1> QED BY <1>1, <1>11, <1>13, <1>14, <1>16, <1>17

-----------------------------------------------------------------------------
(* Types and runs: one lemma for each action.                               *)

\* What TInv says of agents and posts survives a step of one agent that
\* leaves rows, posts, results and the number of runs alone.
LEMMA AgentStepType ==
  ASSUME TInv, NEW a \in Agent, Active(a), NEW r \in {Idle} \cup Running,
         agent' = [agent EXCEPT ![a] = r],
         r # Idle => /\ r.run = agent[a].run /\ Len(r.context) <= Limit
                     /\ r.pc \in {"read", "act"} => r.pc = agent[a].pc \/ agent[a].pc = "read"
                     /\ r.pc \in {"link", "log"} <=> agent[a].pc \in {"link", "log"}
                     /\ r.pc # "save" /\ agent[a].pc # "save"
                     /\ r.pc \in {"read", "act", "save"} => r.linked = agent[a].linked,
         UNCHANGED <<row, posts, runs, result>>,
         RowsType', logs' \subseteq logs \cup {x \in {Entered(agent[a])} : agent[a].pc = "log"}
  PROVE  TInv'
<1>1. RowsType /\ RunsType /\ RunsApart /\ ResultsFollowPosts /\ ContextBounded
  BY DEF TInv
<1>2. /\ agent' \in [Agent -> {Idle} \cup Running]
      /\ agent'[a] = r /\ \A b \in Agent \ {a} : agent'[b] = agent[b]
  BY <1>1, AgentMoves
<1>3. agent[a] \in Running
  BY <1>1 DEF RunsType, Active, Idle
<1>4. Running' = Running /\ PostType' = PostType
  BY DEF Running, PostType
<1>5. RunsType'
  <2>1. ASSUME NEW x \in logs'
        PROVE  /\ DOMAIN x = {"run", "entry", "used", "linked"}
               /\ x.run \in 1..runs /\ x.entry \in DOMAIN row
               /\ x.used \in Seq(DOMAIN row) /\ x.linked \in Seq(DOMAIN row)
    <3>1. CASE x \in logs
      BY <1>1, <3>1 DEF RunsType
    <3>2. CASE x = Entered(agent[a]) /\ agent[a].pc = "log"
      <4>1. agent[a].run \in 1..runs /\ result[agent[a].run] # 0
        BY <1>1, <1>3, <3>2 DEF ResultsFollowPosts, Running
      <4> QED BY <1>1, <1>3, <3>2, <4>1 DEF Entered, LinkedIds, RunsType, Running
    <3> QED BY <2>1, <3>1, <3>2
  <2> QED BY <1>1, <1>2, <1>4, <2>1 DEF RunsType
<1>6. r # Idle => r.pc # "idle" /\ r \in Running
  BY DEF Idle, Running
<1>7. RunsApart'
  BY <1>1, <1>2, <1>6 DEF RunsApart, Active, Idle
<1>8. ResultsFollowPosts'
  <2>1. ASSUME NEW q \in posts
        PROVE  /\ result[q.run] = 0
               /\ \A b \in Agent : agent'[b].pc # "idle" /\ agent'[b].run = q.run => agent'[b].pc = "save"
    BY <1>1, <1>2, <1>6 DEF ResultsFollowPosts, Active, Idle
  <2>2. ASSUME NEW b \in Agent
        PROVE  /\ agent'[b].pc \in {"read", "act", "save"} =>
                    result[agent'[b].run] = 0 /\ agent'[b].linked = << >>
               /\ agent'[b].pc \in {"link", "log"} => result[agent'[b].run] # 0
    BY <1>1, <1>2, <1>3, <1>6 DEF ResultsFollowPosts, Active, Idle, Running
  <2> QED BY <2>1, <2>2 DEF ResultsFollowPosts, Active
<1>9. ContextBounded'
  BY <1>1, <1>2, <1>6 DEF ContextBounded, Active, Idle
<1> QED BY <1>5, <1>7, <1>8, <1>9 DEF TInv

LEMMA StopType == ASSUME TInv, NEW a \in Agent, Stop(a) PROVE TInv'
<1>1. RowsType'
  BY DEF TInv, RowsType, Stop
<1> QED BY <1>1, AgentStepType DEF Stop, Active

LEMMA ReadScopeType == ASSUME TInv, NEW a \in Agent, ReadScope(a) PROVE TInv'
<1> DEFINE q == agent[a]
<1>1. /\ q.pc = "read" /\ q \in Running /\ Active(a)
      /\ UNCHANGED <<row, exists, links, logs, posts, runs, result>>
  BY DEF ReadScope, TInv, RunsType, Active, Idle
<1>2. PICK s \in Found(Searchable(a, Scopes[q.scope])) :
        /\ access' = access \cup Accessed(q.run, s)
        /\ agent' = [agent EXCEPT ![a] =
             IF Enough(Merged(q.context, s)) \/ q.scope = Len(Scopes)
             THEN [q EXCEPT !.context = Merged(q.context, s), !.pc = "act"]
             ELSE [q EXCEPT !.context = Merged(q.context, s), !.scope = q.scope + 1]]
  BY DEF ReadScope
<1>3. Searchable(a, Scopes[q.scope]) \subseteq DOMAIN row
  BY DEF Searchable
<1>4. /\ s \in Seq(DOMAIN row) /\ Items(s) \subseteq DOMAIN row
      /\ \A m, n \in 1..Len(s) : s[m] = s[n] => m = n
  BY <1>2, <1>3, FoundList, SeqMonotonic
<1>5. Merged(q.context, s) \in Seq(DOMAIN row) /\ Len(Merged(q.context, s)) <= Limit
  BY <1>1, <1>4, MergedList DEF Running
<1>6. Accessed(q.run, s) \subseteq (1..runs) \X (DOMAIN row)
  BY <1>1, <1>4 DEF Accessed, Running
<1>7. RowsType'
  BY <1>1, <1>2, <1>6 DEF TInv, RowsType
<1>8. Len(Scopes) = 3 /\ q.scope \in 1..3
  BY <1>1 DEF Scopes, Running
<1>9. CASE Enough(Merged(q.context, s)) \/ q.scope = Len(Scopes)
  <2> DEFINE r == [q EXCEPT !.context = Merged(q.context, s), !.pc = "act"]
  <2>1. r \in Running /\ r.run = q.run /\ r.pc = "act" /\ r.linked = q.linked /\ r.context = Merged(q.context, s)
    BY <1>1, <1>5 DEF Running
  <2>2. agent' = [agent EXCEPT ![a] = r]
    BY <1>2, <1>9
  <2> HIDE DEF r
  <2> QED BY <1>1, <1>5, <1>7, <2>1, <2>2, AgentStepType
<1>10. CASE ~(Enough(Merged(q.context, s)) \/ q.scope = Len(Scopes))
  <2> DEFINE r == [q EXCEPT !.context = Merged(q.context, s), !.scope = q.scope + 1]
  <2>0. q.scope + 1 \in 1..3
    BY <1>8, <1>10
  <2>1. r \in Running /\ r.run = q.run /\ r.pc = "read" /\ r.linked = q.linked /\ r.context = Merged(q.context, s)
    BY <1>1, <1>5, <2>0 DEF Running
  <2>2. agent' = [agent EXCEPT ![a] = r]
    BY <1>2, <1>10
  <2> HIDE DEF r
  <2> QED BY <1>1, <1>5, <1>7, <2>1, <2>2, AgentStepType
<1> QED BY <1>9, <1>10

LEMMA LinkItemType == ASSUME TInv, NEW a \in Agent, LinkItem(a) PROVE TInv'
<1> DEFINE q == agent[a]
           source == ToLink(q)[Len(q.linked) + 1]
           r == [q EXCEPT !.linked = Append(q.linked, source)]
<1>1. /\ q.pc = "link" /\ q \in Running /\ Active(a) /\ Len(q.linked) < Len(ToLink(q))
      /\ links' = links \cup {<<result[q.run], source>>}
      /\ agent' = [agent EXCEPT ![a] = r]
      /\ UNCHANGED <<row, exists, access, logs, posts, runs, result>>
  BY DEF LinkItem, TInv, RunsType, Active, Idle
<1>2. /\ q.context \in Seq(DOMAIN row) /\ q.linked \in Seq(DOMAIN row) /\ q.run \in 1..runs
      /\ result[q.run] \in DOMAIN row
  BY <1>1 DEF TInv, RunsType, ResultsFollowPosts, Running
<1>3. ToLink(q) \in Seq(DOMAIN row)
  <2>1. /\ Len(q.context) \in Nat /\ (IF Len(q.context) < LinkCap THEN Len(q.context) ELSE LinkCap) <= Len(q.context)
        /\ (IF Len(q.context) < LinkCap THEN Len(q.context) ELSE LinkCap) \in Nat
    BY <1>2, Constants
  <2> QED BY <1>2, <2>1, SubSeqProperties DEF ToLink
<1>4. source \in DOMAIN row
  BY <1>1, <1>2, <1>3
<1> HIDE DEF source
<1>5. r \in Running /\ r.run = q.run /\ r.pc = "link" /\ r.context = q.context
  <2>1. Append(q.linked, source) \in Seq(DOMAIN row)
    BY <1>2, <1>4, AppendProperties
  <2> QED BY <1>1, <2>1 DEF Running
<1>6. RowsType'
  BY <1>1, <1>2, <1>4 DEF TInv, RowsType
<1>7. Len(r.context) <= Limit
  BY <1>1, <1>5 DEF TInv, ContextBounded
<1> HIDE DEF r
<1> QED BY <1>1, <1>5, <1>6, <1>7, AgentStepType

LEMMA EvaluateType == ASSUME TInv, NEW a \in Agent, Evaluate(a) PROVE TInv'
<1> DEFINE r == [agent[a] EXCEPT !.pc = "log"]
<1>1. /\ agent[a].pc = "link" /\ agent[a] \in Running /\ Active(a) /\ agent' = [agent EXCEPT ![a] = r]
      /\ UNCHANGED <<row, exists, access, links, logs, posts, runs, result>>
  BY DEF Evaluate, TInv, RunsType, Active, Idle
<1>2. r \in Running /\ r.run = agent[a].run /\ r.pc = "log" /\ r.context = agent[a].context
  BY <1>1 DEF Running
<1>3. RowsType'
  BY <1>1 DEF TInv, RowsType
<1>4. Len(r.context) <= Limit
  BY <1>1, <1>2 DEF TInv, ContextBounded
<1> HIDE DEF r
<1> QED BY <1>1, <1>2, <1>3, <1>4, AgentStepType

LEMMA LogRunType == ASSUME TInv, NEW a \in Agent, LogRun(a) PROVE TInv'
<1>1. /\ agent[a].pc = "log" /\ Active(a) /\ agent' = [agent EXCEPT ![a] = Idle]
      /\ logs' \subseteq logs \cup {Entered(agent[a])}
      /\ UNCHANGED <<row, exists, access, links, posts, runs, result>>
  BY DEF LogRun, Active
<1>2. RowsType'
  BY <1>1 DEF TInv, RowsType
<1> QED BY <1>1, <1>2, AgentStepType

LEMMA StartType == ASSUME TInv, NEW a \in Agent, Start(a) PROVE TInv'
<1> DEFINE r == [pc |-> "read", run |-> runs + 1, scope |-> 1, context |-> << >>, linked |-> << >>]
<1>1. /\ agent[a].pc = "idle" /\ runs < MaxRuns /\ runs' = runs + 1
      /\ agent' = [agent EXCEPT ![a] = r] /\ result' = Append(result, 0)
      /\ UNCHANGED <<row, exists, access, links, logs, posts>>
  BY DEF Start
<1>2. RowsType /\ RunsType /\ RunsApart /\ ResultsFollowPosts /\ ContextBounded
  BY DEF TInv
<1>3. runs \in Nat /\ runs' \in 0..MaxRuns /\ \A n : n \in 1..runs' <=> n \in 1..runs \/ n = runs + 1
  BY <1>1, <1>2, Constants DEF RunsType
<1>4. /\ result' \in [1..runs' -> DOMAIN row \cup {0}] /\ result'[runs + 1] = 0
      /\ \A n \in 1..runs : result'[n] = result[n]
  <2>1. result \in Seq(DOMAIN row \cup {0}) /\ Len(result) = runs /\ runs + 1 \in Nat
    BY <1>2, <1>3 DEF RunsType
  <2>2. /\ Append(result, 0) \in Seq(DOMAIN row \cup {0}) /\ Len(Append(result, 0)) = runs + 1
        /\ \A n \in 1..runs : Append(result, 0)[n] = result[n]
        /\ Append(result, 0)[runs + 1] = 0
    BY <2>1, AppendProperties
  <2>3. result' \in [1..Len(result') -> DOMAIN row \cup {0}] /\ Len(result') = runs'
    BY <1>1, <2>2, LenProperties
  <2> QED BY <1>1, <2>2, <2>3
<1>5. Running \subseteq Running' /\ PostType \subseteq PostType'
  BY <1>1, <1>3, Wider
<1>6. r \in Running' /\ r # Idle
  BY <1>1, <1>3 DEF Running, Idle
<1>7. /\ agent' \in [Agent -> {Idle} \cup Running']
      /\ agent'[a] = r /\ \A b \in Agent \ {a} : agent'[b] = agent[b]
  BY <1>1, <1>2, <1>5, <1>6 DEF RunsType
<1>8. \A b \in Agent : Active(b) => agent[b].run \in 1..runs
  BY <1>2 DEF RunsType, Active, Running, Idle
<1>9. \A q \in posts : q.run \in 1..runs
  BY <1>2 DEF RunsType, PostType
<1>10. RowsType'
  BY <1>1, <1>2, <1>3 DEF RowsType
<1>11. RunsType'
  BY <1>1, <1>2, <1>3, <1>4, <1>5, <1>7 DEF RunsType
<1>12. RunsApart'
  <2>1. ASSUME NEW b \in Agent, NEW c \in Agent, Active(b)', Active(c)', agent'[b].run = agent'[c].run PROVE b = c
    BY <1>2, <1>3, <1>7, <1>8, <2>1 DEF RunsApart, Active
  <2> QED BY <1>1, <1>2, <2>1 DEF RunsApart
<1>13. ResultsFollowPosts'
  <2>1. ASSUME NEW q \in posts
        PROVE  /\ result'[q.run] = 0
               /\ \A b \in Agent : agent'[b].pc # "idle" /\ agent'[b].run = q.run => agent'[b].pc = "save"
    BY <1>2, <1>3, <1>4, <1>7, <1>9 DEF ResultsFollowPosts, Active
  <2>2. ASSUME NEW b \in Agent
        PROVE  /\ agent'[b].pc \in {"read", "act", "save"} =>
                    result'[agent'[b].run] = 0 /\ agent'[b].linked = << >>
               /\ agent'[b].pc \in {"link", "log"} => result'[agent'[b].run] # 0
    BY <1>2, <1>3, <1>4, <1>7, <1>8 DEF ResultsFollowPosts, Active
  <2> QED BY <1>1, <2>1, <2>2 DEF ResultsFollowPosts, Active
<1>14. ContextBounded'
  <2>1. Len(r.context) <= Limit
    BY Constants
  <2> QED BY <1>2, <1>7, <2>1 DEF ContextBounded, Active
<1> QED BY <1>10, <1>11, <1>12, <1>13, <1>14 DEF TInv

LEMMA ActType == ASSUME TInv, NEW a \in Agent, Act(a) PROVE TInv'
<1> DEFINE r == [agent[a] EXCEPT !.pc = "save"]
<1>1. /\ agent[a].pc = "act" /\ agent' = [agent EXCEPT ![a] = r]
      /\ UNCHANGED <<row, exists, access, links, logs, runs, result>>
  BY DEF Act
<1>2. PICK t \in Text :
        posts' = posts \cup {[by |-> a, run |-> agent[a].run, project |-> Home[a], text |-> t,
                              pc |-> "begin", seen |-> {}]}
  BY DEF Act
<1> DEFINE p == [by |-> a, run |-> agent[a].run, project |-> Home[a], text |-> t, pc |-> "begin", seen |-> {}]
<1>3. RowsType /\ RunsType /\ RunsApart /\ ResultsFollowPosts /\ ContextBounded
  BY DEF TInv
<1>4. agent[a] \in Running /\ Active(a)
  BY <1>1, <1>3 DEF RunsType, Active, Idle
<1>5. r \in Running /\ r.run = agent[a].run /\ r.pc = "save" /\ r.context = agent[a].context /\ r.linked = agent[a].linked
  BY <1>4 DEF Running
<1>6. p \in PostType /\ p.run = agent[a].run
  BY <1>4, Constants DEF PostType, Running
<1>7. /\ agent' \in [Agent -> {Idle} \cup Running]
      /\ agent'[a] = r /\ \A b \in Agent \ {a} : agent'[b] = agent[b]
  BY <1>1, <1>3, <1>5, AgentMoves
<1>8. posts' = posts \cup {p}
  BY <1>2
<1>9. \A q \in posts : q.run # agent[a].run
  BY <1>1, <1>3, <1>4 DEF ResultsFollowPosts
<1>10. Running' = Running /\ PostType' = PostType
  BY <1>1 DEF Running, PostType
<1> HIDE DEF r, p
<1>11. RowsType'
  BY <1>1, <1>3 DEF RowsType
<1>12. RunsType'
  BY <1>1, <1>3, <1>6, <1>7, <1>8, <1>10 DEF RunsType
<1>13. RunsApart'
  BY <1>3, <1>4, <1>5, <1>6, <1>7, <1>8, <1>9 DEF RunsApart, Active
<1>14. ResultsFollowPosts'
  <2>1. result[agent[a].run] = 0 /\ agent[a].linked = << >>
    BY <1>1, <1>3 DEF ResultsFollowPosts
  <2>2. ASSUME NEW q \in posts'
        PROVE  /\ result'[q.run] = 0
               /\ \A b \in Agent : Active(b)' /\ agent'[b].run = q.run => agent'[b].pc = "save"
    BY <1>1, <1>3, <1>4, <1>5, <1>6, <1>7, <1>8, <2>1 DEF ResultsFollowPosts, RunsApart, Active
  <2>3. ASSUME NEW b \in Agent
        PROVE  /\ agent'[b].pc \in {"read", "act", "save"} =>
                    result'[agent'[b].run] = 0 /\ agent'[b].linked = << >>
               /\ agent'[b].pc \in {"link", "log"} => result'[agent'[b].run] # 0
    BY <1>1, <1>3, <1>5, <1>7, <2>1 DEF ResultsFollowPosts
  <2> QED BY <2>2, <2>3 DEF ResultsFollowPosts
<1>15. ContextBounded'
  BY <1>3, <1>4, <1>5, <1>7 DEF ContextBounded, Active
<1> QED BY <1>11, <1>12, <1>13, <1>14, <1>15 DEF TInv

LEMMA AssessType == ASSUME TInv, NEW q \in posts, Assess(q) PROVE TInv'
<1> DEFINE p == [q EXCEPT !.pc = "insert", !.seen = Equal(q.project, q.text)]
<1>1. /\ posts' = (posts \ {q}) \cup {p}
      /\ UNCHANGED <<row, exists, access, links, logs, agent, runs, result>>
  BY DEF Assess
<1>2. RowsType /\ RunsType /\ RunsApart /\ ResultsFollowPosts /\ ContextBounded
  BY DEF TInv
<1>3. p \in PostType /\ p.run = q.run
  BY <1>2 DEF RunsType, PostType, Equal
<1>4. Running' = Running /\ PostType' = PostType
  BY <1>1 DEF Running, PostType
<1> HIDE DEF p
<1>5. RowsType' /\ ContextBounded'
  BY <1>1, <1>2 DEF RowsType, ContextBounded, Active
<1>6. RunsType'
  BY <1>1, <1>2, <1>3, <1>4 DEF RunsType
<1>7. RunsApart' /\ ResultsFollowPosts'
  BY <1>1, <1>2, <1>3 DEF RunsApart, ResultsFollowPosts, Active
<1> QED BY <1>5, <1>6, <1>7 DEF TInv

LEMMA RefusePostType == ASSUME TInv, NEW q \in posts, RefusePost(q) PROVE TInv'
<1>1. /\ posts' = posts \ {q}
      /\ agent' = [a \in Agent |-> IF Waits(a, q) THEN Idle ELSE agent[a]]
      /\ UNCHANGED <<row, exists, access, links, logs, runs, result>>
  BY DEF RefusePost
<1>2. RowsType /\ RunsType /\ RunsApart /\ ResultsFollowPosts /\ ContextBounded
  BY DEF TInv
<1>3. \A a \in Agent : agent'[a] = agent[a] \/ agent'[a] = Idle
  BY <1>1
<1>4. Running' = Running /\ PostType' = PostType
  BY <1>1 DEF Running, PostType
<1>5. RowsType' /\ RunsType'
  BY <1>1, <1>2, <1>4 DEF RowsType, RunsType
<1>6. RunsApart' /\ ContextBounded'
  BY <1>1, <1>2, <1>3 DEF RunsApart, ContextBounded, Active, Idle
<1>7. ResultsFollowPosts'
  BY <1>1, <1>2, <1>3 DEF ResultsFollowPosts, Active, Idle
<1> QED BY <1>5, <1>6, <1>7 DEF TInv

\* What TInv says when only rows, links and projects change.
LEMMA RowsStepType ==
  ASSUME TInv, RowsType', DOMAIN row \subseteq DOMAIN row',
         UNCHANGED <<logs, agent, posts, runs, result>>
  PROVE  TInv'
<1>1. RowsType /\ RunsType /\ RunsApart /\ ResultsFollowPosts /\ ContextBounded
  BY DEF TInv
<1>2. runs \in Nat
  BY <1>1, Constants DEF RunsType
<1>3. Running \subseteq Running' /\ PostType \subseteq PostType'
  BY <1>2, Wider
<1>4. \A s \in Seq(DOMAIN row) : s \in Seq(DOMAIN row')
  BY SeqMonotonic
<1>5. RunsType'
  <2>1. /\ result' \in [1..runs' -> DOMAIN row' \cup {0}]
        /\ agent' \in [Agent -> {Idle} \cup Running']
        /\ posts' \subseteq PostType'
    BY <1>1, <1>3 DEF RunsType
  <2>2. \A x \in logs' : /\ DOMAIN x = {"run", "entry", "used", "linked"}
                         /\ x.run \in 1..runs' /\ x.entry \in DOMAIN row'
                         /\ x.used \in Seq(DOMAIN row') /\ x.linked \in Seq(DOMAIN row')
    BY <1>1, <1>4 DEF RunsType
  <2> QED BY <1>1, <2>1, <2>2 DEF RunsType
<1>6. RunsApart' /\ ResultsFollowPosts' /\ ContextBounded'
  BY <1>1 DEF RunsApart, ResultsFollowPosts, ContextBounded, Active
<1> QED BY <1>5, <1>6 DEF TInv

LEMMA InsertType == ASSUME TInv, NEW q \in posts, Insert(q) PROVE TInv'
<1> DEFINE e == NewId
           v == Original(q.project, q.text)
<1>1. /\ NewId \in Id /\ row' = Add(row, v)
      /\ result' = [result EXCEPT ![q.run] = e]
      /\ posts' = posts \ {q}
      /\ agent' = [a \in Agent |-> IF Waits(a, q) THEN [agent[a] EXCEPT !.pc = "link"] ELSE agent[a]]
      /\ UNCHANGED <<exists, access, links, logs, runs>>
  BY DEF Insert
<1>2. RowsType /\ RunsType /\ RunsApart /\ ResultsFollowPosts /\ ContextBounded
  BY DEF TInv
<1>3. q \in PostType
  BY <1>2 DEF RunsType
<1>4. v \in Row /\ row \in [DOMAIN row -> Row]
  BY <1>2, <1>3, NoRowZero DEF PostType, Row, Original
<1> HIDE DEF v
<1>5. /\ e \notin DOMAIN row /\ e # 0 /\ DOMAIN row' = DOMAIN row \cup {e}
      /\ \E n \in 0..MaxEntries : row' \in [1..n -> Row]
  BY <1>1, <1>2, <1>4, AddRow
<1> HIDE DEF e
<1>6. runs \in Nat /\ q.run \in 1..runs
  BY <1>2, <1>3, Constants DEF RunsType, PostType
<1>7. Running \subseteq Running' /\ PostType \subseteq PostType'
  BY <1>1, <1>5, <1>6, Wider
<1>8. \A s \in Seq(DOMAIN row) : s \in Seq(DOMAIN row')
  BY <1>5, SeqMonotonic
<1>9. /\ result' \in [1..runs -> DOMAIN row' \cup {0}] /\ result'[q.run] = e
      /\ \A r \in 1..runs : r # q.run => result'[r] = result[r]
  BY <1>1, <1>2, <1>5, <1>6 DEF RunsType
<1>10. ASSUME NEW a \in Agent
       PROVE  \/ agent'[a] = agent[a] /\ ~Waits(a, q)
              \/ /\ Waits(a, q) /\ agent'[a] = [agent[a] EXCEPT !.pc = "link"]
                 /\ agent[a] \in Running /\ agent'[a] \in Running
                 /\ agent'[a].pc = "link" /\ agent'[a].run = q.run /\ agent'[a].context = agent[a].context
  <2>1. CASE Waits(a, q)
    <3>1. agent[a] \in Running
      BY <1>2, <2>1 DEF Waits, RunsType, Idle
    <3> QED BY <1>1, <2>1, <3>1 DEF Waits, Running
  <2> QED BY <1>1, <2>1
<1>11. RowsType'
  BY <1>1, <1>2, <1>5 DEF RowsType
<1>12. RunsType'
  <2>1. agent' \in [Agent -> {Idle} \cup Running]
    BY <1>1, <1>2, <1>10 DEF RunsType
  <2>2. agent' \in [Agent -> {Idle} \cup Running'] /\ posts' \subseteq PostType'
    BY <1>1, <1>2, <1>7, <2>1 DEF RunsType
  <2>3. \A x \in logs' : /\ DOMAIN x = {"run", "entry", "used", "linked"}
                         /\ x.run \in 1..runs' /\ x.entry \in DOMAIN row'
                         /\ x.used \in Seq(DOMAIN row') /\ x.linked \in Seq(DOMAIN row')
    BY <1>1, <1>2, <1>5, <1>8 DEF RunsType
  <2> QED BY <1>1, <1>2, <1>9, <2>2, <2>3 DEF RunsType
<1>13. \A a \in Agent : (Active(a)' => Active(a)) /\ (Active(a) => agent'[a].run = agent[a].run)
  BY <1>10 DEF Active, Waits
<1>14. RunsApart'
  BY <1>1, <1>2, <1>13 DEF RunsApart
<1>15. ResultsFollowPosts'
  <2>1. ASSUME NEW p \in posts'
        PROVE  /\ result'[p.run] = 0
               /\ \A a \in Agent : Active(a)' /\ agent'[a].run = p.run => agent'[a].pc = "save"
    <3>1. p \in posts /\ p.run # q.run /\ p.run \in 1..runs
      BY <1>1, <1>2 DEF RunsApart, RunsType, PostType
    <3>2. result'[p.run] = 0
      BY <1>2, <1>9, <3>1 DEF ResultsFollowPosts
    <3>3. ASSUME NEW a \in Agent, Active(a)', agent'[a].run = p.run PROVE agent'[a].pc = "save"
      <4>1. agent'[a] = agent[a]
        BY <1>10, <3>1, <3>3
      <4> QED BY <1>2, <3>1, <3>3, <4>1 DEF ResultsFollowPosts, Active
    <3> QED BY <3>2, <3>3
  <2>2. ASSUME NEW a \in Agent
        PROVE  /\ agent'[a].pc \in {"read", "act", "save"} =>
                    result'[agent'[a].run] = 0 /\ agent'[a].linked = << >>
               /\ agent'[a].pc \in {"link", "log"} => result'[agent'[a].run] # 0
    <3>1. CASE Waits(a, q)
      BY <1>5, <1>9, <1>10, <3>1
    <3>2. CASE ~Waits(a, q)
      <4>1. agent'[a] = agent[a]
        BY <1>10, <3>2
      <4>2. Active(a) => agent[a] \in Running
        BY <1>2 DEF RunsType, Active, Idle
      <4>3. Active(a) => agent[a].run # q.run /\ agent[a].run \in 1..runs
        BY <1>2, <3>2, <4>2 DEF ResultsFollowPosts, Waits, Running
      <4> QED BY <1>2, <1>9, <4>1, <4>3 DEF ResultsFollowPosts, Active
    <3> QED BY <3>1, <3>2
  <2> QED BY <2>1, <2>2 DEF ResultsFollowPosts
<1>16. ContextBounded'
  BY <1>2, <1>10, <1>13 DEF ContextBounded, Active
<1> QED BY <1>11, <1>12, <1>14, <1>15, <1>16 DEF TInv

\* A revision, a restoration or the assignment of e: e is closed, v begins.
Continues(e, v) ==
  /\ NewId \in Id
  /\ row' = Add([row EXCEPT ![e].current = FALSE], v)

LEMMA ContinuesRows ==
  ASSUME RowsType, NEW e \in DOMAIN row, NEW v \in Row, Continues(e, v)
  PROVE  /\ NewId \notin DOMAIN row /\ NewId # 0 /\ DOMAIN row' = DOMAIN row \cup {NewId}
         /\ \E n \in 0..MaxEntries : row' \in [1..n -> Row]
         /\ row'[NewId] = v /\ row'[e] = [row[e] EXCEPT !.current = FALSE]
         /\ \A f \in DOMAIN row \ {e} : row'[f] = row[f]
<1> DEFINE closed == [row EXCEPT ![e].current = FALSE]
<1>1. row \in [DOMAIN row -> Row]
  BY NoRowZero
<1>2. /\ closed \in [DOMAIN row -> Row]
      /\ closed[e] = [row[e] EXCEPT !.current = FALSE] /\ \A f \in DOMAIN row \ {e} : closed[f] = row[f]
  BY <1>1 DEF Row
<1> HIDE DEF closed
<1>3. NewId \in Id /\ row' = Add(closed, v)
  BY DEF Continues, closed
<1>4. /\ NewId \notin DOMAIN row /\ NewId # 0
      /\ DOMAIN Add(closed, v) = DOMAIN row \cup {NewId}
      /\ Add(closed, v)[NewId] = v /\ \A f \in DOMAIN row : Add(closed, v)[f] = closed[f]
      /\ \E n \in 0..MaxEntries : Add(closed, v) \in [1..n -> Row]
  BY <1>2, <1>3, AddRow
<1> QED BY <1>2, <1>3, <1>4

LEMMA ContinueContinues ==
  ASSUME RowsType, NEW e \in DOMAIN row, NEW p \in Project \cup {None}, NEW t \in Text \cup {None}, Continue(e, p, t)
  PROVE  \E v \in Row : /\ Continues(e, v) /\ v.project = p /\ v.text = t
                        /\ v.supersedes = e /\ v.copyOf = 0
<1>1. e \in Id
  <2>1. PICK n \in 0..MaxEntries : row \in [1..n -> Row]
    BY DEF RowsType
  <2> QED BY <2>1, Constants DEF Id
<1>2. PICK v : v = [project |-> p, current |-> TRUE, text |-> t, supersedes |-> e, copyOf |-> 0]
  OBVIOUS
<1>3. v \in Row /\ v.project = p /\ v.text = t /\ v.supersedes = e /\ v.copyOf = 0
  BY <1>1, <1>2 DEF Row
<1>4. Continues(e, v)
  BY <1>2 DEF Continue, Continues
<1> QED BY <1>3, <1>4

\* What comes in past the gate is noted when the gate would refuse it.
LEMMA PastGateNotes ==
  ASSUME NEW p, NEW t, NEW except, forced' = PastGate(p, t, except)
  PROVE  forced \subseteq forced' /\ (NewId \in forced' \/ ~RefusedAsDuplicate(p, t, except))
BY DEF PastGate

\* A step that makes a successor of e.
Succeeded(e) == Revise(e) \/ ReviseByImport(e) \/ \E s \in DOMAIN row : Restore(e, s)

LEMMA SucceededContinues ==
  ASSUME RowsType, NEW e \in DOMAIN row, Succeeded(e)
  PROVE  \E p \in Project \cup {None}, t \in Text \cup {None} :
           /\ Continue(e, p, t)
           /\ row[e].current \/ \A f \in DOMAIN row : row[f].supersedes # e
           /\ forced \subseteq forced' /\ (NewId \in forced' \/ ~RefusedAsDuplicate(p, t, {e}))
<1>1. \A x \in DOMAIN row : row[x].project \in Project \cup {None} /\ row[x].text \in Text \cup {None}
  BY NoRowZero DEF Row
<1>2. CASE Revise(e)
  <2>1. PICK t \in Text \cup {None} : ~RefusedAsDuplicate(row[e].project, t, {e}) /\ Continue(e, row[e].project, t)
    BY <1>2 DEF Revise
  <2>2. row[e].current /\ forced' = forced
    BY <1>2 DEF Revise
  <2> QED BY <1>1, <2>1, <2>2
<1>3. CASE ReviseByImport(e)
  <2>1. PICK t \in Text \cup {None} : Continue(e, row[e].project, t) /\ forced' = PastGate(row[e].project, t, {e})
    BY <1>3 DEF ReviseByImport
  <2>2. row[e].current
    BY <1>3 DEF ReviseByImport
  <2> QED BY <1>1, <2>1, <2>2, PastGateNotes
<1>4. ASSUME NEW s \in DOMAIN row, Restore(e, s)
      PROVE  /\ Continue(e, row[s].project, row[s].text)
             /\ \A f \in DOMAIN row : row[f].supersedes # e
             /\ forced \subseteq forced' /\ (NewId \in forced' \/ ~RefusedAsDuplicate(row[s].project, row[s].text, {e}))
  <2>1. /\ Continue(e, row[s].project, row[s].text) /\ \A f \in DOMAIN row : row[f].supersedes # e
        /\ forced' = PastGate(row[s].project, row[s].text, {e})
    BY <1>4 DEF Restore
  <2> QED BY <2>1, PastGateNotes
<1> QED BY <1>1, <1>2, <1>3, <1>4 DEF Succeeded

\* A step that makes an entry of its own, and may close others.
Added == (\E p \in exists, t \in Text \cup {None} : Import(p, t))
         \/ \E S \in SUBSET DOMAIN row, archived \in BOOLEAN : Compact(S, archived)

LEMMA AddedRows ==
  ASSUME RowsType, Added
  PROVE  \E rows \in [DOMAIN row -> Row], v \in Row :
           /\ row' = Add(rows, v) /\ NewId \in Id /\ v.supersedes = 0 /\ v.copyOf = 0
           /\ \A x \in DOMAIN row : rows[x] = row[x] \/ rows[x] = [row[x] EXCEPT !.current = FALSE]
           /\ forced \subseteq forced' /\ (NewId \in forced' \/ ~RefusedAsDuplicate(v.project, v.text, {}))
           /\ UNCHANGED <<exists, access, links, logs, agent, posts, runs, result, moved, rushed>>
<1>1. row \in [DOMAIN row -> Row] /\ exists \subseteq Project
  BY NoRowZero DEF RowsType
<1>2. ASSUME NEW p \in Project \cup {None}, NEW t \in Text \cup {None}
      PROVE  /\ Original(p, t) \in Row /\ Original(p, t).project = p /\ Original(p, t).text = t
             /\ Original(p, t).supersedes = 0 /\ Original(p, t).copyOf = 0
  BY DEF Original, Row
<1>3. ASSUME NEW p \in exists, NEW t \in Text \cup {None}, Import(p, t)
      PROVE  /\ row' = Add(row, Original(p, t)) /\ NewId \in Id
             /\ forced \subseteq forced' /\ (NewId \in forced' \/ ~RefusedAsDuplicate(p, t, {}))
             /\ UNCHANGED <<exists, access, links, logs, agent, posts, runs, result, moved, rushed>>
  <2>1. forced' = PastGate(p, t, {})
    BY <1>3 DEF Import
  <2> QED BY <1>3, <2>1, PastGateNotes DEF Import
<1>4. CASE \E p \in exists, t \in Text \cup {None} : Import(p, t)
  <2>1. PICK p \in exists, t \in Text \cup {None} : Import(p, t)
    BY <1>4
  <2>2. PICK v : v = Original(p, t)
    OBVIOUS
  <2>3. v \in Row /\ v.project = p /\ v.text = t /\ v.supersedes = 0 /\ v.copyOf = 0
    BY <1>1, <1>2, <2>2
  <2> QED BY <1>1, <1>3, <2>1, <2>2, <2>3
<1>5. CASE \E S \in SUBSET DOMAIN row, archived \in BOOLEAN : Compact(S, archived)
  <2>1. PICK S \in SUBSET DOMAIN row, archived \in BOOLEAN : Compact(S, archived)
    BY <1>5
  <2>2. PICK rows : rows = [x \in DOMAIN row |-> IF archived /\ x \in S THEN [row[x] EXCEPT !.current = FALSE] ELSE row[x]]
    OBVIOUS
  <2>3. PICK e \in S, t \in Text \cup {None} :
          row' = Add(rows, Original(row[e].project, t)) /\ forced' = PastGate(row[e].project, t, {})
    BY <2>1, <2>2 DEF Compact
  <2>4. NewId \in Id /\ UNCHANGED <<exists, access, links, logs, agent, posts, runs, result, moved, rushed>>
    BY <2>1 DEF Compact
  <2>5. /\ rows \in [DOMAIN row -> Row]
        /\ \A x \in DOMAIN row : rows[x] = row[x] \/ rows[x] = [row[x] EXCEPT !.current = FALSE]
    BY <1>1, <2>2 DEF Row
  <2>6. PICK p, v : p = row[e].project /\ v = Original(p, t)
    OBVIOUS
  <2>7. p \in Project \cup {None}
    BY <1>1, <2>3, <2>6 DEF Row
  <2>8. v \in Row /\ v.project = p /\ v.text = t /\ v.supersedes = 0 /\ v.copyOf = 0
    BY <1>2, <2>6, <2>7
  <2>9. forced \subseteq forced' /\ (NewId \in forced' \/ ~RefusedAsDuplicate(p, t, {}))
    BY <2>3, <2>6, PastGateNotes
  <2> QED BY <2>3, <2>4, <2>5, <2>6, <2>8, <2>9
<1> QED BY <1>4, <1>5 DEF Added

LEMMA AssignContinues ==
  ASSUME RowsType, NEW e \in DOMAIN row, NEW p \in Project, Assign(e, p)
  PROVE  /\ Continues(e, [project |-> p, current |-> TRUE, text |-> row[e].text, supersedes |-> 0, copyOf |-> e])
         /\ [project |-> p, current |-> TRUE, text |-> row[e].text, supersedes |-> 0, copyOf |-> e] \in Row
<1>1. row \in [DOMAIN row -> Row]
  BY NoRowZero
<1>2. e \in Id
  <2>1. PICK n \in 0..MaxEntries : row \in [1..n -> Row]
    BY DEF RowsType
  <2> QED BY <2>1, Constants DEF Id
<1>3. [project |-> p, current |-> TRUE, text |-> row[e].text, supersedes |-> 0, copyOf |-> e] \in Row
  BY <1>1, <1>2 DEF Row
<1> QED BY <1>3 DEF Assign, Continues

LEMMA SucceededType == ASSUME TInv, NEW e \in DOMAIN row, Succeeded(e) PROVE TInv'
<1>1. RowsType
  BY DEF TInv
<1>2. PICK p \in Project \cup {None}, t \in Text \cup {None} : Continue(e, p, t)
  BY <1>1, SucceededContinues
<1>3. PICK v \in Row : Continues(e, v)
  BY <1>1, <1>2, ContinueContinues
<1>4. /\ NewId \notin DOMAIN row /\ DOMAIN row' = DOMAIN row \cup {NewId}
      /\ \E n \in 0..MaxEntries : row' \in [1..n -> Row]
  BY <1>1, <1>3, ContinuesRows
<1>5. links' \subseteq (DOMAIN row') \X (DOMAIN row')
  <2>1. links' = links \cup Inherited(e, NewId)
    BY <1>2 DEF Continue
  <2>2. links \subseteq (DOMAIN row) \X (DOMAIN row)
    BY <1>1 DEF RowsType
  <2>3. Inherited(e, NewId) \subseteq (DOMAIN row') \X (DOMAIN row')
    BY <1>4, <2>2 DEF Inherited
  <2> QED BY <1>4, <2>1, <2>2, <2>3
<1>6. UNCHANGED <<exists, access, logs, agent, posts, runs, result>>
  BY <1>2 DEF Continue
<1>7. RowsType'
  BY <1>1, <1>4, <1>5, <1>6 DEF RowsType
<1> QED BY <1>4, <1>6, <1>7, RowsStepType

LEMMA AddedType == ASSUME TInv, Added PROVE TInv'
<1>1. RowsType
  BY DEF TInv
<1>2. PICK rows \in [DOMAIN row -> Row], v \in Row :
        /\ row' = Add(rows, v) /\ NewId \in Id
        /\ UNCHANGED <<exists, access, links, logs, agent, posts, runs, result, moved, rushed>>
  BY <1>1, AddedRows
<1>3. /\ DOMAIN row' = DOMAIN row \cup {NewId}
      /\ \E n \in 0..MaxEntries : row' \in [1..n -> Row]
  BY <1>1, <1>2, AddRow
<1>4. RowsType'
  BY <1>1, <1>2, <1>3 DEF RowsType
<1> QED BY <1>2, <1>3, <1>4, RowsStepType

LEMMA AssignType == ASSUME TInv, NEW e \in DOMAIN row, NEW p \in Project, Assign(e, p) PROVE TInv'
<1>1. RowsType
  BY DEF TInv
<1>2. PICK v \in Row : Continues(e, v)
  BY <1>1, AssignContinues
<1>3. /\ NewId \notin DOMAIN row /\ DOMAIN row' = DOMAIN row \cup {NewId}
      /\ \E n \in 0..MaxEntries : row' \in [1..n -> Row]
  BY <1>1, <1>2, ContinuesRows
<1>4. UNCHANGED <<exists, access, links, logs, agent, posts, runs, result>>
  BY DEF Assign
<1>5. RowsType'
  BY <1>1, <1>3, <1>4 DEF RowsType
<1> QED BY <1>3, <1>4, <1>5, RowsStepType

LEMMA ArchiveType == ASSUME TInv, NEW e \in DOMAIN row, Archive(e) PROVE TInv'
<1>1. RowsType /\ row \in [DOMAIN row -> Row]
  BY NoRowZero DEF TInv
<1>2. /\ row' = [row EXCEPT ![e].current = FALSE]
      /\ UNCHANGED <<exists, access, links, logs, agent, posts, runs, result>>
  BY DEF Archive
<1>3. DOMAIN row' = DOMAIN row /\ row' \in [DOMAIN row -> Row]
  BY <1>1, <1>2 DEF Row
<1>4. RowsType'
  BY <1>1, <1>2, <1>3 DEF RowsType
<1> QED BY <1>2, <1>3, <1>4, RowsStepType

LEMMA DeleteType == ASSUME TInv, NEW p \in exists, DeleteProject(p) PROVE TInv'
<1>1. RowsType /\ row \in [DOMAIN row -> Row]
  BY NoRowZero DEF TInv
<1>2. /\ row' = [e \in DOMAIN row |-> IF row[e].project = p THEN [row[e] EXCEPT !.project = None] ELSE row[e]]
      /\ exists' = exists \ {p}
      /\ UNCHANGED <<access, links, logs, agent, posts, runs, result>>
  BY DEF DeleteProject
<1>3. DOMAIN row' = DOMAIN row /\ row' \in [DOMAIN row -> Row]
  BY <1>1, <1>2 DEF Row
<1>4. RowsType'
  BY <1>1, <1>2, <1>3 DEF RowsType
<1> QED BY <1>2, <1>3, <1>4, RowsStepType

LEMMA InitType == Init => TInv
<1> SUFFICES ASSUME Init PROVE TInv
  OBVIOUS
<1>1. RowsType
  <2>1. Seed \in [1..Len(Seed) -> Row] /\ Len(Seed) \in 0..MaxEntries
    BY AgentAssumption, LenProperties
  <2> QED BY <2>1 DEF Init, RowsType
<1>2. RunsType
  <2>1. 1..0 = {} /\ 0 \in 0..MaxRuns
    BY Constants
  <2>2. << >> \in [1..0 -> DOMAIN row \cup {0}]
    BY <2>1
  <2> QED BY <2>1, <2>2 DEF Init, RunsType
<1>3. RunsApart /\ ResultsFollowPosts /\ ContextBounded
  BY DEF Init, RunsApart, ResultsFollowPosts, ContextBounded, Active, Idle
<1> QED BY <1>1, <1>2, <1>3 DEF TInv

LEMMA NextType ==
  ASSUME TInv, [Next]_vars
  PROVE  TInv'
<1>1. CASE Next
  <2>1. \A a \in Agent : Start(a) \/ Stop(a) \/ ReadScope(a) \/ Act(a) => TInv'
    BY StartType, StopType, ReadScopeType, ActType
  <2>2. \A a \in Agent : LinkItem(a) \/ Evaluate(a) \/ LogRun(a) => TInv'
    BY LinkItemType, EvaluateType, LogRunType
  <2>3. \A q \in posts : Assess(q) \/ Insert(q) \/ RefusePost(q) => TInv'
    BY AssessType, InsertType, RefusePostType
  <2>4. Added \/ (\E e \in DOMAIN row : Succeeded(e) \/ Archive(e)) => TInv'
    BY AddedType, SucceededType, ArchiveType
  <2>5. \A e \in DOMAIN row, p \in Project : Assign(e, p) => TInv'
    BY AssignType
  <2>6. \A p \in exists : DeleteProject(p) => TInv'
    BY DeleteType
  <2> QED BY <1>1, <2>1, <2>2, <2>3, <2>4, <2>5, <2>6 DEF Next, AgentStep, Added, Succeeded
<1>2. CASE UNCHANGED vars
  BY <1>2 DEF vars, TInv, RowsType, RunsType, Running, PostType, RunsApart, ResultsFollowPosts, ContextBounded, Active
<1> QED BY <1>1, <1>2

LEMMA TypeInvariance == Spec => []TInv
BY InitType, NextType, PTL DEF Spec

\* Whatever the agents do, and whatever others do meanwhile to entries and
\* projects: rows, links, logs and runs keep their types, and no context
\* exceeds the limit.
THEOREM AgentTypeCorrect == Spec => []TypeOK
<1>1. TInv => TypeOK
  <2> SUFFICES ASSUME TInv PROVE TypeOK
    OBVIOUS
  <2>1. RowsType /\ RunsType /\ ContextBounded
    BY DEF TInv
  <2>2. 1..runs \subseteq Run
    BY <2>1, Constants DEF RunsType, Run
  <2> QED BY <2>1, <2>2 DEF RowsType, RunsType, ContextBounded, Active, TypeOK
<1> QED BY <1>1, TypeInvariance, PTL

-----------------------------------------------------------------------------
(* Duplicates.                                                              *)

\* A step closes rows, or takes them out of their project, and adds at most
\* the row n; n is excused, or has no equal.
LEMMA DuplicatesKept ==
  ASSUME DuplicateNeedsOverlap, NEW n, n \notin DOMAIN row,
         DOMAIN row \subseteq DOMAIN row', DOMAIN row' \subseteq DOMAIN row \cup {n},
         rushed \subseteq rushed', forced \subseteq forced',
         \A e \in DOMAIN row : row'[e].current /\ row'[e].project # None =>
            row[e].current /\ row'[e].project = row[e].project /\ row'[e].text = row[e].text,
         n \in DOMAIN row' =>
            \/ n \in rushed' \cup forced' \/ row'[n].project = None \/ row'[n].text = None
            \/ \A f \in DOMAIN row :
                 ~(row'[f].current /\ row'[f].project = row'[n].project /\ row'[f].text = row'[n].text)
  PROVE  DuplicateNeedsOverlap'
<1> SUFFICES ASSUME NEW e \in DOMAIN row', NEW f \in DOMAIN row',
                    e # f, row'[e].project # None, row'[f].current, row'[f].project = row'[e].project,
                    row'[f].text = row'[e].text, row'[e].current, row'[e].text # None
             PROVE  e \in rushed' \cup forced' \/ f \in rushed' \cup forced'
  BY DEF DuplicateNeedsOverlap, Equal
<1>1. CASE e \in DOMAIN row /\ f \in DOMAIN row
  <2>1. /\ row[e].current /\ row[e].project # None /\ row[e].text # None /\ row[f].current
        /\ row[f].project = row[e].project /\ row[f].text = row[e].text
    BY <1>1
  <2>2. {e, f} \cap (rushed \cup forced) # {}
    BY <1>1, <2>1 DEF DuplicateNeedsOverlap, Equal
  <2> QED BY <2>1, <2>2
<1>2. CASE e = n /\ f \in DOMAIN row
  BY <1>2
<1>3. CASE f = n /\ e \in DOMAIN row
  BY <1>3
<1> QED BY <1>1, <1>2, <1>3

\* The row n is noted, or was judged against the rows that stay as they are.
LEMMA JudgedDuplicates ==
  ASSUME DInv, NEW n, n \notin DOMAIN row, DOMAIN row' = DOMAIN row \cup {n}, rushed' = rushed, forced \subseteq forced',
         NEW except, \A f \in DOMAIN row : row'[f].current => row'[f] = row[f] /\ f \notin except,
         n \in forced' \/ ~RefusedAsDuplicate(row'[n].project, row'[n].text, except)
  PROVE  DuplicateNeedsOverlap'
<1>1. \/ n \in forced' \/ row'[n].project = None \/ row'[n].text = None
      \/ \A f \in DOMAIN row :
           ~(row'[f].current /\ row'[f].project = row'[n].project /\ row'[f].text = row'[n].text)
  BY DEF RefusedAsDuplicate, Equal
<1> QED BY <1>1, DuplicatesKept DEF DInv

LEMMA InsertDuplicates == ASSUME TInv, DInv, NEW q \in posts, Insert(q) PROVE DuplicateNeedsOverlap'
<1> DEFINE v == Original(q.project, q.text)
<1>1. /\ NewId \in Id /\ row' = Add(row, v) /\ q.pc = "insert"
      /\ rushed' = IF Equal(q.project, q.text) \ q.seen # {} THEN rushed \cup {NewId} ELSE rushed
  BY DEF Insert
<1>2. RowsType /\ q \in PostType
  BY DEF TInv, RunsType
<1>3. v \in Row /\ row \in [DOMAIN row -> Row] /\ v.project = q.project /\ v.text = q.text
  BY <1>2, NoRowZero DEF PostType, Row, Original
<1> HIDE DEF v
<1>4. /\ NewId \notin DOMAIN row /\ DOMAIN row' = DOMAIN row \cup {NewId}
      /\ row'[NewId] = v /\ \A e \in DOMAIN row : row'[e] = row[e]
  BY <1>1, <1>2, <1>3, AddRow
<1>5. q.project # None => q.seen = {}
  BY <1>1 DEF DInv, SeenNothing
<1>6. \/ NewId \in rushed' \/ row'[NewId].project = None
      \/ \A f \in DOMAIN row : ~(row'[f].current /\ row'[f].project = row'[NewId].project
                                 /\ row'[f].text = row'[NewId].text)
  BY <1>1, <1>3, <1>4, <1>5 DEF Equal
<1>7. rushed \subseteq rushed' /\ forced' = forced
  BY <1>1 DEF Insert
<1> HIDE DEF NewId
<1> QED BY <1>4, <1>6, <1>7, DuplicatesKept DEF DInv

LEMMA SucceededDuplicates == ASSUME TInv, DInv, NEW e \in DOMAIN row, Succeeded(e) PROVE DuplicateNeedsOverlap'
<1>1. RowsType /\ row \in [DOMAIN row -> Row]
  BY NoRowZero DEF TInv
<1>2. PICK p \in Project \cup {None}, t \in Text \cup {None} :
        /\ Continue(e, p, t)
        /\ forced \subseteq forced' /\ (NewId \in forced' \/ ~RefusedAsDuplicate(p, t, {e}))
  BY <1>1, SucceededContinues
<1>3. PICK v \in Row : Continues(e, v) /\ v.project = p /\ v.text = t
  BY <1>1, <1>2, ContinueContinues
<1>4. PICK n : n = NewId
  OBVIOUS
<1>5. /\ n \notin DOMAIN row /\ DOMAIN row' = DOMAIN row \cup {n}
      /\ row'[n] = v /\ row'[e] = [row[e] EXCEPT !.current = FALSE]
      /\ \A f \in DOMAIN row \ {e} : row'[f] = row[f]
  BY <1>1, <1>3, <1>4, ContinuesRows
<1>6. ~row'[e].current
  BY <1>1, <1>5 DEF Row
<1>7. rushed' = rushed
  BY <1>2 DEF Continue
<1>8. \A f \in DOMAIN row : row'[f].current => row'[f] = row[f] /\ f \notin {e}
  BY <1>5, <1>6
<1>9. n \in forced' \/ ~RefusedAsDuplicate(row'[n].project, row'[n].text, {e})
  BY <1>2, <1>3, <1>4, <1>5
<1> QED BY <1>2, <1>5, <1>7, <1>8, <1>9, JudgedDuplicates

LEMMA AddedDuplicates == ASSUME TInv, DInv, Added PROVE DuplicateNeedsOverlap'
<1>1. RowsType /\ row \in [DOMAIN row -> Row]
  BY NoRowZero DEF TInv
<1>2. PICK rows \in [DOMAIN row -> Row], v \in Row :
        /\ row' = Add(rows, v) /\ NewId \in Id
        /\ \A x \in DOMAIN row : rows[x] = row[x] \/ rows[x] = [row[x] EXCEPT !.current = FALSE]
        /\ forced \subseteq forced' /\ (NewId \in forced' \/ ~RefusedAsDuplicate(v.project, v.text, {}))
        /\ UNCHANGED <<exists, access, links, logs, agent, posts, runs, result, moved, rushed>>
  BY <1>1, AddedRows
<1>3. PICK n : n = NewId
  OBVIOUS
<1>4. /\ n \notin DOMAIN row /\ DOMAIN row' = DOMAIN row \cup {n}
      /\ row'[n] = v /\ \A e \in DOMAIN row : row'[e] = rows[e]
  <2>1. NewId \in Id /\ row' = Add(rows, v)
    BY <1>2
  <2>2. /\ NewId \notin DOMAIN row /\ DOMAIN Add(rows, v) = DOMAIN row \cup {NewId}
        /\ Add(rows, v)[NewId] = v /\ \A e \in DOMAIN row : Add(rows, v)[e] = rows[e]
    BY <1>1, <2>1, SMT, ZenonT(60), AddRow
  <2> QED BY <1>3, <2>1, <2>2
<1>5. \A f \in DOMAIN row : row'[f].current => row'[f] = row[f] /\ f \notin {}
  BY <1>1, <1>2, <1>4 DEF Row
<1>6. n \in forced' \/ ~RefusedAsDuplicate(row'[n].project, row'[n].text, {})
  BY <1>2, <1>3, <1>4
<1> QED BY <1>2, <1>4, <1>5, <1>6, JudgedDuplicates

LEMMA AssignDuplicates ==
  ASSUME TInv, DInv, NEW e \in DOMAIN row, NEW p \in Project, Assign(e, p) PROVE DuplicateNeedsOverlap'
<1>1. RowsType /\ row \in [DOMAIN row -> Row]
  BY NoRowZero DEF TInv
<1> DEFINE v == [project |-> p, current |-> TRUE, text |-> row[e].text, supersedes |-> 0, copyOf |-> e]
<1>2. Continues(e, v) /\ v \in Row /\ v.project = p /\ v.text = row[e].text
  BY <1>1, AssignContinues
<1> HIDE DEF v
<1>3. PICK n : n = NewId
  OBVIOUS
<1>4. /\ n \notin DOMAIN row /\ DOMAIN row' = DOMAIN row \cup {n}
      /\ row'[n] = v /\ row'[e] = [row[e] EXCEPT !.current = FALSE]
      /\ \A f \in DOMAIN row \ {e} : row'[f] = row[f]
  BY <1>1, <1>2, <1>3, ContinuesRows
<1>5. ~row'[e].current
  BY <1>1, <1>4 DEF Row
<1>6. rushed' = rushed /\ forced' = PastGate(p, row[e].text, {})
  BY DEF Assign
<1>7. \A f \in DOMAIN row : row'[f].current => row'[f] = row[f] /\ f \notin {}
  BY <1>4, <1>5
<1>8. forced \subseteq forced' /\ (n \in forced' \/ ~RefusedAsDuplicate(p, row[e].text, {}))
  BY <1>3, <1>6, PastGateNotes
<1>9. n \in forced' \/ ~RefusedAsDuplicate(row'[n].project, row'[n].text, {})
  BY <1>2, <1>4, <1>8
<1> QED BY <1>4, <1>6, <1>7, <1>8, <1>9, JudgedDuplicates

LEMMA NextDuplicates ==
  ASSUME TInv, DInv, [Next]_vars
  PROVE  DInv'
<1>0. RowsType /\ RunsType /\ row \in [DOMAIN row -> Row] /\ 0 \notin DOMAIN row
  BY NoRowZero DEF TInv
<1>1. CASE UNCHANGED <<row, posts, rushed, forced>>
  BY <1>1 DEF DInv, SeenNothing, DuplicateNeedsOverlap, Equal
<1>2. CASE \E a \in Agent : Act(a)
  <2>1. UNCHANGED <<row, rushed, forced>> /\ \A q \in posts' \ posts : q.seen = {}
    BY <1>2 DEF Act
  <2> QED BY <2>1 DEF DInv, SeenNothing, DuplicateNeedsOverlap, Equal
<1>3. ASSUME NEW q \in posts, Assess(q) PROVE DInv'
  <2> DEFINE p == [q EXCEPT !.pc = "insert", !.seen = Equal(q.project, q.text)]
  <2>1. /\ UNCHANGED <<row, rushed, forced>> /\ posts' = (posts \ {q}) \cup {p}
        /\ ~RefusedAsDuplicate(q.project, q.text, {})
    BY <1>3 DEF Assess
  <2>2. q \in PostType /\ q.text # None
    BY <1>0, Constants DEF RunsType, PostType
  <2>3. p.project = q.project /\ p.seen = Equal(q.project, q.text)
    BY <2>2 DEF PostType
  <2>4. p.project # None => p.seen = {}
    BY <2>1, <2>2, <2>3 DEF RefusedAsDuplicate
  <2> HIDE DEF p
  <2> QED BY <2>1, <2>4 DEF DInv, SeenNothing, DuplicateNeedsOverlap, Equal
<1>4. ASSUME NEW q \in posts, Insert(q) PROVE DInv'
  <2>1. posts' = posts \ {q}
    BY <1>4 DEF Insert
  <2> QED BY <1>4, <2>1, InsertDuplicates DEF DInv, SeenNothing
<1>5. ASSUME NEW q \in posts, RefusePost(q) PROVE DInv'
  BY <1>5 DEF RefusePost, DInv, SeenNothing, DuplicateNeedsOverlap, Equal
<1>6. CASE Added \/ \E e \in DOMAIN row : Succeeded(e)
  <2>1. ASSUME Added PROVE posts' = posts /\ DuplicateNeedsOverlap'
    BY <1>0, <2>1, AddedRows, AddedDuplicates
  <2>2. ASSUME NEW e \in DOMAIN row, Succeeded(e) PROVE posts' = posts /\ DuplicateNeedsOverlap'
    <3>1. PICK p \in Project \cup {None}, t \in Text \cup {None} : Continue(e, p, t)
      BY <1>0, <2>2, SucceededContinues
    <3> QED BY <2>2, <3>1, SucceededDuplicates DEF Continue
  <2> QED BY <1>6, <2>1, <2>2 DEF DInv, SeenNothing
<1>7. ASSUME NEW e \in DOMAIN row, NEW p \in Project, Assign(e, p) PROVE DInv'
  <2>1. posts' = posts
    BY <1>7 DEF Assign
  <2> QED BY <1>7, <2>1, AssignDuplicates DEF DInv, SeenNothing
<1>8. ASSUME NEW e \in DOMAIN row, Archive(e) PROVE DInv'
  <2>1. UNCHANGED <<posts, rushed, forced>> /\ row' = [row EXCEPT ![e].current = FALSE]
    BY <1>8 DEF Archive
  <2>2. /\ DOMAIN row' = DOMAIN row
        /\ \A f \in DOMAIN row : row'[f].current => row'[f] = row[f]
    BY <1>0, <2>1 DEF Row
  <2>3. DuplicateNeedsOverlap'
    BY <1>0, <2>1, <2>2, DuplicatesKept DEF DInv
  <2> QED BY <2>1, <2>3 DEF DInv, SeenNothing
<1>9. ASSUME NEW p \in exists, DeleteProject(p) PROVE DInv'
  <2>1. /\ UNCHANGED <<posts, rushed, forced>>
        /\ row' = [e \in DOMAIN row |-> IF row[e].project = p THEN [row[e] EXCEPT !.project = None] ELSE row[e]]
    BY <1>9 DEF DeleteProject
  <2>2. /\ DOMAIN row' = DOMAIN row
        /\ \A f \in DOMAIN row : row'[f].project # None => row'[f] = row[f]
    BY <1>0, <2>1 DEF Row
  <2>3. DuplicateNeedsOverlap'
    BY <1>0, <2>1, <2>2, DuplicatesKept DEF DInv
  <2> QED BY <2>1, <2>3 DEF DInv, SeenNothing
<1>10. \A a \in Agent : Start(a) \/ Stop(a) \/ ReadScope(a) \/ LinkItem(a) \/ Evaluate(a) \/ LogRun(a)
         => UNCHANGED <<row, posts, rushed, forced>>
  BY DEF Start, Stop, ReadScope, LinkItem, Evaluate, LogRun
<1>11. UNCHANGED vars => UNCHANGED <<row, posts, rushed, forced>>
  BY DEF vars
<1> QED BY <1>1, <1>2, <1>3, <1>4, <1>5, <1>6, <1>7, <1>8, <1>9, <1>10, <1>11 DEF Next, AgentStep, Added, Succeeded

LEMMA InitDuplicates == Init => DInv
<1> SUFFICES ASSUME Init PROVE DInv
  OBVIOUS
<1>1. SeenNothing
  BY DEF Init, SeenNothing
<1>2. DuplicateNeedsOverlap
  BY SeedAssumption DEF Init, DuplicateNeedsOverlap, Equal
<1> QED BY <1>1, <1>2 DEF DInv

\* The quality gate decides on what it saw before the insert.  Whatever runs
\* are repeated or abandoned, and whatever others revise: a text is current
\* twice in a project only after writes that overlapped, or after what does
\* not ask the gate (import, compaction, restoration, hygiene) put it there.
THEOREM EqualEntriesOverlapped == Spec => []DuplicateNeedsOverlap
<1>1. TInv /\ DInv /\ [Next]_vars => DInv'
  BY NextDuplicates
<1>2. DInv => DuplicateNeedsOverlap
  BY DEF DInv
<1> QED BY <1>1, <1>2, InitDuplicates, TypeInvariance, PTL DEF Spec

-----------------------------------------------------------------------------
(* Logs.                                                                    *)

LEMMA ToLinkList ==
  ASSUME NEW q, NEW S, q.context \in Seq(S)
  PROVE  /\ ToLink(q) \in Seq(S)
         /\ Len(ToLink(q)) = IF Len(q.context) < LinkCap THEN Len(q.context) ELSE LinkCap
         /\ Len(q.context) \in Nat /\ Len(ToLink(q)) \in Nat /\ Len(ToLink(q)) <= Len(q.context)
         /\ \A n \in 1..Len(ToLink(q)) : ToLink(q)[n] = q.context[n]
<1> DEFINE k == IF Len(q.context) < LinkCap THEN Len(q.context) ELSE LinkCap
<1>1. Len(q.context) \in Nat /\ k \in Nat /\ k <= Len(q.context)
  BY Constants
<1>2. ToLink(q) = SubSeq(q.context, 1, k)
  BY DEF ToLink
<1>3. k = IF Len(q.context) < LinkCap THEN Len(q.context) ELSE LinkCap
  OBVIOUS
<1> HIDE DEF k
<1>4. \A n \in 1..k : q.context[n] \in S
  BY <1>1
<1>5. /\ SubSeq(q.context, 1, k) \in Seq(S)
      /\ Len(SubSeq(q.context, 1, k)) = IF 1 <= k THEN k - 1 + 1 ELSE 0
      /\ \A n \in 1..k - 1 + 1 : SubSeq(q.context, 1, k)[n] = q.context[1 + n - 1]
  BY <1>1, <1>4, SubSeqProperties
<1>6. Len(ToLink(q)) = k /\ \A n \in 1..k : ToLink(q)[n] = q.context[n]
  BY <1>1, <1>2, <1>5
<1> QED BY <1>1, <1>2, <1>3, <1>5, <1>6

\* A step that leaves what agents have read and linked, adds to access and
\* links only, and changes no result that was not 0.
LEMMA LogsKept ==
  ASSUME TInv, LInv, logs' = logs, access \subseteq access', links \subseteq links',
         \A x \in logs : result'[x.run] = result[x.run],
         \A a \in Agent : Active(a)' =>
            /\ Active(a) /\ agent'[a].run = agent[a].run
            /\ agent'[a].context = agent[a].context /\ agent'[a].linked = agent[a].linked
            /\ agent'[a].pc = "log" => agent[a].pc = "log"
            /\ result'[agent[a].run] = result[agent[a].run] \/ agent[a].linked = << >>
  PROVE  LInv'
<1>1. ContextWasRead /\ LinkedSoFar /\ LoggedOnce /\ LogTellsRun
  BY DEF LInv
<1>2. ContextWasRead'
  BY <1>1 DEF ContextWasRead
<1>3. LinkedSoFar'
  <2> SUFFICES ASSUME NEW a \in Agent, Active(a)'
               PROVE  /\ Len(agent'[a].linked) <= Len(ToLink(agent'[a]))
                      /\ \A n \in DOMAIN agent'[a].linked :
                           /\ agent'[a].linked[n] = agent'[a].context[n]
                           /\ <<result'[agent'[a].run], agent'[a].linked[n]>> \in links'
                      /\ agent'[a].pc = "log" => Len(agent'[a].linked) = Len(ToLink(agent'[a]))
    BY DEF LinkedSoFar
  <2>1. ToLink(agent'[a]) = ToLink(agent[a])
    BY DEF ToLink
  <2>2. /\ Len(agent[a].linked) <= Len(ToLink(agent[a]))
        /\ \A n \in DOMAIN agent[a].linked :
             /\ agent[a].linked[n] = agent[a].context[n]
             /\ <<result[agent[a].run], agent[a].linked[n]>> \in links
        /\ agent[a].pc = "log" => Len(agent[a].linked) = Len(ToLink(agent[a]))
    BY <1>1 DEF LinkedSoFar
  <2>3. ASSUME NEW n \in DOMAIN agent[a].linked PROVE <<result'[agent[a].run], agent[a].linked[n]>> \in links'
    <3>1. agent[a].linked # << >>
      OBVIOUS
    <3> QED BY <2>2, <3>1
  <2> QED BY <2>1, <2>2, <2>3
<1>4. LoggedOnce'
  BY <1>1 DEF LoggedOnce
<1>5. LogTellsRun'
  BY <1>1 DEF LogTellsRun
<1> QED BY <1>2, <1>3, <1>4, <1>5 DEF LInv

LEMMA StartLogs == ASSUME TInv, LInv, NEW a \in Agent, Start(a) PROVE LInv'
<1> DEFINE r == [pc |-> "read", run |-> runs + 1, scope |-> 1, context |-> << >>, linked |-> << >>]
<1>1. /\ agent[a].pc = "idle" /\ agent' = [agent EXCEPT ![a] = r] /\ result' = Append(result, 0)
      /\ UNCHANGED <<access, links, logs>>
  BY DEF Start
<1>2. RunsType /\ ContextWasRead /\ LinkedSoFar /\ LoggedOnce /\ LogTellsRun
  BY DEF TInv, LInv
<1>3. runs \in Nat /\ runs + 1 \notin 1..runs
  BY <1>2, Constants DEF RunsType
<1>4. \A n \in 1..runs : result'[n] = result[n]
  <2>1. result \in Seq(DOMAIN row \cup {0}) /\ Len(result) = runs
    BY <1>2, <1>3 DEF RunsType
  <2> QED BY <1>1, <2>1, AppendProperties
<1>5. agent'[a] = r /\ \A b \in Agent \ {a} : agent'[b] = agent[b]
  BY <1>1, <1>2 DEF RunsType
<1>6. \A b \in Agent : Active(b) => agent[b].run \in 1..runs
  BY <1>2 DEF RunsType, Active, Running, Idle
<1>7. \A x \in logs : x.run \in 1..runs
  BY <1>2 DEF RunsType
<1>8. Items(<< >>) = {}
  BY DEF Items
<1>9. r.run = runs + 1 /\ r.context = << >> /\ r.linked = << >> /\ r.pc = "read"
  OBVIOUS
<1> HIDE DEF r
<1>10. ContextWasRead'
  BY <1>1, <1>2, <1>5, <1>8, <1>9 DEF ContextWasRead, Active
<1>11. LinkedSoFar'
  <2>1. ASSUME NEW b \in Agent \ {a}, Active(b)'
        PROVE  /\ Len(agent'[b].linked) <= Len(ToLink(agent'[b]))
               /\ \A n \in DOMAIN agent'[b].linked :
                    /\ agent'[b].linked[n] = agent'[b].context[n]
                    /\ <<result'[agent'[b].run], agent'[b].linked[n]>> \in links'
               /\ agent'[b].pc = "log" => Len(agent'[b].linked) = Len(ToLink(agent'[b]))
    <3>1. agent'[b] = agent[b] /\ Active(b) /\ agent[b].run \in 1..runs
      BY <1>5, <1>6, <2>1 DEF Active
    <3>2. result'[agent[b].run] = result[agent[b].run]
      BY <1>4, <3>1
    <3>3. /\ Len(agent[b].linked) <= Len(ToLink(agent[b]))
          /\ \A n \in DOMAIN agent[b].linked :
               /\ agent[b].linked[n] = agent[b].context[n]
               /\ <<result[agent[b].run], agent[b].linked[n]>> \in links
          /\ agent[b].pc = "log" => Len(agent[b].linked) = Len(ToLink(agent[b]))
      BY <1>2, <3>1 DEF LinkedSoFar
    <3>4. links' = links
      BY <1>1
    <3> QED BY <3>1, <3>2, <3>3, <3>4
  <2>2. /\ Len(r.linked) <= Len(ToLink(r)) /\ DOMAIN r.linked = {}
    <3>1. r.context \in Seq({})
      BY <1>9
    <3> QED BY <1>9, <3>1, ToLinkList
  <2> QED BY <1>5, <1>9, <2>1, <2>2 DEF LinkedSoFar
<1>12. LoggedOnce'
  <2>1. ASSUME NEW x \in logs, NEW b \in Agent, Active(b)' PROVE agent'[b].run # x.run
    BY <1>2, <1>3, <1>5, <1>7, <1>9, <2>1 DEF LoggedOnce, Active
  <2>2. \A x \in logs : result'[x.run] # 0
    BY <1>2, <1>4, <1>7 DEF LoggedOnce
  <2> QED BY <1>1, <2>1, <2>2 DEF LoggedOnce
<1>13. LogTellsRun'
  BY <1>1, <1>2, <1>4, <1>7 DEF LogTellsRun
<1> QED BY <1>10, <1>11, <1>12, <1>13 DEF LInv

LEMMA ReadScopeLogs == ASSUME TInv, LInv, NEW a \in Agent, ReadScope(a) PROVE LInv'
<1> DEFINE q == agent[a]
<1>1. /\ q.pc = "read" /\ q \in Running /\ Active(a) /\ q.linked = << >>
      /\ UNCHANGED <<links, logs, result>>
  BY DEF ReadScope, TInv, RunsType, ResultsFollowPosts, Active, Idle
<1>2. PICK s \in Found(Searchable(a, Scopes[q.scope])) :
        /\ access' = access \cup Accessed(q.run, s)
        /\ agent' = [agent EXCEPT ![a] =
             IF Enough(Merged(q.context, s)) \/ q.scope = Len(Scopes)
             THEN [q EXCEPT !.context = Merged(q.context, s), !.pc = "act"]
             ELSE [q EXCEPT !.context = Merged(q.context, s), !.scope = q.scope + 1]]
  BY DEF ReadScope
<1>3. RunsType /\ ContextWasRead /\ LinkedSoFar /\ LoggedOnce /\ LogTellsRun
  BY DEF TInv, LInv
<1>4. /\ agent'[a].context = Merged(q.context, s) /\ agent'[a].run = q.run /\ agent'[a].linked = << >>
      /\ agent'[a].pc \in {"read", "act"} /\ \A b \in Agent \ {a} : agent'[b] = agent[b]
  <2>1. agent'[a] \in {[q EXCEPT !.context = Merged(q.context, s), !.pc = "act"],
                       [q EXCEPT !.context = Merged(q.context, s), !.scope = q.scope + 1]}
    BY <1>2, <1>3 DEF RunsType
  <2> QED BY <1>1, <1>2, <1>3, <2>1 DEF RunsType, Running
<1>5. /\ s \in Seq(DOMAIN row) /\ \A m, n \in 1..Len(s) : s[m] = s[n] => m = n
  <2>1. Searchable(a, Scopes[q.scope]) \subseteq DOMAIN row
    BY DEF Searchable
  <2> QED BY <1>2, <2>1, FoundList, SeqMonotonic
<1>6. q.context \in Seq(DOMAIN row)
  BY <1>1 DEF Running
<1>7. /\ Merged(q.context, s) \in Seq(DOMAIN row)
      /\ \A n \in DOMAIN Merged(q.context, s) :
           \/ n \in DOMAIN q.context /\ Merged(q.context, s)[n] = q.context[n]
           \/ n \notin DOMAIN q.context /\ Merged(q.context, s)[n] \in Items(s) \ Items(q.context)
  BY <1>5, <1>6, MergedList
<1>8. Items(Merged(q.context, s)) \subseteq Items(q.context) \cup Items(s)
  BY <1>7 DEF Items
<1>9. ContextWasRead'
  <2>1. \A e \in Items(Merged(q.context, s)) : <<q.run, e>> \in access'
    BY <1>1, <1>2, <1>3, <1>8 DEF ContextWasRead, Accessed
  <2> QED BY <1>2, <1>3, <1>4, <2>1 DEF ContextWasRead, Active
<1>10. LinkedSoFar'
  <2>1. ASSUME NEW b \in Agent \ {a}, Active(b)'
        PROVE  /\ Len(agent'[b].linked) <= Len(ToLink(agent'[b]))
               /\ \A n \in DOMAIN agent'[b].linked :
                    /\ agent'[b].linked[n] = agent'[b].context[n]
                    /\ <<result'[agent'[b].run], agent'[b].linked[n]>> \in links'
               /\ agent'[b].pc = "log" => Len(agent'[b].linked) = Len(ToLink(agent'[b]))
    BY <1>1, <1>3, <1>4, <2>1 DEF LinkedSoFar, Active
  <2>2. agent'[a].context \in Seq(DOMAIN row)
    BY <1>4, <1>7
  <2>3. Len(agent'[a].linked) <= Len(ToLink(agent'[a])) /\ DOMAIN agent'[a].linked = {}
    BY <1>4, <2>2, ToLinkList
  <2> QED BY <1>4, <2>1, <2>3 DEF LinkedSoFar
<1>11. LoggedOnce'
  BY <1>1, <1>3, <1>4 DEF LoggedOnce, Active
<1>12. LogTellsRun'
  BY <1>1, <1>2, <1>3 DEF LogTellsRun
<1> QED BY <1>9, <1>10, <1>11, <1>12 DEF LInv

LEMMA LinkItemLogs == ASSUME TInv, LInv, NEW a \in Agent, LinkItem(a) PROVE LInv'
<1> DEFINE q == agent[a]
           source == ToLink(q)[Len(q.linked) + 1]
<1>1. /\ q.pc = "link" /\ q \in Running /\ Active(a) /\ Len(q.linked) < Len(ToLink(q))
      /\ links' = links \cup {<<result[q.run], source>>}
      /\ agent' = [agent EXCEPT ![a].linked = Append(@, source)]
      /\ UNCHANGED <<access, logs, result>>
  BY DEF LinkItem, TInv, RunsType, Active, Idle
<1>2. RunsType /\ ContextWasRead /\ LinkedSoFar /\ LoggedOnce /\ LogTellsRun
  BY DEF TInv, LInv
<1>3. /\ q.context \in Seq(DOMAIN row) /\ q.linked \in Seq(DOMAIN row)
  BY <1>1 DEF Running
<1>4. /\ ToLink(q) \in Seq(DOMAIN row) /\ Len(ToLink(q)) \in Nat
      /\ \A n \in 1..Len(ToLink(q)) : ToLink(q)[n] = q.context[n]
  BY <1>3, ToLinkList
<1>5. source \in DOMAIN row /\ source = q.context[Len(q.linked) + 1]
  <2>1. Len(q.linked) + 1 \in 1..Len(ToLink(q))
    BY <1>1, <1>3, <1>4
  <2>2. ToLink(q)[Len(q.linked) + 1] \in DOMAIN row
    BY <1>4, <2>1, ElementOfSeq
  <2> QED BY <1>4, <2>1, <2>2
<1> HIDE DEF source
<1>6. /\ agent'[a].linked = Append(q.linked, source) /\ agent'[a].context = q.context
      /\ agent'[a].run = q.run /\ agent'[a].pc = "link" /\ \A b \in Agent \ {a} : agent'[b] = agent[b]
  BY <1>1, <1>2 DEF RunsType, Running
<1>7. LinkedSoFar'
  <2>1. ASSUME NEW b \in Agent \ {a}, Active(b)'
        PROVE  /\ Len(agent'[b].linked) <= Len(ToLink(agent'[b]))
               /\ \A n \in DOMAIN agent'[b].linked :
                    /\ agent'[b].linked[n] = agent'[b].context[n]
                    /\ <<result'[agent'[b].run], agent'[b].linked[n]>> \in links'
               /\ agent'[b].pc = "log" => Len(agent'[b].linked) = Len(ToLink(agent'[b]))
    BY <1>1, <1>2, <1>6, <2>1 DEF LinkedSoFar, Active
  <2>2. ToLink(agent'[a]) = ToLink(q)
    BY <1>6 DEF ToLink
  <2>3. /\ Len(Append(q.linked, source)) = Len(q.linked) + 1
        /\ DOMAIN Append(q.linked, source) = 1..Len(q.linked) + 1
        /\ \A n \in 1..Len(q.linked) : Append(q.linked, source)[n] = q.linked[n]
        /\ Append(q.linked, source)[Len(q.linked) + 1] = source
        /\ Len(q.linked) \in Nat
    BY <1>3, <1>5, AppendProperties
  <2>4. ASSUME NEW n \in 1..Len(q.linked) + 1
        PROVE  /\ Append(q.linked, source)[n] = q.context[n]
               /\ <<result[q.run], Append(q.linked, source)[n]>> \in links'
    <3>1. CASE n = Len(q.linked) + 1
      BY <1>1, <1>5, <2>3, <3>1
    <3>2. CASE n \in 1..Len(q.linked)
      <4>1. n \in DOMAIN q.linked
        BY <1>3, <3>2
      <4> QED BY <1>1, <1>2, <2>3, <3>2, <4>1 DEF LinkedSoFar
    <3> QED BY SMTT(30), <2>3, <3>1, <3>2
  <2>5. Len(agent'[a].linked) <= Len(ToLink(agent'[a]))
    BY <1>1, <1>4, <1>6, <2>2, <2>3
  <2>6. agent'[a].pc # "log"
    BY <1>6
  <2>7. \A n \in DOMAIN agent'[a].linked :
          /\ agent'[a].linked[n] = agent'[a].context[n]
          /\ <<result'[agent'[a].run], agent'[a].linked[n]>> \in links'
    BY <1>1, <1>6, <2>3, <2>4
  <2> QED BY <2>1, <2>5, <2>6, <2>7 DEF LinkedSoFar
<1>8. ContextWasRead' /\ LoggedOnce'
  BY <1>1, <1>2, <1>6 DEF ContextWasRead, LoggedOnce, Active
<1>9. LogTellsRun'
  BY <1>1, <1>2 DEF LogTellsRun
<1> QED BY <1>7, <1>8, <1>9 DEF LInv

LEMMA EvaluateLogs == ASSUME TInv, LInv, NEW a \in Agent, Evaluate(a) PROVE LInv'
<1>1. /\ agent[a].pc = "link" /\ agent[a] \in Running /\ Active(a)
      /\ Len(agent[a].linked) = Len(ToLink(agent[a])) /\ agent' = [agent EXCEPT ![a].pc = "log"]
      /\ UNCHANGED <<access, links, logs, result>>
  BY DEF Evaluate, TInv, RunsType, Active, Idle
<1>2. RunsType /\ ContextWasRead /\ LinkedSoFar /\ LoggedOnce /\ LogTellsRun
  BY DEF TInv, LInv
<1>3. /\ agent'[a].linked = agent[a].linked /\ agent'[a].context = agent[a].context
      /\ agent'[a].run = agent[a].run /\ \A b \in Agent \ {a} : agent'[b] = agent[b]
  BY <1>1, <1>2 DEF RunsType, Running
<1>4. ToLink(agent'[a]) = ToLink(agent[a])
  BY <1>3 DEF ToLink
<1>5. LinkedSoFar'
  <2> SUFFICES ASSUME NEW b \in Agent, Active(b)'
               PROVE  /\ Len(agent'[b].linked) <= Len(ToLink(agent'[b]))
                      /\ \A n \in DOMAIN agent'[b].linked :
                           /\ agent'[b].linked[n] = agent'[b].context[n]
                           /\ <<result'[agent'[b].run], agent'[b].linked[n]>> \in links'
                      /\ agent'[b].pc = "log" => Len(agent'[b].linked) = Len(ToLink(agent'[b]))
    BY DEF LinkedSoFar
  <2>1. CASE b = a
    <3>1. /\ Len(agent[a].linked) <= Len(ToLink(agent[a]))
          /\ \A n \in DOMAIN agent[a].linked :
               /\ agent[a].linked[n] = agent[a].context[n]
               /\ <<result[agent[a].run], agent[a].linked[n]>> \in links
      BY <1>1, <1>2 DEF LinkedSoFar
    <3> QED BY <1>1, <1>3, <1>4, <2>1, <3>1
  <2>2. CASE b # a
    BY <1>1, <1>2, <1>3, <2>2 DEF LinkedSoFar, Active
  <2> QED BY <2>1, <2>2
<1>6. ContextWasRead' /\ LoggedOnce'
  BY <1>1, <1>2, <1>3 DEF ContextWasRead, LoggedOnce, Active
<1>7. LogTellsRun'
  BY <1>1, <1>2 DEF LogTellsRun
<1> QED BY <1>5, <1>6, <1>7 DEF LInv

LEMMA LogRunLogs == ASSUME TInv, LInv, NEW a \in Agent, LogRun(a) PROVE LInv'
<1> DEFINE q == agent[a]
           x == Entered(q)
<1>1. /\ q.pc = "log" /\ Active(a) /\ q \in Running /\ agent' = [agent EXCEPT ![a] = Idle]
      /\ logs' \subseteq logs \cup {x} /\ logs \subseteq logs'
      /\ UNCHANGED <<access, links, result>>
  BY DEF LogRun, TInv, RunsType, Active, Idle
<1>2. /\ RunsType /\ RunsApart /\ ResultsFollowPosts
      /\ ContextWasRead /\ LinkedSoFar /\ LoggedOnce /\ LogTellsRun
  BY DEF TInv, LInv
<1>3. x.run = q.run /\ x.entry = result[q.run] /\ x.used = q.context /\ x.linked = q.linked
  BY DEF Entered, LinkedIds
<1> HIDE DEF x
<1>4. agent'[a].pc = "idle" /\ \A b \in Agent \ {a} : agent'[b] = agent[b]
  BY <1>1, <1>2 DEF RunsType, Idle
<1>5. /\ Len(q.linked) = Len(ToLink(q)) /\ q.context \in Seq(DOMAIN row) /\ q.linked \in Seq(DOMAIN row)
      /\ \A n \in DOMAIN q.linked : q.linked[n] = q.context[n] /\ <<result[q.run], q.linked[n]>> \in links
  BY <1>1, <1>2 DEF LinkedSoFar, Running
<1>6. /\ Len(q.linked) = IF Len(q.context) < LinkCap THEN Len(q.context) ELSE LinkCap
      /\ Len(q.context) \in Nat /\ DOMAIN q.context = 1..Len(q.context) /\ DOMAIN q.linked = 1..Len(q.linked)
  BY <1>5, ToLinkList
<1>7. \A n \in DOMAIN q.context : n <= LinkCap => <<result[q.run], q.context[n]>> \in links
  <2> SUFFICES ASSUME NEW n \in DOMAIN q.context, n <= LinkCap PROVE <<result[q.run], q.context[n]>> \in links
    OBVIOUS
  <2>1. n \in 1..Len(q.linked)
    BY <1>6, Constants
  <2> QED BY <1>5, <1>6, <2>1
<1>8. \A y \in logs : y.run # q.run
  BY <1>1, <1>2 DEF LoggedOnce
<1>9. LogTellsRun'
  <2>1. /\ \A e \in Items(x.used) : <<x.run, e>> \in access
        /\ \A e \in Items(x.linked) : <<x.entry, e>> \in links
        /\ \A n \in DOMAIN x.used : n <= LinkCap => <<x.entry, x.used[n]>> \in links
    BY SMT, ZenonT(60), <1>1, <1>2, <1>3, <1>5, <1>7 DEF ContextWasRead, Items
  <2>2. ASSUME NEW y \in logs', NEW z \in logs', z.run = y.run PROVE z = y
    BY <1>1, <1>2, <1>3, <1>8, <2>2 DEF LogTellsRun
  <2>3. ASSUME NEW y \in logs'
        PROVE  /\ y.entry = result[y.run]
               /\ \A e \in Items(y.used) : <<y.run, e>> \in access
               /\ \A e \in Items(y.linked) : <<y.entry, e>> \in links
               /\ \A n \in DOMAIN y.used : n <= LinkCap => <<y.entry, y.used[n]>> \in links
    <3>1. CASE y \in logs
      BY <1>2, <3>1 DEF LogTellsRun
    <3>2. CASE y = x
      BY <1>3, <2>1, <3>2
    <3> QED BY <1>1, <3>1, <3>2
  <2> QED BY <1>1, <2>2, <2>3 DEF LogTellsRun
<1>10. LoggedOnce'
  <2>1. result[q.run] # 0
    BY <1>1, <1>2 DEF ResultsFollowPosts
  <2>2. \A b \in Agent : Active(b)' => Active(b) /\ b # a /\ agent'[b] = agent[b] /\ agent[b].run # q.run
    BY <1>1, <1>2, <1>4 DEF RunsApart, Active
  <2> QED BY <1>1, <1>2, <1>3, <2>1, <2>2 DEF LoggedOnce
<1>11. ContextWasRead'
  BY <1>1, <1>2, <1>4 DEF ContextWasRead, Active
<1>12. LinkedSoFar'
  BY SMTT(30), <1>1, <1>2, <1>4 DEF LinkedSoFar, Active
<1> QED BY <1>9, <1>10, <1>11, <1>12 DEF LInv

LEMMA PostLogs ==
  ASSUME TInv, LInv, NEW q \in posts, Assess(q) \/ Insert(q) \/ RefusePost(q)
  PROVE  LInv'
<1>1. RunsType /\ ResultsFollowPosts /\ LoggedOnce /\ q.run \in 1..runs
  BY DEF TInv, RunsType, PostType, LInv
<1>2. CASE Assess(q)
  BY <1>2, LogsKept DEF Assess, Active
<1>3. CASE RefusePost(q)
  <2>1. /\ agent' = [a \in Agent |-> IF Waits(a, q) THEN Idle ELSE agent[a]]
        /\ UNCHANGED <<access, links, logs, result>>
    BY <1>3 DEF RefusePost
  <2>2. \A a \in Agent : Active(a)' => agent'[a] = agent[a]
    BY <2>1 DEF Active, Idle
  <2> QED BY <2>1, <2>2, LogsKept DEF Active
<1>4. CASE Insert(q)
  <2>1. /\ agent' = [a \in Agent |-> IF Waits(a, q) THEN [agent[a] EXCEPT !.pc = "link"] ELSE agent[a]]
        /\ result' = [result EXCEPT ![q.run] = NewId]
        /\ UNCHANGED <<access, links, logs>>
    BY <1>4 DEF Insert
  <2>2. \A n \in 1..runs : n # q.run => result'[n] = result[n]
    BY <1>1, <2>1 DEF RunsType
  <2>3. result[q.run] = 0
    BY <1>1 DEF ResultsFollowPosts
  <2>4. \A x \in logs : result'[x.run] = result[x.run]
    BY <1>1, <2>2, <2>3 DEF LoggedOnce, RunsType
  <2>5. ASSUME NEW a \in Agent, Active(a)'
        PROVE  /\ Active(a) /\ agent'[a].run = agent[a].run
               /\ agent'[a].context = agent[a].context /\ agent'[a].linked = agent[a].linked
               /\ agent'[a].pc = "log" => agent[a].pc = "log"
               /\ result'[agent[a].run] = result[agent[a].run] \/ agent[a].linked = << >>
    <3>1. CASE Waits(a, q)
      <4>1. agent'[a] = [agent[a] EXCEPT !.pc = "link"] /\ agent[a] \in Running /\ agent[a].pc = "save"
        BY <1>1, <2>1, <3>1 DEF Waits, RunsType, Idle
      <4> QED BY <1>1, <4>1 DEF Running, Active, ResultsFollowPosts
    <3>2. CASE ~Waits(a, q)
      <4>1. agent'[a] = agent[a] /\ Active(a)
        BY <2>1, <2>5, <3>2 DEF Active
      <4>2. agent[a].run \in 1..runs /\ agent[a].run # q.run
        BY <1>1, <3>2, <4>1 DEF RunsType, Running, Idle, Active, ResultsFollowPosts, Waits
      <4> QED BY <2>2, <4>1, <4>2
    <3> QED BY <3>1, <3>2
  <2> QED BY <2>1, <2>4, <2>5, LogsKept
<1> QED BY <1>2, <1>3, <1>4

LEMMA NextLogs ==
  ASSUME TInv, LInv, [Next]_vars
  PROVE  LInv'
<1>1. CASE UNCHANGED <<access, logs, agent, result>> /\ links \subseteq links'
  BY <1>1, LogsKept DEF Active
<1>2. ASSUME NEW a \in Agent, Stop(a) PROVE LInv'
  <2>1. UNCHANGED <<access, links, logs, result>> /\ \A b \in Agent : agent'[b] \in {agent[b], Idle}
    BY <1>2 DEF Stop, TInv, RunsType
  <2>2. \A b \in Agent : Active(b)' => agent'[b] = agent[b]
    BY <2>1 DEF Active, Idle
  <2> QED BY <2>1, <2>2, LogsKept DEF Active
<1>3. ASSUME NEW a \in Agent, Act(a) PROVE LInv'
  <2>1. /\ UNCHANGED <<access, links, logs, result>> /\ agent' = [agent EXCEPT ![a].pc = "save"]
        /\ agent[a].pc = "act"
    BY <1>3 DEF Act
  <2>2. RunsType
    BY DEF TInv
  <2>3. agent[a] \in Running /\ Active(a)
    BY <2>1, <2>2 DEF RunsType, Idle, Active
  <2>4. /\ agent'[a] = [agent[a] EXCEPT !.pc = "save"] /\ \A b \in Agent \ {a} : agent'[b] = agent[b]
    BY <2>1, <2>2 DEF RunsType
  <2>5. /\ agent'[a].run = agent[a].run /\ agent'[a].context = agent[a].context
        /\ agent'[a].linked = agent[a].linked /\ agent'[a].pc = "save"
    BY <2>3, <2>4 DEF Running
  <2> QED BY <2>1, <2>3, <2>4, <2>5, LogsKept DEF Active
<1>4. Added \/ (\E e \in DOMAIN row : Succeeded(e) \/ Archive(e))
        => UNCHANGED <<access, logs, agent, result>> /\ links \subseteq links'
  <2>1. \A e, p, t : Continue(e, p, t) => UNCHANGED <<access, logs, agent, result>> /\ links \subseteq links'
    BY DEF Continue
  <2>2. \A e : Succeeded(e) => \E p, t : Continue(e, p, t)
    BY DEF Succeeded, Revise, ReviseByImport, Restore
  <2>3. Added => UNCHANGED <<access, logs, agent, result, links>>
    BY DEF Added, Import, Compact
  <2> QED BY <2>1, <2>2, <2>3 DEF Archive
<1>5. \A e \in DOMAIN row, p \in Project : Assign(e, p) => UNCHANGED <<access, logs, agent, result>> /\ links \subseteq links'
  BY DEF Assign
<1>6. \A p \in exists : DeleteProject(p) => UNCHANGED <<access, logs, agent, result>> /\ links \subseteq links'
  BY DEF DeleteProject
<1>7. UNCHANGED vars => UNCHANGED <<access, logs, agent, result>> /\ links \subseteq links'
  BY DEF vars
<1> QED BY <1>1, <1>2, <1>3, <1>4, <1>5, <1>6, <1>7, StartLogs, ReadScopeLogs, LinkItemLogs, EvaluateLogs,
           LogRunLogs, PostLogs DEF Next, AgentStep, Added, Succeeded

LEMMA InitLogs == Init => LInv
BY DEF Init, LInv, ContextWasRead, LinkedSoFar, LoggedOnce, LogTellsRun, Active, Idle

LEMMA LogsInvariance == Spec => []LInv
<1>1. TInv /\ LInv /\ [Next]_vars => LInv'
  BY NextLogs
<1> QED BY <1>1, InitLogs, TypeInvariance, PTL DEF Spec

\* A client that reports its work reports what happened: every log names the
\* entry its run saved, entries it had read and the links it made, which are
\* all it had to make, and no run is logged twice.
THEOREM LogsTellTheTruth == Spec => []LogTellsRun
<1>1. LInv => LogTellsRun
  BY DEF LInv
<1> QED BY <1>1, LogsInvariance, PTL

-----------------------------------------------------------------------------
(* Chains of rows.                                                          *)

\* Rows keep what they continue and are closed for good; the row n may begin
\* and continue the leaf b, or nothing; what it goes back to is closed and was
\* superseded by none.
Grown(n, b) ==
  /\ n \notin DOMAIN row \cup {0} /\ DOMAIN row' \in {DOMAIN row, DOMAIN row \cup {n}}
  /\ \A e \in DOMAIN row :
       /\ row'[e].supersedes = row[e].supersedes /\ row'[e].copyOf = row[e].copyOf
       /\ row'[e].current => row[e].current
  /\ b \in DOMAIN row \cup {0} /\ (b # 0 => Leaf(b))
  /\ n \in DOMAIN row' =>
       /\ Before(n)' = b
       /\ {row'[n].supersedes, row'[n].copyOf} \subseteq DOMAIN row \cup {0}
       /\ \A x \in {row'[n].supersedes, row'[n].copyOf} \ {0} :
            ~row'[x].current /\ \A e \in DOMAIN row : row[e].supersedes # x

\* What n continues when it supersedes o or is a copy of it.
Continued(v) == IF v.supersedes # 0 THEN IF Copied(v.supersedes) THEN 0 ELSE v.supersedes ELSE v.copyOf

LEMMA GrownRow ==
  ASSUME RowsType, NewId \in Id, NEW rows \in [DOMAIN row -> Row], NEW v \in Row, row' = Add(rows, v),
         \A e \in DOMAIN row : /\ rows[e].supersedes = row[e].supersedes /\ rows[e].copyOf = row[e].copyOf
                               /\ rows[e].current => row[e].current,
         v.supersedes = 0 \/ v.copyOf = 0, {v.supersedes, v.copyOf} \subseteq DOMAIN row \cup {0},
         \A x \in {v.supersedes, v.copyOf} \ {0} : ~rows[x].current /\ \A e \in DOMAIN row : row[e].supersedes # x,
         v.copyOf # 0 => ~Copied(v.copyOf)
  PROVE  \E n : Grown(n, Continued(v))
<1>1. PICK n : n = NewId
  OBVIOUS
<1>2. /\ NewId \notin DOMAIN row /\ NewId # 0 /\ 0 \notin DOMAIN row
      /\ DOMAIN Add(rows, v) = DOMAIN row \cup {NewId}
      /\ Add(rows, v)[NewId] = v /\ \A e \in DOMAIN row : Add(rows, v)[e] = rows[e]
  BY SMT, ZenonT(60), AddRow
<1>3. /\ n \notin DOMAIN row \cup {0} /\ DOMAIN row' = DOMAIN row \cup {n}
      /\ row'[n] = v /\ \A e \in DOMAIN row : row'[e] = rows[e]
  BY <1>1, <1>2
<1>4. \A e \in DOMAIN row : row'[e].copyOf = row[e].copyOf
  BY <1>3
<1>5. v.supersedes # 0 => (Copied(v.supersedes)' <=> Copied(v.supersedes))
  <2>1. ASSUME v.supersedes # 0 PROVE v.copyOf # v.supersedes
    BY <2>1
  <2> QED BY <1>3, <1>4, <2>1 DEF Copied
<1>6. Before(n)' = Continued(v)
  BY <1>3, <1>5 DEF Before, Continued
<1>7. Continued(v) \in DOMAIN row \cup {0}
  BY DEF Continued
<1>8. ASSUME Continued(v) # 0 PROVE Leaf(Continued(v))
  <2>1. ~Copied(Continued(v)) /\ \A e \in DOMAIN row : row[e].supersedes # Continued(v)
    BY <1>8 DEF Continued
  <2> QED BY <1>8, <2>1 DEF Leaf, Before, Copied
<1>9. \A x \in {v.supersedes, v.copyOf} \ {0} : ~row'[x].current /\ \A e \in DOMAIN row : row[e].supersedes # x
  BY <1>3
<1> QED BY <1>3, <1>6, <1>7, <1>8, <1>9 DEF Grown

\* Nothing begins.
LEMMA GrownNone ==
  ASSUME RowsType, DOMAIN row' = DOMAIN row,
         \A e \in DOMAIN row : /\ row'[e].supersedes = row[e].supersedes /\ row'[e].copyOf = row[e].copyOf
                               /\ row'[e].current => row[e].current
  PROVE  \E n : Grown(n, 0) /\ n \notin DOMAIN row'
<1>1. PICK k \in 0..MaxEntries : row \in [1..k -> Row]
  BY DEF RowsType
<1>2. MaxEntries + 1 \notin DOMAIN row \cup {0}
  BY <1>1, Constants
<1> QED BY <1>2 DEF Grown

\* Every step but one that only moves agents, and what it does to rows.
LEMMA NextGrows ==
  ASSUME TInv, ChainsBack, [Next]_vars
  PROVE  \/ row' = row /\ moved' = moved
         \/ /\ \E n, b : Grown(n, b) /\ (b # 0 => Reading(b) \subseteq moved')
            /\ moved \subseteq moved'
            /\ \A a \in Agent : Active(a)' => /\ Active(a) /\ agent'[a].run = agent[a].run
                                              /\ agent'[a].context = agent[a].context
                                              /\ agent'[a].pc = "read" => agent[a].pc = "read"
<1>0. RowsType /\ RunsType /\ row \in [DOMAIN row -> Row] /\ 0 \notin DOMAIN row
  BY NoRowZero DEF TInv
<1> DEFINE Grows == /\ \E n, b : Grown(n, b) /\ (b # 0 => Reading(b) \subseteq moved')
                    /\ moved \subseteq moved'
                    /\ \A a \in Agent : Active(a)' => /\ Active(a) /\ agent'[a].run = agent[a].run
                                                      /\ agent'[a].context = agent[a].context
                                                      /\ agent'[a].pc = "read" => agent[a].pc = "read"
<1>1. ASSUME NEW q \in posts, Insert(q) PROVE Grows
  <2> DEFINE v == Original(q.project, q.text)
  <2>1. /\ NewId \in Id /\ row' = Add(row, v) /\ moved' = moved
        /\ agent' = [a \in Agent |-> IF Waits(a, q) THEN [agent[a] EXCEPT !.pc = "link"] ELSE agent[a]]
    BY <1>1 DEF Insert
  <2>2. q \in PostType
    BY <1>0 DEF RunsType
  <2>3. v \in Row /\ v.supersedes = 0 /\ v.copyOf = 0
    BY <2>2 DEF PostType, Row, Original
  <2> HIDE DEF v
  <2>4. \E n : Grown(n, 0)
    <3>1. Continued(v) = 0
      BY <2>3 DEF Continued
    <3> QED BY <1>0, <2>1, <2>3, <3>1, GrownRow
  <2>5. ASSUME NEW a \in Agent, Active(a)'
        PROVE  /\ Active(a) /\ agent'[a].run = agent[a].run /\ agent'[a].context = agent[a].context
               /\ agent'[a].pc = "read" => agent[a].pc = "read"
    <3>1. CASE Waits(a, q)
      <4>1. agent'[a] = [agent[a] EXCEPT !.pc = "link"] /\ agent[a] \in Running /\ Active(a)
        BY <1>0, <2>1, <3>1 DEF Waits, RunsType, Idle, Active
      <4> QED BY <4>1 DEF Running
    <3>2. CASE ~Waits(a, q)
      BY <2>1, <2>5, <3>2 DEF Active
    <3> QED BY <3>1, <3>2
  <2> QED BY <2>1, <2>4, <2>5
<1>2. ASSUME NEW e \in DOMAIN row, NEW v \in Row, Continues(e, v), Reading(e) \subseteq moved', moved \subseteq moved',
             agent' = agent, \A f \in DOMAIN row : row[f].supersedes # e,
             (v.supersedes = e /\ v.copyOf = 0) \/ (v.supersedes = 0 /\ v.copyOf = e /\ ~Copied(e))
      PROVE  Grows
  <2> DEFINE closed == [row EXCEPT ![e].current = FALSE]
  <2>1. /\ closed \in [DOMAIN row -> Row]
        /\ \A f \in DOMAIN row : /\ closed[f].supersedes = row[f].supersedes /\ closed[f].copyOf = row[f].copyOf
                                 /\ closed[f].current => row[f].current
        /\ ~closed[e].current
    BY <1>0 DEF Row
  <2>2. NewId \in Id /\ row' = Add(closed, v)
    BY <1>2 DEF Continues
  <2> HIDE DEF closed
  <2>3. /\ v.supersedes = 0 \/ v.copyOf = 0
        /\ {v.supersedes, v.copyOf} \subseteq DOMAIN row \cup {0}
        /\ \A x \in {v.supersedes, v.copyOf} \ {0} : x = e
        /\ v.copyOf # 0 => ~Copied(v.copyOf)
    BY <1>0, <1>2
  <2>4. \E n : Grown(n, Continued(v))
    BY <1>0, <1>2, <2>1, <2>2, <2>3, GrownRow
  <2>5. Continued(v) \in {0, e}
    BY <1>2 DEF Continued
  <2> QED BY <1>2, <2>4, <2>5 DEF Active
\* A current row goes on in none.
<1>12. \A e \in DOMAIN row : row[e].current => ~Copied(e) /\ \A f \in DOMAIN row : row[f].supersedes # e
  BY <1>0 DEF ChainsBack, Copied
<1>3. ASSUME NEW e \in DOMAIN row, Succeeded(e) PROVE Grows
  <2>1. PICK p \in Project \cup {None}, t \in Text \cup {None} :
          /\ Continue(e, p, t)
          /\ row[e].current \/ \A f \in DOMAIN row : row[f].supersedes # e
    BY <1>0, <1>3, SucceededContinues
  <2>2. PICK v \in Row : Continues(e, v) /\ v.supersedes = e /\ v.copyOf = 0
    BY <1>0, <2>1, ContinueContinues
  <2>3. agent' = agent /\ Reading(e) \subseteq moved' /\ moved \subseteq moved'
    BY <2>1 DEF Continue
  <2> HIDE DEF Grows
  <2> QED BY <1>2, <1>12, <2>1, <2>2, <2>3
<1>4. ASSUME NEW e \in DOMAIN row, NEW p \in Project, Assign(e, p) PROVE Grows
  <2> DEFINE v == [project |-> p, current |-> TRUE, text |-> row[e].text, supersedes |-> 0, copyOf |-> e]
  <2>1. v \in Row /\ Continues(e, v) /\ v.supersedes = 0 /\ v.copyOf = e
    BY <1>0, <1>4, AssignContinues
  <2> HIDE DEF v
  <2>2. agent' = agent /\ Reading(e) \subseteq moved' /\ moved \subseteq moved' /\ row[e].current
    BY <1>4 DEF Assign
  <2> HIDE DEF Grows
  <2> QED BY <1>2, <1>12, <2>1, <2>2
<1>13. ASSUME Added PROVE Grows
  <2>1. PICK rows \in [DOMAIN row -> Row], v \in Row :
          /\ row' = Add(rows, v) /\ NewId \in Id /\ v.supersedes = 0 /\ v.copyOf = 0
          /\ \A x \in DOMAIN row : rows[x] = row[x] \/ rows[x] = [row[x] EXCEPT !.current = FALSE]
          /\ UNCHANGED <<exists, access, links, logs, agent, posts, runs, result, moved, rushed>>
    BY <1>0, <1>13, AddedRows
  <2>2. \A x \in DOMAIN row : /\ rows[x].supersedes = row[x].supersedes /\ rows[x].copyOf = row[x].copyOf
                              /\ rows[x].current => row[x].current
    BY <1>0, <2>1 DEF Row
  <2>3. Continued(v) = 0
    BY <2>1 DEF Continued
  <2>4. \E n : Grown(n, 0)
    BY <1>0, <2>1, <2>2, <2>3, GrownRow
  <2> QED BY <2>1, <2>4 DEF Active
<1>5. ASSUME UNCHANGED <<agent, moved>>, DOMAIN row' = DOMAIN row,
             \A e \in DOMAIN row : /\ row'[e].supersedes = row[e].supersedes /\ row'[e].copyOf = row[e].copyOf
                                   /\ row'[e].current => row[e].current
      PROVE  Grows
  <2>1. \E n : Grown(n, 0)
    BY <1>0, <1>5, GrownNone
  <2> QED BY <1>5, <2>1 DEF Active
<1>6. ASSUME NEW e \in DOMAIN row, Archive(e) PROVE Grows
  <2>1. UNCHANGED <<agent, moved>> /\ row' = [row EXCEPT ![e].current = FALSE]
    BY <1>6 DEF Archive
  <2>2. /\ DOMAIN row' = DOMAIN row
        /\ \A f \in DOMAIN row : /\ row'[f].supersedes = row[f].supersedes /\ row'[f].copyOf = row[f].copyOf
                                 /\ row'[f].current => row[f].current
    BY <1>0, <2>1 DEF Row
  <2> QED BY <1>5, <2>1, <2>2
<1>7. ASSUME NEW p \in exists, DeleteProject(p) PROVE Grows
  <2>1. /\ UNCHANGED <<agent, moved>>
        /\ row' = [e \in DOMAIN row |-> IF row[e].project = p THEN [row[e] EXCEPT !.project = None] ELSE row[e]]
    BY <1>7 DEF DeleteProject
  <2>2. /\ DOMAIN row' = DOMAIN row
        /\ \A f \in DOMAIN row : /\ row'[f].supersedes = row[f].supersedes /\ row'[f].copyOf = row[f].copyOf
                                 /\ row'[f].current => row[f].current
    BY <1>0, <2>1 DEF Row
  <2> QED BY <1>5, <2>1, <2>2
<1> HIDE DEF Grows
<1>8. \A a \in Agent : Start(a) \/ Stop(a) \/ ReadScope(a) \/ Act(a) \/ LinkItem(a) \/ Evaluate(a) \/ LogRun(a)
        => row' = row /\ moved' = moved
  BY DEF Start, Stop, ReadScope, Act, LinkItem, Evaluate, LogRun
<1>9. \A q \in posts : Assess(q) \/ RefusePost(q) => row' = row /\ moved' = moved
  BY DEF Assess, RefusePost
<1>10. UNCHANGED vars => row' = row /\ moved' = moved
  BY DEF vars
<1>11. (row' = row /\ moved' = moved) \/ Grows
  BY <1>1, <1>3, <1>4, <1>6, <1>7, <1>8, <1>9, <1>10, <1>13 DEF Next, AgentStep, Added, Succeeded
<1> QED BY <1>11 DEF Grows

LEMMA BeforeKept ==
  ASSUME NEW n, NEW b, Grown(n, b)
  PROVE  \A e \in DOMAIN row : Before(e)' = Before(e)
<1>1. ASSUME NEW e \in DOMAIN row, row[e].supersedes # 0
      PROVE  Copied(row[e].supersedes)' <=> Copied(row[e].supersedes)
  <2>1. n \in DOMAIN row' => row'[n].copyOf # row[e].supersedes
    BY <1>1 DEF Grown
  <2>2. row'[e].supersedes = row[e].supersedes /\ \A f \in DOMAIN row : row'[f].copyOf = row[f].copyOf
    BY <1>1 DEF Grown
  <2> QED BY <2>1, <2>2 DEF Copied, Grown
<1>2. \A e \in DOMAIN row : row'[e].supersedes = row[e].supersedes /\ row'[e].copyOf = row[e].copyOf
  BY DEF Grown
<1> QED BY <1>1, <1>2 DEF Before

LEMMA BeforeIsRow ==
  ASSUME ChainsBack, NEW e \in DOMAIN row, Before(e) # 0
  PROVE  Before(e) \in DOMAIN row /\ ~row[Before(e)].current
BY DEF ChainsBack, Before

\* What a step makes akin was akin, where n stands for the row it continues.
LEMMA AkinBack ==
  ASSUME RowsType, ChainsBack, NEW n, NEW b, Grown(n, b)
  PROVE  /\ \A e, f \in DOMAIN row : Akin(e, f)' => Akin(e, f)
         /\ n \in DOMAIN row' => \A e \in DOMAIN row : Akin(e, n)' => b # 0 /\ Akin(e, b)
         /\ n \in DOMAIN row' => \A f \in DOMAIN row : Akin(n, f)' => b # 0 /\ Akin(b, f)
<1> DEFINE Closed(S) == \A x \in DOMAIN row : Before(x) # 0 => (x \in S <=> Before(x) \in S)
           With(S) == S \cup {x \in {n} : n \in DOMAIN row' /\ b \in S}
<1>1. 0 \notin DOMAIN row /\ n # 0 /\ n \notin DOMAIN row
  BY NoRowZero DEF Grown
<1>2. \A x \in DOMAIN row' : x \in DOMAIN row \/ x = n
  BY DEF Grown
<1>3. \A x \in DOMAIN row : Before(x)' = Before(x) /\ (Before(x) # 0 => Before(x) \in DOMAIN row)
  BY BeforeKept, BeforeIsRow
<1>4. n \in DOMAIN row' => Before(n)' = b
  BY DEF Grown
<1>5. b \in DOMAIN row \cup {0}
  BY DEF Grown
<1>6. ASSUME NEW S \in SUBSET DOMAIN row, Closed(S)
      PROVE  /\ With(S) \in SUBSET DOMAIN row'
             /\ \A x \in DOMAIN row' : Before(x)' # 0 => (x \in With(S) <=> Before(x)' \in With(S))
             /\ \A x \in DOMAIN row : x \in With(S) <=> x \in S
             /\ n \in With(S) <=> n \in DOMAIN row' /\ b \in S
  <2>1. DOMAIN row \subseteq DOMAIN row'
    BY DEF Grown
  <2>2. /\ With(S) \in SUBSET DOMAIN row'
        /\ \A x \in DOMAIN row : x \in With(S) <=> x \in S
        /\ n \in With(S) <=> n \in DOMAIN row' /\ b \in S
    BY <1>1, <2>1
  <2> HIDE DEF With
  <2>3. ASSUME NEW x \in DOMAIN row', Before(x)' # 0 PROVE x \in With(S) <=> Before(x)' \in With(S)
    <3>1. CASE x \in DOMAIN row
      BY <1>3, <1>6, <2>2, <2>3, <3>1
    <3>2. CASE x = n
      BY <1>1, <1>4, <1>5, <2>2, <2>3, <3>2
    <3> QED BY <1>2, <3>1, <3>2
  <2> QED BY <2>2, <2>3
<1>7. ASSUME NEW e \in DOMAIN row', NEW f \in DOMAIN row', Akin(e, f)', NEW S \in SUBSET DOMAIN row, Closed(S),
             e \in With(S)
      PROVE  f \in With(S)
  <2> HIDE DEF With
  <2> QED BY <1>6, <1>7 DEF Akin
<1>8. DOMAIN row \subseteq DOMAIN row'
  BY DEF Grown
<1>9. ASSUME NEW e \in DOMAIN row, NEW f \in DOMAIN row, Akin(e, f)' PROVE Akin(e, f)
  <2> SUFFICES ASSUME NEW S \in SUBSET DOMAIN row, e \in S, Closed(S) PROVE f \in S
    BY DEF Akin
  <2> QED BY <1>6, <1>7, <1>8, <1>9
<1>10. ASSUME n \in DOMAIN row', NEW e \in DOMAIN row, Akin(e, n)' PROVE b # 0 /\ Akin(e, b)
  <2>1. b # 0
    <3>1. Closed(DOMAIN row)
      BY <1>3
    <3> HIDE DEF Closed, With
    <3>2. n \in With(DOMAIN row)
      BY <1>6, <1>7, <1>8, <1>10, <3>1
    <3> QED BY <1>1, <1>6, <3>1, <3>2
  <2>2. Akin(e, b)
    <3> SUFFICES ASSUME NEW S \in SUBSET DOMAIN row, e \in S, Closed(S) PROVE b \in S
      BY DEF Akin
    <3> QED BY <1>6, <1>7, <1>8, <1>10
  <2> QED BY <2>1, <2>2
<1>11. ASSUME n \in DOMAIN row', NEW f \in DOMAIN row, Akin(n, f)' PROVE b # 0 /\ Akin(b, f)
  <2>1. b # 0
    <3> SUFFICES ASSUME b = 0 PROVE FALSE
      OBVIOUS
    <3>1. \A x \in DOMAIN row' : Before(x)' # 0 => (x \in {n} <=> Before(x)' \in {n})
      BY <1>1, <1>2, <1>3, <1>4
    <3>2. f \in {n}
      BY <1>11, <3>1 DEF Akin
    <3> QED BY <1>1, <3>2
  <2>2. Akin(b, f)
    <3> SUFFICES ASSUME NEW S \in SUBSET DOMAIN row, b \in S, Closed(S) PROVE f \in S
      BY DEF Akin
    <3> QED BY <1>6, <1>7, <1>8, <1>11
  <2> QED BY <2>1, <2>2
<1> QED BY <1>9, <1>10, <1>11

\* A current row has no successor.
LEMMA CurrentIsLeaf ==
  ASSUME RowsType, ChainsBack, NEW e \in DOMAIN row, row[e].current
  PROVE  Leaf(e)
<1>1. 0 \notin DOMAIN row
  BY NoRowZero
<1> QED BY <1>1, BeforeIsRow DEF Leaf

\* What is a leaf after a step was one before it, or is n; and a leaf that is
\* not continued stays one.
LEMMA LeavesKept ==
  ASSUME RowsType, ChainsBack, NEW n, NEW b, Grown(n, b)
  PROVE  /\ \A e \in DOMAIN row : Leaf(e)' => Leaf(e) /\ (n \in DOMAIN row' => e # b)
         /\ \A e \in DOMAIN row : Leaf(e) /\ e # b => Leaf(e)'
<1>1. \A x \in DOMAIN row : Before(x)' = Before(x)
  BY BeforeKept
<1>2. DOMAIN row \subseteq DOMAIN row' /\ \A x \in DOMAIN row' : x \in DOMAIN row \/ x = n
  BY DEF Grown
<1>3. n \in DOMAIN row' => Before(n)' = b
  BY DEF Grown
<1> QED BY <1>1, <1>2, <1>3 DEF Leaf

LEMMA GrownChains ==
  ASSUME RowsType, ChainsBack, OneLeaf, NEW n, NEW b, Grown(n, b)
  PROVE  ChainsBack' /\ OneLeaf'
<1>0. 0 \notin DOMAIN row
  BY NoRowZero
<1>1. ChainsBack'
  <2> SUFFICES ASSUME NEW e \in DOMAIN row'
               PROVE  /\ row'[e].supersedes \in DOMAIN row' \cup {0} /\ row'[e].copyOf \in DOMAIN row' \cup {0}
                      /\ \A x \in {row'[e].supersedes, row'[e].copyOf} \ {0} : ~row'[x].current
    BY DEF ChainsBack
  <2>1. CASE e \in DOMAIN row
    <3>1. row'[e].supersedes = row[e].supersedes /\ row'[e].copyOf = row[e].copyOf
      BY <2>1 DEF Grown
    <3>2. /\ row[e].supersedes \in DOMAIN row \cup {0} /\ row[e].copyOf \in DOMAIN row \cup {0}
          /\ \A x \in {row[e].supersedes, row[e].copyOf} \ {0} : ~row[x].current
      BY <2>1 DEF ChainsBack
    <3> QED BY <3>1, <3>2 DEF Grown
  <2>2. CASE e = n
    BY <2>2 DEF Grown
  <2> QED BY <2>1, <2>2 DEF Grown
<1>2. OneLeaf'
  <2> SUFFICES ASSUME NEW e \in DOMAIN row', NEW f \in DOMAIN row', Leaf(e)', Leaf(f)', Akin(e, f)'
               PROVE  e = f
    BY DEF OneLeaf
  <2>1. b \in DOMAIN row => Leaf(b)
    BY <1>0 DEF Grown
  <2>2. b \in DOMAIN row \cup {0}
    BY DEF Grown
  <2>3. CASE e \in DOMAIN row /\ f \in DOMAIN row
    BY <2>3, AkinBack, LeavesKept DEF OneLeaf
  <2>4. CASE e \in DOMAIN row /\ f = n
    <3>1. b # 0 /\ Akin(e, b)
      BY <2>4, AkinBack
    <3>2. Leaf(e) /\ e # b
      BY <2>4, LeavesKept
    <3> QED BY <2>1, <2>2, <2>4, <3>1, <3>2 DEF OneLeaf
  <2>5. CASE f \in DOMAIN row /\ e = n
    <3>1. b # 0 /\ Akin(b, f)
      BY <2>5, AkinBack
    <3>2. Leaf(f) /\ f # b
      BY <2>5, LeavesKept
    <3> QED BY <2>1, <2>2, <2>5, <3>1, <3>2 DEF OneLeaf
  <2> QED BY <2>3, <2>4, <2>5 DEF Grown
<1> QED BY <1>1, <1>2

-----------------------------------------------------------------------------
(* Contexts.                                                                *)

\* The context of an agent: no entry twice, versions of one only if the run
\* was overtaken; and while it reads, nothing superseded unless it was.
ContextOK(q) ==
  /\ q.pc = "read" /\ q.run \notin moved => \A e \in Items(q.context) : Leaf(e)
  /\ \A m, n \in DOMAIN q.context : m # n =>
       q.context[m] # q.context[n] /\ (Akin(q.context[m], q.context[n]) => q.run \in moved)

LEMMA ContextsOK ==
  /\ ReadsLeaves /\ OneVersionInContext <=> \A a \in Agent : Active(a) => ContextOK(agent[a])
  /\ (ReadsLeaves /\ OneVersionInContext)' <=> \A a \in Agent : Active(a)' => ContextOK(agent[a])'
<1>1. ReadsLeaves /\ OneVersionInContext <=> \A a \in Agent : Active(a) => ContextOK(agent[a])
  BY DEF ReadsLeaves, OneVersionInContext, ContextOK, Active
<1>2. (ReadsLeaves /\ OneVersionInContext)' <=> \A a \in Agent : Active(a)' => ContextOK(agent[a])'
  BY DEF ReadsLeaves, OneVersionInContext, ContextOK, Active
<1> QED BY <1>1, <1>2

LEMMA GrownContexts ==
  ASSUME TInv, CInv, NEW n, NEW b, Grown(n, b), b # 0 => Reading(b) \subseteq moved', moved \subseteq moved',
         \A a \in Agent : Active(a)' => /\ Active(a) /\ agent'[a].run = agent[a].run
                                        /\ agent'[a].context = agent[a].context
                                        /\ agent'[a].pc = "read" => agent[a].pc = "read"
  PROVE  (ReadsLeaves /\ OneVersionInContext)'
<1>1. RowsType /\ RunsType /\ ChainsBack
  BY DEF TInv, CInv
<1> SUFFICES ASSUME NEW a \in Agent, Active(a)' PROVE ContextOK(agent[a])'
  BY ContextsOK
<1>2. /\ Active(a) /\ agent'[a].run = agent[a].run /\ agent'[a].context = agent[a].context
      /\ agent'[a].pc = "read" => agent[a].pc = "read"
  OBVIOUS
<1>3. ContextOK(agent[a])
  BY <1>2, ContextsOK DEF CInv
<1>4. Items(agent[a].context) \subseteq DOMAIN row /\ \A m \in DOMAIN agent[a].context : agent[a].context[m] \in DOMAIN row
  BY <1>1, <1>2 DEF RunsType, Active, Idle, Running, Items
<1>5. ASSUME agent'[a].pc = "read", agent'[a].run \notin moved', NEW e \in Items(agent[a].context) PROVE Leaf(e)'
  <2>1. Leaf(e)
    BY <1>2, <1>3, <1>5 DEF ContextOK
  <2>2. e # b
    <3>1. 0 \notin DOMAIN row
      BY <1>1, NoRowZero
    <3> QED BY <1>2, <1>4, <1>5, <3>1 DEF Reading
  <2> QED BY <1>1, <1>4, <2>1, <2>2, LeavesKept
<1>6. ASSUME NEW k \in DOMAIN agent[a].context, NEW m \in DOMAIN agent[a].context, k # m
      PROVE  /\ agent[a].context[k] # agent[a].context[m]
             /\ Akin(agent[a].context[k], agent[a].context[m])' => agent[a].run \in moved'
  <2>1. /\ agent[a].context[k] # agent[a].context[m]
        /\ Akin(agent[a].context[k], agent[a].context[m]) => agent[a].run \in moved
    BY <1>3, <1>6 DEF ContextOK
  <2> DEFINE e == agent[a].context[k]
             f == agent[a].context[m]
  <2>2. e \in DOMAIN row /\ f \in DOMAIN row
    BY <1>4
  <2> QED BY <1>1, <2>1, <2>2, AkinBack
<1> QED BY <1>2, <1>5, <1>6 DEF ContextOK

\* Agents move, rows stay: what holds of a context goes on.
LEMMA SameRows ==
  ASSUME row' = row, moved' = moved
  PROVE  /\ ChainsBack /\ OneLeaf => (ChainsBack /\ OneLeaf)'
         /\ \A e : Leaf(e)' <=> Leaf(e)
         /\ \A e, f : Akin(e, f)' <=> Akin(e, f)
<1>1. \A e : Before(e)' = Before(e)
  BY DEF Before, Copied
<1>2. \A e : Leaf(e)' <=> Leaf(e)
  BY <1>1 DEF Leaf
<1>3. \A e, f : Akin(e, f)' <=> Akin(e, f)
  BY <1>1 DEF Akin
<1>4. ChainsBack => ChainsBack'
  BY <1>1 DEF ChainsBack
<1>5. OneLeaf => OneLeaf'
  BY <1>2, <1>3 DEF OneLeaf
<1> QED BY <1>2, <1>3, <1>4, <1>5

LEMMA ReadScopeContexts ==
  ASSUME TInv, CInv, NEW a \in Agent, ReadScope(a)
  PROVE  (ReadsLeaves /\ OneVersionInContext)'
<1> DEFINE q == agent[a]
<1>1. /\ q.pc = "read" /\ q \in Running /\ Active(a)
      /\ row' = row /\ moved' = moved
  BY DEF ReadScope, TInv, RunsType, Active, Idle
<1>2. RowsType /\ RunsType /\ ChainsBack /\ OneLeaf
  BY DEF TInv, CInv
<1>3. PICK s \in Found(Searchable(a, Scopes[q.scope])) :
        agent' = [agent EXCEPT ![a] =
             IF Enough(Merged(q.context, s)) \/ q.scope = Len(Scopes)
             THEN [q EXCEPT !.context = Merged(q.context, s), !.pc = "act"]
             ELSE [q EXCEPT !.context = Merged(q.context, s), !.scope = q.scope + 1]]
  BY DEF ReadScope
<1> DEFINE c == Merged(q.context, s)
<1>4. /\ agent'[a].context = c /\ agent'[a].run = q.run
      /\ \A b \in Agent \ {a} : agent'[b] = agent[b]
  <2>1. agent'[a] \in {[q EXCEPT !.context = c, !.pc = "act"], [q EXCEPT !.context = c, !.scope = q.scope + 1]}
    BY <1>2, <1>3 DEF RunsType
  <2> QED BY <1>1, <1>2, <1>3, <2>1 DEF RunsType, Running
<1>5. /\ s \in Seq(DOMAIN row) /\ \A m, n \in 1..Len(s) : s[m] = s[n] => m = n
      /\ \A e \in Items(s) : e \in DOMAIN row /\ row[e].current
  <2>1. \A e \in Searchable(a, Scopes[q.scope]) : e \in DOMAIN row /\ row[e].current
    BY DEF Searchable
  <2>2. Searchable(a, Scopes[q.scope]) \subseteq DOMAIN row
    BY <2>1
  <2>3. /\ s \in Seq(Searchable(a, Scopes[q.scope])) /\ Items(s) \subseteq Searchable(a, Scopes[q.scope])
        /\ \A m, n \in 1..Len(s) : s[m] = s[n] => m = n
    BY <1>3, FoundList
  <2>4. s \in Seq(DOMAIN row)
    BY <2>2, <2>3, SeqMonotonic
  <2> QED BY <2>1, <2>3, <2>4
<1>6. q.context \in Seq(DOMAIN row)
  BY <1>1 DEF Running
<1>7. /\ \A n \in DOMAIN c : \/ n \in DOMAIN q.context /\ c[n] = q.context[n]
                             \/ n \notin DOMAIN q.context /\ c[n] \in Items(s) \ Items(q.context)
      /\ \A m, n \in DOMAIN c : m # n /\ m \notin DOMAIN q.context /\ n \notin DOMAIN q.context => c[m] # c[n]
  BY <1>5, <1>6, MergedList
<1> HIDE DEF c
<1>8. ContextOK(q)
  BY <1>1, ContextsOK DEF CInv
<1>9. \A e \in Items(s) : Leaf(e)
  BY <1>2, <1>5, CurrentIsLeaf
<1>10. \A n \in DOMAIN q.context : q.context[n] \in Items(q.context) /\ q.context[n] \in DOMAIN row
  <2>1. q.context \in [1..Len(q.context) -> DOMAIN row] /\ DOMAIN q.context = 1..Len(q.context)
    BY <1>6, LenProperties
  <2> QED BY <2>1 DEF Items
<1>11. \A n \in DOMAIN c : c[n] \in DOMAIN row /\ (q.run \notin moved => Leaf(c[n]))
  BY <1>1, <1>5, <1>7, <1>8, <1>9, <1>10 DEF ContextOK
<1>12. ASSUME NEW m \in DOMAIN c, NEW n \in DOMAIN c, m # n
       PROVE  c[m] # c[n] /\ (Akin(c[m], c[n]) => q.run \in moved)
  <2>1. c[m] # c[n]
    <3>1. CASE m \in DOMAIN q.context /\ n \in DOMAIN q.context
      <4>1. c[m] = q.context[m] /\ c[n] = q.context[n]
        BY <1>7, <3>1
      <4> QED BY <1>8, <1>12, <3>1, <4>1 DEF ContextOK
    <3>2. CASE m \in DOMAIN q.context /\ n \notin DOMAIN q.context
      BY <1>7, <1>10, <3>2
    <3>3. CASE m \notin DOMAIN q.context /\ n \in DOMAIN q.context
      BY <1>7, <1>10, <3>3
    <3>4. CASE m \notin DOMAIN q.context /\ n \notin DOMAIN q.context
      BY <1>7, <1>12, <3>4
    <3> QED BY <3>1, <3>2, <3>3, <3>4
  <2>2. Akin(c[m], c[n]) => q.run \in moved
    BY <1>2, <1>11, <2>1 DEF OneLeaf
  <2> QED BY <2>1, <2>2
<1>13. \A e \in Items(c) : q.run \notin moved => Leaf(e)
  BY <1>11 DEF Items
<1>14. ASSUME NEW b \in Agent, Active(b)' PROVE ContextOK(agent[b])'
  <2>1. CASE b = a
    <3>1. /\ \A e : Leaf(e)' <=> Leaf(e)
          /\ \A e, f : Akin(e, f)' <=> Akin(e, f)
      BY <1>1, SameRows
    <3>2. PICK d : d = c
      OBVIOUS
    <3>3. agent'[b].context = d /\ agent'[b].run = q.run
      BY <1>4, <2>1, <3>2
    <3>4. \A e \in Items(d) : q.run \notin moved' => Leaf(e)'
      BY <1>1, <1>13, <3>1, <3>2
    <3>5. \A m, n \in DOMAIN d : m # n => d[m] # d[n] /\ (Akin(d[m], d[n])' => q.run \in moved')
      BY <1>1, <1>12, <3>1, <3>2
    <3> QED BY <3>3, <3>4, <3>5 DEF ContextOK
  <2>2. CASE b # a
    <3>1. agent'[b] = agent[b] /\ Active(b)
      BY <1>4, <1>14, <2>2 DEF Active
    <3>2. ContextOK(agent[b])
      BY <3>1, ContextsOK DEF CInv
    <3> QED BY <1>1, <3>1, <3>2, SameRows DEF ContextOK
  <2> QED BY <2>1, <2>2
<1> QED BY <1>14, ContextsOK

LEMMA StartContexts ==
  ASSUME TInv, CInv, NEW a \in Agent, Start(a)
  PROVE  (ReadsLeaves /\ OneVersionInContext)'
<1>1. /\ agent' = [agent EXCEPT ![a] = [pc |-> "read", run |-> runs + 1, scope |-> 1, context |-> << >>, linked |-> << >>]]
      /\ row' = row /\ moved' = moved
  BY DEF Start
<1>2. agent'[a].context = << >> /\ \A b \in Agent \ {a} : agent'[b] = agent[b]
  BY <1>1 DEF TInv, RunsType
<1>3. ASSUME NEW b \in Agent, Active(b)' PROVE ContextOK(agent[b])'
  <2>1. CASE b = a
    <3>1. Items(agent'[b].context) = {} /\ DOMAIN agent'[b].context = {}
      BY <1>2, <2>1 DEF Items
    <3> QED BY <3>1 DEF ContextOK
  <2>2. CASE b # a
    <3>1. agent'[b] = agent[b] /\ Active(b)
      BY <1>2, <1>3, <2>2 DEF Active
    <3>2. ContextOK(agent[b])
      BY <3>1, ContextsOK DEF CInv
    <3> QED BY <1>1, <3>1, <3>2, SameRows DEF ContextOK
  <2> QED BY <2>1, <2>2
<1> QED BY <1>3, ContextsOK

\* Contexts that shrink, or stay, in a step that leaves rows alone.
LEMMA SameContexts ==
  ASSUME CInv, row' = row, moved' = moved,
         \A b \in Agent : Active(b)' => /\ Active(b) /\ agent'[b].run = agent[b].run
                                        /\ agent'[b].context = agent[b].context
                                        /\ agent'[b].pc = "read" => agent[b].pc = "read"
  PROVE  (ReadsLeaves /\ OneVersionInContext)'
<1>1. ASSUME NEW b \in Agent, Active(b)' PROVE ContextOK(agent[b])'
  <2>1. ContextOK(agent[b]) /\ agent'[b].run = agent[b].run /\ agent'[b].context = agent[b].context
    BY <1>1, ContextsOK DEF CInv
  <2>2. agent'[b].pc = "read" => agent[b].pc = "read"
    BY <1>1
  <2> QED BY <2>1, <2>2, SameRows DEF ContextOK
<1> QED BY <1>1, ContextsOK

LEMMA NextChains ==
  ASSUME TInv, CInv, [Next]_vars
  PROVE  CInv'
<1>1. RowsType /\ RunsType /\ ChainsBack /\ OneLeaf
  BY DEF TInv, CInv
<1>2. CASE row' = row /\ moved' = moved
  <2>1. (ChainsBack /\ OneLeaf)'
    BY <1>1, <1>2, SameRows
  <2>2. (ReadsLeaves /\ OneVersionInContext)'
    <3>1. CASE \E a \in Agent : Start(a) \/ ReadScope(a)
      BY <3>1, StartContexts, ReadScopeContexts
    <3>2. CASE UNCHANGED agent
      BY <1>2, <3>2, SameContexts DEF Active
    <3>3. ASSUME NEW a \in Agent, Stop(a) \/ LogRun(a) PROVE (ReadsLeaves /\ OneVersionInContext)'
      <4>1. agent' = [agent EXCEPT ![a] = Idle]
        BY <3>3 DEF Stop, LogRun
      <4>2. \A b \in Agent : Active(b)' => agent'[b] = agent[b]
        BY <1>1, <4>1 DEF RunsType, Active, Idle
      <4> QED BY <1>2, <4>2, SameContexts DEF Active
    <3>4. ASSUME NEW a \in Agent, Act(a) \/ LinkItem(a) \/ Evaluate(a) PROVE (ReadsLeaves /\ OneVersionInContext)'
      <4>1. /\ agent' \in {[agent EXCEPT ![a].pc = "save"], [agent EXCEPT ![a].pc = "log"],
                           [agent EXCEPT ![a].linked = Append(@, ToLink(agent[a])[Len(agent[a].linked) + 1])]}
            /\ agent[a].pc \in {"act", "link"}
        BY <3>4 DEF Act, LinkItem, Evaluate
      <4>2. agent[a] \in Running /\ Active(a)
        BY <1>1, <4>1 DEF RunsType, Idle, Active
      <4>3. /\ agent'[a].run = agent[a].run /\ agent'[a].context = agent[a].context
            /\ agent'[a].pc # "read" /\ \A b \in Agent \ {a} : agent'[b] = agent[b]
        BY <1>1, <4>1, <4>2 DEF RunsType, Running
      <4> QED BY <1>2, <4>2, <4>3, SameContexts DEF Active
    <3>5. ASSUME NEW q \in posts, Insert(q) PROVE (ReadsLeaves /\ OneVersionInContext)'
      <4>1. agent' = [b \in Agent |-> IF Waits(b, q) THEN [agent[b] EXCEPT !.pc = "link"] ELSE agent[b]]
        BY <3>5 DEF Insert
      <4>2. ASSUME NEW b \in Agent, Active(b)'
            PROVE  /\ Active(b) /\ agent'[b].run = agent[b].run /\ agent'[b].context = agent[b].context
                   /\ agent'[b].pc = "read" => agent[b].pc = "read"
        <5>1. CASE Waits(b, q)
          <6>1. agent'[b] = [agent[b] EXCEPT !.pc = "link"] /\ agent[b] \in Running /\ Active(b)
            BY <1>1, <4>1, <5>1 DEF Waits, RunsType, Idle, Active
          <6> QED BY <6>1 DEF Running
        <5>2. CASE ~Waits(b, q)
          BY <4>1, <4>2, <5>2 DEF Active
        <5> QED BY <5>1, <5>2
      <4> QED BY <1>2, <4>2, SameContexts
    <3>6. ASSUME NEW q \in posts, RefusePost(q) PROVE (ReadsLeaves /\ OneVersionInContext)'
      <4>1. agent' = [b \in Agent |-> IF Waits(b, q) THEN Idle ELSE agent[b]]
        BY <3>6 DEF RefusePost
      <4>2. \A b \in Agent : Active(b)' => agent'[b] = agent[b]
        BY <4>1 DEF Active, Idle
      <4> QED BY <1>2, <4>2, SameContexts DEF Active
    <3>7. \A q \in posts : Assess(q) => UNCHANGED agent
      BY DEF Assess
    <3>8. Added \/ (\E e \in DOMAIN row : Succeeded(e) \/ Archive(e)) => UNCHANGED agent
      <4>1. \A e, p, t : Continue(e, p, t) => UNCHANGED agent
        BY DEF Continue
      <4>2. \A e : Succeeded(e) => \E p, t : Continue(e, p, t)
        BY DEF Succeeded, Revise, ReviseByImport, Restore
      <4>3. Added => UNCHANGED agent
        BY DEF Added, Import, Compact
      <4> QED BY <4>1, <4>2, <4>3 DEF Archive
    <3>9. \A e \in DOMAIN row, p \in Project : Assign(e, p) => UNCHANGED agent
      BY DEF Assign
    <3>10. \A p \in exists : DeleteProject(p) => UNCHANGED agent
      BY DEF DeleteProject
    <3>11. UNCHANGED vars => UNCHANGED agent
      BY DEF vars
    <3> QED BY <3>1, <3>2, <3>3, <3>4, <3>5, <3>6, <3>7, <3>8, <3>9, <3>10, <3>11 DEF Next, AgentStep, Added, Succeeded
  <2> QED BY <2>1, <2>2 DEF CInv
<1>3. CASE /\ \E n, b : Grown(n, b) /\ (b # 0 => Reading(b) \subseteq moved')
           /\ moved \subseteq moved'
           /\ \A a \in Agent : Active(a)' => /\ Active(a) /\ agent'[a].run = agent[a].run
                                             /\ agent'[a].context = agent[a].context
                                             /\ agent'[a].pc = "read" => agent[a].pc = "read"
  <2>1. PICK n, b : Grown(n, b) /\ (b # 0 => Reading(b) \subseteq moved')
    BY <1>3
  <2>2. (ChainsBack /\ OneLeaf)'
    BY <1>1, <2>1, GrownChains
  <2>3. (ReadsLeaves /\ OneVersionInContext)'
    BY <1>3, <2>1, GrownContexts
  <2> QED BY <2>2, <2>3 DEF CInv
<1>4. ChainsBack
  BY DEF CInv
<1> QED BY <1>2, <1>3, <1>4, NextGrows

LEMMA InitChains == Init => CInv
<1> SUFFICES ASSUME Init PROVE CInv
  OBVIOUS
<1>1. \A e \in DOMAIN row : row[e].supersedes = 0 /\ row[e].copyOf = 0 /\ Before(e) = 0
  BY SeedAssumption DEF Init, Before
<1>2. ChainsBack
  BY <1>1 DEF ChainsBack
<1>3. OneLeaf
  <2> SUFFICES ASSUME NEW e \in DOMAIN row, NEW f \in DOMAIN row, Akin(e, f) PROVE e = f
    BY DEF OneLeaf
  <2>1. \A x \in DOMAIN row : Before(x) # 0 => (x \in {e} <=> Before(x) \in {e})
    BY <1>1
  <2>2. f \in {e}
    BY ZenonT(60), <2>1 DEF Akin
  <2> QED BY <2>2
<1>4. ReadsLeaves /\ OneVersionInContext
  BY DEF Init, ReadsLeaves, OneVersionInContext, Idle
<1> QED BY <1>2, <1>3, <1>4 DEF CInv

LEMMA ChainsInvariance == Spec => []CInv
<1>1. TInv /\ CInv /\ [Next]_vars => CInv'
  BY NextChains
<1> QED BY <1>1, InitChains, TypeInvariance, PTL DEF Spec

\* Reading scope after scope while others revise, restore and assign: no entry
\* enters a context twice, and two versions of one entry only if it was
\* replaced while the run was reading.  Versions of one entry are told apart
\* from those of the second chain that restoring a moved original begins.
THEOREM OneVersionIsRead == Spec => []OneVersionInContext
<1>1. CInv => OneVersionInContext
  BY DEF CInv
<1> QED BY <1>1, ChainsInvariance, PTL

-----------------------------------------------------------------------------
(* Provenance.                                                              *)

\* An entry is a version of itself, versions are rows, and rows that are
\* added take none away; a row that supersedes b has b's versions.
LEMMA VersionsOfSelf == \A e \in DOMAIN row : e \in Versions(e) /\ Versions(e) \subseteq DOMAIN row
BY DEF Versions

LEMMA VersionsKept ==
  ASSUME RowsType, ChainsBack, NEW n, NEW b, Grown(n, b)
  PROVE  /\ \A e \in DOMAIN row : \A f : f \in Versions(e) => f \in Versions(e)'
         /\ \A f, s : n \in DOMAIN row' /\ s \in DOMAIN row /\ row'[n].supersedes = s /\ f \in Versions(s)
              => f \in Versions(n)'
<1>1. DOMAIN row \subseteq DOMAIN row' /\ 0 \notin DOMAIN row /\ b \in DOMAIN row \cup {0}
  BY NoRowZero DEF Grown
<1>2. \A x \in DOMAIN row : /\ row'[x].supersedes = row[x].supersedes
                            /\ row[x].supersedes # 0 => row[x].supersedes \in DOMAIN row
  BY DEF Grown, ChainsBack
<1>3. ASSUME NEW e \in DOMAIN row, NEW f \in Versions(e), NEW S \in SUBSET DOMAIN row', e \in S,
             \A x \in S : row'[x].supersedes # 0 => row'[x].supersedes \in S
      PROVE  f \in S
  <2>1. S \cap DOMAIN row \in SUBSET DOMAIN row /\ e \in S \cap DOMAIN row
    BY <1>3
  <2>2. \A x \in S \cap DOMAIN row : row[x].supersedes # 0 => row[x].supersedes \in S \cap DOMAIN row
    BY <1>2, <1>3
  <2>3. f \in S \cap DOMAIN row
    BY <2>1, <2>2 DEF Versions
  <2> QED BY <2>3
<1>4. \A e \in DOMAIN row : \A f : f \in Versions(e) => f \in DOMAIN row'
  BY <1>1, VersionsOfSelf
<1>5. \A e \in DOMAIN row : \A f : f \in Versions(e) => f \in Versions(e)'
  BY <1>3, <1>4 DEF Versions
<1>6. ASSUME n \in DOMAIN row', NEW s \in DOMAIN row, row'[n].supersedes = s, NEW f \in Versions(s)
      PROVE  f \in Versions(n)'
  <2>1. s # 0
    BY <1>1, <1>6
  <2>2. ASSUME NEW S \in SUBSET DOMAIN row', n \in S,
               \A x \in S : row'[x].supersedes # 0 => row'[x].supersedes \in S
        PROVE  f \in S
    <3>1. s \in S
      BY <1>6, <2>1, <2>2
    <3> QED BY <1>3, <1>6, <2>2, <3>1
  <2>3. f \in DOMAIN row'
    BY <1>4, <1>6
  <2> QED BY <2>2, <2>3 DEF Versions
<1> QED BY <1>5, <1>6

\* The link l says the truth.
TrueLink(l) == \E r \in 1..runs : result[r] \in Versions(l[1]) /\ \E e \in Versions(l[2]) : <<r, e>> \in access

\* A link stays true when rows grow, runs are added and results filled in.
LEMMA LinkStaysTrue ==
  ASSUME TInv, ChainsBack, NEW l \in links, TrueLink(l),
         (row' = row) \/ (\E n, b : Grown(n, b)),
         access \subseteq access', runs' \in Nat, runs <= runs',
         \A r \in 1..runs : result[r] # 0 => result'[r] = result[r]
  PROVE  TrueLink(l)'
<1>1. RowsType /\ RunsType /\ runs \in Nat /\ l[1] \in DOMAIN row /\ l[2] \in DOMAIN row /\ 0 \notin DOMAIN row
  <2>1. RowsType /\ RunsType
    BY DEF TInv
  <2>2. links \subseteq (DOMAIN row) \X (DOMAIN row) /\ runs \in Nat
    BY <2>1, Constants DEF RowsType, RunsType
  <2> QED BY <2>1, <2>2, NoRowZero
<1>2. PICK r \in 1..runs : result[r] \in Versions(l[1]) /\ \E e \in Versions(l[2]) : <<r, e>> \in access
  BY DEF TrueLink
<1>3. PICK e \in Versions(l[2]) : <<r, e>> \in access
  BY <1>2
<1>4. \A d \in DOMAIN row : \A f : f \in Versions(d) => f \in Versions(d)'
  <2>1. CASE row' = row
    BY <2>1 DEF Versions
  <2>2. CASE \E n, b : Grown(n, b)
    BY <1>1, <2>2, VersionsKept
  <2> QED BY <2>1, <2>2
<1>5. result[r] \in DOMAIN row
  BY <1>1, <1>2, VersionsOfSelf
<1>6. r \in 1..runs' /\ result'[r] = result[r] /\ <<r, e>> \in access'
  BY <1>1, <1>2, <1>3, <1>5
<1>7. e \in Versions(l[2])' /\ result'[r] \in Versions(l[1])'
  BY <1>1, <1>2, <1>3, <1>4, <1>6
<1> QED BY <1>6, <1>7 DEF TrueLink

\* The inherited links of a revision or a restoration say what those of the
\* closed leaf say.
LEMMA SucceededProvenance ==
  ASSUME TInv, CInv, PInv, NEW e \in DOMAIN row, Succeeded(e), \E n, b : Grown(n, b), NEW l \in links'
  PROVE  TrueLink(l)'
<1>1. RowsType /\ RunsType /\ ChainsBack /\ runs \in Nat /\ 0 \notin DOMAIN row
  BY NoRowZero, Constants DEF TInv, CInv, RunsType
<1>2. PICK p \in Project \cup {None}, t \in Text \cup {None} : Continue(e, p, t)
  BY <1>1, SucceededContinues
<1>3. PICK v \in Row : Continues(e, v) /\ v.supersedes = e /\ v.copyOf = 0
  BY <1>1, <1>2, ContinueContinues
<1>4. PICK n : n = NewId
  OBVIOUS
<1>5. /\ n \notin DOMAIN row /\ n # 0 /\ DOMAIN row' = DOMAIN row \cup {n} /\ row'[n] = v
  BY <1>1, <1>3, <1>4, ContinuesRows
<1>6. PICK b : Grown(n, b)
  <2>1. PICK m, b : Grown(m, b)
    OBVIOUS
  <2>2. m = n
    BY <1>5, <2>1 DEF Grown
  <2> QED BY <2>1, <2>2
<1>7. UNCHANGED <<access, runs, result>> /\ links' = links \cup Inherited(e, n)
  BY <1>2, <1>4 DEF Continue
<1>8. /\ \A d \in DOMAIN row : \A f : f \in Versions(d) => f \in Versions(d)'
      /\ \A f : f \in Versions(e) => f \in Versions(n)'
  BY <1>1, <1>3, <1>5, <1>6, VersionsKept
<1>9. \A k \in links : TrueLink(k) /\ k[1] \in DOMAIN row /\ k[2] \in DOMAIN row
  BY <1>1 DEF PInv, DerivedFromWasRead, TrueLink, RowsType
<1>10. CASE l \in links
  BY <1>1, <1>6, <1>7, <1>9, <1>10, LinkStaysTrue
<1>11. ASSUME NEW k \in links, k[1] = e, l = <<n, k[2]>> PROVE TrueLink(l)'
  <2>1. PICK r \in 1..runs : result[r] \in Versions(e) /\ \E f \in Versions(k[2]) : <<r, f>> \in access
    BY <1>9, <1>11 DEF TrueLink
  <2>2. PICK f \in Versions(k[2]) : <<r, f>> \in access
    BY <2>1
  <2>3. l[1] = n /\ l[2] = k[2]
    BY <1>11
  <2>4. result'[r] \in Versions(l[1])' /\ f \in Versions(l[2])'
    BY <1>7, <1>8, <1>9, <2>1, <2>2, <2>3
  <2> QED BY <1>7, <2>1, <2>2, <2>4 DEF TrueLink
<1>12. ASSUME NEW k \in links, k[2] = e, l = <<k[1], n>> PROVE TrueLink(l)'
  <2>1. PICK r \in 1..runs : result[r] \in Versions(k[1]) /\ \E f \in Versions(e) : <<r, f>> \in access
    BY <1>9, <1>12 DEF TrueLink
  <2>2. PICK f \in Versions(e) : <<r, f>> \in access
    BY <2>1
  <2>3. l[1] = k[1] /\ l[2] = n
    BY <1>12
  <2>4. result'[r] \in Versions(l[1])' /\ f \in Versions(l[2])'
    BY <1>7, <1>8, <1>9, <2>1, <2>2, <2>3
  <2> QED BY <1>7, <2>1, <2>2, <2>4 DEF TrueLink
<1> QED BY <1>7, <1>10, <1>11, <1>12 DEF Inherited

\* The new link leads from the result of the run to what the run has read.
LEMMA LinkItemProvenance ==
  ASSUME TInv, LInv, CInv, PInv, NEW a \in Agent, LinkItem(a), NEW l \in links'
  PROVE  TrueLink(l)'
<1> DEFINE q == agent[a]
           source == ToLink(q)[Len(q.linked) + 1]
<1>1. /\ q.pc = "link" /\ q \in Running /\ Active(a) /\ Len(q.linked) < Len(ToLink(q))
      /\ links' = links \cup {<<result[q.run], source>>}
      /\ UNCHANGED <<row, access, runs, result>>
  BY DEF LinkItem, TInv, RunsType, Active, Idle
<1>2. RowsType /\ RunsType /\ ResultsFollowPosts /\ ContextWasRead /\ runs \in Nat
  BY Constants DEF TInv, LInv, RunsType
<1>3. \A k \in links : TrueLink(k)
  BY DEF PInv, DerivedFromWasRead, TrueLink
<1>4. \A k \in links : TrueLink(k)'
  BY <1>1, <1>2, <1>3, LinkStaysTrue DEF CInv
<1>5. /\ q.context \in Seq(DOMAIN row) /\ q.linked \in Seq(DOMAIN row) /\ q.run \in 1..runs
      /\ result[q.run] \in DOMAIN row
  BY <1>1, <1>2 DEF RunsType, ResultsFollowPosts, Running
<1>6. source \in Items(q.context) /\ source \in DOMAIN row
  <2>1. /\ ToLink(q) \in Seq(DOMAIN row) /\ Len(ToLink(q)) \in Nat /\ Len(ToLink(q)) <= Len(q.context)
        /\ Len(q.context) \in Nat /\ \A n \in 1..Len(ToLink(q)) : ToLink(q)[n] = q.context[n]
    BY <1>5, ToLinkList
  <2>2. Len(q.linked) + 1 \in 1..Len(ToLink(q)) /\ Len(q.linked) + 1 \in 1..Len(q.context)
    BY <1>1, <1>5, <2>1
  <2>3. DOMAIN q.context = 1..Len(q.context)
    BY <1>5
  <2>4. source \in DOMAIN row
    BY <2>1, <2>2, ElementOfSeq
  <2> QED BY <2>1, <2>2, <2>3, <2>4 DEF Items
<1> HIDE DEF source
<1>7. <<q.run, source>> \in access
  BY <1>1, <1>2, <1>6 DEF ContextWasRead
<1>8. CASE l = <<result[q.run], source>>
  <2>1. l[1] = result[q.run] /\ l[2] = source
    BY <1>8
  <2>2. result[q.run] \in Versions(l[1]) /\ source \in Versions(l[2])
    BY <1>5, <1>6, <2>1, VersionsOfSelf
  <2>3. TrueLink(l)
    BY <1>5, <1>7, <2>2 DEF TrueLink
  <2> QED BY <1>1, <2>3 DEF TrueLink, Versions
<1> QED BY <1>1, <1>4, <1>8

LEMMA NextProvenance ==
  ASSUME TInv, TInv', LInv, CInv, PInv, [Next]_vars
  PROVE  PInv'
<1>1. RowsType /\ RunsType /\ ResultsFollowPosts /\ ChainsBack /\ runs \in Nat /\ runs' \in Nat
  BY Constants DEF TInv, CInv, RunsType
<1>2. \A l \in links : TrueLink(l)
  BY DEF PInv, DerivedFromWasRead, TrueLink
<1>3. (row' = row) \/ (\E n, b : Grown(n, b))
  BY <1>1, NextGrows
<1>4. ASSUME links' \subseteq links, access \subseteq access', runs <= runs',
             \A r \in 1..runs : result[r] # 0 => result'[r] = result[r]
      PROVE  PInv'
  <2>1. \A l \in links' : TrueLink(l)'
    BY <1>1, <1>2, <1>3, <1>4, LinkStaysTrue
  <2> QED BY <2>1 DEF PInv, DerivedFromWasRead, TrueLink
<1>5. ASSUME NEW a \in Agent, LinkItem(a) PROVE PInv'
  <2>1. \A l \in links' : TrueLink(l)'
    BY <1>5, LinkItemProvenance
  <2> QED BY <2>1 DEF PInv, DerivedFromWasRead, TrueLink
<1>6. ASSUME NEW e \in DOMAIN row, Succeeded(e) PROVE PInv'
  <2>1. \E n, b : Grown(n, b)
    <3>1. PICK v \in Row : Continues(e, v)
      BY <1>1, <1>6, SucceededContinues, ContinueContinues
    <3>2. row' # row
      BY <1>1, <3>1, ContinuesRows
    <3> QED BY <1>3, <3>2
  <2>2. \A l \in links' : TrueLink(l)'
    BY <1>6, <2>1, SucceededProvenance
  <2> QED BY <2>2 DEF PInv, DerivedFromWasRead, TrueLink
<1>7. ASSUME NEW a \in Agent, Start(a) PROVE PInv'
  <2>1. UNCHANGED <<links, access>> /\ runs' = runs + 1 /\ result' = Append(result, 0)
    BY <1>7 DEF Start
  <2>2. result \in Seq(DOMAIN row \cup {0}) /\ Len(result) = runs
    BY <1>1 DEF RunsType
  <2>3. \A r \in 1..runs : result'[r] = result[r]
    BY <2>1, <2>2, AppendProperties
  <2>4. runs <= runs'
    BY <1>1, <2>1
  <2> QED BY <1>4, <2>1, <2>3, <2>4
<1>8. ASSUME NEW q \in posts, Insert(q) PROVE PInv'
  <2>1. UNCHANGED <<links, access, runs>> /\ result' = [result EXCEPT ![q.run] = NewId]
    BY <1>8 DEF Insert
  <2>2. result[q.run] = 0
    BY <1>1 DEF ResultsFollowPosts
  <2>3. \A r \in 1..runs : result[r] # 0 => result'[r] = result[r]
    BY <1>1, <2>1, <2>2 DEF RunsType
  <2> QED BY <1>1, <1>4, <2>1, <2>3
<1>9. CASE UNCHANGED <<links, runs, result>> /\ access \subseteq access'
  BY SMTT(30), <1>1, <1>4, <1>9
<1>10. \A a \in Agent : Stop(a) \/ ReadScope(a) \/ Act(a) \/ Evaluate(a) \/ LogRun(a) =>
         UNCHANGED <<links, runs, result>> /\ access \subseteq access'
  BY DEF Stop, ReadScope, Act, Evaluate, LogRun
<1>11. \A q \in posts : Assess(q) \/ RefusePost(q) => UNCHANGED <<links, runs, result>> /\ access \subseteq access'
  BY DEF Assess, RefusePost
<1>12. Added \/ (\E e \in DOMAIN row : Archive(e)) => UNCHANGED <<links, runs, result>> /\ access \subseteq access'
  BY DEF Archive, Added, Import, Compact
<1>13. \A e \in DOMAIN row, p \in Project : Assign(e, p) => UNCHANGED <<links, runs, result>> /\ access \subseteq access'
  BY DEF Assign
<1>14. \A p \in exists : DeleteProject(p) => UNCHANGED <<links, runs, result>> /\ access \subseteq access'
  BY DEF DeleteProject
<1>15. UNCHANGED vars => UNCHANGED <<links, runs, result>> /\ access \subseteq access'
  BY DEF vars
<1> QED BY <1>5, <1>6, <1>7, <1>8, <1>9, <1>10, <1>11, <1>12, <1>13, <1>14, <1>15 DEF Next, AgentStep, Added, Succeeded

LEMMA InitProvenance == Init => PInv
BY DEF Init, PInv, DerivedFromWasRead

\* Provenance says what it claims: however often the result of a run and its
\* sources are revised since, and wherever the run stopped, the link leads
\* from what a run saved to what that run had read.
THEOREM ProvenanceWasRead == Spec => []DerivedFromWasRead
<1>1. TInv /\ TInv' /\ LInv /\ CInv /\ PInv /\ [Next]_vars => PInv'
  BY NextProvenance
<1>2. PInv => DerivedFromWasRead
  BY DEF PInv
<1> QED BY <1>1, <1>2, InitProvenance, TypeInvariance, LogsInvariance, ChainsInvariance, PTL DEF Spec
=============================================================================
