-------------------------- MODULE OfflineQueueProofs --------------------------
(***************************************************************************)
(* What the scripts of the project root pack never lose, for any number of *)
(* writes and of passes, whoever dies when.                                *)
(***************************************************************************)
EXTENDS OfflineQueue, TLAPS

\* A write that the scripts still owe to the service.
Safe(i) ==
  writer[i] = "done" /\ stored[i] = 0 /\ i \notin overlapped \cup refused

\* It is in the queue, whatever a pass has done so far.
Queued == \A i \in Item : Safe(i) => i \in Lines(queue)

\* A pass that runs has it still to post, or has put it back; it is about to
\* empty the queue only if no such write is left.
PassOwes ==
  \A i \in Item, s \in Pass : Safe(i) =>
    /\ pass[s] # "truncate"
    /\ pass[s] = "move" => i \in Lines(remaining)
    /\ pass[s] \in {"line", "keep"} => i \in Lines(left[s]) \cup Lines(remaining)

\* Two passes at once leave no such write.
PassAlone ==
  \A i \in Item, s \in Pass, r \in Pass : Safe(i) /\ pass[s] # "idle" /\ pass[r] # "idle" => s = r

\* A file open beside a pass, or replaced while open, is an overlap.
OpenNoted ==
  \A i \in Item : (writer[i] = "append" /\ PassRuns) \/ i \in unlinked => i \in overlapped

\* Lines come from scripts that have ended well; a failed line is there.
LinesDone ==
  /\ \A i \in Lines(queue) \cup Lines(remaining) : writer[i] = "done"
  /\ \A s \in Pass : \A i \in Lines(left[s]) : writer[i] = "done"
  /\ \A s \in Pass : pass[s] = "keep" => left[s] # <<>>

IInv == TypeOK /\ Queued /\ PassOwes /\ PassAlone /\ OpenNoted /\ LinesDone

-----------------------------------------------------------------------------
(* Lines of a file.                                                         *)

LEMMA LinesAppend ==
  ASSUME NEW q \in Seq(Item), NEW x \in Item
  PROVE  Append(q, x) \in Seq(Item) /\ Lines(Append(q, x)) = Lines(q) \cup {x}
<1>1. /\ Append(q, x) \in Seq(Item) /\ Len(Append(q, x)) = Len(q) + 1
      /\ \A n \in 1..Len(q) : Append(q, x)[n] = q[n]
      /\ Append(q, x)[Len(q) + 1] = x /\ Len(q) \in Nat
  OBVIOUS
<1>2. \A n : n \in 1..(Len(q) + 1) <=> n \in 1..Len(q) \/ n = Len(q) + 1
  BY <1>1
<1> QED BY <1>1, <1>2 DEF Lines

LEMMA LinesTail ==
  ASSUME NEW q \in Seq(Item), q # <<>>
  PROVE  /\ Tail(q) \in Seq(Item) /\ Head(q) \in Item
         /\ Lines(q) = {Head(q)} \cup Lines(Tail(q))
<1>1. /\ Tail(q) \in Seq(Item) /\ Head(q) \in Item /\ Head(q) = q[1]
      /\ Len(q) \in Nat /\ Len(q) > 0 /\ Len(Tail(q)) = Len(q) - 1
      /\ \A n \in 1..(Len(q) - 1) : Tail(q)[n] = q[n + 1]
  OBVIOUS
<1>2. ASSUME NEW x \in Lines(q) PROVE x = Head(q) \/ x \in Lines(Tail(q))
  <2>1. PICK n \in 1..Len(q) : x = q[n]
    BY DEF Lines
  <2>2. CASE n = 1
    BY <1>1, <2>1, <2>2
  <2>3. CASE n # 1
    <3>1. n - 1 \in 1..(Len(q) - 1) /\ Tail(q)[n - 1] = x
      BY <1>1, <2>1, <2>3
    <3> QED BY <1>1, <3>1 DEF Lines
  <2> QED BY <2>2, <2>3
<1>3. ASSUME NEW x \in Lines(Tail(q)) PROVE x \in Lines(q)
  <2>1. PICK n \in 1..(Len(q) - 1) : x = q[n + 1]
    BY <1>1 DEF Lines
  <2>2. n + 1 \in 1..Len(q)
    BY <1>1
  <2> QED BY <2>1, <2>2 DEF Lines
<1>4. Head(q) \in Lines(q)
  BY <1>1 DEF Lines
<1> QED BY <1>1, <1>2, <1>3, <1>4

LEMMA LinesEmpty == Lines(<<>>) = {}
BY DEF Lines

LEMMA LinesType ==
  ASSUME NEW q \in Seq(Item)
  PROVE  Lines(q) \subseteq Item
BY DEF Lines

-----------------------------------------------------------------------------
(* Steps.                                                                   *)

\* What a post does to the writes that are owed.
LEMMA PostEffect ==
  ASSUME TypeOK, NEW i \in Item, NEW a \in AllAnswers, Post(i, a)
  PROVE  /\ stored' \in [Item -> 0..2] /\ refused' \subseteq Item /\ late' \subseteq Item
         /\ refused \subseteq refused'
         /\ \A j \in Item : stored[j] # 0 => stored'[j] # 0
         /\ Succeeds(a) => stored'[i] # 0 \/ i \in refused'
<1>1. \/ stored' = stored
      \/ stored' = [stored EXCEPT ![i] = stored[i] + 1] /\ stored[i] < 2
  BY DEF Post
<1>2. stored' \in [Item -> 0..2] /\ \A j \in Item : stored[j] # 0 => stored'[j] # 0
  BY <1>1 DEF TypeOK
<1>3. a = "ok" => stored'[i] # 0
  BY DEF Post, CarriedOut, TypeOK
<1>4. /\ refused' \subseteq Item /\ late' \subseteq Item /\ refused \subseteq refused'
      /\ a = "refused" => i \in refused'
  BY DEF Post, TypeOK
<1> QED BY <1>2, <1>3, <1>4 DEF Succeeds

\* A step that makes no write owed, moves no pass and leaves the files alone.
LEMMA FilesKept ==
  ASSUME IInv, TypeOK', UNCHANGED <<files, pass, left>>,
         \A i \in Item : Safe(i)' => Safe(i),
         \A i \in Item : writer[i] = "done" => writer'[i] = "done",
         OpenNoted'
  PROVE  IInv'
<1>1. Queued'
  BY DEF IInv, Queued, files
<1>2. PassOwes'
  BY DEF IInv, PassOwes, files
<1>3. PassAlone'
  BY DEF IInv, PassAlone
<1>4. LinesDone'
  <2>1. /\ Lines(queue) \subseteq Item /\ Lines(remaining) \subseteq Item
        /\ \A s \in Pass : Lines(left[s]) \subseteq Item
    BY LinesType DEF IInv, TypeOK
  <2> QED BY <2>1 DEF IInv, LinesDone, files
<1> QED BY <1>1, <1>2, <1>3, <1>4 DEF IInv

LEMMA WriteStep ==
  ASSUME IInv, NEW i \in Item, NEW a \in AllAnswers, Write(i, a)
  PROVE  IInv'
<1>1. /\ writer[i] = "post" /\ Post(i, a) /\ writer' = [writer EXCEPT ![i] = AfterPost(a)]
      /\ UNCHANGED <<files, unlinked, pass, left, deaths, overlapped>>
  BY DEF Write
<1>2. TypeOK
  BY DEF IInv
<1>3. AfterPost(a) \in {"done", "open"} /\ (AfterPost(a) = "done" <=> Succeeds(a))
  BY DEF AfterPost
<1>4. /\ writer'[i] = AfterPost(a) /\ \A j \in Item \ {i} : writer'[j] = writer[j]
      /\ writer' \in [Item -> WriterPCs]
  BY <1>1, <1>2, <1>3 DEF TypeOK, WriterPCs
<1>5. TypeOK'
  BY <1>1, <1>2, <1>4, PostEffect DEF TypeOK, files
<1>6. \A j \in Item : Safe(j)' => Safe(j)
  BY <1>1, <1>2, <1>3, <1>4, PostEffect DEF Safe
<1>7. OpenNoted'
  BY <1>1, <1>3, <1>4 DEF IInv, OpenNoted, PassRuns
<1> QED BY <1>1, <1>4, <1>5, <1>6, <1>7, FilesKept

LEMMA OpenQueueStep ==
  ASSUME IInv, NEW i \in Item, OpenQueue(i)
  PROVE  IInv'
<1>1. /\ writer[i] = "open" /\ writer' = [writer EXCEPT ![i] = "append"]
      /\ overlapped' = (IF PassRuns THEN overlapped \cup {i} ELSE overlapped)
      /\ UNCHANGED <<files, stored, unlinked, pass, left, deaths, refused, late>>
  BY DEF OpenQueue
<1>2. TypeOK
  BY DEF IInv
<1>3. /\ writer'[i] = "append" /\ \A j \in Item \ {i} : writer'[j] = writer[j]
      /\ writer' \in [Item -> WriterPCs]
  BY <1>1, <1>2 DEF TypeOK, WriterPCs
<1>4. TypeOK'
  BY <1>1, <1>2, <1>3 DEF TypeOK, files
<1>5. \A j \in Item : Safe(j)' => Safe(j)
  BY <1>1, <1>3 DEF Safe
<1>6. OpenNoted'
  BY <1>1, <1>3 DEF IInv, OpenNoted, PassRuns
<1> QED BY <1>1, <1>3, <1>4, <1>5, <1>6, FilesKept

LEMMA WriterDiesStep ==
  ASSUME IInv, NEW i \in Item, WriterDies(i)
  PROVE  IInv'
<1>1. /\ writer[i] # "done" /\ writer' = [writer EXCEPT ![i] = "dead"]
      /\ unlinked' = unlinked \ {i}
      /\ UNCHANGED <<files, stored, pass, left, deaths, overlapped, refused, late>>
  BY DEF WriterDies, history
<1>2. TypeOK
  BY DEF IInv
<1>3. /\ writer'[i] = "dead" /\ \A j \in Item \ {i} : writer'[j] = writer[j]
      /\ writer' \in [Item -> WriterPCs]
  BY <1>1, <1>2 DEF TypeOK, WriterPCs
<1>4. TypeOK'
  BY <1>1, <1>2, <1>3 DEF TypeOK, files
<1>5. \A j \in Item : Safe(j)' => Safe(j)
  BY <1>1, <1>3 DEF Safe
<1>6. OpenNoted'
  BY <1>1, <1>3 DEF IInv, OpenNoted, PassRuns
<1> QED BY <1>1, <1>3, <1>4, <1>5, <1>6, FilesKept

LEMMA AppendLineStep ==
  ASSUME IInv, NEW i \in Item, AppendLine(i)
  PROVE  IInv'
<1>1. /\ writer[i] = "append" /\ writer' = [writer EXCEPT ![i] = "done"]
      /\ queue' = (IF i \in unlinked THEN queue ELSE Append(queue, i))
      /\ unlinked' = unlinked \ {i}
      /\ UNCHANGED <<remaining, stored, pass, left, deaths, overlapped, refused, late>>
  BY DEF AppendLine, history
<1>2. TypeOK
  BY DEF IInv
<1>3. /\ writer'[i] = "done" /\ \A j \in Item \ {i} : writer'[j] = writer[j]
      /\ writer' \in [Item -> WriterPCs]
  BY <1>1, <1>2 DEF TypeOK, WriterPCs
<1>4. /\ queue' \in Seq(Item) /\ Lines(queue) \subseteq Lines(queue')
      /\ Lines(queue') \subseteq Lines(queue) \cup {i}
      /\ i \notin unlinked => i \in Lines(queue')
  BY <1>1, <1>2, LinesAppend DEF TypeOK
<1>5. TypeOK'
  BY <1>1, <1>2, <1>3, <1>4 DEF TypeOK
<1>6. \A j \in Item \ {i} : Safe(j)' => Safe(j)
  BY <1>1, <1>3 DEF Safe
<1>7. Safe(i)' => ~PassRuns /\ i \notin unlinked
  BY <1>1 DEF Safe, IInv, OpenNoted
<1>8. Queued'
  BY <1>4, <1>6, <1>7 DEF IInv, Queued
<1>9. PassOwes'
  <2>1. \A s \in Pass : Safe(i)' => pass[s] = "idle"
    BY <1>7 DEF PassRuns
  <2> QED BY <1>1, <1>6, <2>1 DEF IInv, PassOwes
<1>10. PassAlone'
  BY <1>1, <1>6, <1>7 DEF IInv, PassAlone, PassRuns
<1>11. OpenNoted'
  BY <1>1, <1>3 DEF IInv, OpenNoted, PassRuns
<1>12. LinesDone'
  <2>1. /\ Lines(queue) \subseteq Item /\ Lines(remaining) \subseteq Item
        /\ \A s \in Pass : Lines(left[s]) \subseteq Item
    BY <1>2, LinesType DEF TypeOK
  <2> QED BY <1>1, <1>3, <1>4, <2>1 DEF IInv, LinesDone
<1> QED BY <1>5, <1>8, <1>9, <1>10, <1>11, <1>12 DEF IInv

\* A step of one pass: the other passes and the writers stay where they are.
LEMMA PassStepFrame ==
  ASSUME TypeOK, NEW s \in Pass, NEW pc \in PassPCs, NEW rest \in Seq(Item),
         pass' = [pass EXCEPT ![s] = pc], left' = [left EXCEPT ![s] = rest]
  PROVE  /\ pass' \in [Pass -> PassPCs] /\ left' \in [Pass -> Seq(Item)]
         /\ pass'[s] = pc /\ left'[s] = rest
         /\ \A r \in Pass \ {s} : pass'[r] = pass[r] /\ left'[r] = left[r]
BY DEF TypeOK

LEMMA StartPassStep ==
  ASSUME IInv, NEW s \in Pass, StartPass(s)
  PROVE  IInv'
<1>1. /\ pass[s] = "idle"
      /\ left' = [left EXCEPT ![s] = queue] /\ pass' = [pass EXCEPT ![s] = "line"]
      /\ overlapped' = overlapped \cup {i \in Item : writer[i] = "append"}
                                  \cup (IF PassRuns THEN InFiles ELSE {})
      /\ UNCHANGED <<queue, remaining, stored, writer, unlinked, deaths, refused, late>>
  BY DEF StartPass, files
<1>2. TypeOK
  BY DEF IInv
<1>3. /\ pass' \in [Pass -> PassPCs] /\ left' \in [Pass -> Seq(Item)]
      /\ pass'[s] = "line" /\ left'[s] = queue
      /\ \A r \in Pass \ {s} : pass'[r] = pass[r] /\ left'[r] = left[r]
  BY <1>1, <1>2, PassStepFrame DEF TypeOK, PassPCs
<1>4. /\ Lines(queue) \subseteq Item /\ Lines(remaining) \subseteq Item
      /\ \A r \in Pass : Lines(left[r]) \subseteq Item
  BY <1>2, LinesType DEF TypeOK
<1>5. overlapped \subseteq overlapped' /\ overlapped' \subseteq Item
  BY <1>1, <1>2, <1>4 DEF InFiles, TypeOK
<1>6. TypeOK'
  BY <1>1, <1>2, <1>3, <1>5 DEF TypeOK
<1>7. \A i \in Item : Safe(i)' => Safe(i)
  BY <1>1, <1>5 DEF Safe
<1>8. \A i \in Item : Safe(i)' => ~PassRuns
  BY <1>1, <1>7 DEF IInv, Queued, InFiles, Safe
<1>9. \A i \in Item, r \in Pass \ {s} : Safe(i)' => pass'[r] = "idle"
  BY <1>3, <1>8 DEF PassRuns
<1>10. Queued'
  BY <1>1, <1>7 DEF IInv, Queued
<1>11. PassOwes'
  BY <1>1, <1>3, <1>7, <1>9 DEF IInv, PassOwes, Queued
<1>12. PassAlone'
  BY <1>9 DEF PassAlone
<1>13. OpenNoted'
  BY <1>1, <1>5 DEF IInv, OpenNoted
<1>14. LinesDone'
  BY <1>1, <1>3 DEF IInv, LinesDone
<1> QED BY <1>6, <1>10, <1>11, <1>12, <1>13, <1>14 DEF IInv

LEMMA PostLineStep ==
  ASSUME IInv, NEW s \in Pass, NEW a \in AllAnswers, PostLine(s, a)
  PROVE  IInv'
<1>1. /\ pass[s] = "line" /\ left[s] # <<>> /\ Post(Head(left[s]), a)
      /\ Succeeds(a) => left' = [left EXCEPT ![s] = Tail(left[s])] /\ pass' = pass
      /\ ~Succeeds(a) => pass' = [pass EXCEPT ![s] = "keep"] /\ left' = left
      /\ UNCHANGED <<queue, remaining, writer, unlinked, deaths, overlapped>>
  BY DEF PostLine, files
<1>2. TypeOK /\ left[s] \in Seq(Item)
  BY DEF IInv, TypeOK
<1> DEFINE h == Head(left[s])
<1>3. /\ Tail(left[s]) \in Seq(Item) /\ h \in Item
      /\ Lines(left[s]) = {h} \cup Lines(Tail(left[s]))
  BY <1>1, <1>2, LinesTail
<1>4. /\ stored' \in [Item -> 0..2] /\ refused' \subseteq Item /\ late' \subseteq Item
      /\ refused \subseteq refused'
      /\ \A j \in Item : stored[j] # 0 => stored'[j] # 0
      /\ Succeeds(a) => stored'[h] # 0 \/ h \in refused'
  BY <1>1, <1>2, <1>3, PostEffect
<1> HIDE DEF h
<1>5. \A i \in Item : Safe(i)' => Safe(i)
  BY <1>1, <1>4 DEF Safe
<1>6. OpenNoted'
  <2>1. PassRuns' => PassRuns
    BY <1>1 DEF PassRuns
  <2> QED BY <1>1, <2>1 DEF IInv, OpenNoted
<1>7. Queued'
  BY <1>1, <1>5 DEF IInv, Queued
<1>8. CASE Succeeds(a)
  <2>1. /\ pass' = pass /\ left' \in [Pass -> Seq(Item)] /\ left'[s] = Tail(left[s])
        /\ \A r \in Pass \ {s} : left'[r] = left[r]
    BY <1>1, <1>2, <1>3, <1>8 DEF TypeOK
  <2>2. TypeOK'
    BY <1>1, <1>2, <1>4, <2>1 DEF TypeOK
  <2>3. PassOwes'
    <3>1. ASSUME NEW i \in Item, i = h PROVE ~Safe(i)'
      BY <1>4, <1>8, <3>1 DEF Safe
    <3>2. ASSUME NEW i \in Item, Safe(i)', i \in Lines(left[s])
          PROVE  i \in Lines(left'[s])
      BY <1>3, <2>1, <3>1, <3>2
    <3>3. ASSUME NEW i \in Item, NEW r \in Pass, Safe(i)'
          PROVE  /\ pass'[r] # "truncate"
                 /\ pass'[r] = "move" => i \in Lines(remaining')
                 /\ pass'[r] \in {"line", "keep"} => i \in Lines(left'[r]) \cup Lines(remaining')
      <4>1. /\ pass[r] # "truncate"
            /\ pass[r] = "move" => i \in Lines(remaining)
            /\ pass[r] \in {"line", "keep"} => i \in Lines(left[r]) \cup Lines(remaining)
        BY <1>5, <3>3 DEF IInv, PassOwes
      <4>2. i \in Lines(left[r]) => i \in Lines(left'[r])
        BY <2>1, <3>2, <3>3
      <4> QED BY <1>1, <2>1, <4>1, <4>2
    <3> QED BY <3>3 DEF PassOwes
  <2>4. PassAlone'
    BY <1>5, <2>1 DEF IInv, PassAlone
  <2>5. LinesDone'
    BY <1>1, <1>3, <2>1 DEF IInv, LinesDone
  <2> QED BY <1>6, <1>7, <2>2, <2>3, <2>4, <2>5 DEF IInv
<1>9. CASE ~Succeeds(a)
  <2>1. /\ left' = left /\ pass' \in [Pass -> PassPCs] /\ pass'[s] = "keep"
        /\ \A r \in Pass \ {s} : pass'[r] = pass[r]
    BY <1>1, <1>2, <1>9 DEF TypeOK, PassPCs
  <2>2. TypeOK'
    BY <1>1, <1>2, <1>4, <2>1 DEF TypeOK
  <2>3. PassOwes'
    BY <1>1, <1>5, <2>1 DEF IInv, PassOwes
  <2>4. PassAlone'
    BY <1>1, <1>5, <2>1 DEF IInv, PassAlone
  <2>5. LinesDone'
    BY <1>1, <2>1 DEF IInv, LinesDone
  <2> QED BY <1>6, <1>7, <2>2, <2>3, <2>4, <2>5 DEF IInv
<1> QED BY <1>8, <1>9

LEMMA KeepLineStep ==
  ASSUME IInv, NEW s \in Pass, KeepLine(s)
  PROVE  IInv'
<1> DEFINE h == Head(left[s])
<1>1. /\ pass[s] = "keep" /\ remaining' = Append(remaining, h)
      /\ left' = [left EXCEPT ![s] = Tail(left[s])] /\ pass' = [pass EXCEPT ![s] = "line"]
      /\ UNCHANGED <<queue, stored, writer, unlinked, deaths, overlapped, refused, late>>
  BY DEF KeepLine, history
<1>2. TypeOK /\ left[s] \in Seq(Item) /\ left[s] # <<>> /\ remaining \in Seq(Item)
  BY <1>1 DEF IInv, TypeOK, LinesDone
<1>3. /\ Tail(left[s]) \in Seq(Item) /\ h \in Item
      /\ Lines(left[s]) = {h} \cup Lines(Tail(left[s]))
  BY <1>2, LinesTail
<1>4. remaining' \in Seq(Item) /\ Lines(remaining') = Lines(remaining) \cup {h}
  BY <1>1, <1>2, <1>3, LinesAppend
<1> HIDE DEF h
<1>5. /\ pass' \in [Pass -> PassPCs] /\ left' \in [Pass -> Seq(Item)]
      /\ pass'[s] = "line" /\ left'[s] = Tail(left[s])
      /\ \A r \in Pass \ {s} : pass'[r] = pass[r] /\ left'[r] = left[r]
  BY <1>1, <1>2, <1>3, PassStepFrame DEF PassPCs
<1>6. TypeOK'
  BY <1>1, <1>2, <1>4, <1>5 DEF TypeOK
<1>7. \A i \in Item : Safe(i)' <=> Safe(i)
  BY <1>1 DEF Safe
<1>8. Queued'
  BY <1>1, <1>7 DEF IInv, Queued
<1>9. PassOwes'
  BY <1>1, <1>3, <1>4, <1>5, <1>7 DEF IInv, PassOwes
<1>10. PassAlone'
  BY <1>1, <1>5, <1>7 DEF IInv, PassAlone
<1>11. OpenNoted'
  BY <1>1 DEF IInv, OpenNoted, PassRuns
<1>12. LinesDone'
  BY <1>1, <1>3, <1>4, <1>5 DEF IInv, LinesDone
<1> QED BY <1>6, <1>8, <1>9, <1>10, <1>11, <1>12 DEF IInv

LEMMA FinishLinesStep ==
  ASSUME IInv, NEW s \in Pass, FinishLines(s)
  PROVE  IInv'
<1>1. /\ pass[s] = "line" /\ left[s] = <<>> /\ pass' = [pass EXCEPT ![s] = AfterLines]
      /\ UNCHANGED <<queue, remaining, stored, writer, unlinked, left, deaths, overlapped, refused, late>>
  BY DEF FinishLines, files, history
<1>2. TypeOK
  BY DEF IInv
<1>3. /\ pass' \in [Pass -> PassPCs] /\ pass'[s] = AfterLines
      /\ \A r \in Pass \ {s} : pass'[r] = pass[r]
  BY <1>1, <1>2 DEF TypeOK, PassPCs, AfterLines
<1>4. TypeOK'
  BY <1>1, <1>2, <1>3 DEF TypeOK
<1>5. \A i \in Item : Safe(i)' <=> Safe(i)
  BY <1>1 DEF Safe
<1>6. Queued'
  BY <1>1, <1>5 DEF IInv, Queued
<1>7. PassOwes'
  <2>1. \A i \in Item : Safe(i) => i \in Lines(remaining)
    BY <1>1, LinesEmpty DEF IInv, PassOwes
  <2>2. (\E i \in Item : Safe(i)) => AfterLines = "move"
    BY <2>1, LinesEmpty DEF AfterLines
  <2> QED BY <1>1, <1>3, <1>5, <2>1, <2>2 DEF IInv, PassOwes
<1>8. PassAlone'
  BY <1>1, <1>3, <1>5 DEF IInv, PassAlone
<1>9. OpenNoted'
  BY <1>1 DEF IInv, OpenNoted, PassRuns
<1>10. LinesDone'
  BY <1>1, <1>3 DEF IInv, LinesDone, AfterLines
<1> QED BY <1>4, <1>6, <1>7, <1>8, <1>9, <1>10 DEF IInv

\* The end of a pass, by its last command or by its death.
LEMMA PassEnds ==
  ASSUME IInv, TypeOK', NEW s \in Pass, pass[s] # "idle",
         pass'[s] = "idle", \A r \in Pass \ {s} : pass'[r] = pass[r],
         \A i \in Item : Safe(i) => i \in Lines(queue'),
         Lines(queue') \cup Lines(remaining') \subseteq Lines(queue) \cup Lines(remaining),
         \A r \in Pass : left'[r] = left[r] \/ (r = s /\ left'[r] = <<>>),
         \A i \in unlinked' : writer[i] = "append" \/ i \in unlinked,
         unlinked' \subseteq Item,
         UNCHANGED <<stored, writer, history>>
  PROVE  IInv'
<1>1. \A i \in Item : Safe(i)' <=> Safe(i)
  BY DEF Safe, history
<1>2. \A i \in Item, r \in Pass : Safe(i)' => pass'[r] = "idle"
  BY <1>1 DEF IInv, PassAlone
<1>3. Queued'
  BY <1>1 DEF Queued
<1>4. PassOwes' /\ PassAlone'
  BY <1>2 DEF PassOwes, PassAlone
<1>5. OpenNoted'
  <2>1. PassRuns
    BY DEF PassRuns
  <2> QED BY <2>1 DEF IInv, OpenNoted, history
<1>6. LinesDone'
  BY LinesEmpty DEF IInv, LinesDone
<1> QED BY <1>3, <1>4, <1>5, <1>6 DEF IInv

LEMMA MoveRemainingStep ==
  ASSUME IInv, NEW s \in Pass, MoveRemaining(s)
  PROVE  IInv'
<1>1. /\ pass[s] = "move" /\ pass' = [pass EXCEPT ![s] = "idle"]
      /\ remaining # <<>> => /\ queue' = remaining /\ remaining' = <<>>
                             /\ unlinked' = {i \in Item : writer[i] = "append"}
      /\ remaining = <<>> => UNCHANGED <<queue, remaining, unlinked>>
      /\ UNCHANGED <<stored, writer, left, deaths, history>>
  BY DEF MoveRemaining, files
<1>2. TypeOK
  BY DEF IInv
<1>3. /\ pass' \in [Pass -> PassPCs] /\ pass'[s] = "idle"
      /\ \A r \in Pass \ {s} : pass'[r] = pass[r]
  BY <1>1, <1>2 DEF TypeOK, PassPCs
<1>4. TypeOK'
  <2>1. <<>> \in Seq(Item) /\ queue \in Seq(Item) /\ remaining \in Seq(Item) /\ unlinked \subseteq Item
    BY <1>2 DEF TypeOK
  <2>2. queue' \in Seq(Item) /\ remaining' \in Seq(Item)
    BY <1>1, <2>1
  <2>3. unlinked' \subseteq Item
    BY <1>1, <2>1
  <2> QED BY <1>1, <1>2, <1>3, <2>2, <2>3 DEF TypeOK, history
<1>5. \A i \in Item : Safe(i) => i \in Lines(queue')
  BY <1>1, LinesEmpty DEF IInv, PassOwes
<1>6. Lines(queue') \cup Lines(remaining') \subseteq Lines(queue) \cup Lines(remaining)
  BY <1>1, LinesEmpty
<1>7. unlinked' \subseteq Item /\ \A i \in unlinked' : writer[i] = "append" \/ i \in unlinked
  BY <1>1, <1>2 DEF TypeOK
<1>8. pass[s] # "idle" /\ UNCHANGED <<stored, writer, history>>
      /\ \A r \in Pass : left'[r] = left[r] \/ (r = s /\ left'[r] = <<>>)
  BY <1>1
<1> QED BY ONLY IInv, s \in Pass, <1>3, <1>4, <1>5, <1>6, <1>7, <1>8, PassEnds

LEMMA TruncateStep ==
  ASSUME IInv, NEW s \in Pass, Truncate(s)
  PROVE  IInv'
<1>1. /\ pass[s] = "truncate" /\ pass' = [pass EXCEPT ![s] = "idle"] /\ queue' = <<>>
      /\ UNCHANGED <<remaining, stored, writer, unlinked, left, deaths, history>>
  BY DEF Truncate
<1>2. TypeOK
  BY DEF IInv
<1>3. /\ pass' \in [Pass -> PassPCs] /\ pass'[s] = "idle"
      /\ \A r \in Pass \ {s} : pass'[r] = pass[r]
  BY <1>1, <1>2 DEF TypeOK, PassPCs
<1>4. TypeOK'
  BY <1>1, <1>2, <1>3 DEF TypeOK, history
<1>5. \A i \in Item : Safe(i) => i \in Lines(queue')
  BY <1>1 DEF IInv, PassOwes
<1>6. Lines(queue') \cup Lines(remaining') \subseteq Lines(queue) \cup Lines(remaining)
  BY <1>1, LinesEmpty
<1>7. unlinked' \subseteq Item /\ \A i \in unlinked' : writer[i] = "append" \/ i \in unlinked
  BY <1>1, <1>2 DEF TypeOK
<1>8. pass[s] # "idle" /\ UNCHANGED <<stored, writer, history>>
      /\ \A r \in Pass : left'[r] = left[r] \/ (r = s /\ left'[r] = <<>>)
  BY <1>1
<1> QED BY ONLY IInv, s \in Pass, <1>3, <1>4, <1>5, <1>6, <1>7, <1>8, PassEnds

LEMMA PassDiesStep ==
  ASSUME IInv, NEW s \in Pass, PassDies(s)
  PROVE  IInv'
<1>1. /\ pass[s] # "idle" /\ pass' = [pass EXCEPT ![s] = "idle"]
      /\ deaths < MaxDeaths /\ deaths' = deaths + 1
      /\ left' = [left EXCEPT ![s] = <<>>]
      /\ UNCHANGED <<queue, remaining, stored, writer, unlinked, history>>
  BY DEF PassDies, files
<1>2. TypeOK
  BY DEF IInv
<1>3. /\ pass' \in [Pass -> PassPCs] /\ pass'[s] = "idle"
      /\ left' \in [Pass -> Seq(Item)] /\ left'[s] = <<>>
      /\ \A r \in Pass \ {s} : pass'[r] = pass[r] /\ left'[r] = left[r]
  BY <1>1, <1>2 DEF TypeOK, PassPCs
<1>4. deaths' \in 0..MaxDeaths
  BY <1>1, <1>2, QueueAssumption DEF TypeOK
<1>5. TypeOK'
  BY <1>1, <1>2, <1>3, <1>4 DEF TypeOK, history
<1>6. \A i \in Item : Safe(i) => i \in Lines(queue')
  BY <1>1 DEF IInv, Queued
<1>7. Lines(queue') \cup Lines(remaining') \subseteq Lines(queue) \cup Lines(remaining)
  BY <1>1
<1>8. unlinked' \subseteq Item /\ \A i \in unlinked' : writer[i] = "append" \/ i \in unlinked
  BY <1>1, <1>2 DEF TypeOK
<1>9. UNCHANGED <<stored, writer, history>>
      /\ \A r \in Pass : left'[r] = left[r] \/ (r = s /\ left'[r] = <<>>)
  BY <1>1, <1>3
<1> QED BY ONLY IInv, s \in Pass, <1>1, <1>3, <1>5, <1>6, <1>7, <1>8, <1>9, PassEnds

-----------------------------------------------------------------------------
(* The specification.                                                       *)

LEMMA InitInv == Init => IInv
<1> SUFFICES ASSUME Init PROVE IInv
  OBVIOUS
<1>1. TypeOK
  BY QueueAssumption DEF Init, TypeOK, WriterPCs, PassPCs
<1>2. Queued /\ PassOwes /\ PassAlone
  BY DEF Init, Queued, PassOwes, PassAlone, Safe
<1>3. OpenNoted
  BY DEF Init, OpenNoted
<1>4. LinesDone
  BY LinesEmpty DEF Init, LinesDone
<1> QED BY <1>1, <1>2, <1>3, <1>4 DEF IInv

LEMMA NextInv ==
  ASSUME IInv, [Next]_vars
  PROVE  IInv'
<1>1. ASSUME NEW i \in Item, NEW a \in AllAnswers, Write(i, a) PROVE IInv'
  BY <1>1, WriteStep
<1>2. ASSUME NEW i \in Item, OpenQueue(i) \/ AppendLine(i) \/ WriterDies(i) PROVE IInv'
  BY <1>2, OpenQueueStep, AppendLineStep, WriterDiesStep
<1>3. ASSUME NEW s \in Pass, NEW a \in AllAnswers, PostLine(s, a) PROVE IInv'
  BY <1>3, PostLineStep
<1>4. ASSUME NEW s \in Pass, StartPass(s) \/ KeepLine(s) \/ FinishLines(s) PROVE IInv'
  BY <1>4, StartPassStep, KeepLineStep, FinishLinesStep
<1>5. ASSUME NEW s \in Pass, MoveRemaining(s) \/ Truncate(s) \/ PassDies(s) PROVE IInv'
  BY <1>5, MoveRemainingStep, TruncateStep, PassDiesStep
<1>6. CASE UNCHANGED vars
  BY <1>6 DEF vars, files, history, IInv, TypeOK, Queued, PassOwes, PassAlone, OpenNoted,
              LinesDone, Safe, PassRuns, Lines
<1> QED BY <1>1, <1>2, <1>3, <1>4, <1>5, <1>6 DEF Next

LEMMA Invariance == Spec => []IInv
<1> QED BY InitInv, NextInv, PTL DEF Spec

\* Whatever number of runs of memlayer_write.sh and memlayer_sync.sh write the
\* files, in whatever order and whoever dies: no variable leaves its type.
THEOREM QueueTypeCorrect == Spec => []TypeOK
<1>1. IInv => TypeOK
  BY DEF IInv
<1> QED BY <1>1, Invariance, PTL

\* A write that its script left to the queue and that no post has carried out
\* stays in the files or with a pass, unless the service answered it with an
\* error or a pass ran beside its append or beside another pass.
THEOREM WritesLostOnlyByOverlap == Spec => []LossNeedsOverlap
<1>1. IInv => LossNeedsOverlap
  BY DEF IInv, Queued, Safe, LossNeedsOverlap, Lost, InFiles
<1> QED BY <1>1, Invariance, PTL

\* What leaves the two files in a step of any script has been carried out, or
\* is one of the exceptions above.
THEOREM PassesKeepLines == Spec => PassKeepsLines
<1> DEFINE Kept == \A i \in Lines(queue) \cup Lines(remaining) :
                     \/ i \in Lines(queue') \cup Lines(remaining')
                     \/ stored[i] > 0 \/ i \in overlapped \cup refused
<1>1. ASSUME IInv, [Next]_vars PROVE [Kept]_vars
  <2>1. SUFFICES ASSUME NEW i \in Lines(queue) \cup Lines(remaining),
                        ~(stored[i] > 0), i \notin overlapped \cup refused
                 PROVE  i \in Lines(queue') \cup Lines(remaining')
    OBVIOUS
  <2>2. TypeOK /\ i \in Item
    BY <1>1, LinesType DEF IInv, TypeOK
  <2>3. stored[i] \in 0..2
    BY <2>2 DEF TypeOK
  <2>4. Safe(i)
    BY <1>1, <2>1, <2>3 DEF IInv, LinesDone, Safe
  <2>5. CASE UNCHANGED files
    BY <2>1, <2>5 DEF files
  <2>6. ASSUME NEW j \in Item, AppendLine(j) PROVE i \in Lines(queue') \cup Lines(remaining')
    BY <2>1, <2>2, <2>6, LinesAppend DEF AppendLine, TypeOK
  <2>7. ASSUME NEW s \in Pass, KeepLine(s) PROVE i \in Lines(queue') \cup Lines(remaining')
    <3>1. left[s] \in Seq(Item) /\ left[s] # <<>> /\ remaining \in Seq(Item)
      BY <1>1, <2>2, <2>7 DEF KeepLine, IInv, LinesDone, TypeOK
    <3>2. Head(left[s]) \in Item
      BY <3>1, LinesTail
    <3> QED BY <2>1, <2>7, <3>1, <3>2, LinesAppend DEF KeepLine
  <2>8. ASSUME NEW s \in Pass, MoveRemaining(s) PROVE i \in Lines(queue') \cup Lines(remaining')
    <3>1. i \in Lines(remaining)
      BY <1>1, <2>2, <2>4, <2>8 DEF MoveRemaining, IInv, PassOwes
    <3> QED BY <3>1, <2>8, LinesEmpty DEF MoveRemaining
  <2>9. ASSUME NEW s \in Pass, Truncate(s) PROVE FALSE
    BY <1>1, <2>2, <2>4, <2>9 DEF Truncate, IInv, PassOwes
  <2>10. ASSUME NEW j \in Item, NEW a \in AllAnswers, Write(j, a) PROVE UNCHANGED files
    BY <2>10 DEF Write, files
  <2>11. ASSUME NEW j \in Item, OpenQueue(j) \/ WriterDies(j) PROVE UNCHANGED files
    BY <2>11 DEF OpenQueue, WriterDies, files
  <2>12. ASSUME NEW s \in Pass, NEW a \in AllAnswers, PostLine(s, a) PROVE UNCHANGED files
    BY <2>12 DEF PostLine, files
  <2>13. ASSUME NEW s \in Pass, StartPass(s) \/ FinishLines(s) \/ PassDies(s) PROVE UNCHANGED files
    BY <2>13 DEF StartPass, FinishLines, PassDies, files
  <2>14. CASE UNCHANGED vars
    BY <2>5, <2>14 DEF vars
  <2> HIDE DEF Kept
  <2> QED BY <1>1, <2>5, <2>6, <2>7, <2>8, <2>9, <2>10, <2>11, <2>12, <2>13, <2>14 DEF Next
<1> QED BY <1>1, Invariance, PTL DEF Spec, PassKeepsLines

-----------------------------------------------------------------------------
(* Duplicates.                                                              *)

\* Nothing has happened yet that may have a write carried out twice.
Clean(i) == i \notin late \cup overlapped /\ deaths = 0

Once(q, i) == \A m, n \in 1..Len(q) : q[m] = i /\ q[n] = i => m = n

\* Such a write has at most one line in each place,
LinesOnce ==
  \A i \in Item : Clean(i) =>
    Once(queue, i) /\ Once(remaining, i) /\ \A s \in Pass : Once(left[s], i)

\* is carried out at most once, and not before its script has ended well,
StoredOnce ==
  \A i \in Item : Clean(i) => stored[i] <= 1 /\ (writer[i] # "done" => stored[i] = 0)

\* nor while a pass has it still to post, or has put it back,
ToPost ==
  \A i \in Item : Clean(i) =>
    /\ \A s \in Pass : i \in Lines(left[s]) => stored[i] = 0 /\ i \notin Lines(remaining)
    /\ i \in Lines(remaining) => stored[i] = 0

\* nor while no pass runs and it has a line;
AtRest ==
  \A i \in Item : Clean(i) /\ ~PassRuns =>
    i \notin Lines(remaining) /\ (i \in Lines(queue) => stored[i] = 0)

\* at most one pass runs on files that have it, and that pass rewrites the
\* queue as it intends to.
OnePass ==
  \A i \in Item, s \in Pass : Clean(i) /\ i \in InFiles /\ pass[s] # "idle" =>
    /\ \A r \in Pass : pass[r] # "idle" => r = s
    /\ pass[s] = "move" => remaining # <<>>
    /\ pass[s] = "truncate" => i \notin Lines(remaining)

\* What a pass has still to do is kept only while it runs through the lines.
LeftInLoop == \A s \in Pass : left[s] # <<>> => pass[s] \in {"line", "keep"}

DInv == LinesOnce /\ StoredOnce /\ ToPost /\ AtRest /\ OnePass /\ LeftInLoop

\* Whoever was clean after a step was clean before it.
LEMMA CleanBefore ==
  ASSUME IInv, Next
  PROVE  \A i \in Item : Clean(i)' => Clean(i)
<1>1. deaths \in Nat
  BY QueueAssumption DEF IInv, TypeOK
<1>2. late \subseteq late' /\ overlapped \subseteq overlapped' /\ (deaths' = 0 => deaths = 0)
  <2>1. ASSUME NEW i \in Item, NEW a \in AllAnswers, Write(i, a)
        PROVE  late \subseteq late' /\ overlapped \subseteq overlapped' /\ deaths' = deaths
    BY <2>1 DEF Write, Post
  <2>2. ASSUME NEW i \in Item, OpenQueue(i) \/ AppendLine(i) \/ WriterDies(i)
        PROVE  late \subseteq late' /\ overlapped \subseteq overlapped' /\ deaths' = deaths
    BY <2>2 DEF OpenQueue, AppendLine, WriterDies, history
  <2>3. ASSUME NEW s \in Pass, NEW a \in AllAnswers, PostLine(s, a)
        PROVE  late \subseteq late' /\ overlapped \subseteq overlapped' /\ deaths' = deaths
    BY <2>3 DEF PostLine, Post
  <2>4. ASSUME NEW s \in Pass, StartPass(s)
        PROVE  late \subseteq late' /\ overlapped \subseteq overlapped' /\ deaths' = deaths
    BY <2>4 DEF StartPass
  <2>5. ASSUME NEW s \in Pass, KeepLine(s) \/ FinishLines(s) \/ MoveRemaining(s) \/ Truncate(s)
        PROVE  late \subseteq late' /\ overlapped \subseteq overlapped' /\ deaths' = deaths
    BY <2>5 DEF KeepLine, FinishLines, MoveRemaining, Truncate, history
  <2>6. ASSUME NEW s \in Pass, PassDies(s)
        PROVE  late \subseteq late' /\ overlapped \subseteq overlapped' /\ deaths' # 0
    BY <1>1, <2>6 DEF PassDies, history
  <2> QED BY <2>1, <2>2, <2>3, <2>4, <2>5, <2>6 DEF Next
<1> QED BY <1>2 DEF Clean

LEMMA OnceAppend ==
  ASSUME NEW q \in Seq(Item), NEW x \in Item, NEW i \in Item, Once(q, i), i = x => i \notin Lines(q)
  PROVE  Once(Append(q, x), i)
<1>1. /\ Len(Append(q, x)) = Len(q) + 1 /\ Len(q) \in Nat
      /\ \A n \in 1..Len(q) : Append(q, x)[n] = q[n]
      /\ Append(q, x)[Len(q) + 1] = x
  OBVIOUS
<1>2. \A n : n \in 1..(Len(q) + 1) <=> n \in 1..Len(q) \/ n = Len(q) + 1
  BY <1>1
<1> QED BY <1>1, <1>2 DEF Once, Lines

LEMMA OnceTail ==
  ASSUME NEW q \in Seq(Item), q # <<>>, NEW i \in Item, Once(q, i)
  PROVE  Once(Tail(q), i) /\ (i = Head(q) => i \notin Lines(Tail(q)))
<1>1. /\ Head(q) = q[1] /\ Len(q) \in Nat /\ Len(q) > 0 /\ Len(Tail(q)) = Len(q) - 1
      /\ \A n \in 1..(Len(q) - 1) : Tail(q)[n] = q[n + 1]
  OBVIOUS
<1>2. \A n \in 1..(Len(q) - 1) : n + 1 \in 1..Len(q) /\ n + 1 # 1
  BY <1>1
<1>3. Once(Tail(q), i)
  <2> SUFFICES ASSUME NEW m \in 1..(Len(q) - 1), NEW n \in 1..(Len(q) - 1), q[m + 1] = i, q[n + 1] = i
               PROVE  m = n
    BY <1>1 DEF Once
  <2>1. m + 1 = n + 1
    BY <1>2 DEF Once
  <2> QED BY <2>1
<1>4. i = Head(q) => i \notin Lines(Tail(q))
  <2> SUFFICES ASSUME i = q[1], NEW n \in 1..(Len(q) - 1), i = q[n + 1] PROVE FALSE
    BY <1>1 DEF Lines
  <2>1. 1 \in 1..Len(q)
    BY <1>1
  <2> QED BY <1>2, <2>1 DEF Once
<1> QED BY <1>3, <1>4

LEMMA OnceEmpty == \A i : Once(<<>>, i)
BY DEF Once

\* A step of a writer that leaves the files alone and posts no line of theirs.
LEMMA WriterStepDup ==
  ASSUME IInv, DInv, Next, UNCHANGED <<files, pass, left>>, StoredOnce',
         \A i \in Item : stored'[i] = stored[i] \/ writer[i] # "done"
  PROVE  DInv'
<1>1. \A i \in Item : Clean(i)' => Clean(i)
  BY CleanBefore
<1>2. /\ queue' = queue /\ remaining' = remaining /\ pass' = pass /\ left' = left
  BY DEF files
<1>3. \A i \in Item : i \in Lines(queue) \cup Lines(remaining) => stored'[i] = stored[i]
  BY DEF IInv, LinesDone
<1>4. \A i \in Item, s \in Pass : i \in Lines(left[s]) => stored'[i] = stored[i]
  BY DEF IInv, LinesDone
<1>5. LinesOnce' /\ ToPost' /\ AtRest' /\ LeftInLoop'
  BY <1>1, <1>2, <1>3, <1>4 DEF DInv, LinesOnce, ToPost, AtRest, LeftInLoop, PassRuns
<1>6. OnePass'
  BY <1>1, <1>2 DEF DInv, OnePass, InFiles
<1> QED BY <1>5, <1>6 DEF DInv

LEMMA WriteDup ==
  ASSUME IInv, DInv, Next, NEW i \in Item, NEW a \in AllAnswers, Write(i, a)
  PROVE  DInv'
<1>1. /\ writer[i] = "post" /\ Post(i, a) /\ writer' = [writer EXCEPT ![i] = AfterPost(a)]
      /\ UNCHANGED <<files, pass, left, deaths, overlapped>>
  BY DEF Write
<1>2. TypeOK
  BY DEF IInv
<1>3. /\ writer'[i] = AfterPost(a) /\ \A j \in Item \ {i} : writer'[j] = writer[j]
  BY <1>1, <1>2 DEF TypeOK
<1>4. \A j \in Item \ {i} : stored'[j] = stored[j]
  BY <1>1, <1>2 DEF Post, TypeOK
<1>5. Clean(i) => stored[i] = 0
  BY <1>1 DEF DInv, StoredOnce
<1>6. Clean(i)' => stored'[i] <= 1 /\ (writer'[i] # "done" => stored'[i] = 0)
  <2>1. SUFFICES ASSUME Clean(i)' PROVE stored'[i] <= 1 /\ (writer'[i] # "done" => stored'[i] = 0)
    OBVIOUS
  <2>2. stored[i] = 0 /\ a # "late"
    BY <1>1, <1>5, <2>1, CleanBefore DEF Clean, Post
  <2>3. CASE a = "ok"
    BY <1>1, <1>2, <1>3, <2>2, <2>3 DEF Post, CarriedOut, AfterPost, Succeeds, TypeOK
  <2>4. CASE a # "ok"
    BY <1>1, <2>2, <2>4 DEF Post, CarriedOut
  <2> QED BY <2>3, <2>4
<1>7. StoredOnce'
  BY <1>3, <1>4, <1>6, CleanBefore DEF DInv, StoredOnce
<1> QED BY <1>1, <1>4, <1>7, WriterStepDup

LEMMA OpenOrDieDup ==
  ASSUME IInv, DInv, Next, NEW i \in Item, OpenQueue(i) \/ WriterDies(i)
  PROVE  DInv'
<1>1. /\ writer[i] # "done" /\ (writer' = [writer EXCEPT ![i] = "append"] \/ writer' = [writer EXCEPT ![i] = "dead"])
      /\ UNCHANGED <<files, stored, pass, left>>
  BY DEF OpenQueue, WriterDies
<1>2. \A j \in Item : writer'[j] # "done" => writer[j] # "done"
  BY <1>1 DEF IInv, TypeOK
<1>3. StoredOnce'
  BY <1>1, <1>2, CleanBefore DEF DInv, StoredOnce
<1> QED BY <1>1, <1>3, WriterStepDup

LEMMA AppendDup ==
  ASSUME IInv, DInv, Next, NEW i \in Item, AppendLine(i)
  PROVE  DInv'
<1>1. /\ writer[i] = "append" /\ writer' = [writer EXCEPT ![i] = "done"]
      /\ queue' = (IF i \in unlinked THEN queue ELSE Append(queue, i))
      /\ UNCHANGED <<remaining, stored, pass, left>>
  BY DEF AppendLine
<1>2. TypeOK /\ \A j \in Item : Clean(j)' => Clean(j)
  BY CleanBefore DEF IInv
<1>3. \A j \in Item : writer'[j] # "done" => writer[j] # "done"
  BY <1>1, <1>2 DEF TypeOK
<1>4. Lines(queue) \subseteq Lines(queue') /\ Lines(queue') \subseteq Lines(queue) \cup {i}
  BY <1>1, <1>2, LinesAppend DEF TypeOK
<1>5. Clean(i) => stored[i] = 0 /\ ~PassRuns
  BY <1>1 DEF DInv, StoredOnce, IInv, OpenNoted, Clean
<1>6. i \notin Lines(queue) /\ i \notin Lines(remaining)
  BY <1>1 DEF IInv, LinesDone
<1>7. LinesOnce'
  <2>1. \A j \in Item : Once(queue, j) => Once(queue', j)
    BY <1>1, <1>2, <1>6, OnceAppend DEF TypeOK
  <2> QED BY <1>1, <1>2, <2>1 DEF DInv, LinesOnce
<1>8. StoredOnce'
  BY <1>1, <1>2, <1>3 DEF DInv, StoredOnce
<1>9. ToPost' /\ LeftInLoop'
  BY <1>1, <1>2 DEF DInv, ToPost, LeftInLoop
<1>10. AtRest'
  BY <1>1, <1>2, <1>4, <1>5 DEF DInv, AtRest, PassRuns
<1>11. OnePass'
  <2>1. \A j \in Item : j \in InFiles' => j \in InFiles \/ j = i
    BY <1>1, <1>4 DEF InFiles
  <2> QED BY <1>1, <1>2, <1>5, <2>1 DEF DInv, OnePass, PassRuns
<1> QED BY <1>7, <1>8, <1>9, <1>10, <1>11 DEF DInv

LEMMA StartPassDup ==
  ASSUME IInv, DInv, Next, NEW s \in Pass, StartPass(s)
  PROVE  DInv'
<1>1. /\ pass[s] = "idle"
      /\ left' = [left EXCEPT ![s] = queue] /\ pass' = [pass EXCEPT ![s] = "line"]
      /\ PassRuns => InFiles \subseteq overlapped'
      /\ UNCHANGED <<queue, remaining, stored, writer>>
  BY DEF StartPass, files
<1>2. TypeOK /\ \A i \in Item : Clean(i)' => Clean(i)
  BY CleanBefore DEF IInv
<1>3. /\ pass'[s] = "line" /\ left'[s] = queue
      /\ \A r \in Pass \ {s} : pass'[r] = pass[r] /\ left'[r] = left[r]
  BY <1>1, <1>2 DEF TypeOK
<1>4. InFiles' = InFiles
  <2>1. left[s] = <<>>
    BY <1>1 DEF DInv, LeftInLoop
  <2> QED BY <1>1, <1>3, <2>1, LinesEmpty DEF InFiles
<1>5. \A i \in Item : Clean(i)' /\ i \in InFiles => ~PassRuns
  BY <1>1 DEF Clean
<1>6. LinesOnce'
  BY <1>1, <1>2, <1>3 DEF DInv, LinesOnce
<1>7. StoredOnce' /\ LeftInLoop'
  BY <1>1, <1>2, <1>3 DEF DInv, StoredOnce, LeftInLoop
<1>8. ToPost'
  BY <1>1, <1>2, <1>3, <1>5 DEF DInv, ToPost, AtRest, InFiles
<1>9. AtRest'
  BY <1>3 DEF AtRest, PassRuns
<1>10. OnePass'
  BY <1>3, <1>4, <1>5 DEF OnePass, PassRuns
<1> QED BY <1>6, <1>7, <1>8, <1>9, <1>10 DEF DInv

LEMMA PostLineDup ==
  ASSUME IInv, DInv, Next, NEW s \in Pass, NEW a \in AllAnswers, PostLine(s, a)
  PROVE  DInv'
<1>0. left[s] # <<>> /\ left[s] \in Seq(Item)
  BY DEF PostLine, IInv, TypeOK
<1> PICK h \in Item : h = Head(left[s])
  BY <1>0, LinesTail
<1>1. /\ pass[s] = "line" /\ left[s] # <<>> /\ Post(h, a)
      /\ Succeeds(a) => left' = [left EXCEPT ![s] = Tail(left[s])] /\ pass' = pass
      /\ ~Succeeds(a) => pass' = [pass EXCEPT ![s] = "keep"] /\ left' = left
      /\ UNCHANGED <<queue, remaining, writer>>
  BY DEF PostLine, files
<1>2. TypeOK /\ left[s] \in Seq(Item) /\ \A i \in Item : Clean(i)' => Clean(i)
  BY CleanBefore DEF IInv, TypeOK
<1>3. /\ Tail(left[s]) \in Seq(Item)
      /\ Lines(left[s]) = {h} \cup Lines(Tail(left[s]))
  BY <1>1, <1>2, LinesTail
<1>4. /\ \A i \in Item \ {h} : stored'[i] = stored[i]
      /\ Clean(h)' /\ a # "ok" => stored'[h] = stored[h]
      /\ stored[h] = 0 => stored'[h] <= 1
  BY <1>1, <1>2, <1>3 DEF Post, CarriedOut, Clean, TypeOK
<1>5. Clean(h) => stored[h] = 0 /\ h \notin Lines(remaining) /\ Once(left[s], h)
  BY <1>3 DEF DInv, ToPost, LinesOnce
<1>6. writer[h] = "done"
  BY <1>3 DEF IInv, LinesDone
<1>7. StoredOnce'
  BY <1>1, <1>2, <1>4, <1>5, <1>6 DEF DInv, StoredOnce
<1>8. \A r \in Pass : pass'[r] # "idle" <=> pass[r] # "idle"
  BY <1>1, <1>2 DEF TypeOK, PassPCs
<1>9. CASE Succeeds(a)
  <2>1. /\ pass' = pass /\ left'[s] = Tail(left[s]) /\ \A r \in Pass \ {s} : left'[r] = left[r]
    BY <1>1, <1>2, <1>9 DEF TypeOK
  <2>2. \A i \in Item : Once(left[s], i) => Once(left'[s], i) /\ (i = h => i \notin Lines(left'[s]))
    BY <1>1, <1>2, <2>1, OnceTail
  <2>3. \A i \in Item, r \in Pass : i \in Lines(left'[r]) => i \in Lines(left[r])
    BY <1>3, <2>1
  <2>4. LinesOnce'
    BY <1>1, <1>2, <2>1, <2>2 DEF DInv, LinesOnce
  <2>5. ToPost'
    <3>1. ASSUME NEW r \in Pass, Clean(h), h \in Lines(left'[r]) PROVE FALSE
      <4>1. h \in InFiles
        BY <1>3 DEF InFiles
      <4>2. left[r] # <<>>
        BY <2>3, <3>1, <1>3, LinesEmpty
      <4>3. r = s
        BY <1>1, <1>3, <3>1, <4>1, <4>2 DEF DInv, OnePass, LeftInLoop
      <4> QED BY <1>3, <1>5, <2>2, <3>1, <4>3
    <3> QED BY <1>1, <1>2, <1>4, <1>5, <2>3, <3>1 DEF DInv, ToPost
  <2>6. AtRest'
    BY <1>1, <2>1 DEF AtRest, PassRuns
  <2>7. OnePass'
    <3>1. InFiles' \subseteq InFiles
      BY <1>1, <1>3, <2>1 DEF InFiles
    <3> QED BY <1>1, <1>2, <2>1, <3>1 DEF DInv, OnePass
  <2>8. LeftInLoop'
    BY <1>1, <2>1 DEF DInv, LeftInLoop
  <2> QED BY <1>7, <2>4, <2>5, <2>6, <2>7, <2>8 DEF DInv
<1>10. CASE ~Succeeds(a)
  <2>1. /\ left' = left /\ pass'[s] = "keep" /\ \A r \in Pass \ {s} : pass'[r] = pass[r]
    BY <1>1, <1>2, <1>10 DEF TypeOK
  <2>2. \A i \in Item : Clean(i)' => stored'[i] = stored[i]
    BY <1>4, <1>10 DEF Succeeds
  <2>3. LinesOnce' /\ ToPost'
    BY <1>1, <1>2, <2>1, <2>2 DEF DInv, LinesOnce, ToPost
  <2>4. AtRest'
    BY <2>1 DEF AtRest, PassRuns
  <2>5. OnePass'
    <3>1. InFiles' = InFiles
      BY <1>1, <2>1 DEF InFiles
    <3> QED BY <1>1, <1>2, <1>8, <2>1, <3>1 DEF DInv, OnePass
  <2>6. LeftInLoop'
    BY <1>1, <2>1 DEF DInv, LeftInLoop
  <2> QED BY <1>7, <2>3, <2>4, <2>5, <2>6 DEF DInv
<1> QED BY <1>9, <1>10

LEMMA KeepLineDup ==
  ASSUME IInv, DInv, Next, NEW s \in Pass, KeepLine(s)
  PROVE  DInv'
<1> DEFINE h == Head(left[s])
<1>1. /\ pass[s] = "keep" /\ remaining' = Append(remaining, h)
      /\ left' = [left EXCEPT ![s] = Tail(left[s])] /\ pass' = [pass EXCEPT ![s] = "line"]
      /\ UNCHANGED <<queue, stored, writer>>
  BY DEF KeepLine
<1>2. /\ TypeOK /\ left[s] \in Seq(Item) /\ left[s] # <<>> /\ remaining \in Seq(Item)
      /\ \A i \in Item : Clean(i)' => Clean(i)
  BY <1>1, CleanBefore DEF IInv, TypeOK, LinesDone
<1>3. /\ Tail(left[s]) \in Seq(Item) /\ h \in Item
      /\ Lines(left[s]) = {h} \cup Lines(Tail(left[s]))
  BY <1>2, LinesTail
<1>4. remaining' \in Seq(Item) /\ Lines(remaining') = Lines(remaining) \cup {h}
  BY <1>1, <1>2, <1>3, LinesAppend
<1>5. \A i \in Item : Once(left[s], i) => Once(Tail(left[s]), i) /\ (i = h => i \notin Lines(Tail(left[s])))
  BY <1>2, OnceTail
<1>6. \A i \in Item : Once(remaining, i) /\ (i = h => i \notin Lines(remaining)) => Once(remaining', i)
  BY <1>1, <1>2, <1>3, OnceAppend
<1> HIDE DEF h
<1>7. /\ pass'[s] = "line" /\ left'[s] = Tail(left[s])
      /\ \A r \in Pass \ {s} : pass'[r] = pass[r] /\ left'[r] = left[r]
  BY <1>1, <1>2 DEF TypeOK
<1>8. Clean(h) => stored[h] = 0 /\ h \notin Lines(remaining)
  BY <1>3 DEF DInv, ToPost
<1>9. \A i \in Item, r \in Pass : i \in Lines(left'[r]) => i \in Lines(left[r])
  BY <1>3, <1>7
<1>10. Clean(h) => \A r \in Pass : pass[r] # "idle" => r = s
  BY <1>1, <1>3 DEF DInv, OnePass, InFiles
<1>11. LinesOnce'
  BY <1>1, <1>2, <1>5, <1>6, <1>7, <1>8 DEF DInv, LinesOnce
<1>12. StoredOnce' /\ LeftInLoop'
  BY <1>1, <1>2, <1>7 DEF DInv, StoredOnce, LeftInLoop
<1>13. ToPost'
  <2>1. ASSUME NEW r \in Pass, Clean(h), h \in Lines(left'[r]) PROVE FALSE
    <3>1. left[r] # <<>>
      BY <1>9, <1>3, <2>1, LinesEmpty
    <3>2. r = s
      BY <1>10, <2>1, <3>1 DEF DInv, LeftInLoop
    <3> QED BY <1>3, <1>5, <1>7, <2>1, <3>2 DEF DInv, LinesOnce
  <2> QED BY <1>1, <1>2, <1>4, <1>8, <1>9, <2>1 DEF DInv, ToPost
<1>14. AtRest'
  BY <1>7 DEF AtRest, PassRuns
<1>15. OnePass'
  <2>1. InFiles' \subseteq InFiles
    BY <1>1, <1>3, <1>4, <1>7 DEF InFiles
  <2>2. remaining' # <<>>
    BY <1>3, <1>4, LinesEmpty
  <2>3. \A i \in Item, r \in Pass : Clean(i) /\ i \in InFiles /\ pass'[r] # "idle" => r = s
    BY <1>1, <1>7 DEF DInv, OnePass
  <2> QED BY <1>2, <1>7, <2>1, <2>2, <2>3 DEF OnePass
<1> QED BY <1>11, <1>12, <1>13, <1>14, <1>15 DEF DInv

LEMMA FinishLinesDup ==
  ASSUME IInv, DInv, Next, NEW s \in Pass, FinishLines(s)
  PROVE  DInv'
<1>1. /\ pass[s] = "line" /\ left[s] = <<>> /\ pass' = [pass EXCEPT ![s] = AfterLines]
      /\ UNCHANGED <<queue, remaining, stored, writer, left>>
  BY DEF FinishLines, files
<1>2. TypeOK /\ \A i \in Item : Clean(i)' => Clean(i)
  BY CleanBefore DEF IInv
<1>3. /\ pass'[s] = AfterLines /\ AfterLines \in {"move", "truncate"}
      /\ AfterLines = "move" => remaining # <<>>
      /\ AfterLines = "truncate" => remaining = <<>>
      /\ \A r \in Pass \ {s} : pass'[r] = pass[r]
  BY <1>1, <1>2 DEF TypeOK, AfterLines
<1>4. LinesOnce' /\ StoredOnce' /\ ToPost'
  BY <1>1, <1>2 DEF DInv, LinesOnce, StoredOnce, ToPost
<1>5. AtRest'
  BY <1>3 DEF AtRest, PassRuns
<1>6. OnePass'
  <2>1. InFiles' = InFiles
    BY <1>1 DEF InFiles
  <2>2. \A i \in Item, r \in Pass : Clean(i) /\ i \in InFiles /\ pass'[r] # "idle" => r = s
    BY <1>1, <1>3 DEF DInv, OnePass
  <2> QED BY <1>1, <1>2, <1>3, <2>1, <2>2, LinesEmpty DEF OnePass
<1>7. LeftInLoop'
  BY <1>1, <1>3 DEF DInv, LeftInLoop
<1> QED BY <1>4, <1>5, <1>6, <1>7 DEF DInv

LEMMA EndsDup ==
  ASSUME IInv, DInv, Next, NEW s \in Pass, MoveRemaining(s) \/ Truncate(s)
  PROVE  DInv'
<1>1. /\ pass[s] \in {"move", "truncate"} /\ pass' = [pass EXCEPT ![s] = "idle"]
      /\ UNCHANGED <<stored, writer, left>>
  BY DEF MoveRemaining, Truncate
<1>2. TypeOK /\ \A i \in Item : Clean(i)' => Clean(i)
  BY CleanBefore DEF IInv
<1>3. pass'[s] = "idle" /\ \A r \in Pass \ {s} : pass'[r] = pass[r]
  BY <1>1, <1>2 DEF TypeOK
<1>4. \/ queue' = remaining /\ remaining' = <<>>
      \/ UNCHANGED <<queue, remaining>> /\ pass[s] = "move" /\ remaining = <<>>
      \/ queue' = <<>> /\ UNCHANGED remaining /\ pass[s] = "truncate"
  BY DEF MoveRemaining, Truncate, files
<1>5. InFiles' \subseteq InFiles
  BY <1>1, <1>4, LinesEmpty DEF InFiles
<1>6. \A i \in Item : Clean(i) /\ i \in InFiles => \A r \in Pass : pass'[r] = "idle"
  BY <1>1, <1>3 DEF DInv, OnePass
<1>7. LinesOnce'
  BY <1>1, <1>2, <1>4, OnceEmpty DEF DInv, LinesOnce
<1>8. StoredOnce'
  BY <1>1, <1>2 DEF DInv, StoredOnce
<1>9. ToPost'
  BY <1>1, <1>2, <1>4, LinesEmpty DEF DInv, ToPost
<1>10. AtRest'
  <2>1. \A i \in Item : Clean(i) /\ i \in InFiles =>
          (pass[s] = "move" => remaining # <<>>) /\ (pass[s] = "truncate" => i \notin Lines(remaining))
    BY <1>1 DEF DInv, OnePass
  <2> QED BY <1>1, <1>2, <1>4, <1>5, <2>1, LinesEmpty DEF AtRest, DInv, ToPost, InFiles
<1>11. OnePass'
  BY <1>2, <1>5, <1>6 DEF OnePass
<1>12. LeftInLoop'
  BY <1>1, <1>3 DEF DInv, LeftInLoop
<1> QED BY <1>7, <1>8, <1>9, <1>10, <1>11, <1>12 DEF DInv

LEMMA PassDiesDup ==
  ASSUME IInv, DInv, NEW s \in Pass, PassDies(s)
  PROVE  DInv'
<1>1. \A i \in Item : ~Clean(i)'
  BY QueueAssumption DEF PassDies, IInv, TypeOK, Clean
<1>2. LeftInLoop'
  BY DEF PassDies, IInv, TypeOK, DInv, LeftInLoop
<1> QED BY <1>1, <1>2 DEF DInv, LinesOnce, StoredOnce, ToPost, AtRest, OnePass

LEMMA InitDup == Init => DInv
<1> SUFFICES ASSUME Init PROVE DInv
  OBVIOUS
<1>1. LinesOnce
  BY OnceEmpty DEF Init, LinesOnce
<1> QED BY <1>1, LinesEmpty DEF Init, DInv, StoredOnce, ToPost, AtRest, OnePass, LeftInLoop, InFiles

LEMMA NextDup ==
  ASSUME IInv, DInv, [Next]_vars
  PROVE  DInv'
<1>1. CASE Next
  <2>1. ASSUME NEW i \in Item, NEW a \in AllAnswers, Write(i, a) PROVE DInv'
    BY <1>1, <2>1, WriteDup
  <2>2. ASSUME NEW i \in Item, OpenQueue(i) \/ AppendLine(i) \/ WriterDies(i) PROVE DInv'
    BY <1>1, <2>2, OpenOrDieDup, AppendDup
  <2>3. ASSUME NEW s \in Pass, NEW a \in AllAnswers, PostLine(s, a) PROVE DInv'
    BY <1>1, <2>3, PostLineDup
  <2>4. ASSUME NEW s \in Pass, StartPass(s) \/ KeepLine(s) \/ FinishLines(s) PROVE DInv'
    BY <1>1, <2>4, StartPassDup, KeepLineDup, FinishLinesDup
  <2>5. ASSUME NEW s \in Pass, MoveRemaining(s) \/ Truncate(s) \/ PassDies(s) PROVE DInv'
    BY <1>1, <2>5, EndsDup, PassDiesDup
  <2> QED BY <1>1, <2>1, <2>2, <2>3, <2>4, <2>5 DEF Next
<1>2. CASE UNCHANGED vars
  BY <1>2 DEF vars, files, history, DInv, LinesOnce, StoredOnce, ToPost, AtRest, OnePass, LeftInLoop,
              Clean, Once, Lines, InFiles, PassRuns
<1> QED BY <1>1, <1>2

\* A write reaches the service a second time only after an answer that came
\* too late, the death of a pass, or two passes over its line at once.
THEOREM CarriedOutOnce == Spec => []DuplicateNeedsFailure
<1>1. Init => IInv /\ DInv
  BY InitInv, InitDup
<1>2. IInv /\ DInv /\ [Next]_vars => (IInv /\ DInv)'
  BY NextInv, NextDup
<1>3. IInv /\ DInv => DuplicateNeedsFailure
  <2> SUFFICES ASSUME IInv, DInv, NEW i \in Item, stored[i] > 1, i \notin late \cup overlapped
               PROVE  deaths > 0
    BY DEF DuplicateNeedsFailure
  <2>1. deaths \in Nat /\ stored[i] \in 0..2
    BY QueueAssumption DEF IInv, TypeOK
  <2> QED BY <2>1 DEF DInv, StoredOnce, Clean
<1> QED BY <1>1, <1>2, <1>3, PTL DEF Spec
=============================================================================
