---------------------------- MODULE OfflineQueue ----------------------------
(***************************************************************************)
(* The offline write path of the project root pack: memlayer_write.sh      *)
(* posts an entry and queues it when the post fails, memlayer_sync.sh      *)
(* posts the lines of the queue file and rewrites it.  Both are processes  *)
(* on the same files, without a lock, and may die between two commands.    *)
(*                                                                         *)
(* .remaining exists exactly when it has lines: only an append creates it. *)
(* .sent is written and removed but never read, and is left out, as is the *)
(* log of queued writes that a person reads.                               *)
(***************************************************************************)
EXTENDS Naturals, Sequences, FiniteSets

CONSTANTS
  Item,        \* writes, each by its own run of memlayer_write.sh
  Pass,        \* slots for runs of memlayer_sync.sh
  Answers,     \* what may become of a post in this instance
  MaxLines,    \* bound: a pass starts only on files of so many lines
  MaxDeaths    \* bound on the runs of memlayer_sync.sh that die

\* A post does not reach the service, is carried out, is answered with an
\* HTTP error, or is carried out but not answered in time.
AllAnswers == {"down", "ok", "refused", "late"}

ASSUME QueueAssumption ==
  /\ Answers \subseteq AllAnswers
  /\ MaxLines \in Nat /\ MaxDeaths \in Nat

WriterPCs == {"post", "open", "append", "done", "dead"}
PassPCs   == {"idle", "line", "keep", "move", "truncate"}

VARIABLES
  queue,       \* lines of memlayer.offline.queue.jsonl
  remaining,   \* lines of its .remaining
  stored,      \* how often the service carried out a write: 0, 1 or more
  writer,      \* where each memlayer_write.sh is
  unlinked,    \* writers whose open queue file has been replaced by mv
  pass,        \* where each memlayer_sync.sh is
  left,        \* the lines it has read and not finished
  deaths,      \* runs of memlayer_sync.sh that have died
  overlapped,  \* history: writes appended while a pass ran, or in the files
               \* when a second pass started
  refused,     \* history: writes that the service answered with an error
  late         \* history: writes carried out without an answer in time

files   == <<queue, remaining>>
history == <<overlapped, refused, late>>
vars    == <<files, stored, writer, unlinked, pass, left, deaths, history>>

-----------------------------------------------------------------------------
(* memlayer_api.sh POST                                                     *)

\* curl without --fail: any answer of the service is a success.
Succeeds(a) == a \in {"ok", "refused"}

CarriedOut(a) == a \in {"ok", "late"}

\* Bound: twice stands for any larger number.
Post(i, a) ==
  /\ a \in Answers
  /\ stored' = IF CarriedOut(a) /\ stored[i] < 2 THEN [stored EXCEPT ![i] = @ + 1] ELSE stored
  /\ refused' = IF a = "refused" THEN refused \cup {i} ELSE refused
  /\ late' = IF a = "late" THEN late \cup {i} ELSE late

-----------------------------------------------------------------------------
(* memlayer_write.sh                                                        *)

\* Mutant: the answer itself decides what comes next.
AfterAnswer(a) == IF a = "ok" THEN "done" ELSE a

AfterPost(a) == IF Succeeds(a) THEN "done" ELSE "open"

PassRuns == \E s \in Pass : pass[s] # "idle"

Write(i, a) ==
  /\ writer[i] = "post"
  /\ Post(i, a)
  /\ writer' = [writer EXCEPT ![i] = AfterPost(a)]
  /\ UNCHANGED <<files, unlinked, pass, left, deaths, overlapped>>

OpenQueue(i) ==
  /\ writer[i] = "open"
  /\ writer' = [writer EXCEPT ![i] = "append"]
  /\ overlapped' = IF PassRuns THEN overlapped \cup {i} ELSE overlapped
  /\ UNCHANGED <<files, stored, unlinked, pass, left, deaths, refused, late>>

\* The line goes to the file that was opened, which may have lost its name.
AppendLine(i) ==
  /\ writer[i] = "append"
  /\ queue' = IF i \in unlinked THEN queue ELSE Append(queue, i)
  /\ unlinked' = unlinked \ {i}
  /\ writer' = [writer EXCEPT ![i] = "done"]
  /\ UNCHANGED <<remaining, stored, pass, left, deaths, history>>

WriterDies(i) ==
  /\ writer[i] \in {"post", "open", "append"}
  /\ writer' = [writer EXCEPT ![i] = "dead"]
  /\ unlinked' = unlinked \ {i}
  /\ UNCHANGED <<files, stored, pass, left, deaths, history>>

-----------------------------------------------------------------------------
(* memlayer_sync.sh                                                         *)

Lines(q) == {q[n] : n \in 1..Len(q)}

\* The writes that are in a file or that a running pass may put back.
InFiles == Lines(queue) \cup Lines(remaining) \cup UNION {Lines(left[s]) : s \in Pass}

\* Mutant: the queue is emptied as it is read.
StartPassTaking(s) ==
  /\ pass[s] = "idle"
  /\ Len(queue) + Len(remaining) <= MaxLines
  /\ left' = [left EXCEPT ![s] = queue] /\ queue' = <<>>
  /\ pass' = [pass EXCEPT ![s] = "line"]
  /\ overlapped' = overlapped \cup {i \in Item : writer[i] = "append"}
                              \cup (IF PassRuns THEN InFiles ELSE {})
  /\ UNCHANGED <<remaining, stored, writer, unlinked, deaths, refused, late>>

\* The queue is read once, before the first line is posted.
StartPass(s) ==
  /\ pass[s] = "idle"
  /\ Len(queue) + Len(remaining) <= MaxLines
  /\ left' = [left EXCEPT ![s] = queue]
  /\ pass' = [pass EXCEPT ![s] = "line"]
  /\ overlapped' = overlapped \cup {i \in Item : writer[i] = "append"}
                              \cup (IF PassRuns THEN InFiles ELSE {})
  /\ UNCHANGED <<files, stored, writer, unlinked, deaths, refused, late>>

PostLine(s, a) ==
  /\ pass[s] = "line" /\ left[s] # <<>>
  /\ Post(Head(left[s]), a)
  /\ IF Succeeds(a)
     THEN left' = [left EXCEPT ![s] = Tail(@)] /\ UNCHANGED pass
     ELSE pass' = [pass EXCEPT ![s] = "keep"] /\ UNCHANGED left
  /\ UNCHANGED <<files, writer, unlinked, deaths, overlapped>>

\* Mutant: the line that failed replaces the lines kept so far.
KeepLineOnly(s) ==
  /\ pass[s] = "keep"
  /\ remaining' = <<Head(left[s])>>
  /\ left' = [left EXCEPT ![s] = Tail(@)]
  /\ pass' = [pass EXCEPT ![s] = "line"]
  /\ UNCHANGED <<queue, stored, writer, unlinked, deaths, history>>

KeepLine(s) ==
  /\ pass[s] = "keep"
  /\ remaining' = Append(remaining, Head(left[s]))
  /\ left' = [left EXCEPT ![s] = Tail(@)]
  /\ pass' = [pass EXCEPT ![s] = "line"]
  /\ UNCHANGED <<queue, stored, writer, unlinked, deaths, history>>

\* [[ -f .remaining ]]
AfterLines == IF remaining # <<>> THEN "move" ELSE "truncate"

FinishLines(s) ==
  /\ pass[s] = "line" /\ left[s] = <<>>
  /\ pass' = [pass EXCEPT ![s] = AfterLines]
  /\ UNCHANGED <<files, stored, writer, unlinked, left, deaths, history>>

\* Mutant: cp instead of mv.
CopyRemaining(s) ==
  /\ pass[s] = "move"
  /\ queue' = remaining
  /\ pass' = [pass EXCEPT ![s] = "idle"]
  /\ UNCHANGED <<remaining, stored, writer, unlinked, left, deaths, history>>

\* mv gives .remaining the name of the queue; when another pass has moved it
\* first, mv fails and the script ends.
MoveRemaining(s) ==
  /\ pass[s] = "move"
  /\ IF remaining # <<>>
     THEN /\ queue' = remaining /\ remaining' = <<>>
          /\ unlinked' = {i \in Item : writer[i] = "append"}
     ELSE UNCHANGED <<files, unlinked>>
  /\ pass' = [pass EXCEPT ![s] = "idle"]
  /\ UNCHANGED <<stored, writer, left, deaths, history>>

Truncate(s) ==
  /\ pass[s] = "truncate"
  /\ queue' = <<>>
  /\ pass' = [pass EXCEPT ![s] = "idle"]
  /\ UNCHANGED <<remaining, stored, writer, unlinked, left, deaths, history>>

PassDies(s) ==
  /\ pass[s] # "idle" /\ deaths < MaxDeaths
  /\ deaths' = deaths + 1
  /\ pass' = [pass EXCEPT ![s] = "idle"]
  /\ left' = [left EXCEPT ![s] = <<>>]
  /\ UNCHANGED <<files, stored, writer, unlinked, history>>

-----------------------------------------------------------------------------

Init ==
  /\ queue = <<>> /\ remaining = <<>>
  /\ stored = [i \in Item |-> 0]
  /\ writer = [i \in Item |-> "post"]
  /\ unlinked = {}
  /\ pass = [s \in Pass |-> "idle"]
  /\ left = [s \in Pass |-> <<>>]
  /\ deaths = 0
  /\ overlapped = {} /\ refused = {} /\ late = {}

Next ==
  \/ \E i \in Item : \/ \E a \in AllAnswers : Write(i, a)
                     \/ OpenQueue(i) \/ AppendLine(i) \/ WriterDies(i)
  \/ \E s \in Pass : \/ StartPass(s)
                     \/ \E a \in AllAnswers : PostLine(s, a)
                     \/ KeepLine(s) \/ FinishLines(s)
                     \/ MoveRemaining(s) \/ Truncate(s) \/ PassDies(s)

Spec == Init /\ [][Next]_vars

-----------------------------------------------------------------------------
(* Properties.                                                              *)

\* Types of all variables.
TypeOK ==
  /\ queue \in Seq(Item) /\ remaining \in Seq(Item)
  /\ stored \in [Item -> 0..2]
  /\ writer \in [Item -> WriterPCs]
  /\ unlinked \subseteq Item
  /\ pass \in [Pass -> PassPCs]
  /\ left \in [Pass -> Seq(Item)]
  /\ deaths \in 0..MaxDeaths
  /\ overlapped \subseteq Item /\ refused \subseteq Item /\ late \subseteq Item

\* A write whose script has ended well and that is neither carried out nor
\* in the queue, nor among the lines a running pass will put back.
Lost(i) ==
  /\ writer[i] = "done" /\ stored[i] = 0
  /\ i \notin InFiles

\* MEMLAYER.md promises that a write is "queued locally instead of lost".
NothingLost == \A i \in Item : ~Lost(i)

\* The two ways a write is lost: the service answered a post of it with an
\* error status, which the scripts take for success, or a pass ran beside its
\* append or beside another pass.  No death of a script, at any command, and
\* no timeout loses one.
LossNeedsOverlap == \A i \in Item : Lost(i) => i \in overlapped \cup refused

\* A pass that ends has put back, or posted, every line it found: what leaves
\* the files has been carried out or answered.
PassKeepsLines ==
  [][\A i \in Lines(queue) \cup Lines(remaining) :
       \/ i \in Lines(queue') \cup Lines(remaining')
       \/ stored[i] > 0 \/ i \in overlapped \cup refused]_vars

\* A write is carried out twice only when an answer to it came too late, a
\* pass died before it rewrote the queue, or two passes ran over it at once.
DuplicateNeedsFailure ==
  \A i \in Item : stored[i] > 1 => i \in late \cup overlapped \/ deaths > 0
=============================================================================
