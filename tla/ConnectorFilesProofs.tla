------------------------- MODULE ConnectorFilesProofs -------------------------
(***************************************************************************)
(* What holds of the connector's files for every registry, and any number  *)
(* of commands, edits and faults.                                          *)
(***************************************************************************)
EXTENDS ConnectorFiles, SequenceTheorems, TLAPS

-----------------------------------------------------------------------------
(* Files, plans and what a command has captured.                            *)

PartsOf(a) ==
  CASE Mode[a] = "keys" -> {Nothing, Broken} \cup AllKeys
    [] Mode[a] \in {"section", "line"} -> {Nothing, Current, Changed}
    [] Mode[a] = "whole" -> {Nothing, Current, Prior, Changed}
    [] Mode[a] = "env" -> {Nothing}
    [] OTHER -> {Nothing, Current}

\* A file that is not there holds nothing.
FileOK(a, f) == f \in Files /\ f.part \in PartsOf(a) /\ (~f.there => f = Absent)

Record == [created : BOOLEAN, hash : Hash]

ManifestOK(m) ==
  \/ m = NoManifest
  \/ /\ m.there /\ m = Manifest(m.id, m.project, m.records)
     /\ m.id \in Identity /\ m.project \in Project \cup {NoProject}
     /\ m.records \in [Artifact -> Record]

ConnectRun(q) ==
  /\ q.op = "connect"
  /\ q = [op |-> "connect", plan |-> q.plan, old |-> q.old, id |-> q.id, project |-> q.project,
          seen |-> q.seen, before |-> q.before]
  /\ q.plan \in [Artifact -> Kinds] /\ ManifestOK(q.old)
  /\ q.id \in Identity /\ q.project \in Project \cup {NoProject}

DisconnectRun(q) ==
  /\ q.op = "disconnect"
  /\ q = [op |-> "disconnect", plan |-> q.plan, old |-> q.old, before |-> q.before]
  /\ q.plan \in [Artifact -> Kinds] /\ ManifestOK(q.old) /\ q.old.there

InstalledRun(q) ==
  /\ q.op = "register" /\ q.id \in Identity
  /\ ManifestOK(q.new) /\ q.new.there /\ q.new.id = q.id

RegisterRun(q) ==
  /\ q = [op |-> "register", old |-> q.old, new |-> q.new, before |-> q.before]
  /\ ManifestOK(q.old) /\ q.old.there /\ ManifestOK(q.new) /\ q.new.there

RunOK ==
  /\ pc \in Writing \cup {"idle", "observe", "check", "recheck", "installed", "config"}
  /\ pc = "idle" => run = NoRun
  /\ pc \in {"observe", "check", "apply"} => ConnectRun(run)
  /\ pc \in {"recheck", "remove"} => DisconnectRun(run)
  /\ pc \in {"manifest", "restore"} => ConnectRun(run) \/ DisconnectRun(run)
  /\ pc \in {"installed", "config"} => manifest.there
  /\ pc = "installed" => run = [op |-> "register", id |-> run.id, new |-> run.new] /\ InstalledRun(run)
  /\ pc = "config" =>
       /\ run = [op |-> "register", id |-> run.id, new |-> run.new, project |-> run.project]
       /\ InstalledRun(run) /\ run.project \in Project
  /\ pc \in {"bind", "unconfig", "unbind"} => RegisterRun(run)

Kept == {kept[n] : n \in 1..Len(kept)}

Snapshot(x) ==
  /\ x = [name |-> x.name, was |-> x.was]
  /\ \/ x.name \in Artifact /\ FileOK(x.name, x.was)
     \/ x.name = "manifest" /\ x.was = Absent

Ahead(a) == \E n \in at..Len(Registry) : Registry[n] = a

\* What was captured is what the command has passed, and the configuration
\* alone in a registration.
KeptOK ==
  /\ kept \in Seq(Kept)
  /\ \A x \in Kept : Snapshot(x)
  /\ pc \in {"idle", "observe", "check", "recheck", "installed", "config"} => kept = <<>>
  /\ pc \in {"bind", "unconfig", "unbind"} =>
       kept = <<kept[1]>> /\ kept[1].name = Config
  /\ pc \in {"apply", "remove"} => \A x \in Kept : x.name \in Artifact /\ ~Ahead(x.name)
  /\ pc = "manifest" => \A x \in Kept : x.name \in Artifact

Stored ==
  /\ file \in [Artifact -> Files] /\ \A a \in Artifact : FileOK(a, file[a])
  /\ ManifestOK(manifest)
  /\ at \in 1..Len(Registry) /\ (pc \notin {"apply", "remove"} => at = 1)
  /\ edits \in 0..MaxEdits /\ runs \in 0..MaxRuns /\ faults \in 0..MaxFaults
  /\ touched \subseteq Artifact /\ raced \subseteq touched
  /\ unresolved \subseteq Artifact \cup {"manifest"}

TInv == Stored /\ RunOK /\ KeptOK

-----------------------------------------------------------------------------
(* The user's content: what a plan relies on is still so where it is        *)
(* applied, and what was captured is the user's as it is in the file.       *)

OwnHashes == {<<Current, 0>>, <<Prior, 0>>}

\* What connect relies on when it writes a file of this digest.
Fits(a, d) ==
  /\ Mode[a] = "whole" /\ run.plan[a] # "adopt" => d \in OwnHashes \cup {<<"absent">>}
  /\ Mode[a] = "line" /\ run.plan[a] # "adopt" => d = <<"absent">>

\* What disconnect relies on when it removes a file.
MayRemove(a) ==
  run.plan[a] = "remove" =>
    /\ Mode[a] \in {"section", "whole", "keys"}
    /\ Mode[a] = "section" => run.old.records[a].hash = Current
    /\ Mode[a] = "whole" /\ a \notin raced /\ Ahead(a) => Released(file[a])

SameUser(f, was) == was.user = f.user /\ (f.part \in {Changed, Broken} => was.part = f.part)

PlanFits ==
  /\ pc = "observe" => \A a \in Artifact \ raced : Fits(a, Digest(a, file[a]))
  /\ pc = "check" => \A a \in Artifact \ raced : Fits(a, run.seen[a])
  /\ pc = "apply" => \A a \in Artifact \ raced : Ahead(a) => Fits(a, Digest(a, file[a]))
  /\ pc = "remove" => \A a \in Artifact : MayRemove(a)

KeptIsOfUser == \A x \in Kept : x.name \in Artifact \ raced => SameUser(file[x.name], x.was)

UInv == PlanFits /\ KeptIsOfUser

-----------------------------------------------------------------------------
(* Rollback: a file is as it was when the command began to write, or it is  *)
(* captured as it was.                                                      *)

BeforeWriting == pc \in {"observe", "check", "recheck"} => run.old = manifest

WhileWriting ==
  pc \in {"apply", "remove", "manifest", "restore"} =>
    /\ run.before[2] = run.old
    /\ manifest = run.old \/ \E x \in Kept : x.name = "manifest"
    /\ \A a \in Artifact \ raced : file[a] = run.before[1][a] \/ \E x \in Kept : x.name = a
    /\ \A x \in Kept : x.name \in Artifact \ raced => x.was = run.before[1][x.name]

WhileRegistering ==
  pc \in {"bind", "unconfig", "unbind"} =>
    /\ run.before[2] = run.old
    /\ \A a \in Artifact \ (raced \cup {Config}) : file[a] = run.before[1][a]
    /\ kept[1].was = run.before[1][Config]
    /\ pc = "unbind" /\ unresolved = {} /\ Config \notin raced => file[Config] = run.before[1][Config]

BInv == BeforeWriting /\ WhileWriting /\ WhileRegistering

-----------------------------------------------------------------------------
(* Files the user has not edited, and what the manifest records of them.    *)

Untouched(a, f) ==
  /\ Mode[a] \in {"section", "line"} => f.part \in {Nothing, Current}
  /\ Mode[a] = "whole" => f.user = 0 /\ (f.there => f.part \in {Current, Prior})
  /\ Mode[a] = "keys" => f.part = Nothing \/ (f.part \in AllKeys /\ f.part[4] = "own")

\* Only an older installation has files of the prior release on record.
Recorded(a, f, m) ==
  /\ f.there /\ (Managed(a) => Digest(a, f) = m.records[a].hash)
  /\ ReleasedRecord(a, m.records[a].hash)
  /\ a = Config => f.part \in AllKeys /\ Matches(m, f)
  /\ Mode[a] = "whole" /\ m.id # MaxRuns + 1 => m.records[a].hash = <<Current, 0>>

\* No command has died or failed to restore, but for the first connections.
Trusted(m) == m.there /\ (hurt = {} \/ (hurt = {"connect"} /\ m.id # MaxRuns + 1))

FilesUntouched ==
  /\ \A a \in Artifact \ touched : Untouched(a, file[a])
  /\ \A x \in Kept : x.name \in Artifact \ touched => Untouched(x.name, x.was)

AtRest ==
  pc \in {"idle", "observe", "check", "recheck"} /\ Trusted(manifest) =>
    \A a \in Artifact \ touched : Recorded(a, file[a], manifest)

JustInstalled ==
  pc \in {"installed", "config"} =>
    /\ run.new = manifest
    /\ \A a \in Artifact \ touched : Recorded(a, file[a], manifest)

\* What a command that writes found, and goes back to.
FoundRecorded ==
  pc \in {"apply", "remove", "manifest", "restore"} /\ Trusted(run.old) =>
    \A a \in Artifact \ touched : Recorded(a, run.before[1][a], run.old)

\* A registration goes from one recorded state to another.
BothRecorded ==
  pc \in {"bind", "unconfig", "unbind"} =>
    /\ \A a \in Artifact \ touched :
         /\ Recorded(a, run.before[1][a], run.old)
         /\ pc = "bind" => Recorded(a, file[a], run.new)
    /\ pc = "unbind" => unresolved = {} \/ "register" \in hurt

Connecting == pc \in {"observe", "check", "apply", "manifest", "restore"} /\ run.op = "connect"

\* A connect plan is made from the files as they are.
PlanOfFiles ==
  /\ pc \in {"observe", "check"} =>
       \A a \in Artifact \ touched : run.plan[a] = ConnectKind(a, file[a], run.old)
  /\ pc \in {"apply", "manifest", "restore"} /\ run.op = "connect" =>
       \A a \in Artifact \ touched : run.plan[a] = ConnectKind(a, run.before[1][a], run.old)

\* The identity and the project of a connect are those of the configuration.
IdentityKept ==
  Connecting =>
    /\ run.id # 0 /\ (IF run.old.there THEN run.id = run.old.id ELSE run.id # MaxRuns + 1)
    /\ manifest.there => manifest.id = run.id
    /\ Config \notin touched /\ pc # "restore" => ProjectOf(file[Config]) = run.project

Placed(a, f) ==
  /\ f.there
  /\ Mode[a] \in {"section", "line"} => f.part = Current
  /\ Mode[a] = "whole" => f.user = 0 /\ f.part = Current
  /\ Mode[a] = "keys" => f.part = Keys(run.id, run.project, "own")

AllPlaced ==
  pc \in {"apply", "manifest"} /\ run.op = "connect" =>
    \A a \in Artifact \ touched : pc = "manifest" \/ ~Ahead(a) => Placed(a, file[a])

\* Whenever a connect may die, the files fit the manifest that is there, and
\* the one it found.
RecordedNow ==
  pc \in {"apply", "manifest", "restore"} /\ run.op = "connect" /\ run.id # MaxRuns + 1
  /\ hurt \subseteq {"connect"} =>
    \A a \in Artifact \ touched :
      /\ manifest.there => Recorded(a, file[a], manifest)
      /\ run.old.there => Recorded(a, file[a], run.old)

ManifestLast == pc = "restore" => \A n \in 1..(Len(kept) - 1) : kept[n].name # "manifest"

MInv == /\ FilesUntouched /\ AtRest /\ JustInstalled /\ FoundRecorded /\ BothRecorded
        /\ PlanOfFiles /\ IdentityKept /\ AllPlaced /\ RecordedNow /\ ManifestLast

-----------------------------------------------------------------------------
(* What was there before the first command.                                 *)

OwnParts == {a \in Artifact : Mode[a] \in {"section", "whole", "keys"}}

\* A manifest says that the connector created what was not there; without
\* manifest, nothing is there of the connector that was not there at first.
Faithful(a, f, m) ==
  IF m.there
  THEN /\ original[a].part = Nothing => m.records[a].created
       /\ Mode[a] # "keys" /\ original[a].part # Nothing => ~m.records[a].created
  ELSE /\ original[a].part = Nothing => f.part = Nothing
       /\ Mode[a] # "keys" /\ original[a].part # Nothing => f.part # Nothing

FaithfulNow ==
  pc \in {"idle", "observe", "check", "recheck", "installed", "config"} /\ hurt = {} =>
    \A a \in OwnParts \ touched : Faithful(a, file[a], manifest)

FaithfulFound ==
  pc \in {"apply", "remove", "manifest", "restore", "bind", "unconfig", "unbind"} /\ hurt = {} =>
    \A a \in OwnParts \ touched :
      /\ Faithful(a, run.before[1][a], run.old)
      /\ pc \in {"bind", "unconfig", "unbind"} => Faithful(a, file[a], run.new)

\* What disconnect has removed, and what it has left alone.
Cleared ==
  pc \in {"remove", "manifest"} /\ run.op = "disconnect" =>
    \A a \in Artifact \ touched :
      /\ run.plan[a] = DisconnectKind(a, run.before[1][a], run.old.records[a])
      /\ run.plan[a] # "remove" => file[a] = run.before[1][a]
      /\ run.plan[a] = "remove" /\ (pc = "manifest" \/ ~Ahead(a)) => file[a].part = Nothing

FilesFound ==
  pc \in {"apply", "remove", "manifest", "restore"} => \A a \in Artifact : FileOK(a, run.before[1][a])

EInv == FaithfulNow /\ FaithfulFound /\ Cleared /\ FilesFound

-----------------------------------------------------------------------------
(* Lemmas about files and records.                                          *)

LEMMA Constants ==
  /\ Registry \in Seq(Artifact) /\ Len(Registry) \in Nat \ {0}
  /\ \A n \in 1..Len(Registry) : Registry[n] \in Artifact
  /\ \A m, n \in 1..Len(Registry) : Registry[m] = Registry[n] => m = n
  /\ Mode \in [Artifact -> Modes] /\ Config \in Artifact /\ \A a \in Artifact : Mode[a] = "keys" <=> a = Config
  /\ "manifest" \notin Artifact /\ MaxEdits \in Nat /\ MaxRuns \in Nat /\ MaxFaults \in Nat
<1>1. /\ Registry \in Seq(Artifact) /\ Config \in Artifact
      /\ \A m, n \in 1..Len(Registry) : Registry[m] = Registry[n] => m = n
      /\ Mode \in [Artifact -> Modes] /\ \A a \in Artifact : Mode[a] = "keys" <=> a = Config
      /\ "manifest" \notin Artifact /\ MaxEdits \in Nat /\ MaxRuns \in Nat /\ MaxFaults \in Nat
  BY ConnectorAssumption
<1>2. \A n \in 1..Len(Registry) : Registry[n] \in Artifact
  BY DEF Artifact
<1>3. Len(Registry) \in Nat \ {0}
  BY <1>1, LenProperties DEF Artifact
<1> QED BY <1>1, <1>2, <1>3

LEMMA PartsDiffer ==
  /\ Nothing # Current /\ Nothing # Prior /\ Nothing # Changed /\ Nothing # Broken
  /\ Current # Prior /\ Current # Changed /\ Current # Broken
  /\ Prior # Changed /\ Prior # Broken /\ Changed # Broken
  /\ <<"absent">> # Nothing /\ <<"absent">> # Current
BY DEF Nothing, Current, Prior, Changed, Broken

LEMMA KeysOfParts ==
  /\ \A i, p, v : /\ Keys(i, p, v)[2] = i /\ Keys(i, p, v)[3] = p /\ Keys(i, p, v)[4] = v
                  /\ Keys(i, p, v) \notin {Nothing, Current, Prior, Changed, Broken, <<"absent">>}
  /\ \A k \in AllKeys : /\ k = Keys(k[2], k[3], k[4])
                        /\ k[2] \in Identity /\ k[3] \in Project \cup {NoProject} /\ k[4] \in {"own", "part", "foreign"}
  /\ \A i \in Identity, p \in Project \cup {NoProject}, v \in {"own", "part", "foreign"} : Keys(i, p, v) \in AllKeys
<1>1. \A i, p, v : /\ Keys(i, p, v)[2] = i /\ Keys(i, p, v)[3] = p /\ Keys(i, p, v)[4] = v
                   /\ Keys(i, p, v) \notin {Nothing, Current, Prior, Changed, Broken, <<"absent">>}
  BY DEF Keys, Nothing, Current, Prior, Changed, Broken
<1>2. \A i \in Identity, p \in Project \cup {NoProject}, v \in {"own", "part", "foreign"} : Keys(i, p, v) \in AllKeys
  BY DEF AllKeys
<1>3. \A k \in AllKeys : \E i \in Identity, p \in Project \cup {NoProject}, v \in {"own", "part", "foreign"} : k = Keys(i, p, v)
  BY DEF AllKeys
<1> QED BY <1>1, <1>2, <1>3

LEMMA NotKeys == {Nothing, Current, Prior, Changed, Broken, <<"absent">>} \cap AllKeys = {}
BY KeysOfParts

\* Digests tell what the properties tell apart.
LEMMA PairHash ==
  ASSUME NEW p, NEW u
  PROVE  /\ <<p, u>> # <<"absent">> /\ <<p, u>> # Nothing
         /\ <<p, u>> \in OwnHashes <=> p \in {Current, Prior} /\ u = 0
         /\ <<p, u>> = <<Current, 0>> <=> p = Current /\ u = 0
BY DEF OwnHashes, Nothing

LEMMA TextHash == \A u : <<"text", u>> \notin {Current, Nothing, <<"absent">>}
BY DEF Current, Nothing

LEMMA DigestOf ==
  ASSUME NEW a \in Artifact, NEW f
  PROVE  /\ Mode[a] = "env" => Digest(a, f) = Nothing
         /\ Mode[a] # "env" /\ ~f.there => Digest(a, f) = <<"absent">>
         /\ Mode[a] = "keys" /\ f.there => Digest(a, f) = f.part
         /\ Mode[a] = "section" /\ f.there => Digest(a, f) = IF f.part = Nothing THEN <<"text", f.user>> ELSE f.part
         /\ Mode[a] = "line" /\ f.there => Digest(a, f) = IF f.part = Current THEN Current ELSE <<"absent">>
         /\ Mode[a] \in {"whole", "runtime"} /\ f.there => Digest(a, f) = <<f.part, f.user>>
<1>1. Mode[a] \in Modes
  BY Constants
<1> QED BY <1>1 DEF Digest, Modes

LEMMA FileParts ==
  ASSUME NEW f \in Files
  PROVE  /\ f = [there |-> f.there, user |-> f.user, part |-> f.part, rest |-> f.rest]
         /\ f.there \in BOOLEAN /\ f.user \in 0..(MaxEdits + 1) /\ f.part \in Parts /\ f.rest \in BOOLEAN
BY DEF Files

LEMMA AbsentIsFile == /\ Absent \in Files /\ ~Absent.there /\ Absent.user = 0 /\ Absent.part = Nothing
                      /\ \A a \in Artifact : FileOK(a, Absent)
BY Constants DEF Absent, Files, Parts, FileOK, PartsOf, Modes

LEMMA HoldingIsFile ==
  ASSUME NEW u \in 0..(MaxEdits + 1), NEW p \in Parts, NEW r \in BOOLEAN
  PROVE  /\ Holding(u, p, r) \in Files /\ Holding(u, p, r).there /\ Holding(u, p, r).user = u
         /\ Holding(u, p, r).part = p /\ Holding(u, p, r).rest = r
         /\ \A a \in Artifact : p \in PartsOf(a) => FileOK(a, Holding(u, p, r))
BY DEF Holding, Files, FileOK

LEMMA PartsOfMode ==
  ASSUME NEW a \in Artifact
  PROVE  /\ Mode[a] \in Modes /\ PartsOf(a) \subseteq Parts
         /\ Nothing \in PartsOf(a)
         /\ Mode[a] = "keys" => PartsOf(a) = {Nothing, Broken} \cup AllKeys
         /\ Mode[a] \in {"section", "line"} => PartsOf(a) = {Nothing, Current, Changed}
         /\ Mode[a] = "whole" => PartsOf(a) = {Nothing, Current, Prior, Changed}
         /\ Mode[a] = "env" => PartsOf(a) = {Nothing}
         /\ Mode[a] = "runtime" => PartsOf(a) = {Nothing, Current}
BY Constants DEF PartsOf, Parts, Modes

LEMMA HoldingFile ==
  ASSUME NEW a \in Artifact, NEW u \in 0..(MaxEdits + 1), NEW p \in Parts \cap PartsOf(a), NEW r \in BOOLEAN,
         NEW h, h = Holding(u, p, r)
  PROVE  FileOK(a, h) /\ h \in Files /\ h.there /\ h.user = u /\ h.part = p /\ h.rest = r
BY HoldingIsFile

LEMMA HoldingFlag ==
  ASSUME NEW a \in Artifact, NEW u \in 0..(MaxEdits + 1), NEW p \in Parts \cap PartsOf(a),
         NEW h, h = Holding(u, p, TRUE) \/ h = Holding(u, p, FALSE)
  PROVE  FileOK(a, h) /\ h \in Files /\ h.there /\ h.user = u /\ h.part = p
<1>1. CASE h = Holding(u, p, TRUE)
  <2>1. h = [there |-> TRUE, user |-> u, part |-> p, rest |-> TRUE]
    BY <1>1 DEF Holding
  <2> QED BY <2>1 DEF FileOK, Files
<1>2. CASE h = Holding(u, p, FALSE)
  <2>1. h = [there |-> TRUE, user |-> u, part |-> p, rest |-> FALSE]
    BY <1>2 DEF Holding
  <2> QED BY <2>1 DEF FileOK, Files
<1> QED BY <1>1, <1>2

LEMMA HashesOfFiles ==
  ASSUME NEW a \in Artifact, NEW f \in Files
  PROVE  RecordHash(a, f) \in Hash
<1>1. Mode[a] \in Modes
  BY Constants
<1>2. Digest(a, f) \in Hash
  BY <1>1, DigestOf, FileParts DEF Hash, Modes, Parts
<1> QED BY <1>2 DEF RecordHash, Hash

LEMMA IdsOfFiles ==
  ASSUME NEW f \in Files
  PROVE  IdOf(f) \in Identity /\ ProjectOf(f) \in Project \cup {NoProject}
BY Constants, KeysOfParts DEF IdOf, ProjectOf, Identity

LEMMA ManifestParts ==
  ASSUME NEW m, ManifestOK(m)
  PROVE  /\ m.there \in BOOLEAN
         /\ m.there => /\ m.id \in Identity /\ m.project \in Project \cup {NoProject}
                       /\ m.records \in [Artifact -> Record]
                       /\ \A a \in Artifact : m.records[a].created \in BOOLEAN /\ m.records[a].hash \in Hash
         /\ ~m.there => m = NoManifest
<1>1. CASE m = NoManifest
  BY <1>1 DEF NoManifest
<1>2. CASE /\ m.there /\ m = Manifest(m.id, m.project, m.records)
           /\ m.id \in Identity /\ m.project \in Project \cup {NoProject}
           /\ m.records \in [Artifact -> Record]
  <2>1. m.there = TRUE
    BY <1>2 DEF Manifest
  <2> QED BY <1>2, <2>1 DEF Record
<1> QED BY <1>1, <1>2 DEF ManifestOK

LEMMA ManifestMade ==
  ASSUME NEW id \in Identity, NEW project \in Project \cup {NoProject}, NEW records \in [Artifact -> Record]
  PROVE  LET m == Manifest(id, project, records) IN
         ManifestOK(m) /\ m.there /\ m.id = id /\ m.project = project /\ m.records = records
BY DEF ManifestOK, Manifest

LEMMA NoManifestOK == ManifestOK(NoManifest) /\ ~NoManifest.there
BY DEF ManifestOK, NoManifest

-----------------------------------------------------------------------------
(* What was captured.                                                       *)

LEMMA KeptAppend ==
  ASSUME kept \in Seq(Kept), NEW x, kept' = Append(kept, x)
  PROVE  /\ Kept' = Kept \cup {x} /\ kept' \in Seq(Kept')
         /\ kept' # <<>> /\ kept'[Len(kept')] = x
<1>1. /\ Append(kept, x) \in Seq(Kept \cup {x}) /\ Len(Append(kept, x)) = Len(kept) + 1 /\ Len(kept) \in Nat
      /\ \A n \in 1..Len(kept) : Append(kept, x)[n] = kept[n]
      /\ Append(kept, x)[Len(kept) + 1] = x
  BY AppendProperties, LenProperties
<1>2. Kept' = {kept'[n] : n \in 1..(Len(kept) + 1)}
  BY <1>1 DEF Kept
<1>3. \A n : n \in 1..(Len(kept) + 1) <=> n \in 1..Len(kept) \/ n = Len(kept) + 1
  BY <1>1
<1>4. Kept' = Kept \cup {x}
  BY <1>1, <1>2, <1>3 DEF Kept
<1> QED BY <1>1, <1>4

LEMMA KeptLess ==
  ASSUME kept \in Seq(Kept), kept # <<>>, kept' = SubSeq(kept, 1, Len(kept) - 1)
  PROVE  /\ kept[Len(kept)] \in Kept /\ kept' \in Seq(Kept')
         /\ Kept' \subseteq Kept /\ Kept \subseteq Kept' \cup {kept[Len(kept)]}
         /\ Len(kept') = Len(kept) - 1 /\ \A n \in 1..(Len(kept) - 1) : kept'[n] = kept[n]
<1>1. Len(kept) \in Nat /\ Len(kept) > 0
  BY EmptySeq, LenProperties
<1>2. /\ kept' \in Seq(Kept) /\ Len(kept') = Len(kept) - 1
      /\ \A n \in 1..(Len(kept) - 1) : kept'[n] = kept[n]
  <2>1. \A i \in 1..(Len(kept) - 1) : kept[i] \in Kept
    BY <1>1 DEF Kept
  <2>2. \A k \in Nat : k > 0 => /\ k - 1 \in Int /\ (k - 1) - 1 + 1 = k - 1 /\ (1 <= k - 1 \/ k - 1 = 0)
                              /\ \A i \in 1..(k - 1) : 1 + i - 1 = i
    OBVIOUS
  <2>3. /\ Len(kept) - 1 \in Int /\ (Len(kept) - 1) - 1 + 1 = Len(kept) - 1
        /\ 1 <= Len(kept) - 1 \/ Len(kept) - 1 = 0
        /\ \A i \in 1..(Len(kept) - 1) : 1 + i - 1 = i
    BY <1>1, <2>2
  <2>4. /\ SubSeq(kept, 1, Len(kept) - 1) \in Seq(Kept)
        /\ Len(SubSeq(kept, 1, Len(kept) - 1)) = IF 1 <= Len(kept) - 1 THEN (Len(kept) - 1) - 1 + 1 ELSE 0
        /\ \A i \in 1..((Len(kept) - 1) - 1 + 1) : SubSeq(kept, 1, Len(kept) - 1)[i] = kept[1 + i - 1]
    BY <2>1, <2>3, SubSeqProperties
  <2> QED BY <1>1, <2>3, <2>4
<1>3. Kept' = {kept[n] : n \in 1..(Len(kept) - 1)}
  BY <1>2 DEF Kept
<1>4. \A n : n \in 1..Len(kept) <=> n \in 1..(Len(kept) - 1) \/ n = Len(kept)
  BY <1>1
<1>5. Kept' \subseteq Kept /\ Kept \subseteq Kept' \cup {kept[Len(kept)]} /\ kept[Len(kept)] \in Kept
  BY <1>1, <1>3, <1>4 DEF Kept
<1>6. \A n \in 1..Len(kept') : kept'[n] \in Kept'
  BY DEF Kept
<1>7. kept' \in Seq(Kept')
  <2>1. DOMAIN kept' = 1..Len(kept') /\ kept' = [n \in 1..Len(kept') |-> kept'[n]]
    BY <1>2, LenProperties
  <2>2. kept' \in [1..Len(kept') -> Kept']
    BY <1>6, <2>1
  <2>3. Len(kept') \in Nat
    BY <1>1, <1>2
  <2> QED BY <2>2, <2>3, SeqDef
<1> QED BY <1>2, <1>5, <1>7

LEMMA KeptNothing == ASSUME kept = <<>> PROVE Kept = {} /\ kept \in Seq(Kept)
BY DEF Kept

LEMMA KeptOne ==
  ASSUME NEW x, kept = <<x>>
  PROVE  Kept = {x} /\ kept \in Seq(Kept) /\ kept[1] = x /\ Len(kept) = 1
BY DEF Kept

-----------------------------------------------------------------------------
(* Lemmas about commands.                                                   *)

LEMMA RunsDiffer ==
  ASSUME NEW q
  PROVE  /\ ConnectRun(q) => q # NoRun /\ q.op = "connect" /\ "new" \notin DOMAIN q
         /\ DisconnectRun(q) => q # NoRun /\ q.op = "disconnect" /\ "new" \notin DOMAIN q
         /\ RegisterRun(q) => q # NoRun /\ q.op = "register" /\ "new" \in DOMAIN q
BY DEF ConnectRun, DisconnectRun, RegisterRun, NoRun

LEMMA Stopped ==
  ASSUME Stop
  PROVE  /\ RunOK' /\ KeptOK' /\ pc' = "idle" /\ at' = 1 /\ raced' = {} /\ Kept' = {}
<1>1. pc' = "idle" /\ at' = 1 /\ run' = NoRun /\ kept' = <<>> /\ raced' = {}
  BY DEF Stop
<1>2. Kept' = {} /\ kept' \in Seq(Kept')
  BY <1>1 DEF Kept
<1>3. RunOK'
  BY <1>1 DEF RunOK, Writing
<1>4. KeptOK'
  BY <1>1, <1>2 DEF KeptOK
<1> QED BY <1>1, <1>2, <1>3, <1>4

\* The command goes on to the next artifact of the registry.
LEMMA Moved ==
  ASSUME TInv, pc \in {"apply", "remove"}, Onward(at)
  PROVE  /\ Registry[at] \in Artifact /\ Ahead(Registry[at])
         /\ at' \in 1..Len(Registry) /\ pc' \in {pc, "manifest"}
         /\ pc' = pc => \A b \in Artifact : Ahead(b)' <=> Ahead(b) /\ b # Registry[at]
         /\ pc' = "manifest" => at' = 1 /\ \A b \in Artifact : Ahead(b) => b = Registry[at]
<1>1. at \in 1..Len(Registry) /\ Len(Registry) \in Nat \ {0}
  BY Constants DEF TInv, Stored
<1>2. Registry[at] \in Artifact /\ Ahead(Registry[at])
  BY <1>1, Constants DEF Ahead
<1>3. CASE at < Len(Registry)
  <2>1. pc' = pc /\ at' = at + 1
    BY <1>3 DEF Onward
  <2>2. \A n : n \in at..Len(Registry) <=> n = at \/ n \in (at + 1)..Len(Registry)
    BY <1>1, <1>3
  <2>3. \A n \in (at + 1)..Len(Registry) : Registry[n] # Registry[at]
    BY <1>1, Constants
  <2>4. \A b : Ahead(b)' <=> \E n \in (at + 1)..Len(Registry) : Registry[n] = b
    BY <2>1 DEF Ahead
  <2>5. \A b \in Artifact : Ahead(b)' <=> Ahead(b) /\ b # Registry[at]
    BY <2>2, <2>3, <2>4 DEF Ahead
  <2> QED BY <1>1, <1>2, <1>3, <2>1, <2>5
<1>4. CASE ~(at < Len(Registry))
  <2>1. pc' = "manifest" /\ at' = 1 /\ at = Len(Registry)
    BY <1>1, <1>4 DEF Onward
  <2>2. \A b \in Artifact : Ahead(b) => b = Registry[at]
    BY <1>1, <2>1 DEF Ahead
  <2> QED BY <1>1, <1>2, <2>1, <2>2
<1> QED BY <1>3, <1>4

LEMMA EditedFile ==
  ASSUME TInv, NEW a \in Artifact, edits < MaxEdits, NEW f \in EditsOf(a)
  PROVE  FileOK(a, f)
<1>1. /\ edits + 2 \in 0..(MaxEdits + 1) /\ file[a] \in Files /\ file[a].part \in PartsOf(a)
  BY Constants DEF TInv, Stored, FileOK
<1>2. /\ file[a].user \in 0..(MaxEdits + 1) /\ file[a].part \in Parts /\ file[a].rest \in BOOLEAN
  BY <1>1, FileParts
<1>3. Changed \in Parts /\ Broken \in Parts /\ Nothing \in Parts
  BY DEF Parts
<1>4. CASE f = Absent
  BY <1>4, AbsentIsFile
<1>5. CASE Mode[a] = "whole" /\ f = Holding(edits + 2, Changed, FALSE)
  <2>1. Changed \in Parts \cap PartsOf(a)
    BY <1>3, <1>5, PartsOfMode
  <2> QED BY <1>1, <1>5, <2>1, HoldingFlag
<1>6. CASE Mode[a] = "section" /\ f \in {Holding(edits + 2, file[a].part, file[a].rest),
                                         Holding(file[a].user, Changed, file[a].rest)}
  BY <1>1, <1>2, <1>3, <1>6, HoldingIsFile, PartsOfMode
<1>7. CASE Mode[a] = "line" /\ f \in {Holding(edits + 2, Nothing, FALSE), Holding(file[a].user, Changed, FALSE)}
  <2>1. Changed \in Parts \cap PartsOf(a) /\ Nothing \in Parts \cap PartsOf(a)
    BY <1>3, <1>7, PartsOfMode
  <2> QED BY <1>1, <1>2, <1>7, <2>1, HoldingFlag DEF Holding
<1>8. CASE Mode[a] = "keys" /\ f \in {Holding(edits + 2, file[a].part, file[a].rest),
                                      Holding(file[a].user, Broken, FALSE)}
  <2>1. Broken \in Parts \cap PartsOf(a) /\ file[a].part \in Parts \cap PartsOf(a)
    BY <1>1, <1>2, <1>3, <1>8, PartsOfMode
  <2>2. f = Holding(edits + 2, file[a].part, file[a].rest) => FileOK(a, f)
    BY <1>1, <1>2, <2>1, HoldingFile
  <2>3. f = Holding(file[a].user, Broken, FALSE) => FileOK(a, f)
    BY <1>1, <1>2, <2>1, HoldingFlag DEF Holding
  <2> QED BY <1>8, <2>2, <2>3
<1>9. CASE Mode[a] = "keys" /\ f = Holding(file[a].user, Keys(IdOf(file[a]), ProjectOf(file[a]), "foreign"), file[a].rest)
  <2>1. Keys(IdOf(file[a]), ProjectOf(file[a]), "foreign") \in AllKeys
    BY <1>1, IdsOfFiles, KeysOfParts
  <2>2. Keys(IdOf(file[a]), ProjectOf(file[a]), "foreign") \in Parts \cap PartsOf(a)
    BY <1>9, <2>1, PartsOfMode DEF Parts
  <2> QED BY <1>2, <1>9, <2>2, HoldingIsFile
<1>10. CASE Mode[a] \in {"env", "runtime"} /\ f = Holding(edits + 2, Nothing, FALSE)
  BY <1>1, <1>3, <1>10, HoldingIsFile, PartsOfMode
<1>11. Mode[a] \in Modes
  BY PartsOfMode
<1> QED BY <1>4, <1>5, <1>6, <1>7, <1>8, <1>9, <1>10, <1>11 DEF EditsOf, Modes

LEMMA MergedKeys ==
  ASSUME TInv, ConnectRun(run)
  PROVE  Keys(run.id, ProjectOf(file[Config]), "own") \in AllKeys
BY Constants, IdsOfFiles, KeysOfParts DEF TInv, Stored, ConnectRun

\* What each mode installs.
LEMMA InstalledFile ==
  ASSUME TInv, ConnectRun(run), NEW a \in Artifact
  PROVE  /\ Installed(a) \in Files /\ Installed(a).there /\ FileOK(a, Installed(a))
         /\ Mode[a] \in {"section", "line", "keys"} => Installed(a).user = file[a].user
         /\ Mode[a] \in {"whole", "env"} => Installed(a).user = 0
         /\ Mode[a] \in {"section", "whole"} => Installed(a).part = Current
         /\ Mode[a] = "line" => Installed(a).part = IF file[a].part = Nothing THEN Current ELSE Changed
         /\ Mode[a] = "keys" => Installed(a).part = Keys(run.id, ProjectOf(file[a]), "own")
         /\ Mode[a] = "env" => Installed(a).part = Nothing
         /\ Mode[a] = "runtime" => Installed(a) = IF file[a].there THEN file[a] ELSE Holding(0, Current, FALSE)
<1>1. /\ file[a] \in Files /\ file[a].user \in 0..(MaxEdits + 1) /\ file[a].rest \in BOOLEAN /\ 0 \in 0..(MaxEdits + 1)
      /\ FileOK(a, file[a])
  BY Constants, FileParts DEF TInv, Stored
<1>2. Current \in Parts /\ Changed \in Parts /\ Nothing \in Parts
  BY DEF Parts
<1>3. Mode[a] \in Modes /\ (Mode[a] = "keys" => a = Config)
  BY Constants
<1>4. CASE Mode[a] = "section"
  <2>1. Installed(a) = Holding(file[a].user, Current, IF file[a].there THEN file[a].rest ELSE TRUE)
    BY <1>4 DEF Installed
  <2>2. Installed(a) \in {Holding(file[a].user, Current, TRUE), Holding(file[a].user, Current, FALSE)}
    BY <1>1, <2>1
  <2>3. Current \in Parts \cap PartsOf(a)
    BY <1>2, <1>4, PartsOfMode
  <2>4. FileOK(a, Installed(a)) /\ Installed(a) \in Files /\ Installed(a).there
        /\ Installed(a).user = file[a].user /\ Installed(a).part = Current
    BY <1>1, <2>2, <2>3, HoldingFlag DEF Holding
  <2> QED BY <1>4, <2>4
<1>5. CASE Mode[a] = "line"
  <2>1. Installed(a) = Holding(file[a].user, IF file[a].part = Nothing THEN Current ELSE Changed, FALSE)
    BY <1>5 DEF Installed
  <2>2. (IF file[a].part = Nothing THEN Current ELSE Changed) \in Parts \cap PartsOf(a)
    BY <1>2, <1>5, PartsOfMode
  <2>3. FileOK(a, Installed(a)) /\ Installed(a) \in Files /\ Installed(a).there
        /\ Installed(a).user = file[a].user
        /\ Installed(a).part = IF file[a].part = Nothing THEN Current ELSE Changed
    BY <1>1, <2>1, <2>2, HoldingFlag DEF Holding
  <2> QED BY <1>5, <2>3
<1>6. CASE Mode[a] = "keys"
  <2>1. Installed(a) = Holding(file[a].user, Keys(run.id, ProjectOf(file[a]), "own"), file[a].rest)
    BY <1>6 DEF Installed, MergeKeys
  <2>2. Keys(run.id, ProjectOf(file[a]), "own") \in Parts \cap PartsOf(a)
    BY <1>3, <1>6, MergedKeys, PartsOfMode DEF Parts
  <2>3. FileOK(a, Installed(a)) /\ Installed(a) \in Files /\ Installed(a).there
        /\ Installed(a).user = file[a].user /\ Installed(a).part = Keys(run.id, ProjectOf(file[a]), "own")
    BY <1>1, <2>1, <2>2, HoldingFile
  <2> QED BY <1>6, <2>3
<1>7. CASE Mode[a] = "whole"
  <2>1. Installed(a) = Holding(0, Current, FALSE)
    BY <1>7 DEF Installed
  <2>2. Current \in Parts \cap PartsOf(a)
    BY <1>2, <1>7, PartsOfMode
  <2>3. FileOK(a, Installed(a)) /\ Installed(a) \in Files /\ Installed(a).there
        /\ Installed(a).user = 0 /\ Installed(a).part = Current
    BY <1>1, <2>1, <2>2, HoldingFlag DEF Holding
  <2> QED BY <1>7, <2>3
<1>8. CASE Mode[a] = "env"
  <2>1. Installed(a) = Holding(0, Nothing, FALSE)
    BY <1>8 DEF Installed
  <2>2. Nothing \in Parts \cap PartsOf(a)
    BY <1>2, <1>8, PartsOfMode
  <2>3. FileOK(a, Installed(a)) /\ Installed(a) \in Files /\ Installed(a).there
        /\ Installed(a).user = 0 /\ Installed(a).part = Nothing
    BY <1>1, <2>1, <2>2, HoldingFlag DEF Holding
  <2> QED BY <1>8, <2>3
<1>9. CASE Mode[a] = "runtime"
  <2>1. Installed(a) = IF file[a].there THEN file[a] ELSE Holding(0, Current, FALSE)
    BY <1>9 DEF Installed
  <2>2. Current \in Parts \cap PartsOf(a)
    BY <1>2, <1>9, PartsOfMode
  <2>3. FileOK(a, Holding(0, Current, FALSE)) /\ Holding(0, Current, FALSE) \in Files
        /\ Holding(0, Current, FALSE).there
    BY <1>1, <2>2, HoldingFile
  <2>4. FileOK(a, Installed(a)) /\ Installed(a) \in Files /\ Installed(a).there
    BY <1>1, <2>1, <2>3
  <2> QED BY <1>9, <2>1, <2>4
<1> QED BY <1>3, <1>4, <1>5, <1>6, <1>7, <1>8, <1>9 DEF Modes

LEMMA RegisteredFile ==
  ASSUME TInv, pc = "config"
  PROVE  LET f == Registered(file[Config]) IN
         /\ FileOK(Config, f) /\ f \in Files /\ f.there /\ f.user = file[Config].user
         /\ f.part = Keys(run.id, run.project, IF file[Config].part \in AllKeys THEN file[Config].part[4] ELSE "part")
         /\ f.part \in AllKeys
<1>1. /\ file[Config] \in Files /\ file[Config].user \in 0..(MaxEdits + 1) /\ Config \in Artifact
      /\ run.id \in Identity /\ run.project \in Project /\ Mode[Config] = "keys"
  BY Constants, FileParts DEF TInv, Stored, RunOK, InstalledRun
<1> DEFINE v == IF file[Config].part \in AllKeys THEN file[Config].part[4] ELSE "part"
<1>2. v \in {"own", "part", "foreign"}
  BY KeysOfParts
<1>3. Keys(run.id, run.project, v) \in AllKeys
  BY <1>1, <1>2, KeysOfParts
<1>4. Keys(run.id, run.project, v) \in Parts \cap PartsOf(Config)
  BY <1>1, <1>3, PartsOfMode DEF Parts
<1>5. Registered(file[Config]) = Holding(file[Config].user, Keys(run.id, run.project, v), TRUE)
  BY DEF Registered
<1> HIDE DEF v
<1>6. /\ FileOK(Config, Holding(file[Config].user, Keys(run.id, run.project, v), TRUE))
      /\ LET h == Holding(file[Config].user, Keys(run.id, run.project, v), TRUE) IN
         h \in Files /\ h.there /\ h.user = file[Config].user /\ h.part = Keys(run.id, run.project, v)
  BY <1>1, <1>4, HoldingIsFile
<1> QED BY <1>3, <1>5, <1>6 DEF v

LEMMA CutFile ==
  ASSUME NEW f \in Files, f.there
  PROVE  [f EXCEPT !.part = Nothing] = Holding(f.user, Nothing, f.rest)
<1> DEFINE cut == [f EXCEPT !.part = Nothing]
           left == [there |-> TRUE, user |-> f.user, part |-> Nothing, rest |-> f.rest]
<1>1. Nothing \in Parts
  BY DEF Parts
<1>2. cut \in Files /\ left \in Files
  BY <1>1 DEF Files
<1>3. cut.there = left.there /\ cut.user = left.user /\ cut.part = left.part /\ cut.rest = left.rest
  BY DEF Files
<1>4. cut = left
  <2> HIDE DEF cut, left
  <2> QED BY <1>2, <1>3 DEF Files
<1> QED BY <1>4 DEF Holding

\* What a removal leaves.
LEMMA RemainingFile ==
  ASSUME TInv, NEW a \in Artifact, file[a].there
  PROVE  /\ FileOK(a, Without(a)) /\ Without(a) \in Files /\ Without(a).part = Nothing
         /\ Mode[a] \in {"section", "keys"} => Without(a).user = file[a].user
         /\ Mode[a] \notin {"section", "keys"} => Without(a).user = 0
<1>1. file[a] \in Files /\ FileOK(a, file[a]) /\ Nothing \in Parts /\ Nothing \in PartsOf(a)
  BY PartsOfMode DEF TInv, Stored, Parts
<1>2. file[a] = [there |-> file[a].there, user |-> file[a].user, part |-> file[a].part, rest |-> file[a].rest]
      /\ file[a].user \in 0..(MaxEdits + 1) /\ file[a].rest \in BOOLEAN
  BY <1>1, FileParts
<1>3. [file[a] EXCEPT !.part = Nothing] = Holding(file[a].user, Nothing, file[a].rest)
  BY <1>1, CutFile
<1>4. LET h == Holding(file[a].user, Nothing, file[a].rest) IN
      FileOK(a, h) /\ h \in Files /\ h.part = Nothing /\ h.user = file[a].user
  BY <1>1, <1>2, HoldingIsFile
<1>5. \/ Without(a) = Holding(file[a].user, Nothing, file[a].rest) /\ Mode[a] \in {"section", "keys"}
      \/ Without(a) = Absent /\ (Mode[a] \in {"section", "keys"} => file[a].user = 0)
  BY <1>3, PartsOfMode DEF Without, Modes
<1> QED BY <1>4, <1>5, AbsentIsFile DEF Without

-----------------------------------------------------------------------------
(* Types, action by action.                                                 *)

LEMMA PlanKinds ==
  /\ Ready(ConnectPlan) => ConnectPlan \in [Artifact -> Kinds]
  /\ Ready(DisconnectPlan) => DisconnectPlan \in [Artifact -> Kinds]
<1>1. ASSUME NEW a \in Artifact
      PROVE  /\ ConnectPlan[a] = ConnectKind(a, file[a], manifest)
             /\ ConnectKind(a, file[a], manifest) \in Kinds \cup {"conflict"}
             /\ DisconnectPlan[a] = DisconnectKind(a, file[a], manifest.records[a])
             /\ DisconnectKind(a, file[a], manifest.records[a]) \in Kinds \cup {"conflict"}
  BY <1>1, PartsOfMode DEF ConnectPlan, ConnectKind, WholeKind, Kinds, Managed, Modes, DisconnectPlan, DisconnectKind
<1>2. ConnectPlan = [a \in Artifact |-> ConnectPlan[a]] /\ DisconnectPlan = [a \in Artifact |-> DisconnectPlan[a]]
  BY DEF ConnectPlan, DisconnectPlan
<1>3. ASSUME Ready(ConnectPlan) PROVE \A a \in Artifact : ConnectPlan[a] \in Kinds
  BY <1>1, <1>3 DEF Ready
<1>4. ASSUME Ready(DisconnectPlan) PROVE \A a \in Artifact : DisconnectPlan[a] \in Kinds
  BY <1>1, <1>4 DEF Ready
<1> HIDE DEF ConnectPlan, DisconnectPlan
<1> QED BY <1>2, <1>3, <1>4

LEMMA FilesPut ==
  ASSUME Stored, NEW a \in Artifact, NEW f \in Files, FileOK(a, f), file' = [file EXCEPT ![a] = f]
  PROVE  /\ file' \in [Artifact -> Files] /\ \A b \in Artifact : FileOK(b, file'[b])
         /\ file'[a] = f /\ \A b \in Artifact \ {a} : file'[b] = file[b]
<1>1. file \in [Artifact -> Files] /\ \A b \in Artifact : FileOK(b, file[b])
  BY DEF Stored
<1>2. file'[a] = f /\ \A b \in Artifact \ {a} : file'[b] = file[b]
  BY <1>1
<1> QED BY <1>1, <1>2

LEMMA OutcomeCounts ==
  ASSUME Stored, NEW o \in Outcomes, MayFail(o), Count(o)
  PROVE  faults' \in 0..MaxFaults
BY Constants DEF Stored, Outcomes, MayFail, Count

LEMMA UserEditT ==
  ASSUME TInv, NEW a \in Artifact, UserEdit(a)
  PROVE  /\ TInv' /\ Kept' = Kept /\ UNCHANGED <<manifest, bound, process, runs, faults, original, hurt, unresolved>>
         /\ \A b \in Artifact \ {a} : file'[b] = file[b]
         /\ touched' = touched \cup {a} /\ raced \subseteq raced'
         /\ pc \notin {"idle", "check", "recheck"} => a \in raced'
         /\ edits' # edits
<1>1. PICK f \in EditsOf(a) : file' = [file EXCEPT ![a] = f]
  BY DEF UserEdit
<1>2. /\ edits < MaxEdits /\ edits' = edits + 1 /\ touched' = touched \cup {a}
      /\ raced' = IF Unseen(a) THEN raced \cup {a} ELSE raced
      /\ UNCHANGED <<manifest, bound, process, runs, faults, original, hurt, unresolved>>
  BY DEF UserEdit
<1>3. FileOK(a, f) /\ f \in Files
  BY <1>2, EditedFile DEF FileOK
<1>4. /\ file' \in [Artifact -> Files] /\ \A b \in Artifact : FileOK(b, file'[b])
      /\ \A b \in Artifact \ {a} : file'[b] = file[b]
  BY <1>1, <1>3, FilesPut DEF TInv
<1>5. edits' \in 0..MaxEdits /\ edits' # edits
  BY <1>2, Constants DEF TInv, Stored
<1>6. Stored'
  BY <1>2, <1>4, <1>5 DEF TInv, Stored, process
<1>7. RunOK' /\ KeptOK' /\ Kept' = Kept
  BY <1>2 DEF TInv, RunOK, KeptOK, process, Kept, Ahead
<1>8. pc \notin {"idle", "check", "recheck"} => a \in raced'
  BY <1>2 DEF Unseen, Idle
<1> QED BY <1>2, <1>4, <1>5, <1>6, <1>7, <1>8 DEF TInv

\* The command ends without a change of the files.
LEMMA EndT ==
  ASSUME TInv, Stop, UNCHANGED <<disk, edits, runs, touched, original>>, faults' \in 0..MaxFaults,
         unresolved' \subseteq Artifact \cup {"manifest"}
  PROVE  TInv' /\ pc' = "idle" /\ Kept' = {}
<1>1. RunOK' /\ KeptOK' /\ pc' = "idle" /\ at' = 1 /\ raced' = {} /\ Kept' = {}
  BY Stopped
<1>2. Stored'
  BY <1>1, Constants DEF TInv, Stored, disk
<1> QED BY <1>1, <1>2 DEF TInv

LEMMA DieT == ASSUME TInv, Die PROVE TInv'
<1>1. faults' \in 0..MaxFaults
  BY Constants DEF Die, TInv, Stored
<1> QED BY <1>1, EndT DEF Die, TInv, Stored

LEMMA PlanConnectT ==
  ASSUME TInv, PlanConnect
  PROVE  /\ TInv' /\ pc' = "observe" /\ ConnectRun(run') /\ kept' = <<>> /\ Kept' = {}
         /\ run'.plan = ConnectPlan /\ run'.old = manifest
         /\ run'.id = (IF manifest.there THEN manifest.id ELSE runs + 1)
         /\ run'.project = (IF manifest.there THEN manifest.project ELSE ProjectOf(file[Config]))
<1>1. /\ pc = "idle" /\ runs < MaxRuns /\ ConnectReady /\ runs' = runs + 1 /\ pc' = "observe"
      /\ run' = [op |-> "connect", plan |-> ConnectPlan, old |-> manifest,
                 id |-> IF manifest.there THEN manifest.id ELSE runs + 1,
                 project |-> IF manifest.there THEN manifest.project ELSE ProjectOf(file[Config]),
                 seen |-> NoRun, before |-> disk]
      /\ unresolved' = {}
      /\ UNCHANGED <<disk, bound, at, kept, edits, faults, original, touched, raced, hurt>>
  BY DEF PlanConnect, Idle
<1>2. ConnectPlan \in [Artifact -> Kinds]
  BY <1>1, PlanKinds DEF ConnectReady
<1>3. runs + 1 \in Identity /\ runs + 1 \in 0..MaxRuns
  BY <1>1, Constants DEF TInv, Stored, Identity
<1>4. /\ (IF manifest.there THEN manifest.id ELSE runs + 1) \in Identity
      /\ (IF manifest.there THEN manifest.project ELSE ProjectOf(file[Config])) \in Project \cup {NoProject}
  <2>1. file[Config] \in Files /\ ManifestOK(manifest)
    BY Constants DEF TInv, Stored
  <2> QED BY <1>3, <2>1, ManifestParts, IdsOfFiles
<1>5. /\ run'.op = "connect" /\ run'.plan = ConnectPlan /\ run'.old = manifest
      /\ run'.id = (IF manifest.there THEN manifest.id ELSE runs + 1)
      /\ run'.project = (IF manifest.there THEN manifest.project ELSE ProjectOf(file[Config]))
      /\ run' = [op |-> "connect", plan |-> run'.plan, old |-> run'.old, id |-> run'.id,
                 project |-> run'.project, seen |-> run'.seen, before |-> run'.before]
  <2> HIDE DEF ConnectPlan, disk, NoRun
  <2> QED BY <1>1
<1>6. ConnectRun(run')
  BY <1>2, <1>4, <1>5 DEF ConnectRun, TInv, Stored
<1>7. kept' = <<>> /\ Kept' = {} /\ kept' \in Seq(Kept')
  BY <1>1 DEF TInv, KeptOK, Kept
<1>8. RunOK'
  BY <1>1, <1>6 DEF RunOK, Writing
<1>9. KeptOK'
  BY <1>1, <1>7 DEF KeptOK
<1>10. Stored'
  BY <1>1, <1>3 DEF TInv, Stored, disk
<1> QED BY <1>1, <1>5, <1>6, <1>7, <1>8, <1>9, <1>10 DEF TInv

LEMMA ObserveT ==
  ASSUME TInv, Observe
  PROVE  /\ TInv' /\ pc = "observe" /\ pc' = "check" /\ kept' = <<>> /\ Kept' = {} /\ ConnectRun(run) /\ ConnectRun(run')
         /\ run'.plan = run.plan /\ run'.old = run.old /\ run'.id = run.id /\ run'.project = run.project
         /\ run'.seen = Observed
<1>1. pc = "observe" /\ pc' = "check" /\ UNCHANGED <<disk, bound, at, kept, counts, trace>>
      /\ run' = [run EXCEPT !.seen = Observed] /\ ConnectRun(run)
  BY DEF Observe, TInv, RunOK
<1>2. /\ ConnectRun(run') /\ run'.plan = run.plan /\ run'.old = run.old /\ run'.id = run.id
      /\ run'.project = run.project /\ run'.seen = Observed
  <2> HIDE DEF Observed
  <2> QED BY <1>1 DEF ConnectRun
<1>3. kept' = <<>> /\ Kept' = {} /\ kept' \in Seq(Kept')
  BY <1>1 DEF TInv, KeptOK, Kept
<1>4. RunOK' /\ KeptOK'
  BY <1>1, <1>2, <1>3 DEF RunOK, KeptOK, Writing
<1>5. Stored'
  BY <1>1 DEF TInv, Stored, disk, counts, trace, past
<1> QED BY <1>1, <1>2, <1>3, <1>4, <1>5 DEF TInv

\* A check that passes.
LEMMA CheckT ==
  ASSUME TInv, Check
  PROVE  /\ TInv' /\ pc = "check" /\ ConnectRun(run) /\ kept = <<>> /\ kept' = <<>>
         /\ UNCHANGED <<disk, bound, counts, past>>
         /\ \/ Stop
            \/ /\ pc' = "apply" /\ Observed = run.seen /\ UNCHANGED <<at, kept, raced>> /\ ConnectRun(run')
               /\ run'.plan = run.plan /\ run'.old = run.old /\ run'.id = run.id /\ run'.project = run.project
               /\ run'.before = disk
<1>1. pc = "check" /\ UNCHANGED <<disk, bound, counts, past>> /\ ConnectRun(run) /\ kept = <<>>
  BY DEF Check, TInv, RunOK, KeptOK
<1>2. CASE Observed = run.seen
  <2>1. pc' = "apply" /\ run' = [run EXCEPT !.before = disk] /\ UNCHANGED <<at, kept, raced>>
    BY <1>2 DEF Check
  <2>2. /\ ConnectRun(run') /\ run'.plan = run.plan /\ run'.old = run.old /\ run'.id = run.id
        /\ run'.project = run.project /\ run'.before = disk
    <3> HIDE DEF disk
    <3> QED BY <1>1, <2>1 DEF ConnectRun
  <2>3. kept' = <<>> /\ Kept' = {} /\ kept' \in Seq(Kept')
    BY <1>1, <2>1 DEF Kept
  <2>4. RunOK' /\ KeptOK'
    BY <2>1, <2>2, <2>3 DEF RunOK, KeptOK, Writing
  <2>5. Stored'
    BY <1>1, <2>1 DEF TInv, Stored, disk, counts, past
  <2> QED BY <1>1, <1>2, <2>1, <2>2, <2>3, <2>4, <2>5 DEF TInv
<1>3. CASE Observed # run.seen
  <2>1. Stop
    BY <1>3 DEF Check
  <2>2. TInv'
    BY <1>1, <2>1, EndT DEF counts, past, TInv, Stored
  <2> QED BY <1>1, <2>1, <2>2 DEF Stop
<1> QED BY <1>2, <1>3

\* A step captures a file and puts another in its place, and it works or fails.
LEMMA CapturedT ==
  ASSUME TInv, pc \in {"apply", "remove"}, NEW a, a = Registry[at],
         NEW f \in Files, FileOK(a, f), NEW o \in Outcomes, MayFail(o), faults' \in 0..MaxFaults,
         Capture(a), UNCHANGED <<manifest, bound, run, edits, runs, trace>>,
         file' = [file EXCEPT ![a] = f] \/ file' = file,
         IF o = "ok" THEN Onward(at) ELSE Restore
  PROVE  TInv' /\ Kept' = Kept \cup {[name |-> a, was |-> file[a]]}
<1>1. a \in Artifact /\ Ahead(a)
  BY Constants DEF TInv, Stored, Ahead
<1>2. kept' = Append(kept, [name |-> a, was |-> file[a]])
  BY DEF Capture
<1>3. /\ Kept' = Kept \cup {[name |-> a, was |-> file[a]]} /\ kept' \in Seq(Kept')
  BY <1>2, KeptAppend DEF TInv, KeptOK
<1>4. /\ file' \in [Artifact -> Files] /\ \A b \in Artifact : FileOK(b, file'[b])
  BY <1>1, FilesPut DEF TInv, Stored
<1>5. \A x \in Kept' : Snapshot(x) /\ x.name \in Artifact
  <2>1. \A x \in Kept : Snapshot(x) /\ x.name \in Artifact
    BY DEF TInv, KeptOK
  <2>2. FileOK(a, file[a])
    BY <1>1 DEF TInv, Stored
  <2> QED BY <1>1, <1>3, <2>1, <2>2 DEF Snapshot
<1>6. ConnectRun(run) \/ DisconnectRun(run)
  BY DEF TInv, RunOK
<1>7. CASE o = "ok"
  <2>1. /\ at' \in 1..Len(Registry) /\ pc' \in {pc, "manifest"}
        /\ pc' = pc => \A b \in Artifact : Ahead(b)' <=> Ahead(b) /\ b # a
        /\ pc' = "manifest" => at' = 1
    BY <1>7, Moved
  <2>2. RunOK'
    BY <1>6, <2>1 DEF TInv, RunOK, Writing
  <2>3. KeptOK'
    <3>1. pc' = pc => \A x \in Kept' : x.name \in Artifact /\ ~Ahead(x.name)'
      BY <1>1, <1>3, <1>5, <2>1 DEF TInv, KeptOK
    <3> QED BY <1>3, <1>5, <2>1, <3>1 DEF KeptOK
  <2>4. Stored'
    BY <1>4, <2>1 DEF TInv, Stored, trace, past
  <2> QED BY <1>3, <2>2, <2>3, <2>4 DEF TInv
<1>8. CASE o # "ok"
  <2>1. pc' = "restore" /\ at' = 1
    BY <1>8 DEF Restore
  <2>2. RunOK' /\ KeptOK'
    BY <1>3, <1>5, <1>6, <2>1 DEF RunOK, KeptOK, Writing
  <2>3. Stored'
    BY <1>4, <2>1, Constants DEF TInv, Stored, trace, past
  <2> QED BY <1>3, <2>2, <2>3 DEF TInv
<1> QED BY <1>7, <1>8

\* A step that leaves its artifact alone.
LEMMA PassedT ==
  ASSUME TInv, pc \in {"apply", "remove"}, Onward(at), UNCHANGED <<disk, bound, run, kept, counts, trace>>
  PROVE  TInv' /\ Kept' = Kept
<1>1. /\ at' \in 1..Len(Registry) /\ pc' \in {pc, "manifest"}
      /\ pc' = pc => \A b \in Artifact : Ahead(b)' <=> Ahead(b) /\ b # Registry[at]
      /\ pc' = "manifest" => at' = 1
  BY Moved
<1>2. Kept' = Kept /\ kept' \in Seq(Kept')
  BY DEF TInv, KeptOK, Kept
<1>3. RunOK'
  BY <1>1 DEF TInv, RunOK, Writing
<1>4. KeptOK'
  BY <1>1, <1>2 DEF TInv, KeptOK
<1>5. Stored'
  BY <1>1 DEF TInv, Stored, disk, counts, trace, past
<1> QED BY <1>2, <1>3, <1>4, <1>5 DEF TInv

Placing(a) ==
  /\ kept' = Append(kept, [name |-> a, was |-> file[a]])
  /\ Kept' = Kept \cup {[name |-> a, was |-> file[a]]}

LEMMA ApplyStepT ==
  ASSUME TInv, ApplyStep
  PROVE  /\ TInv' /\ pc = "apply" /\ ConnectRun(run) /\ Registry[at] \in Artifact /\ Ahead(Registry[at])
         /\ UNCHANGED <<manifest, bound, run, edits, runs, trace>>
         /\ \/ Skipped(Registry[at]) /\ Onward(at) /\ file' = file /\ kept' = kept /\ Kept' = Kept
            \/ /\ ~Skipped(Registry[at]) /\ ~Unmergeable(Registry[at]) /\ Onward(at) /\ Placing(Registry[at])
               /\ file' = [file EXCEPT ![Registry[at]] = Installed(Registry[at])]
            \/ /\ ~Skipped(Registry[at]) /\ pc' = "restore" /\ Placing(Registry[at])
               /\ \/ file' = file
                  \/ /\ ~Unmergeable(Registry[at])
                     /\ file' = [file EXCEPT ![Registry[at]] = Installed(Registry[at])]
<1>1. pc = "apply" /\ ConnectRun(run) /\ UNCHANGED <<bound, run, edits, runs, trace>>
  BY DEF ApplyStep, TInv, RunOK
<1>2. Registry[at] \in Artifact /\ Ahead(Registry[at]) /\ faults \in 0..MaxFaults
  BY Constants DEF TInv, Stored, Ahead
<1>3. Installed(Registry[at]) \in Files /\ FileOK(Registry[at], Installed(Registry[at]))
  BY <1>1, <1>2, InstalledFile
<1>4. CASE Skipped(Registry[at])
  <2>1. Onward(at) /\ UNCHANGED <<disk, kept, faults>>
    BY <1>4 DEF ApplyStep
  <2>2. TInv' /\ Kept' = Kept
    BY <1>1, <2>1, PassedT DEF counts
  <2> QED BY <1>1, <1>2, <1>4, <2>1, <2>2 DEF disk
<1>5. CASE ~Skipped(Registry[at])
  <2> DEFINE a == Registry[at]
  <2>1. PICK o \in Outcomes :
          /\ MayFail(o) /\ Capture(a) /\ UNCHANGED manifest
          /\ IF Unmergeable(a)
             THEN o = "ok" /\ UNCHANGED <<file, faults>> /\ Restore
             ELSE /\ Count(o)
                  /\ file' = IF Effect(o) THEN [file EXCEPT ![a] = Installed(a)] ELSE file
                  /\ IF o = "ok" THEN Onward(at) ELSE Restore
    BY <1>5 DEF ApplyStep
  <2>2. kept' = Append(kept, [name |-> a, was |-> file[a]])
    BY <2>1 DEF Capture
  <2>3. CASE Unmergeable(a)
    <3>1. file' = file /\ faults' = faults /\ Restore /\ Capture(a) /\ manifest' = manifest
      BY <2>1, <2>3
    <3>2. pc' = "restore" /\ at' = 1
      BY <3>1 DEF Restore
    <3>3. Kept' = Kept \cup {[name |-> a, was |-> file[a]]} /\ kept' \in Seq(Kept')
      BY <2>2, KeptAppend DEF TInv, KeptOK
    <3>4. RunOK'
      BY <1>1, <3>2 DEF RunOK, Writing
    <3>5. \A x \in Kept' : Snapshot(x)
      BY <1>2, <3>3 DEF TInv, KeptOK, Snapshot, Stored
    <3>6. KeptOK'
      BY <3>2, <3>3, <3>5 DEF KeptOK
    <3>7. Stored'
      BY <1>1, <3>1, <3>2, Constants DEF TInv, Stored, trace, past
    <3> QED BY <1>1, <1>2, <1>5, <2>2, <3>1, <3>2, <3>3, <3>4, <3>6, <3>7 DEF TInv, Placing
  <2>4. CASE ~Unmergeable(a)
    <3>1. /\ Count(o) /\ file' = (IF Effect(o) THEN [file EXCEPT ![a] = Installed(a)] ELSE file)
          /\ IF o = "ok" THEN Onward(at) ELSE Restore
      BY <2>1, <2>4
    <3>2. faults' \in 0..MaxFaults
      BY <2>1, <3>1, OutcomeCounts DEF TInv
    <3>3. file' = [file EXCEPT ![a] = Installed(a)] \/ file' = file
      BY <3>1
    <3>4. TInv' /\ Kept' = Kept \cup {[name |-> a, was |-> file[a]]}
      <4> HIDE DEF a
      <4> QED BY <1>1, <1>3, <2>1, <3>1, <3>2, <3>3, CapturedT DEF a
    <3>5. o = "ok" => file' = [file EXCEPT ![a] = Installed(a)]
      BY <3>1 DEF Effect
    <3> QED BY <1>1, <1>2, <1>5, <2>1, <2>2, <2>4, <3>1, <3>3, <3>4, <3>5 DEF Placing, Restore
  <2> QED BY <2>3, <2>4
<1> QED BY <1>4, <1>5

LEMMA RecordsType ==
  ASSUME TInv, ConnectRun(run)
  PROVE  /\ Records \in [Artifact -> Record]
         /\ \A a \in Artifact : Records[a].hash = RecordHash(a, file[a]) /\ (Records[a].created <=> Created(a))
<1>1. ASSUME NEW a \in Artifact PROVE Created(a) \in BOOLEAN
  <2>1. ManifestOK(run.old)
    BY DEF ConnectRun
  <2>2. run.old.there \in BOOLEAN /\ (run.old.there => run.old.records[a].created \in BOOLEAN)
    BY <1>1, <2>1, ManifestParts
  <2>3. (run.old.there /\ run.old.records[a].created) \in BOOLEAN
    BY <2>2
  <2>4. ASSUME run.plan[a] \in {"adopt", "upgrade"} PROVE Created(a) \in BOOLEAN
    <3>1. Created(a) = (run.old.there /\ run.old.records[a].created)
      BY <2>4, Zenon DEF Created
    <3> QED BY <2>3, <3>1
  <2>5. ASSUME run.plan[a] \notin {"adopt", "upgrade"} PROVE Created(a) \in BOOLEAN
    <3>1. Created(a) = (run.plan[a] \in {"create", "update"})
      BY <2>5, Zenon DEF Created
    <3> QED BY <3>1
  <2> QED BY <2>4, <2>5
<1>2. \A a \in Artifact : RecordHash(a, file[a]) \in Hash
  BY HashesOfFiles DEF TInv, Stored
<1>3. Records = [a \in Artifact |-> [created |-> Created(a), hash |-> RecordHash(a, file[a])]]
  BY DEF Records
<1>4. \A a \in Artifact : [created |-> Created(a), hash |-> RecordHash(a, file[a])] \in Record
  BY <1>1, <1>2 DEF Record
<1> QED BY <1>3, <1>4

LEMMA WriteManifestT ==
  ASSUME TInv, WriteManifest
  PROVE  /\ TInv' /\ pc = "manifest" /\ ConnectRun(run) /\ UNCHANGED <<file, bound, edits, runs, trace>>
         /\ \/ manifest' = manifest /\ pc' = "restore" /\ run' = run /\ (kept' = kept \/ CaptureManifest)
            \/ /\ Recordable /\ manifest' = Manifest(run.id, run.project, Records)
               /\ manifest'.there /\ manifest'.id = run.id /\ manifest'.project = run.project
               /\ manifest'.records = Records
               /\ \/ pc' = "restore" /\ run' = run /\ CaptureManifest
                  \/ /\ pc' = "installed" /\ kept' = <<>> /\ InstalledRun(run') /\ run'.new = manifest'
                     /\ run'.id = run.id
<1>1. pc = "manifest" /\ run.op = "connect" /\ ConnectRun(run) /\ UNCHANGED <<file, bound, edits, runs, trace>>
  <2>1. pc = "manifest" /\ run.op = "connect" /\ UNCHANGED <<file, bound, edits, runs, trace>>
    BY DEF WriteManifest
  <2>2. ConnectRun(run) \/ DisconnectRun(run)
    BY <2>1 DEF TInv, RunOK
  <2> QED BY <2>1, <2>2, RunsDiffer
<1> DEFINE m == Manifest(run.id, run.project, Records)
<1>2. ManifestOK(m) /\ m.there /\ m.id = run.id /\ m.project = run.project /\ m.records = Records
  BY <1>1, RecordsType, ManifestMade DEF ConnectRun
<1> HIDE DEF m
<1>3. ASSUME Restore, run' = run, kept' = kept \/ CaptureManifest, ManifestOK(manifest'), faults' \in 0..MaxFaults
      PROVE  TInv'
  <2>1. pc' = "restore" /\ at' = 1
    BY <1>3 DEF Restore
  <2>2. kept' \in Seq(Kept') /\ \A x \in Kept' : Snapshot(x)
    <3>1. CASE kept' = kept
      BY <3>1 DEF TInv, KeptOK, Kept
    <3>2. CASE kept' = Append(kept, [name |-> "manifest", was |-> Absent])
      BY <3>2, KeptAppend DEF TInv, KeptOK, Snapshot
    <3> QED BY <1>3, <3>1, <3>2 DEF CaptureManifest
  <2>3. RunOK' /\ KeptOK'
    BY <1>1, <1>3, <2>1, <2>2 DEF RunOK, KeptOK, Writing
  <2>4. Stored'
    BY <1>1, <1>3, <2>1, Constants DEF TInv, Stored, trace, past
  <2> QED BY <2>3, <2>4 DEF TInv
<1>4. CASE ~Recordable
  <2>1. UNCHANGED <<manifest, kept, run, faults>> /\ Restore
    BY <1>4 DEF WriteManifest
  <2>2. TInv'
    BY <1>3, <2>1 DEF TInv, Stored
  <2> QED BY <1>1, <2>1, <2>2 DEF Restore
<1>5. CASE Recordable
  <2>1. PICK o \in Outcomes :
          /\ MayFail(o) /\ Count(o)
          /\ manifest' = IF Effect(o) THEN m ELSE manifest
          /\ IF o = "ok"
             THEN /\ pc' = "installed" /\ at' = 1 /\ kept' = <<>>
                  /\ run' = [op |-> "register", id |-> run.id, new |-> m]
             ELSE CaptureManifest /\ Restore /\ UNCHANGED run
    BY <1>5 DEF WriteManifest, m
  <2>2. faults' \in 0..MaxFaults /\ ManifestOK(manifest')
    BY <1>2, <2>1, OutcomeCounts DEF TInv, Stored
  <2>3. CASE o = "ok"
    <3>1. /\ pc' = "installed" /\ at' = 1 /\ kept' = <<>> /\ manifest' = m
          /\ run' = [op |-> "register", id |-> run.id, new |-> m]
      BY <2>1, <2>3 DEF Effect
    <3>2. run'.op = "register" /\ run'.id = run.id /\ run'.new = m
          /\ run' = [op |-> "register", id |-> run'.id, new |-> run'.new]
      BY <3>1
    <3>3. InstalledRun(run')
      BY <1>1, <1>2, <3>2 DEF InstalledRun, ConnectRun
    <3>4. RunOK'
      BY <1>2, <3>1, <3>2, <3>3 DEF RunOK, Writing
    <3>5. KeptOK'
      BY <3>1 DEF KeptOK, Kept
    <3>6. Stored'
      BY <1>1, <2>2, <3>1, Constants DEF TInv, Stored, trace, past
    <3> QED BY <1>1, <1>2, <1>5, <3>1, <3>2, <3>3, <3>4, <3>5, <3>6 DEF TInv, m
  <2>4. CASE o # "ok"
    <3>1. CaptureManifest /\ Restore /\ run' = run /\ (manifest' = m \/ manifest' = manifest)
      BY <2>1, <2>4
    <3>2. TInv'
      BY <1>3, <2>2, <3>1
    <3> QED BY <1>1, <1>2, <1>5, <3>1, <3>2 DEF Restore, m
  <2> QED BY <2>3, <2>4
<1> QED BY <1>4, <1>5

\* What a step of a restore writes.
LEMMA RestoreStepT ==
  ASSUME TInv, RestoreStep
  PROVE  /\ TInv' /\ pc = "restore" /\ (ConnectRun(run) \/ DisconnectRun(run)) /\ kept # <<>>
         /\ kept[Len(kept)] \in Kept /\ Snapshot(kept[Len(kept)])
         /\ UNCHANGED <<bound, edits, runs, original, touched>>
         /\ \/ UNCHANGED disk
            \/ kept[Len(kept)].name = "manifest" /\ manifest' = run.old /\ file' = file
            \/ /\ kept[Len(kept)].name \in Artifact /\ manifest' = manifest
               /\ file' = [file EXCEPT ![kept[Len(kept)].name] = kept[Len(kept)].was]
         /\ \/ /\ pc' = "restore" /\ run' = run /\ raced' = raced /\ hurt' = hurt
               /\ kept' = SubSeq(kept, 1, Len(kept) - 1)
               /\ Kept' \subseteq Kept /\ Kept \subseteq Kept' \cup {kept[Len(kept)]}
               /\ kept[Len(kept)].name = "manifest" => manifest' = run.old
               /\ kept[Len(kept)].name \in Artifact => file'[kept[Len(kept)].name] = kept[Len(kept)].was
            \/ Stop /\ hurt' = hurt \cup {run.op} /\ faults' # faults
<1> DEFINE x == kept[Len(kept)]
<1>1. /\ pc = "restore" /\ kept # <<>> /\ (ConnectRun(run) \/ DisconnectRun(run))
      /\ UNCHANGED <<bound, edits, runs, original, touched>> /\ kept \in Seq(Kept)
  BY DEF RestoreStep, TInv, RunOK, KeptOK
<1>2. Len(kept) \in Nat /\ Len(kept) > 0 /\ x \in Kept /\ Snapshot(x)
  <2>1. Len(kept) \in Nat /\ Len(kept) > 0
    BY <1>1, EmptySeq, LenProperties
  <2> QED BY <2>1 DEF Kept, TInv, KeptOK
<1>3. \/ x.name \in Artifact /\ FileOK(x.name, x.was) /\ x.name # "manifest"
      \/ x.name = "manifest" /\ x.name \notin Artifact
  BY <1>2, Constants DEF Snapshot
<1> HIDE DEF x
<1>4. PICK o \in Outcomes :
        /\ MayFail(o) /\ Count(o)
        /\ IF ~Effect(o) THEN UNCHANGED disk
           ELSE IF x.name = "manifest" THEN manifest' = run.old /\ UNCHANGED file
           ELSE file' = [file EXCEPT ![x.name] = x.was] /\ UNCHANGED manifest
        /\ IF o = "ok"
           THEN /\ kept' = SubSeq(kept, 1, Len(kept) - 1)
                /\ UNCHANGED <<pc, at, run, raced, hurt, unresolved>>
           ELSE /\ Stop
                /\ hurt' = hurt \cup {run.op}
                /\ unresolved' = {kept[n].name : n \in 1..(Len(kept) - (IF o = "late" THEN 1 ELSE 0))}
  BY DEF RestoreStep, x
<1>5. faults' \in 0..MaxFaults
  BY <1>4, OutcomeCounts DEF TInv
<1>6. \/ UNCHANGED disk
      \/ x.name = "manifest" /\ manifest' = run.old /\ file' = file
      \/ x.name \in Artifact /\ manifest' = manifest /\ file' = [file EXCEPT ![x.name] = x.was]
  BY <1>3, <1>4
<1> DEFINE FilesFine == ManifestOK(manifest') /\ file' \in [Artifact -> Files] /\ \A a \in Artifact : FileOK(a, file'[a])
<1>7. FilesFine
  <2>1. ManifestOK(run.old) /\ ManifestOK(manifest) /\ Stored
    BY <1>1 DEF ConnectRun, DisconnectRun, TInv, Stored
  <2>2. ASSUME UNCHANGED disk PROVE FilesFine
    BY <2>1, <2>2 DEF disk, Stored
  <2>3. ASSUME manifest' = run.old /\ file' = file PROVE FilesFine
    BY <2>1, <2>3 DEF Stored
  <2>4. ASSUME x.name \in Artifact, manifest' = manifest, file' = [file EXCEPT ![x.name] = x.was]
        PROVE  FilesFine
    <3>1. FileOK(x.name, x.was) /\ x.was \in Files
      BY <1>3, <2>4, Constants DEF FileOK
    <3> QED BY <2>1, <2>4, <3>1, FilesPut
  <2> QED BY <1>6, <2>2, <2>3, <2>4
<1>8. CASE o = "ok"
  <2>1. kept' = SubSeq(kept, 1, Len(kept) - 1) /\ UNCHANGED <<pc, at, run, raced, hurt, unresolved>>
    BY <1>4, <1>8
  <2>2. kept' \in Seq(Kept') /\ Kept' \subseteq Kept /\ Kept \subseteq Kept' \cup {x}
    BY <1>1, <2>1, KeptLess DEF x
  <2>3. RunOK' /\ KeptOK'
    <3>1. \A y \in Kept' : Snapshot(y)
      BY <2>2 DEF TInv, KeptOK
    <3> QED BY <1>1, <2>1, <2>2, <3>1 DEF TInv, RunOK, KeptOK
  <2>4. Stored'
    BY <1>1, <1>5, <1>7, <2>1 DEF TInv, Stored
  <2>5. /\ x.name = "manifest" => manifest' = run.old
        /\ x.name \in Artifact => file'[x.name] = x.was
    BY <1>3, <1>4, <1>8 DEF Effect, TInv, Stored
  <2> QED BY <1>1, <1>2, <1>6, <2>1, <2>2, <2>3, <2>4, <2>5 DEF TInv, x
<1>9. CASE o # "ok"
  <2>1. /\ Stop /\ hurt' = hurt \cup {run.op}
        /\ unresolved' = {kept[n].name : n \in 1..(Len(kept) - (IF o = "late" THEN 1 ELSE 0))}
    BY <1>4, <1>9
  <2>2. RunOK' /\ KeptOK' /\ pc' = "idle" /\ at' = 1 /\ raced' = {}
    BY <2>1, Stopped
  <2>5. faults' # faults
    BY <1>4, <1>9 DEF Count, TInv, Stored
  <2>3. unresolved' \subseteq Artifact \cup {"manifest"}
    <3>1. \A n \in 1..Len(kept) : kept[n].name \in Artifact \cup {"manifest"}
      BY DEF TInv, KeptOK, Kept, Snapshot
    <3>2. \A n \in 1..(Len(kept) - (IF o = "late" THEN 1 ELSE 0)) : n \in 1..Len(kept)
      BY <1>2
    <3> QED BY <2>1, <3>1, <3>2
  <2>4. Stored'
    BY <1>1, <1>5, <1>7, <2>2, <2>3, Constants DEF TInv, Stored
  <2> QED BY <1>1, <1>2, <1>6, <2>1, <2>2, <2>4, <2>5 DEF TInv, x
<1> QED BY <1>8, <1>9

LEMMA StopT ==
  ASSUME TInv, Restored \/ EndConnect
  PROVE  TInv' /\ pc' = "idle" /\ Kept' = {} /\ Stop /\ UNCHANGED <<disk, bound, counts, past>>
<1>1. Stop /\ UNCHANGED <<disk, bound, counts, past>>
  BY DEF Restored, EndConnect
<1>2. TInv' /\ pc' = "idle" /\ Kept' = {}
  BY <1>1, EndT DEF counts, past, TInv, Stored
<1> QED BY <1>1, <1>2

LEMMA ResolveT ==
  ASSUME TInv, NEW p \in Project, Resolve(p)
  PROVE  /\ TInv' /\ pc = "installed" /\ pc' = "config" /\ Kept' = {} /\ run'.new = run.new
         /\ InstalledRun(run) /\ InstalledRun(run') /\ run'.id = run.id
         /\ UNCHANGED <<disk, at, kept, counts, trace>>
<1>1. /\ pc = "installed" /\ pc' = "config" /\ InstalledRun(run) /\ kept = <<>>
      /\ run' = [op |-> "register", id |-> run.id, new |-> run.new, project |-> p]
      /\ UNCHANGED <<disk, at, kept, counts, trace>>
  BY DEF Resolve, TInv, RunOK, KeptOK
<1>2. /\ run'.op = "register" /\ run'.id = run.id /\ run'.new = run.new /\ run'.project = p
      /\ run' = [op |-> "register", id |-> run'.id, new |-> run'.new, project |-> run'.project]
  BY <1>1
<1>3. InstalledRun(run')
  BY <1>1, <1>2 DEF InstalledRun
<1>4. kept' = <<>> /\ Kept' = {} /\ kept' \in Seq(Kept')
  BY <1>1 DEF Kept
<1>5. RunOK' /\ KeptOK'
  BY <1>1, <1>2, <1>3, <1>4 DEF TInv, RunOK, KeptOK, Writing, disk
<1>6. Stored'
  BY <1>1 DEF TInv, Stored, disk, counts, trace, past
<1> QED BY <1>1, <1>2, <1>3, <1>4, <1>5, <1>6 DEF TInv

LEMMA NewManifest ==
  ASSUME TInv, pc = "config"
  PROVE  LET f == Registered(file[Config])
             m == RegisteredManifest(f) IN
         /\ ManifestOK(m) /\ m.there /\ m.id = run.new.id /\ m.project = run.project
         /\ \A a \in Artifact : m.records[a].created = run.new.records[a].created
         /\ \A a \in Artifact \ {Config} : m.records[a] = run.new.records[a]
         /\ m.records[Config].hash = f.part
<1> DEFINE f == Registered(file[Config])
           r == [run.new.records EXCEPT ![Config].hash = f.part]
           k == run.new.records[Config]
<1>1. /\ ManifestOK(run.new) /\ run.new.there /\ run.project \in Project /\ Config \in Artifact
  BY Constants DEF TInv, RunOK, InstalledRun
<1>2. run.new.id \in Identity /\ run.new.records \in [Artifact -> Record]
  BY <1>1, ManifestParts
<1>3. f.part \in Hash
  <2>1. f.part \in AllKeys
    BY RegisteredFile
  <2> QED BY <2>1 DEF Hash, Parts
<1> HIDE DEF f
<1>4. k \in Record /\ k.created \in BOOLEAN
  BY <1>1, <1>2 DEF Record
<1>5. /\ [k EXCEPT !.hash = f.part] \in Record /\ [k EXCEPT !.hash = f.part].created = k.created
      /\ [k EXCEPT !.hash = f.part].hash = f.part
  BY <1>3, <1>4 DEF Record
<1>6. /\ r = [run.new.records EXCEPT ![Config] = [k EXCEPT !.hash = f.part]]
  BY <1>1
<1> HIDE DEF k
<1>7. /\ r \in [Artifact -> Record] /\ r[Config] = [k EXCEPT !.hash = f.part]
      /\ \A a \in Artifact \ {Config} : r[a] = run.new.records[a]
  <2> HIDE DEF r
  <2> QED BY <1>1, <1>2, <1>5, <1>6
<1>8. RegisteredManifest(f) = Manifest(run.new.id, run.project, r)
  BY DEF RegisteredManifest
<1> HIDE DEF r
<1>9. LET m == Manifest(run.new.id, run.project, r) IN
      ManifestOK(m) /\ m.there /\ m.id = run.new.id /\ m.project = run.project /\ m.records = r
  BY <1>1, <1>2, <1>7, ManifestMade
<1>10. \A a \in Artifact : r[a].created = run.new.records[a].created
  BY <1>5, <1>7 DEF k
<1> DEFINE m == RegisteredManifest(f)
<1>11. ManifestOK(m) /\ m.there /\ m.id = run.new.id /\ m.project = run.project /\ m.records = r
  BY <1>8, <1>9
<1> HIDE DEF m
<1>12. /\ \A a \in Artifact : m.records[a].created = run.new.records[a].created
       /\ \A a \in Artifact \ {Config} : m.records[a] = run.new.records[a]
       /\ m.records[Config].hash = f.part
  BY <1>5, <1>7, <1>10, <1>11
<1> QED BY <1>11, <1>12 DEF f, m

LEMMA PersistConfigT ==
  ASSUME TInv, PersistConfig
  PROVE  /\ TInv' /\ pc = "config" /\ InstalledRun(run) /\ UNCHANGED <<manifest, bound, edits, runs, past>>
         /\ \/ Stop /\ file' = file
            \/ /\ file[Config].part # Broken /\ pc' \in {"bind", "unconfig"} /\ RegisterRun(run') /\ run'.op = "register" /\ raced' = {}
               /\ run'.old = manifest /\ run'.new = RegisteredManifest(Registered(file[Config])) /\ run'.before = disk
               /\ kept' = <<[name |-> Config, was |-> file[Config]]>> /\ Kept' = {kept'[1]}
               /\ pc' = "bind" => file' = [file EXCEPT ![Config] = Registered(file[Config])]
               /\ file' = file \/ file' = [file EXCEPT ![Config] = Registered(file[Config])]
<1>1. /\ pc = "config" /\ UNCHANGED <<manifest, bound, edits, runs, past>> /\ InstalledRun(run)
      /\ kept = <<>> /\ Config \in Artifact /\ at = 1 /\ manifest.there
  BY Constants DEF PersistConfig, TInv, RunOK, KeptOK, Stored
<1> DEFINE f == Registered(file[Config])
<1>2. FileOK(Config, f) /\ f \in Files
  BY <1>1, RegisteredFile
<1>3. ManifestOK(RegisteredManifest(f)) /\ RegisteredManifest(f).there
  BY <1>1, NewManifest
<1>4. CASE file[Config].part = Broken
  <2>1. Stop /\ UNCHANGED <<file, faults>>
    BY <1>4 DEF PersistConfig
  <2>2. TInv'
    BY <1>1, <2>1, EndT DEF disk, past, TInv, Stored
  <2> QED BY <1>1, <2>1, <2>2
<1>5. CASE file[Config].part # Broken
  <2>1. PICK o \in Outcomes :
            /\ MayFail(o) /\ Count(o)
            /\ file' = IF Effect(o) THEN [file EXCEPT ![Config] = f] ELSE file
            /\ run' = [op |-> "register", old |-> manifest, new |-> RegisteredManifest(f), before |-> disk]
            /\ pc' = IF o = "ok" THEN "bind" ELSE "unconfig"
            /\ Capture(Config) /\ raced' = {} /\ UNCHANGED at
    BY <1>5 DEF PersistConfig
  <2> HIDE DEF f
  <2>2. /\ pc' \in {"bind", "unconfig"} /\ (pc' = "bind" => o = "ok")
        /\ file' = file \/ file' = [file EXCEPT ![Config] = f]
        /\ o = "ok" => file' = [file EXCEPT ![Config] = f]
    BY <2>1 DEF Effect
  <2>3. kept' = <<[name |-> Config, was |-> file[Config]]>>
    BY <1>1, <2>1 DEF Capture
  <2>4. Kept' = {[name |-> Config, was |-> file[Config]]} /\ kept' \in Seq(Kept') /\ kept' = <<kept'[1]>>
        /\ kept'[1] = [name |-> Config, was |-> file[Config]]
    BY <2>3 DEF Kept
  <2>5. /\ run'.op = "register" /\ run'.old = manifest /\ run'.new = RegisteredManifest(f) /\ run'.before = disk
        /\ run' = [op |-> "register", old |-> run'.old, new |-> run'.new, before |-> run'.before]
    <3> HIDE DEF disk, RegisteredManifest
    <3> QED BY <2>1
  <2>6. RegisterRun(run')
    BY <1>1, <1>3, <2>5 DEF RegisterRun, TInv, Stored
  <2>7. RunOK'
    BY <2>2, <2>6 DEF RunOK, Writing
  <2>8. KeptOK'
    <3>1. Snapshot(kept'[1]) /\ kept'[1].name = Config
      BY <1>1, <2>4 DEF Snapshot, TInv, Stored
    <3> QED BY <2>2, <2>4, <3>1 DEF KeptOK
  <2>9. Stored'
    <3>1. faults' \in 0..MaxFaults
      BY <2>1, OutcomeCounts DEF TInv
    <3>2. file' \in [Artifact -> Files] /\ \A b \in Artifact : FileOK(b, file'[b])
      BY <1>1, <1>2, <2>2, FilesPut DEF TInv, Stored
    <3>3. raced' = {} /\ at' = at
      BY <2>1
    <3> QED BY <1>1, <2>2, <3>1, <3>2, <3>3 DEF TInv, Stored, past
  <2> QED BY <1>1, <1>5, <2>1, <2>2, <2>3, <2>4, <2>5, <2>6, <2>7, <2>8, <2>9 DEF TInv, f
<1> QED BY <1>4, <1>5

LEMMA PersistManifestT ==
  ASSUME TInv, PersistManifest
  PROVE  /\ TInv' /\ pc = "bind" /\ RegisterRun(run) /\ UNCHANGED <<file, bound, edits, runs, past>>
         /\ \/ Stop /\ manifest' = run.new
            \/ pc' = "unconfig" /\ UNCHANGED <<at, run, kept, raced>> /\ manifest' \in {manifest, run.new}
<1>1. pc = "bind" /\ RegisterRun(run) /\ UNCHANGED <<file, bound, edits, runs, past>>
  BY DEF PersistManifest, TInv, RunOK
<1>2. PICK o \in Outcomes :
       /\ MayFail(o) /\ Count(o)
       /\ manifest' = IF Effect(o) THEN run.new ELSE manifest
       /\ IF o = "ok" THEN Stop
          ELSE pc' = "unconfig" /\ UNCHANGED <<at, run, kept, raced>>
  BY DEF PersistManifest
<1>3. faults' \in 0..MaxFaults /\ manifest' \in {manifest, run.new} /\ ManifestOK(manifest')
  BY <1>1, <1>2, OutcomeCounts DEF TInv, Stored, RegisterRun
<1>4. CASE o = "ok"
  <2>1. Stop /\ manifest' = run.new
    BY <1>2, <1>4 DEF Effect
  <2>2. RunOK' /\ KeptOK' /\ pc' = "idle" /\ at' = 1 /\ raced' = {}
    BY <2>1, Stopped
  <2>3. Stored'
    BY <1>1, <1>3, <2>2, Constants DEF TInv, Stored, past
  <2> QED BY <1>1, <2>1, <2>2, <2>3 DEF TInv
<1>5. CASE o # "ok"
  <2>1. pc' = "unconfig" /\ UNCHANGED <<at, run, kept, raced>>
    BY <1>2, <1>5
  <2>2. RunOK'
    BY <1>1, <2>1 DEF RunOK, Writing
  <2>3. KeptOK'
    BY <1>1, <2>1 DEF TInv, KeptOK, Kept, Snapshot
  <2>4. Stored'
    BY <1>1, <1>3, <2>1 DEF TInv, Stored, past
  <2> QED BY <1>1, <1>3, <2>1, <2>2, <2>3, <2>4 DEF TInv
<1> QED BY <1>4, <1>5

LEMMA UndoConfigT ==
  ASSUME TInv, UndoConfig
  PROVE  /\ TInv' /\ pc = "unconfig" /\ pc' = "unbind" /\ RegisterRun(run) /\ Kept' = Kept
         /\ kept[1] \in Kept /\ kept[1].name = Config
         /\ UNCHANGED <<manifest, bound, at, run, kept, edits, runs, original, touched, raced>>
         /\ \/ file' = [file EXCEPT ![Config] = kept[1].was] /\ hurt' = hurt /\ unresolved' = {}
            \/ file' = file /\ hurt' = hurt \cup {"register"} /\ unresolved' = {Config}
<1>1. /\ pc = "unconfig" /\ pc' = "unbind" /\ RegisterRun(run)
      /\ UNCHANGED <<manifest, bound, at, run, kept, edits, runs, original, touched, raced>>
  BY DEF UndoConfig, TInv, RunOK
<1>2. PICK o \in Outcomes :
       /\ MayFail(o) /\ Count(o)
       /\ file' = IF Effect(o) THEN [file EXCEPT ![Config] = kept[1].was] ELSE file
       /\ hurt' = IF Effect(o) THEN hurt ELSE hurt \cup {"register"}
       /\ unresolved' = IF Effect(o) THEN {} ELSE {Config}
  BY DEF UndoConfig
<1>3. kept[1] \in Kept /\ kept[1].name = Config /\ FileOK(Config, kept[1].was) /\ kept[1].was \in Files
  <2>1. kept = <<kept[1]>> /\ kept[1].name = Config
    BY <1>1 DEF TInv, KeptOK
  <2>2. kept[1] \in Kept
    BY <2>1, KeptOne
  <2> QED BY <2>1, <2>2, Constants DEF TInv, KeptOK, Snapshot, FileOK
<1>4. faults' \in 0..MaxFaults /\ Config \in Artifact
  BY <1>2, OutcomeCounts, Constants DEF TInv
<1>5. \/ file' = [file EXCEPT ![Config] = kept[1].was] /\ hurt' = hurt /\ unresolved' = {}
      \/ file' = file /\ hurt' = hurt \cup {"register"} /\ unresolved' = {Config}
  BY <1>2
<1>6. file' \in [Artifact -> Files] /\ \A b \in Artifact : FileOK(b, file'[b])
  BY <1>3, <1>4, <1>5, FilesPut DEF TInv, Stored
<1>7. RunOK' /\ Kept' = Kept
  BY <1>1 DEF RunOK, Writing, Kept
<1>8. KeptOK'
  BY <1>1, <1>7 DEF TInv, KeptOK
<1>9. Stored'
  BY <1>1, <1>4, <1>5, <1>6 DEF TInv, Stored
<1> QED BY <1>1, <1>3, <1>5, <1>7, <1>8, <1>9 DEF TInv

LEMMA UndoManifestT ==
  ASSUME TInv, UndoManifest
  PROVE  /\ TInv' /\ pc = "unbind" /\ RegisterRun(run) /\ Stop /\ UNCHANGED <<file, bound, edits, runs, original, touched>>
         /\ \/ manifest' = run.old /\ hurt' = hurt
            \/ manifest' = manifest /\ hurt' = hurt \cup {"register"} /\ faults' # faults
<1>1. pc = "unbind" /\ RegisterRun(run) /\ Stop /\ UNCHANGED <<file, bound, edits, runs, original, touched>>
  BY DEF UndoManifest, TInv, RunOK
<1>2. PICK o \in Outcomes :
       /\ MayFail(o) /\ Count(o)
       /\ manifest' = IF Effect(o) THEN run.old ELSE manifest
       /\ hurt' = IF Effect(o) THEN hurt ELSE hurt \cup {"register"}
       /\ unresolved' = IF Effect(o) THEN unresolved ELSE unresolved \cup {"manifest"}
  BY DEF UndoManifest
<1>3. faults' \in 0..MaxFaults
  BY <1>2, OutcomeCounts DEF TInv
<1>4. \/ manifest' = run.old /\ hurt' = hurt
      \/ manifest' = manifest /\ hurt' = hurt \cup {"register"} /\ faults' # faults
  BY <1>2 DEF Count, Effect, TInv, Stored
<1>5. ManifestOK(manifest') /\ unresolved' \subseteq Artifact \cup {"manifest"}
  BY <1>1, <1>2, <1>4 DEF TInv, Stored, RegisterRun
<1>6. RunOK' /\ KeptOK' /\ pc' = "idle" /\ at' = 1 /\ raced' = {}
  BY <1>1, Stopped
<1>7. Stored'
  BY <1>1, <1>3, <1>5, <1>6, Constants DEF TInv, Stored
<1> QED BY <1>1, <1>4, <1>6, <1>7 DEF TInv

LEMMA PlanDisconnectT ==
  ASSUME TInv, PlanDisconnect
  PROVE  /\ TInv' /\ pc = "idle" /\ pc' = "recheck" /\ DisconnectRun(run') /\ kept' = <<>> /\ Kept' = {}
         /\ DisconnectReady /\ run'.plan = DisconnectPlan /\ run'.old = manifest
         /\ UNCHANGED <<disk, bound, at, kept, edits, faults, original, touched, raced, hurt>>
<1>1. /\ pc = "idle" /\ runs < MaxRuns /\ DisconnectReady /\ runs' = runs + 1 /\ pc' = "recheck"
      /\ run' = [op |-> "disconnect", plan |-> DisconnectPlan, old |-> manifest, before |-> disk]
      /\ unresolved' = {}
      /\ UNCHANGED <<disk, bound, at, kept, edits, faults, original, touched, raced, hurt>>
  BY DEF PlanDisconnect, Idle
<1>2. DisconnectPlan \in [Artifact -> Kinds] /\ manifest.there
  BY <1>1, PlanKinds DEF DisconnectReady
<1>3. /\ run'.op = "disconnect" /\ run'.plan = DisconnectPlan /\ run'.old = manifest
      /\ run' = [op |-> "disconnect", plan |-> run'.plan, old |-> run'.old, before |-> run'.before]
  <2> HIDE DEF DisconnectPlan, disk
  <2> QED BY <1>1
<1>4. DisconnectRun(run')
  BY <1>2, <1>3 DEF DisconnectRun, TInv, Stored
<1>5. kept' = <<>> /\ Kept' = {} /\ kept' \in Seq(Kept')
  BY <1>1 DEF TInv, KeptOK, Kept
<1>6. RunOK' /\ KeptOK'
  BY <1>1, <1>4, <1>5 DEF RunOK, KeptOK, Writing
<1>7. runs' \in 0..MaxRuns
  BY <1>1, Constants DEF TInv, Stored
<1>8. Stored'
  BY <1>1, <1>7 DEF TInv, Stored, disk
<1> QED BY <1>1, <1>3, <1>4, <1>5, <1>6, <1>8 DEF TInv

LEMMA RecheckT ==
  ASSUME TInv, Recheck
  PROVE  /\ TInv' /\ pc = "recheck" /\ DisconnectRun(run) /\ kept = <<>> /\ kept' = <<>>
         /\ UNCHANGED <<disk, bound, counts, past>>
         /\ \/ Stop
            \/ /\ pc' = "remove" /\ DisconnectReady /\ DisconnectPlan = run.plan /\ UNCHANGED <<at, kept, raced>>
               /\ DisconnectRun(run') /\ run'.plan = run.plan /\ run'.old = run.old /\ run'.before = disk
<1>1. pc = "recheck" /\ UNCHANGED <<disk, bound, counts, past>> /\ DisconnectRun(run) /\ kept = <<>>
  BY DEF Recheck, TInv, RunOK, KeptOK
<1>2. CASE DisconnectReady /\ DisconnectPlan = run.plan
  <2>1. pc' = "remove" /\ run' = [run EXCEPT !.before = disk] /\ UNCHANGED <<at, kept, raced>>
    BY <1>2 DEF Recheck
  <2>2. DisconnectRun(run') /\ run'.plan = run.plan /\ run'.old = run.old /\ run'.before = disk
    <3> HIDE DEF disk
    <3> QED BY <1>1, <2>1 DEF DisconnectRun
  <2>3. kept' = <<>> /\ Kept' = {} /\ kept' \in Seq(Kept')
    BY <1>1, <2>1 DEF Kept
  <2>4. RunOK' /\ KeptOK'
    BY <2>1, <2>2, <2>3 DEF RunOK, KeptOK, Writing
  <2>5. Stored'
    BY <1>1, <2>1 DEF TInv, Stored, disk, counts, past
  <2> QED BY <1>1, <1>2, <2>1, <2>2, <2>3, <2>4, <2>5 DEF TInv
<1>3. CASE ~(DisconnectReady /\ DisconnectPlan = run.plan)
  <2>1. Stop
    BY <1>3 DEF Recheck
  <2>2. TInv'
    BY <1>1, <2>1, EndT DEF counts, past, TInv, Stored
  <2> QED BY <1>1, <2>1, <2>2 DEF Stop
<1> QED BY <1>2, <1>3

\* A file that disconnect cannot cut the connector's part out of.
Inseparable(a) ==
  \/ Mode[a] = "section" /\ file[a].part # run.old.records[a].hash
  \/ Mode[a] = "keys" /\ file[a].part = Broken

LEMMA RemoveStepT ==
  ASSUME TInv, RemoveStep
  PROVE  /\ TInv' /\ pc = "remove" /\ DisconnectRun(run) /\ Registry[at] \in Artifact /\ Ahead(Registry[at])
         /\ UNCHANGED <<manifest, bound, run, edits, runs, trace>>
         /\ \/ /\ run.plan[Registry[at]] # "remove" \/ ~file[Registry[at]].there
               /\ Onward(at) /\ file' = file /\ kept' = kept /\ Kept' = Kept
            \/ /\ run.plan[Registry[at]] = "remove" /\ file[Registry[at]].there
               /\ ~Inseparable(Registry[at]) /\ Onward(at) /\ Placing(Registry[at])
               /\ file' = [file EXCEPT ![Registry[at]] = Without(Registry[at])]
            \/ /\ run.plan[Registry[at]] = "remove" /\ file[Registry[at]].there
               /\ pc' = "restore" /\ Placing(Registry[at])
               /\ \/ file' = file
                  \/ /\ ~Inseparable(Registry[at])
                     /\ file' = [file EXCEPT ![Registry[at]] = Without(Registry[at])]
<1>1. pc = "remove" /\ DisconnectRun(run) /\ UNCHANGED <<bound, run, edits, runs, trace>>
  BY DEF RemoveStep, TInv, RunOK
<1>2. Registry[at] \in Artifact /\ Ahead(Registry[at]) /\ faults \in 0..MaxFaults
  BY Constants DEF TInv, Stored, Ahead
<1>4. CASE run.plan[Registry[at]] # "remove" \/ ~file[Registry[at]].there
  <2>1. Onward(at) /\ UNCHANGED <<disk, kept, faults>>
    BY <1>4 DEF RemoveStep
  <2>2. TInv' /\ Kept' = Kept
    BY <1>1, <2>1, PassedT DEF counts
  <2> QED BY <1>1, <1>2, <1>4, <2>1, <2>2 DEF disk
<1>5. CASE ~(run.plan[Registry[at]] # "remove" \/ ~file[Registry[at]].there)
  <2> DEFINE a == Registry[at]
  <2>0. Without(a) \in Files /\ FileOK(a, Without(a))
    BY <1>2, <1>5, RemainingFile
  <2>1. PICK o \in Outcomes :
          /\ MayFail(o) /\ Capture(a) /\ UNCHANGED manifest
          /\ IF Inseparable(a)
             THEN o = "ok" /\ UNCHANGED <<file, faults>> /\ Restore
             ELSE /\ Count(o)
                  /\ file' = IF Effect(o) THEN [file EXCEPT ![a] = Without(a)] ELSE file
                  /\ IF o = "ok" THEN Onward(at) ELSE Restore
    BY <1>5 DEF RemoveStep, Inseparable
  <2>2. kept' = Append(kept, [name |-> a, was |-> file[a]])
    BY <2>1 DEF Capture
  <2>3. CASE Inseparable(a)
    <3>1. file' = file /\ faults' = faults /\ Restore /\ Capture(a) /\ manifest' = manifest
      BY <2>1, <2>3
    <3>2. pc' = "restore" /\ at' = 1
      BY <3>1 DEF Restore
    <3>3. Kept' = Kept \cup {[name |-> a, was |-> file[a]]} /\ kept' \in Seq(Kept')
      BY <2>2, KeptAppend DEF TInv, KeptOK
    <3>4. RunOK'
      BY <1>1, <3>2 DEF RunOK, Writing
    <3>5. \A x \in Kept' : Snapshot(x)
      BY <1>2, <3>3 DEF TInv, KeptOK, Snapshot, Stored
    <3>6. KeptOK'
      BY <3>2, <3>3, <3>5 DEF KeptOK
    <3>7. Stored'
      BY <1>1, <3>1, <3>2, Constants DEF TInv, Stored, trace, past
    <3> QED BY <1>1, <1>2, <1>5, <2>2, <3>1, <3>2, <3>3, <3>4, <3>6, <3>7 DEF TInv, Placing
  <2>4. CASE ~Inseparable(a)
    <3>1. /\ Count(o) /\ file' = (IF Effect(o) THEN [file EXCEPT ![a] = Without(a)] ELSE file)
          /\ IF o = "ok" THEN Onward(at) ELSE Restore
      BY <2>1, <2>4
    <3>2. faults' \in 0..MaxFaults
      BY <2>1, <3>1, OutcomeCounts DEF TInv
    <3>3. file' = [file EXCEPT ![a] = Without(a)] \/ file' = file
      BY <3>1
    <3>4. TInv' /\ Kept' = Kept \cup {[name |-> a, was |-> file[a]]}
      <4> HIDE DEF a
      <4> QED BY <1>1, <2>0, <2>1, <3>1, <3>2, <3>3, CapturedT DEF a
    <3>5. o = "ok" => file' = [file EXCEPT ![a] = Without(a)]
      BY <3>1 DEF Effect
    <3> QED BY <1>1, <1>2, <1>5, <2>1, <2>2, <2>4, <3>1, <3>3, <3>4, <3>5 DEF Placing, Restore
  <2> QED BY <2>3, <2>4
<1> QED BY <1>4, <1>5

LEMMA RemoveManifestT ==
  ASSUME TInv, RemoveManifest
  PROVE  /\ TInv' /\ pc = "manifest" /\ DisconnectRun(run) /\ UNCHANGED <<file, bound, edits, runs, past>>
         /\ manifest' \in {manifest, NoManifest}
         /\ \/ Stop /\ manifest' = NoManifest
            \/ pc' = "restore" /\ CaptureManifest /\ UNCHANGED <<run, raced>>
<1>1. pc = "manifest" /\ DisconnectRun(run) /\ UNCHANGED <<file, bound, edits, runs, past>>
  <2>1. pc = "manifest" /\ run.op = "disconnect" /\ UNCHANGED <<file, bound, edits, runs, past>>
    BY DEF RemoveManifest
  <2>2. ConnectRun(run) \/ DisconnectRun(run)
    BY <2>1 DEF TInv, RunOK
  <2> QED BY <2>1, <2>2, RunsDiffer
<1>2. PICK o \in Outcomes :
       /\ MayFail(o) /\ Count(o)
       /\ manifest' = IF Effect(o) THEN NoManifest ELSE manifest
       /\ IF o = "ok" THEN Stop
          ELSE CaptureManifest /\ Restore /\ UNCHANGED <<run, raced>>
  BY DEF RemoveManifest
<1>3. faults' \in 0..MaxFaults /\ manifest' \in {manifest, NoManifest} /\ ManifestOK(manifest')
  BY <1>2, OutcomeCounts, NoManifestOK DEF TInv, Stored
<1>4. CASE o = "ok"
  <2>1. Stop /\ manifest' = NoManifest
    BY <1>2, <1>4 DEF Effect
  <2>2. RunOK' /\ KeptOK' /\ pc' = "idle" /\ at' = 1 /\ raced' = {}
    BY <2>1, Stopped
  <2>3. Stored'
    BY <1>1, <1>3, <2>2, Constants DEF TInv, Stored, past
  <2> QED BY <1>1, <1>3, <2>1, <2>2, <2>3 DEF TInv
<1>5. CASE o # "ok"
  <2>1. CaptureManifest /\ Restore /\ UNCHANGED <<run, raced>> /\ pc' = "restore" /\ at' = 1
    BY <1>2, <1>5 DEF Restore
  <2>2. kept' \in Seq(Kept') /\ \A x \in Kept' : Snapshot(x)
    BY <2>1, KeptAppend DEF CaptureManifest, TInv, KeptOK, Snapshot
  <2>3. RunOK' /\ KeptOK'
    BY <1>1, <2>1, <2>2 DEF RunOK, KeptOK, Writing
  <2>4. Stored'
    BY <1>1, <1>3, <2>1, Constants DEF TInv, Stored, past
  <2> QED BY <1>1, <1>3, <2>1, <2>3, <2>4 DEF TInv
<1> QED BY <1>4, <1>5

LEMMA FirstFiles ==
  ASSUME NEW a \in Artifact, NEW project \in {"empty", "user", "clone", "script"}
  PROVE  FileOK(a, FirstFile(a, project))
<1>1. 0 \in 0..(MaxEdits + 1) /\ 1 \in 0..(MaxEdits + 1) /\ 0 \in Identity
  BY Constants DEF Identity
<1>2. Keys(0, NoProject, "own") \in AllKeys
  BY <1>1, KeysOfParts
<1>3. CASE project = "empty"
  BY <1>3, AbsentIsFile DEF FirstFile
<1>4. CASE project = "user"
  <2>1. Nothing \in Parts \cap PartsOf(a)
    BY PartsOfMode
  <2>2. FileOK(a, Holding(1, Nothing, FALSE))
    BY <1>1, <2>1, HoldingFlag
  <2> QED BY <1>4, <2>2, AbsentIsFile DEF FirstFile
<1>5. CASE project = "clone"
  <2>1. ASSUME Mode[a] \in {"section", "line"} PROVE FileOK(a, Holding(1, Current, FALSE))
    <3>1. Current \in Parts \cap PartsOf(a)
      BY <2>1, PartsOfMode DEF Parts
    <3> QED BY <1>1, <3>1, HoldingFlag
  <2> QED BY <1>5, <2>1, AbsentIsFile DEF FirstFile
<1>6. CASE project = "script"
  <2>1. ASSUME Mode[a] \in {"section", "line"}
        PROVE  FileOK(a, Holding(1, Current, FALSE)) /\ FileOK(a, Holding(0, Current, FALSE))
    <3>1. Current \in Parts \cap PartsOf(a)
      BY <2>1, PartsOfMode DEF Parts
    <3> QED BY <1>1, <3>1, HoldingFlag
  <2>2. ASSUME Mode[a] = "whole" PROVE FileOK(a, Holding(0, Prior, FALSE))
    <3>1. Prior \in Parts \cap PartsOf(a)
      BY <2>2, PartsOfMode DEF Parts
    <3> QED BY <1>1, <3>1, HoldingFlag
  <2>3. ASSUME Mode[a] = "keys" PROVE FileOK(a, Holding(0, Keys(0, NoProject, "own"), FALSE))
    <3>1. Keys(0, NoProject, "own") \in Parts \cap PartsOf(a)
      BY <1>2, <2>3, PartsOfMode DEF Parts
    <3> QED BY <1>1, <3>1, HoldingFlag
  <2>4. FileOK(a, Holding(1, Nothing, FALSE))
    <3>1. Nothing \in Parts \cap PartsOf(a)
      BY PartsOfMode
    <3> QED BY <1>1, <3>1, HoldingFlag
  <2>5. Mode[a] \in Modes
    BY PartsOfMode
  <2>6. FileOK(a, Packed(a))
    BY <2>1, <2>2, <2>3, <2>4, <2>5 DEF Packed, Modes
  <2> QED BY <1>6, <2>6 DEF FirstFile
<1> QED BY <1>3, <1>4, <1>5, <1>6

\* An older installation.
LEMMA OlderFiles ==
  ASSUME NEW a \in Artifact
  PROVE  LET f == OlderInstall[a] IN
         /\ FileOK(a, f) /\ f \in Files /\ f.there /\ f.user = 0
         /\ Mode[a] \in {"section", "line", "runtime"} => f.part \in {Nothing, Current}
         /\ Mode[a] \in {"section", "line"} => f.part = Current
         /\ Mode[a] = "whole" => f.part = Prior
         /\ Mode[a] = "keys" => f.part = Keys(MaxRuns + 1, NoProject, "own")
<1>1. 0 \in 0..(MaxEdits + 1) /\ MaxRuns + 1 \in Identity
  BY Constants DEF Identity
<1>2. Keys(MaxRuns + 1, NoProject, "own") \in AllKeys
  BY <1>1, KeysOfParts
<1> DEFINE f == OlderInstall[a]
<1>3. Mode[a] \in Modes
  BY PartsOfMode
<1>4. f = CASE Mode[a] = "section" -> Holding(0, Current, TRUE)
            [] Mode[a] = "line"    -> Holding(0, Current, FALSE)
            [] Mode[a] = "whole"   -> Holding(0, Prior, FALSE)
            [] Mode[a] = "keys"    -> Holding(0, Keys(MaxRuns + 1, NoProject, "own"), FALSE)
            [] OTHER               -> Holding(0, Nothing, FALSE)
  BY DEF OlderInstall
<1> HIDE DEF f
<1>5. CASE Mode[a] = "section"
  <2>1. Current \in Parts \cap PartsOf(a) /\ f = Holding(0, Current, TRUE)
    BY <1>4, <1>5, PartsOfMode DEF Parts
  <2>2. FileOK(a, f) /\ f \in Files /\ f.there /\ f.user = 0 /\ f.part = Current
    BY <1>1, <2>1, HoldingFlag DEF Holding
  <2> QED BY <1>5, <2>2 DEF f
<1>6. CASE Mode[a] = "line"
  <2>1. Current \in Parts \cap PartsOf(a) /\ f = Holding(0, Current, FALSE)
    BY <1>4, <1>6, PartsOfMode DEF Parts
  <2>2. FileOK(a, f) /\ f \in Files /\ f.there /\ f.user = 0 /\ f.part = Current
    BY <1>1, <2>1, HoldingFlag DEF Holding
  <2> QED BY <1>6, <2>2 DEF f
<1>7. CASE Mode[a] = "whole"
  <2>1. Prior \in Parts \cap PartsOf(a) /\ f = Holding(0, Prior, FALSE)
    BY <1>4, <1>7, PartsOfMode DEF Parts
  <2>2. FileOK(a, f) /\ f \in Files /\ f.there /\ f.user = 0 /\ f.part = Prior
    BY <1>1, <2>1, HoldingFlag DEF Holding
  <2> QED BY <1>7, <2>2 DEF f
<1>8. CASE Mode[a] = "keys"
  <2>1. /\ Keys(MaxRuns + 1, NoProject, "own") \in Parts \cap PartsOf(a)
        /\ f = Holding(0, Keys(MaxRuns + 1, NoProject, "own"), FALSE)
    BY <1>2, <1>4, <1>8, PartsOfMode DEF Parts
  <2>2. FileOK(a, f) /\ f \in Files /\ f.there /\ f.user = 0 /\ f.part = Keys(MaxRuns + 1, NoProject, "own")
    BY <1>1, <2>1, HoldingFlag DEF Holding
  <2> QED BY <1>8, <2>2 DEF f
<1>9. CASE Mode[a] \in {"env", "runtime"}
  <2>1. Nothing \in Parts \cap PartsOf(a) /\ f = Holding(0, Nothing, FALSE)
    BY <1>4, <1>9, PartsOfMode DEF Parts
  <2>2. FileOK(a, f) /\ f \in Files /\ f.there /\ f.user = 0 /\ f.part = Nothing
    BY <1>1, <2>1, HoldingFlag DEF Holding
  <2> QED BY <1>9, <2>2 DEF f
<1> QED BY <1>3, <1>5, <1>6, <1>7, <1>8, <1>9 DEF Modes

OlderManifest ==
  Manifest(MaxRuns + 1, NoProject,
           [a \in Artifact |-> [created |-> TRUE, hash |-> RecordHash(a, file[a])]])

LEMMA OlderRecords ==
  ASSUME file = OlderInstall
  PROVE  /\ ManifestOK(OlderManifest) /\ OlderManifest.there /\ OlderManifest.id = MaxRuns + 1
         /\ OlderManifest.project = NoProject
         /\ \A a \in Artifact : OlderManifest.records[a].created /\ OlderManifest.records[a].hash = RecordHash(a, file[a])
<1> DEFINE r == [a \in Artifact |-> [created |-> TRUE, hash |-> RecordHash(a, file[a])]]
<1>1. \A a \in Artifact : RecordHash(a, file[a]) \in Hash
  BY OlderFiles, HashesOfFiles
<1>2. \A a \in Artifact : [created |-> TRUE, hash |-> RecordHash(a, file[a])] \in Record
  BY <1>1 DEF Record
<1>3. /\ r \in [Artifact -> Record]
      /\ \A a \in Artifact : r[a].created = TRUE /\ r[a].hash = RecordHash(a, file[a])
  BY <1>2
<1>4. MaxRuns + 1 \in Identity
  BY Constants DEF Identity
<1>5. OlderManifest = Manifest(MaxRuns + 1, NoProject, r)
  BY DEF OlderManifest
<1> HIDE DEF r
<1>6. LET m == Manifest(MaxRuns + 1, NoProject, r) IN
      ManifestOK(m) /\ m.there /\ m.id = MaxRuns + 1 /\ m.project = NoProject /\ m.records = r
  BY <1>3, <1>4, ManifestMade
<1> QED BY <1>3, <1>5, <1>6

LEMMA InitT == ASSUME Init PROVE TInv /\ Kept = {}
<1>1. /\ pc = "idle" /\ at = 1 /\ run = NoRun /\ kept = <<>>
      /\ edits = 0 /\ runs = 0 /\ faults = 0
      /\ touched = {} /\ raced = {} /\ hurt = {} /\ unresolved = {}
  BY DEF Init
<1>2. Kept = {} /\ kept \in Seq(Kept)
  BY <1>1, KeptNothing
<1>3. file \in [Artifact -> Files] /\ (\A a \in Artifact : FileOK(a, file[a])) /\ ManifestOK(manifest)
  <2>1. CASE \E project \in {"empty", "user", "clone", "script"} :
               file = [a \in Artifact |-> FirstFile(a, project)] /\ manifest = NoManifest
    BY <2>1, FirstFiles, NoManifestOK DEF FileOK
  <2>2. CASE file = OlderInstall /\ manifest = OlderManifest
    <3>1. file = [a \in Artifact |-> file[a]]
      BY <2>2 DEF OlderInstall
    <3>2. \A a \in Artifact : FileOK(a, file[a]) /\ file[a] \in Files
      BY <2>2, OlderFiles
    <3> QED BY <2>2, <3>1, <3>2, OlderRecords
  <2> QED BY <2>1, <2>2 DEF Init, OlderManifest
<1>4. Stored
  BY <1>1, <1>3, Constants DEF Stored
<1>5. RunOK /\ KeptOK
  BY <1>1, <1>2 DEF RunOK, KeptOK, Writing
<1> QED BY <1>2, <1>4, <1>5 DEF TInv

LEMMA TypesHold == ASSUME TInv PROVE TypeOK
<1>1. /\ file \in [Artifact -> Files] /\ at \in 1..Len(Registry) /\ ManifestOK(manifest)
      /\ touched \subseteq Artifact /\ raced \subseteq Artifact /\ unresolved \subseteq Artifact \cup {"manifest"}
      /\ pc \in Writing \cup {"idle", "observe", "check", "recheck", "installed", "config"}
  BY DEF TInv, Stored, RunOK
<1>2. manifest.there =>
       /\ manifest.id \in Identity /\ manifest.project \in Project \cup {NoProject}
       /\ \A a \in Artifact : manifest.records[a].created \in BOOLEAN /\ manifest.records[a].hash \in Hash
  BY <1>1, ManifestParts
<1>3. \A n \in 1..Len(kept) : kept[n].name \in Artifact \cup {"manifest"} /\ kept[n].was \in Files
  <2>1. \A n \in 1..Len(kept) : Snapshot(kept[n])
    BY DEF TInv, KeptOK, Kept
  <2> QED BY <2>1, AbsentIsFile DEF Snapshot, FileOK
<1>4. /\ run # NoRun => run.op \in {"connect", "register", "disconnect"}
      /\ run # NoRun /\ run.op \in {"connect", "disconnect"} => \A a \in Artifact : run.plan[a] \in Kinds
  <2>1. \/ run = NoRun \/ ConnectRun(run) \/ DisconnectRun(run) \/ InstalledRun(run)
        \/ RegisterRun(run)
    BY DEF TInv, RunOK, Writing
  <2>2. InstalledRun(run) => run.op = "register"
    BY DEF InstalledRun
  <2>3. ConnectRun(run) \/ DisconnectRun(run) => run.plan \in [Artifact -> Kinds]
    BY DEF ConnectRun, DisconnectRun
  <2> QED BY <2>1, <2>2, <2>3, RunsDiffer
<1> QED BY <1>1, <1>2, <1>3, <1>4 DEF TypeOK

LEMMA NextT == ASSUME TInv, Next PROVE TInv'
BY UserEditT, DieT, PlanConnectT, ObserveT, CheckT, ApplyStepT, WriteManifestT, RestoreStepT, StopT,
   ResolveT, PersistConfigT, PersistManifestT, UndoConfigT, UndoManifestT, PlanDisconnectT, RecheckT,
   RemoveStepT, RemoveManifestT DEF Next, Connect, Register, Disconnect

LEMMA IdleT == ASSUME TInv, UNCHANGED vars PROVE TInv' /\ Kept' = Kept
<1>1. UNCHANGED <<file, manifest, pc, at, run, kept, edits, runs, faults, original, touched, raced, hurt, unresolved>>
  BY DEF vars, disk, process, counts, trace, past
<1> QED BY <1>1 DEF TInv, Stored, RunOK, KeptOK, Kept, Ahead

-----------------------------------------------------------------------------
\* Files, manifest, captures and local state are of their kinds, whatever
\* command stops or dies, and whatever the user does to the files.
THEOREM TypeCorrect == Spec => []TypeOK
<1>1. Init => TInv
  BY InitT
<1>2. TInv /\ [Next]_vars => TInv'
  BY NextT, IdleT
<1> QED BY <1>1, <1>2, TypesHold, PTL DEF Spec

-----------------------------------------------------------------------------
(* The user's content and the rollback, action by action.                   *)

LEMMA RestingUB ==
  ASSUME TInv', pc' \in {"idle", "installed", "config"}
  PROVE  UInv' /\ BInv'
<1>1. kept' = <<>>
  BY DEF TInv, KeptOK
<1>2. Kept' = {}
  BY <1>1 DEF Kept
<1> QED BY <1>2 DEF UInv, BInv, PlanFits, KeptIsOfUser, BeforeWriting, WhileWriting, WhileRegistering

LEMMA UserEditUB ==
  ASSUME TInv, UInv, BInv, NEW a \in Artifact, UserEdit(a)
  PROVE  UInv' /\ BInv'
<1>1. /\ Kept' = Kept /\ UNCHANGED <<manifest, pc, at, run, kept, unresolved>>
      /\ \A b \in Artifact \ {a} : file'[b] = file[b]
      /\ raced \subseteq raced' /\ (pc \notin {"idle", "check", "recheck"} => a \in raced')
  BY UserEditT DEF process
<1>2. PlanFits'
  <2>1. \A b : /\ Fits(b, run.seen[b])' = Fits(b, run.seen[b])
               /\ Ahead(b)' = Ahead(b)
    BY <1>1 DEF Fits, Ahead
  <2>2. \A b \in Artifact \ {a} : /\ Fits(b, Digest(b, file[b]))' = Fits(b, Digest(b, file[b]))
                                  /\ MayRemove(b) => MayRemove(b)'
    BY <1>1, <2>1 DEF Fits, MayRemove
  <2>3. pc = "remove" /\ MayRemove(a) => MayRemove(a)'
    BY <1>1 DEF MayRemove
  <2> QED BY <1>1, <2>1, <2>2, <2>3 DEF UInv, PlanFits
<1>3. KeptIsOfUser'
  <2>1. pc \in {"idle", "check", "recheck"} => Kept = {}
    BY KeptNothing DEF TInv, KeptOK
  <2>2. \A x \in Kept : x.name \in Artifact \ raced' => x.name # a /\ x.name \in Artifact \ raced
    BY <1>1, <2>1
  <2> QED BY <1>1, <2>2 DEF UInv, KeptIsOfUser
<1>4. BInv'
  <2>1. BeforeWriting'
    BY <1>1 DEF BInv, BeforeWriting
  <2>2. ASSUME pc \notin {"idle", "check", "recheck"}
        PROVE  \A b \in Artifact \ raced' : file'[b] = file[b] /\ b \in Artifact \ raced
    BY <1>1, <2>2
  <2>3. WhileWriting'
    BY <1>1, <2>2 DEF BInv, WhileWriting
  <2>4. WhileRegistering'
    BY <1>1, <2>2, Constants DEF BInv, WhileRegistering
  <2> QED BY <2>1, <2>3, <2>4 DEF BInv
<1> QED BY <1>2, <1>3, <1>4 DEF UInv

\* What a plan says of the files it was made from.
LEMMA ConnectFits ==
  ASSUME TInv, NEW a \in Artifact, ConnectKind(a, file[a], manifest) # "conflict"
  PROVE  /\ Mode[a] = "whole" /\ ConnectKind(a, file[a], manifest) # "adopt" =>
              Digest(a, file[a]) \in OwnHashes \cup {<<"absent">>}
         /\ Mode[a] = "line" /\ ConnectKind(a, file[a], manifest) # "adopt" =>
              Digest(a, file[a]) = <<"absent">>
<1>1. FileOK(a, file[a])
  BY DEF TInv, Stored
<1>2. CASE Mode[a] = "whole"
  <2>1. ~file[a].there => Digest(a, file[a]) = <<"absent">>
    BY <1>2, DigestOf
  <2>2. file[a].there => WholeKind(file[a], manifest, a) # "conflict"
    BY <1>2 DEF ConnectKind, Managed
  <2>3. file[a].there => Released(file[a])
    BY <2>2 DEF WholeKind
  <2>4. file[a].there => Digest(a, file[a]) \in OwnHashes
    BY <1>2, <2>3, DigestOf, PairHash DEF Released
  <2> QED BY <1>2, <2>1, <2>4
<1>3. CASE Mode[a] = "line"
  <2>1. ~file[a].there => Digest(a, file[a]) = <<"absent">>
    BY <1>3, DigestOf
  <2>2. file[a].there /\ ConnectKind(a, file[a], manifest) # "adopt" => file[a].part = Nothing
    BY <1>3 DEF ConnectKind, Managed
  <2>3. file[a].there /\ file[a].part = Nothing => Digest(a, file[a]) = <<"absent">>
    BY <1>3, DigestOf, PartsDiffer
  <2> QED BY <1>3, <2>1, <2>2, <2>3
<1> QED BY <1>2, <1>3

LEMMA DisconnectFits ==
  ASSUME TInv, NEW a \in Artifact, DisconnectKind(a, file[a], manifest.records[a]) = "remove"
  PROVE  /\ Mode[a] \in {"section", "whole", "keys"} /\ file[a].there /\ manifest.records[a].created
         /\ Digest(a, file[a]) = manifest.records[a].hash
         /\ Mode[a] = "section" => file[a].part = Current /\ manifest.records[a].hash = Current
         /\ Mode[a] = "whole" => Released(file[a])
<1>1. /\ Mode[a] \notin {"env", "runtime", "line"} /\ file[a].there /\ manifest.records[a].created
      /\ Digest(a, file[a]) = manifest.records[a].hash
      /\ Mode[a] = "whole" => Released(file[a])
      /\ Mode[a] = "section" => file[a].part = Current
  BY DEF DisconnectKind
<1>2. Mode[a] \in Modes
  BY PartsOfMode
<1>3. Mode[a] = "section" => Digest(a, file[a]) = Current
  BY <1>1, DigestOf, PartsDiffer
<1> QED BY <1>1, <1>2, <1>3 DEF Modes

LEMMA PlanConnectUB == ASSUME TInv, UInv, BInv, PlanConnect PROVE UInv' /\ BInv'
<1>1. /\ pc' = "observe" /\ run'.plan = ConnectPlan /\ run'.old = manifest /\ Kept' = {}
  BY PlanConnectT
<1>2. UNCHANGED disk /\ Ready(ConnectPlan)
  BY DEF PlanConnect, ConnectReady
<1>3. ASSUME NEW a \in Artifact PROVE Fits(a, Digest(a, file[a]))'
  <2>1. run'.plan[a] = ConnectKind(a, file[a], manifest) /\ run'.plan[a] # "conflict"
    BY <1>1, <1>2 DEF ConnectPlan, Ready
  <2>2. Digest(a, file[a])' = Digest(a, file[a])
    BY <1>2 DEF disk
  <2> QED BY <2>1, <2>2, ConnectFits DEF Fits
<1> QED BY <1>1, <1>2, <1>3 DEF UInv, BInv, PlanFits, KeptIsOfUser, BeforeWriting, WhileWriting, WhileRegistering, disk

LEMMA ObserveUB == ASSUME TInv, UInv, BInv, Observe PROVE UInv' /\ BInv'
<1>1. /\ pc = "observe" /\ pc' = "check" /\ Kept' = {} /\ run'.plan = run.plan /\ run'.old = run.old
      /\ run'.seen = Observed
  BY ObserveT
<1>2. UNCHANGED disk /\ raced' = raced
  BY DEF Observe, trace
<1>3. ASSUME NEW a \in Artifact \ raced PROVE Fits(a, run.seen[a])'
  <2>1. run'.seen[a] = Digest(a, file[a])
    BY <1>1 DEF Observed
  <2> QED BY <1>1, <2>1 DEF Fits, UInv, PlanFits
<1> QED BY <1>1, <1>2, <1>3 DEF UInv, BInv, PlanFits, KeptIsOfUser, BeforeWriting, WhileWriting, WhileRegistering, disk

\* A command begins to write.
LEMMA BeginUB ==
  ASSUME TInv, BInv, TInv', pc \in {"check", "recheck"}, pc' \in {"apply", "remove"}, kept' = <<>>,
         UNCHANGED disk, run'.old = run.old, run'.before = disk, PlanFits'
  PROVE  UInv' /\ BInv'
<1>1. Kept' = {}
  BY DEF Kept
<1>2. run'.before[1] = file /\ run'.before[2] = manifest /\ run.old = manifest
  BY DEF disk, BInv, BeforeWriting
<1> QED BY <1>1, <1>2 DEF UInv, BInv, KeptIsOfUser, BeforeWriting, WhileWriting, WhileRegistering, disk

LEMMA CheckUB == ASSUME TInv, UInv, BInv, Check PROVE UInv' /\ BInv'
<1>1. /\ TInv' /\ pc = "check" /\ kept' = <<>> /\ UNCHANGED disk
      /\ \/ Stop
         \/ /\ pc' = "apply" /\ Observed = run.seen /\ UNCHANGED <<at, raced>>
            /\ run'.plan = run.plan /\ run'.old = run.old /\ run'.before = disk
  BY CheckT
<1>2. CASE Stop
  BY <1>1, <1>2, RestingUB DEF Stop
<1>3. CASE /\ pc' = "apply" /\ Observed = run.seen /\ UNCHANGED <<at, raced>>
           /\ run'.plan = run.plan /\ run'.old = run.old /\ run'.before = disk
  <2>1. ASSUME NEW a \in Artifact \ raced PROVE Fits(a, Digest(a, file[a]))'
    <3>1. run.seen[a] = Digest(a, file[a])
      BY <1>3 DEF Observed
    <3> QED BY <1>1, <1>3, <3>1 DEF Fits, UInv, PlanFits, disk
  <2>2. PlanFits'
    BY <1>3, <2>1 DEF PlanFits
  <2> QED BY <1>1, <1>3, <2>2, BeginUB
<1> QED BY <1>1, <1>2, <1>3

LEMMA PlanDisconnectUB == ASSUME TInv, UInv, BInv, PlanDisconnect PROVE UInv' /\ BInv'
<1>1. pc' = "recheck" /\ run'.old = manifest /\ Kept' = {} /\ UNCHANGED disk
  BY PlanDisconnectT
<1> QED BY <1>1 DEF UInv, BInv, PlanFits, KeptIsOfUser, BeforeWriting, WhileWriting, WhileRegistering, disk

LEMMA RecheckUB == ASSUME TInv, UInv, BInv, Recheck PROVE UInv' /\ BInv'
<1>1. /\ TInv' /\ pc = "recheck" /\ kept' = <<>> /\ UNCHANGED disk
      /\ \/ Stop
         \/ /\ pc' = "remove" /\ DisconnectPlan = run.plan /\ UNCHANGED <<at, raced>>
            /\ run'.plan = run.plan /\ run'.old = run.old /\ run'.before = disk
  BY RecheckT
<1>2. CASE Stop
  BY <1>1, <1>2, RestingUB DEF Stop
<1>3. CASE /\ pc' = "remove" /\ DisconnectPlan = run.plan /\ UNCHANGED <<at, raced>>
           /\ run'.plan = run.plan /\ run'.old = run.old /\ run'.before = disk
  <2>1. ASSUME NEW a \in Artifact PROVE MayRemove(a)'
    <3>1. run'.plan[a] = DisconnectKind(a, file[a], manifest.records[a])
      BY <1>3 DEF DisconnectPlan
    <3>2. run'.old = manifest /\ file' = file
      BY <1>1, <1>3 DEF BInv, BeforeWriting, disk
    <3> QED BY <3>1, <3>2, DisconnectFits DEF MayRemove
  <2>2. PlanFits'
    BY <1>3, <2>1 DEF PlanFits
  <2> QED BY <1>1, <1>3, <2>2, BeginUB
<1> QED BY <1>1, <1>2, <1>3

\* A step leaves the user's content, of files he does not edit too late.
ContentKept ==
  \A a \in Artifact \ raced :
    /\ file'[a].user = file[a].user
    /\ file[a].part \in {Changed, Broken} => file'[a].part = file[a].part

\* A file is captured and written.
LEMMA CapturedUB ==
  ASSUME TInv, UInv, BInv, pc \in {"apply", "remove"}, NEW a \in Artifact, Ahead(a), NEW f,
         UNCHANGED <<manifest, run, raced>>, Placing(a), file' = file \/ file' = [file EXCEPT ![a] = f],
         a \notin raced =>
           /\ f.user = file[a].user
           /\ f.part \in {Changed, Broken} \/ file[a].part \in {Changed, Broken} => f.part = file[a].part,
         pc' \in {pc, "manifest", "restore"},
         pc' = pc => \A b \in Artifact : Ahead(b)' <=> Ahead(b) /\ b # a
  PROVE  UInv' /\ BInv' /\ ContentKept
<1> DEFINE y == [name |-> a, was |-> file[a]]
<1>1. Kept' = Kept \cup {y} /\ y.name = a /\ y.was = file[a]
  BY DEF Placing
<1>2. file \in [Artifact -> Files]
  BY DEF TInv, Stored
<1>3. /\ \A b \in Artifact \ {a} : file'[b] = file[b]
      /\ file'[a] \in {file[a], f}
  BY <1>2
<1>4. \A x \in Kept : x.name \in Artifact /\ x.name # a
  BY DEF TInv, KeptOK
<1> HIDE DEF y
<1>5. PlanFits'
  <2>1. \A b \in Artifact \ {a} : /\ Fits(b, Digest(b, file[b]))' = Fits(b, Digest(b, file[b]))
    BY <1>3 DEF Fits
  <2>2. pc' = pc /\ pc = "remove" => \A b \in Artifact : MayRemove(b) => MayRemove(b)'
    BY <1>3 DEF MayRemove
  <2> QED BY <2>1, <2>2 DEF UInv, PlanFits
<1>6. KeptIsOfUser'
  <2>1. a \notin raced => SameUser(file'[a], file[a])
    BY <1>3 DEF SameUser
  <2>2. \A x \in Kept : x.name \in Artifact \ raced => SameUser(file'[x.name], x.was)
    BY <1>3, <1>4 DEF UInv, KeptIsOfUser
  <2> QED BY <1>1, <2>1, <2>2 DEF KeptIsOfUser
<1>7. BInv'
  <2>1. WhileWriting
    BY DEF BInv
  <2>2. a \notin raced => file[a] = run.before[1][a]
    BY <1>4, <2>1 DEF WhileWriting
  <2>3. \A b \in Artifact \ raced : file'[b] = run.before[1][b] \/ \E x \in Kept' : x.name = b
    <3> SUFFICES ASSUME NEW b \in Artifact \ raced
                 PROVE  file'[b] = run.before[1][b] \/ \E x \in Kept' : x.name = b
      OBVIOUS
    <3>1. CASE b = a
      BY <1>1, <3>1
    <3>2. CASE b # a
      <4>1. file'[b] = file[b]
        BY <1>3, <3>2
      <4> QED BY <1>1, <2>1, <4>1 DEF WhileWriting
    <3> QED BY <3>1, <3>2
  <2>4. WhileWriting'
    BY <1>1, <2>1, <2>2, <2>3 DEF WhileWriting
  <2> QED BY <2>4 DEF BInv, BeforeWriting, WhileRegistering
<1>8. ContentKept
  BY <1>3 DEF ContentKept
<1> QED BY <1>5, <1>6, <1>7, <1>8 DEF UInv

LEMMA PassedUB ==
  ASSUME TInv, UInv, BInv, pc \in {"apply", "remove"}, Onward(at), Kept' = Kept,
         UNCHANGED <<file, manifest, run, raced>>
  PROVE  UInv' /\ BInv' /\ ContentKept
<1>1. /\ pc' \in {pc, "manifest"}
      /\ pc' = pc => \A b \in Artifact : Ahead(b)' => Ahead(b)
  BY Moved
<1>2. PlanFits'
  <2>1. \A b \in Artifact : /\ Fits(b, Digest(b, file[b]))' = Fits(b, Digest(b, file[b]))
    BY DEF Fits
  <2>2. pc' = pc => \A b \in Artifact : MayRemove(b) => MayRemove(b)'
    BY <1>1 DEF MayRemove
  <2> QED BY <1>1, <2>1, <2>2 DEF UInv, PlanFits
<1>3. KeptIsOfUser'
  BY DEF UInv, KeptIsOfUser
<1>4. BInv'
  BY <1>1 DEF BInv, BeforeWriting, WhileWriting, WhileRegistering
<1>5. ContentKept
  BY DEF ContentKept
<1> QED BY <1>2, <1>3, <1>4, <1>5 DEF UInv

\* What connect writes holds what the user had in the file.
LEMMA InstalledKeeps ==
  ASSUME TInv, ConnectRun(run), NEW a \in Artifact, ~Skipped(a), ~Unmergeable(a), Fits(a, Digest(a, file[a]))
  PROVE  /\ Installed(a).user = file[a].user
         /\ Installed(a).part \in {Changed, Broken} \/ file[a].part \in {Changed, Broken} =>
              Installed(a).part = file[a].part
<1>1. FileOK(a, file[a]) /\ (~file[a].there => file[a].user = 0 /\ file[a].part = Nothing)
  BY AbsentIsFile DEF TInv, Stored, FileOK
<1>2. Mode[a] \in Modes
  BY PartsOfMode
<1>3. CASE Mode[a] = "section"
  BY <1>3, InstalledFile, PartsDiffer DEF Unmergeable
<1>4. CASE Mode[a] = "keys"
  <2>1. file[a].part # Changed /\ file[a].part # Broken
    BY <1>1, <1>4, PartsOfMode, PartsDiffer, NotKeys DEF FileOK, Unmergeable
  <2>2. Installed(a).user = file[a].user /\ Installed(a).part = Keys(run.id, ProjectOf(file[a]), "own")
    BY <1>4, InstalledFile
  <2>3. Installed(a).part # Changed /\ Installed(a).part # Broken
    BY <2>2, KeysOfParts
  <2> QED BY <2>1, <2>2, <2>3
<1>5. CASE Mode[a] = "line"
  <2>1. run.plan[a] # "adopt"
    BY <1>5 DEF Skipped
  <2>2. Digest(a, file[a]) = <<"absent">>
    BY <1>5, <2>1 DEF Fits
  <2>3. file[a].part # Current
    BY <1>1, <1>5, <2>2, DigestOf, PartsDiffer
  <2>4. file[a].part \in {Nothing, Changed}
    BY <1>1, <1>5, <2>3, PartsOfMode DEF FileOK
  <2> QED BY <1>5, <2>4, InstalledFile, PartsDiffer
<1>6. CASE Mode[a] = "whole"
  <2>1. Digest(a, file[a]) \in OwnHashes \cup {<<"absent">>}
    BY <1>6 DEF Skipped, Fits
  <2>2. file[a].there => file[a].part \in {Current, Prior} /\ file[a].user = 0
    BY <1>6, <2>1, DigestOf, PairHash
  <2>3. file[a].user = 0 /\ file[a].part \in {Current, Prior, Nothing}
    BY <1>1, <2>2
  <2> QED BY <1>6, <2>3, InstalledFile, PartsDiffer
<1>7. CASE Mode[a] = "env"
  <2>1. ~file[a].there
    BY <1>7 DEF Skipped
  <2> QED BY <1>1, <1>7, <2>1, InstalledFile, PartsDiffer
<1>8. CASE Mode[a] = "runtime"
  <2>1. Installed(a) = IF file[a].there THEN file[a] ELSE Holding(0, Current, FALSE)
    BY <1>8, InstalledFile
  <2>2. Holding(0, Current, FALSE).user = 0 /\ Holding(0, Current, FALSE).part = Current
    BY DEF Holding
  <2>3. CASE file[a].there
    BY <2>1, <2>3
  <2>4. CASE ~file[a].there
    BY <1>1, <2>1, <2>2, <2>4, PartsDiffer
  <2> QED BY <2>3, <2>4
<1> QED BY <1>2, <1>3, <1>4, <1>5, <1>6, <1>7, <1>8 DEF Modes

LEMMA ApplyStepUB == ASSUME TInv, UInv, BInv, ApplyStep PROVE UInv' /\ BInv' /\ ContentKept
<1> DEFINE a == Registry[at]
<1>1. /\ pc = "apply" /\ ConnectRun(run) /\ a \in Artifact /\ Ahead(a)
      /\ UNCHANGED <<manifest, run, raced>>
  BY ApplyStepT DEF trace
<1>2. CASE Onward(at) /\ file' = file /\ Kept' = Kept
  BY <1>1, <1>2, PassedUB
<1> HIDE DEF a
<1>3. ASSUME ~Skipped(a), ~Unmergeable(a), a \notin raced
      PROVE  /\ Installed(a).user = file[a].user
             /\ Installed(a).part \in {Changed, Broken} \/ file[a].part \in {Changed, Broken} =>
                  Installed(a).part = file[a].part
  <2>1. Fits(a, Digest(a, file[a]))
    BY <1>1, <1>3 DEF UInv, PlanFits
  <2> QED BY <1>1, <1>3, <2>1, InstalledKeeps
<1>4. CASE ~Skipped(a) /\ ~Unmergeable(a) /\ Onward(at) /\ Placing(a) /\ file' = [file EXCEPT ![a] = Installed(a)]
  <2>1. /\ pc' \in {pc, "manifest"}
        /\ pc' = pc => \A b \in Artifact : Ahead(b)' <=> Ahead(b) /\ b # a
    BY <1>1, <1>4, Moved DEF a
  <2>2. a \notin raced =>
          /\ Installed(a).user = file[a].user
          /\ Installed(a).part \in {Changed, Broken} \/ file[a].part \in {Changed, Broken} =>
               Installed(a).part = file[a].part
    BY <1>3, <1>4
  <2>3. pc' \in {pc, "manifest", "restore"} /\ Placing(a) /\ file' = [file EXCEPT ![a] = Installed(a)]
    BY <1>4, <2>1
  <2> QED BY <1>1, <2>1, <2>2, <2>3, CapturedUB
<1>5. CASE /\ ~Skipped(a) /\ pc' = "restore" /\ Placing(a)
           /\ \/ file' = file
              \/ ~Unmergeable(a) /\ file' = [file EXCEPT ![a] = Installed(a)]
  <2>1. CASE file' = file
    <3>1. file' = [file EXCEPT ![a] = file[a]]
      BY <2>1 DEF TInv, Stored
    <3> QED BY <1>1, <1>5, <2>1, CapturedUB
  <2>2. CASE ~Unmergeable(a) /\ file' = [file EXCEPT ![a] = Installed(a)]
    BY <1>1, <1>3, <1>5, <2>2, CapturedUB
  <2> QED BY <1>5, <2>1, <2>2
<1> QED BY <1>2, <1>4, <1>5, ApplyStepT DEF a

LEMMA RemoveStepUB == ASSUME TInv, UInv, BInv, RemoveStep PROVE UInv' /\ BInv' /\ ContentKept
<1> DEFINE a == Registry[at]
<1>1. /\ pc = "remove" /\ a \in Artifact /\ Ahead(a) /\ UNCHANGED <<manifest, run, raced>>
  BY RemoveStepT DEF trace
<1>2. CASE Onward(at) /\ file' = file /\ Kept' = Kept
  BY <1>1, <1>2, PassedUB
<1> HIDE DEF a
<1>3. ASSUME run.plan[a] = "remove", file[a].there, ~Inseparable(a), a \notin raced
      PROVE  /\ Without(a).user = file[a].user
             /\ Without(a).part \in {Changed, Broken} \/ file[a].part \in {Changed, Broken} =>
                  Without(a).part = file[a].part
  <2>1. MayRemove(a)
    BY <1>1 DEF UInv, PlanFits
  <2>2. Mode[a] \in {"section", "whole", "keys"}
    BY <1>3, <2>1 DEF MayRemove
  <2>3. Without(a).part = Nothing
    BY <1>1, <1>3, RemainingFile
  <2>4. CASE Mode[a] = "section"
    <3>1. file[a].part = Current
      BY <1>3, <2>1, <2>4 DEF MayRemove, Inseparable
    <3> QED BY <1>1, <1>3, <2>3, <2>4, <3>1, RemainingFile, PartsDiffer
  <2>5. CASE Mode[a] = "whole"
    <3>1. file[a].part \in {Current, Prior} /\ file[a].user = 0
      BY <1>1, <1>3, <2>1, <2>5 DEF MayRemove, Released
    <3> QED BY <1>1, <1>3, <2>3, <2>5, <3>1, RemainingFile, PartsDiffer
  <2>6. CASE Mode[a] = "keys"
    <3>1. file[a].part # Changed /\ file[a].part # Broken
      <4>1. file[a].part \in PartsOf(a)
        BY <1>1 DEF TInv, Stored, FileOK
      <4> QED BY <1>1, <1>3, <2>6, <4>1, PartsOfMode, PartsDiffer, NotKeys DEF Inseparable
    <3> QED BY <1>1, <1>3, <2>3, <2>6, <3>1, RemainingFile, PartsDiffer
  <2> QED BY <2>2, <2>4, <2>5, <2>6
<1>4. CASE /\ run.plan[a] = "remove" /\ file[a].there /\ ~Inseparable(a) /\ Onward(at) /\ Placing(a)
           /\ file' = [file EXCEPT ![a] = Without(a)]
  <2>1. /\ pc' \in {pc, "manifest"}
        /\ pc' = pc => \A b \in Artifact : Ahead(b)' <=> Ahead(b) /\ b # a
    BY <1>1, <1>4, Moved DEF a
  <2>2. a \notin raced =>
          /\ Without(a).user = file[a].user
          /\ Without(a).part \in {Changed, Broken} \/ file[a].part \in {Changed, Broken} =>
               Without(a).part = file[a].part
    BY <1>3, <1>4
  <2>3. pc' \in {pc, "manifest", "restore"} /\ Placing(a) /\ file' = [file EXCEPT ![a] = Without(a)]
    BY <1>4, <2>1
  <2> QED BY <1>1, <2>1, <2>2, <2>3, CapturedUB
<1>5. CASE /\ run.plan[a] = "remove" /\ file[a].there /\ pc' = "restore" /\ Placing(a)
           /\ \/ file' = file
              \/ ~Inseparable(a) /\ file' = [file EXCEPT ![a] = Without(a)]
  <2>1. CASE file' = file
    <3>1. file' = [file EXCEPT ![a] = file[a]]
      BY <2>1 DEF TInv, Stored
    <3> QED BY <1>1, <1>5, <2>1, CapturedUB
  <2>2. CASE ~Inseparable(a) /\ file' = [file EXCEPT ![a] = Without(a)]
    BY <1>1, <1>3, <1>5, <2>2, CapturedUB
  <2> QED BY <1>5, <2>1, <2>2
<1> QED BY <1>2, <1>4, <1>5, RemoveStepT DEF a

\* The manifest is written or taken away, or it is captured and restored.
LEMMA ManifestUB ==
  ASSUME TInv, UInv, BInv, TInv', pc = "manifest", UNCHANGED <<file, raced>>, pc' = "restore", run' = run,
         manifest' = manifest \/ CaptureManifest, kept' = kept \/ CaptureManifest
  PROVE  UInv' /\ BInv'
<1>1. \/ Kept' = Kept
      \/ Kept' = Kept \cup {[name |-> "manifest", was |-> Absent]}
  BY KeptAppend DEF CaptureManifest, Kept, TInv, KeptOK
<1>2. CaptureManifest => \E x \in Kept' : x.name = "manifest"
  BY KeptAppend DEF CaptureManifest, TInv, KeptOK
<1>3. \A x \in Kept' : x.name \in Artifact => x \in Kept
  BY <1>1, Constants
<1>4. KeptIsOfUser' /\ PlanFits'
  BY <1>1, <1>3 DEF UInv, KeptIsOfUser, PlanFits
<1>5. WhileWriting'
  <2>1. manifest' = run.old \/ \E x \in Kept' : x.name = "manifest"
    BY <1>1, <1>2 DEF BInv, WhileWriting
  <2>2. \A a \in Artifact \ raced : file[a] = run.before[1][a] \/ \E x \in Kept' : x.name = a
    BY <1>1 DEF BInv, WhileWriting
  <2> QED BY <1>3, <2>1, <2>2 DEF BInv, WhileWriting
<1> QED BY <1>4, <1>5 DEF UInv, BInv, BeforeWriting, WhileRegistering

LEMMA WriteManifestUB == ASSUME TInv, UInv, BInv, WriteManifest PROVE UInv' /\ BInv' /\ ContentKept
<1>1. TInv' /\ pc = "manifest" /\ UNCHANGED <<file, raced>>
  BY WriteManifestT DEF trace
<1>2. \/ pc' = "restore" /\ run' = run /\ (manifest' = manifest \/ CaptureManifest) /\ (kept' = kept \/ CaptureManifest)
      \/ pc' = "installed"
  BY WriteManifestT
<1> QED BY <1>1, <1>2, ManifestUB, RestingUB DEF ContentKept

LEMMA RemoveManifestUB == ASSUME TInv, UInv, BInv, RemoveManifest PROVE UInv' /\ BInv' /\ ContentKept
<1>1. TInv' /\ pc = "manifest" /\ file' = file
  BY RemoveManifestT
<1>2. \/ Stop
      \/ pc' = "restore" /\ CaptureManifest /\ UNCHANGED <<run, raced>>
  BY RemoveManifestT
<1> QED BY <1>1, <1>2, ManifestUB, RestingUB DEF ContentKept, Stop

LEMMA RestoreStepUB == ASSUME TInv, UInv, BInv, RestoreStep PROVE UInv' /\ BInv' /\ ContentKept
<1> DEFINE x == kept[Len(kept)]
<1>1. /\ TInv' /\ pc = "restore" /\ x \in Kept /\ file \in [Artifact -> Files] /\ WhileWriting /\ KeptIsOfUser
      /\ x.name \in Artifact => x.name # "manifest"
  BY RestoreStepT, Constants DEF TInv, Stored, BInv, UInv
<1>2. \/ UNCHANGED disk
      \/ x.name = "manifest" /\ manifest' = run.old /\ file' = file
      \/ x.name \in Artifact /\ manifest' = manifest /\ file' = [file EXCEPT ![x.name] = x.was]
  BY RestoreStepT
<1>3. \/ /\ pc' = "restore" /\ run' = run /\ raced' = raced
         /\ Kept' \subseteq Kept /\ Kept \subseteq Kept' \cup {x}
         /\ x.name = "manifest" => manifest' = run.old
         /\ x.name \in Artifact => file'[x.name] = x.was
      \/ Stop
  BY RestoreStepT
<1> HIDE DEF x
<1>4. \A a \in Artifact : file'[a] = file[a] \/ (a = x.name /\ file'[a] = x.was)
  BY <1>1, <1>2 DEF disk
<1>5. \A a \in Artifact \ raced : a = x.name => SameUser(file[a], x.was) /\ x.was = run.before[1][a]
  BY <1>1 DEF KeptIsOfUser, WhileWriting
<1>6. ContentKept
  BY <1>4, <1>5 DEF ContentKept, SameUser
<1>7. CASE Stop
  BY <1>1, <1>6, <1>7, RestingUB DEF Stop
<1>8. CASE /\ pc' = "restore" /\ run' = run /\ raced' = raced
           /\ Kept' \subseteq Kept /\ Kept \subseteq Kept' \cup {x}
           /\ x.name = "manifest" => manifest' = run.old
           /\ x.name \in Artifact => file'[x.name] = x.was
  <2>1. ASSUME NEW y \in Kept', y.name \in Artifact \ raced
        PROVE  SameUser(file'[y.name], y.was) /\ y.was = run.before[1][y.name]
    <3>1. y \in Kept /\ y.was = run.before[1][y.name] /\ SameUser(file[y.name], y.was)
      BY <1>1, <1>8, <2>1 DEF KeptIsOfUser, WhileWriting
    <3>2. CASE file'[y.name] = file[y.name]
      BY <3>1, <3>2
    <3>3. CASE y.name = x.name /\ file'[y.name] = x.was
      <4>1. x.was = y.was
        BY <1>5, <2>1, <3>1, <3>3
      <4> QED BY <3>1, <3>3, <4>1 DEF SameUser
    <3> QED BY <1>4, <2>1, <3>1, <3>2, <3>3
  <2>2. manifest' = run.old \/ \E y \in Kept' : y.name = "manifest"
    BY <1>1, <1>2, <1>8 DEF WhileWriting, disk
  <2>3. \A a \in Artifact \ raced : file'[a] = run.before[1][a] \/ \E y \in Kept' : y.name = a
    <3> SUFFICES ASSUME NEW a \in Artifact \ raced, a # x.name
                 PROVE  file'[a] = run.before[1][a] \/ \E y \in Kept' : y.name = a
      BY <1>5, <1>8
    <3>1. file'[a] = file[a]
      BY <1>4
    <3> QED BY <1>1, <1>8, <3>1 DEF WhileWriting
  <2>4. WhileWriting'
    BY <1>1, <1>8, <2>1, <2>2, <2>3 DEF WhileWriting
  <2>5. KeptIsOfUser'
    BY <1>8, <2>1 DEF KeptIsOfUser
  <2> QED BY <1>6, <1>8, <2>4, <2>5 DEF UInv, BInv, PlanFits, BeforeWriting, WhileRegistering
<1> QED BY <1>3, <1>7, <1>8

LEMMA PersistConfigUB == ASSUME TInv, UInv, BInv, PersistConfig PROVE UInv' /\ BInv' /\ ContentKept
<1> DEFINE f == Registered(file[Config])
<1>1. /\ TInv' /\ pc = "config" /\ manifest' = manifest /\ Config \in Artifact /\ file \in [Artifact -> Files]
      /\ \/ Stop /\ file' = file
         \/ /\ file[Config].part # Broken /\ pc' \in {"bind", "unconfig"} /\ raced' = {}
            /\ run'.old = manifest /\ run'.before = disk
            /\ kept' = <<[name |-> Config, was |-> file[Config]]>> /\ Kept' = {kept'[1]}
            /\ file' = file \/ file' = [file EXCEPT ![Config] = f]
  BY PersistConfigT, Constants DEF TInv, Stored
<1>2. f.user = file[Config].user /\ f.part \in AllKeys
  BY <1>1, RegisteredFile
<1>3. CASE Stop /\ file' = file
  BY <1>1, <1>3, RestingUB DEF Stop, ContentKept
<1> HIDE DEF f
<1>4. CASE /\ file[Config].part # Broken /\ pc' \in {"bind", "unconfig"} /\ raced' = {}
           /\ run'.old = manifest /\ run'.before = disk
           /\ kept' = <<[name |-> Config, was |-> file[Config]]>> /\ Kept' = {kept'[1]}
           /\ file' = file \/ file' = [file EXCEPT ![Config] = f]
  <2>1. /\ \A a \in Artifact \ {Config} : file'[a] = file[a]
        /\ file'[Config] \in {file[Config], f}
    BY <1>1, <1>4
  <2>2. kept'[1].name = Config /\ kept'[1].was = file[Config]
    BY <1>4
  <2>3. file[Config].part # Changed /\ f.part # Changed /\ f.part # Broken
    <3>1. file[Config].part \in {Nothing, Broken} \cup AllKeys
      BY <1>1, Constants, PartsOfMode DEF TInv, Stored, FileOK
    <3> QED BY <1>2, <3>1, NotKeys, PartsDiffer
  <2>4. file'[Config].user = file[Config].user /\ file'[Config].part \notin {Changed, Broken}
    BY <1>2, <1>4, <2>1, <2>3
  <2>5. ContentKept
    BY <1>4, <2>1, <2>3, <2>4 DEF ContentKept
  <2>6. KeptIsOfUser'
    BY <1>4, <2>2, <2>4 DEF KeptIsOfUser, SameUser
  <2>7. run'.before[1] = file /\ run'.before[2] = manifest
    BY <1>4 DEF disk
  <2>8. WhileRegistering'
    BY <1>4, <2>1, <2>2, <2>7 DEF WhileRegistering
  <2> QED BY <1>4, <2>5, <2>6, <2>8 DEF UInv, BInv, PlanFits, BeforeWriting, WhileWriting
<1> QED BY <1>1, <1>3, <1>4

LEMMA PersistManifestUB == ASSUME TInv, UInv, BInv, PersistManifest PROVE UInv' /\ BInv' /\ ContentKept
<1>1. /\ TInv' /\ pc = "bind" /\ file' = file
      /\ Stop \/ (pc' = "unconfig" /\ UNCHANGED <<run, kept, raced>>)
  BY PersistManifestT
<1>2. CASE Stop
  BY <1>1, <1>2, RestingUB DEF Stop, ContentKept
<1>3. CASE pc' = "unconfig" /\ UNCHANGED <<run, kept, raced>>
  BY <1>1, <1>3
  DEF UInv, BInv, PlanFits, KeptIsOfUser, BeforeWriting, WhileWriting, WhileRegistering, Kept, ContentKept
<1> QED BY <1>1, <1>2, <1>3

LEMMA UndoConfigUB == ASSUME TInv, UInv, BInv, UndoConfig PROVE UInv' /\ BInv' /\ ContentKept
<1>1. /\ TInv' /\ pc = "unconfig" /\ pc' = "unbind" /\ Kept' = Kept /\ kept[1] \in Kept /\ kept[1].name = Config
      /\ UNCHANGED <<run, kept, raced>> /\ file \in [Artifact -> Files] /\ Config \in Artifact
      /\ \/ file' = [file EXCEPT ![Config] = kept[1].was]
         \/ file' = file /\ unresolved' = {Config}
  BY UndoConfigT, Constants DEF TInv, Stored
<1>2. /\ \A a \in Artifact \ {Config} : file'[a] = file[a]
      /\ file'[Config] = kept[1].was \/ (file'[Config] = file[Config] /\ unresolved' # {})
  BY <1>1
<1>3. Kept = {kept[1]}
  <2>1. kept = <<kept[1]>>
    BY <1>1 DEF TInv, KeptOK
  <2> QED BY <2>1, KeptOne
<1>4. Config \notin raced => SameUser(file[Config], kept[1].was)
  BY <1>1 DEF UInv, KeptIsOfUser
<1>5. ContentKept
  BY <1>2, <1>4 DEF ContentKept, SameUser
<1>6. KeptIsOfUser'
  BY <1>1, <1>2, <1>3, <1>4 DEF KeptIsOfUser, SameUser
<1>7. WhileRegistering'
  BY <1>1, <1>2 DEF BInv, WhileRegistering
<1> QED BY <1>1, <1>5, <1>6, <1>7 DEF UInv, BInv, PlanFits, BeforeWriting, WhileWriting

-----------------------------------------------------------------------------

UserStep == edits' = edits => ContentKept

RollbackStep ==
  pc' = "idle" /\ pc \in {"restore", "unbind"} /\ faults' = faults /\ unresolved = {} =>
    /\ \A a \in Artifact \ raced : file'[a] = run.before[1][a]
    /\ manifest' = run.before[2]

LEMMA InitUB == ASSUME Init PROVE TInv /\ UInv /\ BInv
<1>1. TInv /\ Kept = {} /\ pc = "idle"
  BY InitT DEF Init
<1> QED BY <1>1 DEF UInv, BInv, PlanFits, KeptIsOfUser, BeforeWriting, WhileWriting, WhileRegistering

LEMMA NextUB == ASSUME TInv, UInv, BInv, Next PROVE UInv' /\ BInv' /\ UserStep
<1>1. ASSUME NEW a \in Artifact, UserEdit(a) PROVE UInv' /\ BInv' /\ UserStep
  BY <1>1, UserEditUB, UserEditT DEF UserStep
<1>2. ASSUME Die PROVE UInv' /\ BInv' /\ UserStep
  BY <1>2, DieT, RestingUB DEF Die, Stop, disk, UserStep, ContentKept
<1>3. ASSUME PlanConnect PROVE UInv' /\ BInv' /\ UserStep
  BY <1>3, PlanConnectUB DEF PlanConnect, disk, UserStep, ContentKept
<1>4. ASSUME Observe PROVE UInv' /\ BInv' /\ UserStep
  BY <1>4, ObserveUB DEF Observe, disk, UserStep, ContentKept
<1>5. ASSUME Check PROVE UInv' /\ BInv' /\ UserStep
  BY <1>5, CheckUB DEF Check, disk, UserStep, ContentKept
<1>6. ASSUME PlanDisconnect PROVE UInv' /\ BInv' /\ UserStep
  BY <1>6, PlanDisconnectUB DEF PlanDisconnect, disk, UserStep, ContentKept
<1>7. ASSUME Recheck PROVE UInv' /\ BInv' /\ UserStep
  BY <1>7, RecheckUB DEF Recheck, disk, UserStep, ContentKept
<1>8. ASSUME ApplyStep \/ RemoveStep \/ WriteManifest \/ RemoveManifest \/ RestoreStep
             \/ PersistConfig \/ PersistManifest \/ UndoConfig
      PROVE  UInv' /\ BInv' /\ UserStep
  BY <1>8, ApplyStepUB, RemoveStepUB, WriteManifestUB, RemoveManifestUB, RestoreStepUB,
     PersistConfigUB, PersistManifestUB, UndoConfigUB DEF UserStep
<1>9. ASSUME UndoManifest PROVE UInv' /\ BInv' /\ UserStep
  BY <1>9, UndoManifestT, RestingUB DEF Stop, UserStep, ContentKept
<1>10. ASSUME Restored \/ EndConnect PROVE UInv' /\ BInv' /\ UserStep
  BY <1>10, StopT, RestingUB DEF disk, UserStep, ContentKept
<1>11. ASSUME NEW p \in Project, Resolve(p) PROVE UInv' /\ BInv' /\ UserStep
  BY <1>11, ResolveT, RestingUB DEF disk, UserStep, ContentKept
<1> QED BY <1>1, <1>2, <1>3, <1>4, <1>5, <1>6, <1>7, <1>8, <1>9, <1>10, <1>11
        DEF Next, Connect, Register, Disconnect

LEMMA NextRollback == ASSUME TInv, UInv, BInv, Next PROVE RollbackStep
<1>1. ASSUME NEW a \in Artifact, UserEdit(a) PROVE RollbackStep
  BY <1>1 DEF UserEdit, process, RollbackStep
<1>2. ASSUME Die PROVE RollbackStep
  BY <1>2 DEF Die, RollbackStep, TInv, Stored
<1>3. ASSUME PlanConnect \/ Observe \/ Check \/ PlanDisconnect \/ Recheck \/ ApplyStep \/ RemoveStep
             \/ WriteManifest \/ RemoveManifest \/ PersistConfig \/ PersistManifest \/ UndoConfig \/ EndConnect
             \/ \E p \in Project : Resolve(p)
      PROVE  RollbackStep
  BY <1>3 DEF PlanConnect, Observe, Check, PlanDisconnect, Recheck, ApplyStep, RemoveStep,
     WriteManifest, RemoveManifest, PersistConfig, PersistManifest, UndoConfig, EndConnect, Resolve, Idle, RollbackStep
<1>4. ASSUME RestoreStep PROVE RollbackStep
  BY <1>4, RestoreStepT DEF RollbackStep
<1>5. ASSUME Restored PROVE RollbackStep
  <2>1. pc = "restore" /\ kept = <<>> /\ UNCHANGED disk
    BY <1>5 DEF Restored
  <2>2. Kept = {}
    BY <2>1, KeptNothing
  <2> QED BY <2>1, <2>2 DEF RollbackStep, BInv, WhileWriting, disk
<1>6. ASSUME UndoManifest PROVE RollbackStep
  <2>1. /\ pc = "unbind" /\ file' = file
        /\ manifest' = run.old \/ faults' # faults
    BY <1>6, UndoManifestT
  <2> QED BY <2>1, Constants DEF RollbackStep, BInv, WhileRegistering
<1> QED BY <1>1, <1>2, <1>3, <1>4, <1>5, <1>6 DEF Next, Connect, Register, Disconnect

LEMMA IdleUB == ASSUME TInv, UInv, BInv, UNCHANGED vars PROVE UInv' /\ BInv' /\ UserStep /\ RollbackStep
<1>1. /\ UNCHANGED <<file, manifest, pc, at, run, kept, edits, runs, faults, original, touched, raced, hurt, unresolved>>
      /\ Kept' = Kept
  BY IdleT DEF vars, disk, process, counts, trace, past
<1>2. PlanFits' /\ KeptIsOfUser'
  BY <1>1 DEF UInv, PlanFits, KeptIsOfUser, Fits, MayRemove, Ahead
<1>3. BInv'
  BY <1>1 DEF BInv, BeforeWriting, WhileWriting, WhileRegistering
<1>4. UserStep /\ RollbackStep
  BY <1>1 DEF UserStep, ContentKept, RollbackStep
<1> QED BY <1>2, <1>3, <1>4 DEF UInv

LEMMA StepUB == TInv /\ UInv /\ BInv /\ [Next]_vars => (TInv /\ UInv /\ BInv)' /\ UserStep /\ RollbackStep
BY NextT, NextUB, NextRollback, IdleT, IdleUB

\* No step of a command changes the user's content of a file, or a file the
\* user has made his own, unless he edited it after the command had compared
\* it: whichever steps fail, and wherever an earlier command died.
THEOREM ContentIsKept == Spec => UserContentKept
<1>1. Init => TInv /\ UInv /\ BInv
  BY InitUB
<1>2. TInv /\ UInv /\ BInv /\ [Next]_vars =>
        [edits' = edits =>
           \A a \in Artifact \ raced :
             /\ file'[a].user = file[a].user
             /\ file[a].part \in {Changed, Broken} => file'[a].part = file[a].part]_vars
  BY StepUB DEF UserStep, ContentKept
<1>3. TInv /\ UInv /\ BInv /\ [Next]_vars => (TInv /\ UInv /\ BInv)'
  BY StepUB
<1> QED BY <1>1, <1>2, <1>3, PTL DEF Spec, UserContentKept

\* A command that ends by restoring leaves every file and the manifest as it
\* found them when it began to write, whichever step failed, before or after
\* its effect; only files the user edited meanwhile are excepted.
THEOREM RollbackIsExact == Spec => RollbackExact
<1>1. Init => TInv /\ UInv /\ BInv
  BY InitUB
<1>2. TInv /\ UInv /\ BInv /\ [Next]_vars =>
        [pc' = "idle" /\ pc \in {"restore", "unbind"} /\ faults' = faults /\ unresolved = {} =>
           /\ \A a \in Artifact \ raced : file'[a] = run.before[1][a]
           /\ manifest' = run.before[2]]_vars
  BY StepUB DEF RollbackStep
<1>3. TInv /\ UInv /\ BInv /\ [Next]_vars => (TInv /\ UInv /\ BInv)'
  BY StepUB
<1> QED BY <1>1, <1>2, <1>3, PTL DEF Spec, RollbackExact

-----------------------------------------------------------------------------
(* Files the user has not edited, and the records of them.                  *)

LEMMA PlacedUntouched ==
  ASSUME NEW a \in Artifact, NEW f, FileOK(a, f), Placed(a, f)
  PROVE  Untouched(a, f)
<1>1. CASE Mode[a] = "keys"
  <2>1. f.part = Keys(run.id, run.project, "own") /\ f.part \in {Nothing, Broken} \cup AllKeys
    BY <1>1, PartsOfMode DEF FileOK, Placed
  <2>2. f.part # Nothing /\ f.part # Broken /\ f.part[4] = "own"
    BY <2>1, KeysOfParts
  <2> QED BY <1>1, <2>1, <2>2 DEF Untouched
<1>2. CASE Mode[a] # "keys"
  BY <1>2 DEF Placed, Untouched
<1> QED BY <1>1, <1>2

LEMMA AbsentUntouched == \A a \in Artifact : Untouched(a, Absent)
BY AbsentIsFile DEF Untouched

\* What is known of a managed file from its digest.
LEMMA RecordedParts ==
  ASSUME NEW a \in Artifact, NEW f, NEW m, Recorded(a, f, m)
  PROVE  /\ f.there
         /\ Mode[a] = "section" => f.part = Current
         /\ Mode[a] = "line" => f.part = Current
         /\ Mode[a] = "whole" => f.part \in {Current, Prior} /\ f.user = 0
         /\ Mode[a] = "whole" /\ m.id # MaxRuns + 1 => f.part = Current
         /\ Mode[a] = "keys" => /\ m.records[a].hash = f.part
                                /\ f.part \in AllKeys /\ m.id # 0 /\ m.id = f.part[2] /\ m.project = f.part[3]
<1>1. f.there /\ (Managed(a) => Digest(a, f) = m.records[a].hash) /\ ReleasedRecord(a, m.records[a].hash)
      /\ (a = Config => f.part \in AllKeys /\ Matches(m, f))
      /\ (Mode[a] = "whole" /\ m.id # MaxRuns + 1 => m.records[a].hash = <<Current, 0>>)
  BY DEF Recorded
<1>2. CASE Mode[a] = "section"
  <2>1. Digest(a, f) = Current
    BY <1>1, <1>2 DEF Managed, ReleasedRecord
  <2>2. f.part = Current
    BY <1>1, <1>2, <2>1, DigestOf, TextHash
  <2> QED BY <1>1, <1>2, <2>2
<1>3. CASE Mode[a] = "line"
  <2>1. Digest(a, f) = Current
    BY <1>1, <1>3 DEF Managed, ReleasedRecord
  <2> QED BY <1>1, <1>3, <2>1, DigestOf, PartsDiffer
<1>4. CASE Mode[a] = "whole"
  <2>1. /\ Digest(a, f) = <<f.part, f.user>> /\ Digest(a, f) = m.records[a].hash
        /\ m.records[a].hash \in {<<Current, 0>>, <<Prior, 0>>}
    BY <1>1, <1>4, DigestOf DEF Managed, ReleasedRecord
  <2>2. f.part \in {Current, Prior} /\ f.user = 0
    BY <2>1
  <2>3. m.id # MaxRuns + 1 => f.part = Current
    BY <1>1, <1>4, <2>1
  <2> QED BY <1>1, <1>4, <2>2, <2>3
<1>5. CASE Mode[a] = "keys"
  <2>1. a = Config
    BY <1>5, Constants
  <2> QED BY <1>1, <1>5, <2>1, DigestOf DEF Managed, Matches, IdOf, ProjectOf
<1> QED BY <1>1, <1>2, <1>3, <1>4, <1>5

\* And what the digest is, from what is in the file.
LEMMA RecordedFrom ==
  ASSUME NEW a \in Artifact, NEW f, NEW m, f.there,
         Mode[a] \in {"section", "line"} => f.part = Current /\ m.records[a].hash = Current,
         Mode[a] = "whole" => f.part = Current /\ f.user = 0 /\ m.records[a].hash = <<Current, 0>>,
         Mode[a] = "keys" => /\ f.part \in AllKeys /\ m.records[a].hash = f.part
                             /\ m.id # 0 /\ m.id = f.part[2] /\ m.project = f.part[3]
  PROVE  Recorded(a, f, m)
<1>1. Mode[a] \in Modes /\ (Mode[a] = "keys" <=> a = Config)
  BY Constants
<1>2. CASE Mode[a] = "section"
  BY <1>1, <1>2, DigestOf, PartsDiffer DEF Recorded, ReleasedRecord, Managed
<1>3. CASE Mode[a] = "line"
  BY <1>1, <1>3, DigestOf DEF Recorded, ReleasedRecord, Managed
<1>4. CASE Mode[a] = "whole"
  BY <1>1, <1>4, DigestOf DEF Recorded, ReleasedRecord, Managed
<1>5. CASE Mode[a] = "keys"
  <2>1. Matches(m, f)
    BY <1>5 DEF Matches, IdOf, ProjectOf
  <2> QED BY <1>1, <1>5, <2>1, DigestOf DEF Recorded, ReleasedRecord, Managed
<1>6. CASE Mode[a] \in {"env", "runtime"}
  BY <1>1, <1>6 DEF Recorded, ReleasedRecord, Managed
<1> QED BY <1>1, <1>2, <1>3, <1>4, <1>5, <1>6 DEF Modes

\* A file on record, of this or a later release, may be installed again.
LEMMA RecordedAgain ==
  ASSUME NEW a \in Artifact, NEW f, NEW g, NEW m, Recorded(a, f, m), m.id # MaxRuns + 1, Untouched(a, f),
         Placed(a, g), Mode[a] = "keys" => IdOf(f) = run.id /\ ProjectOf(f) = run.project
  PROVE  Recorded(a, g, m)
<1>1. g.there
  BY DEF Placed
<1>2. Mode[a] \in {"section", "line"} => g.part = Current /\ m.records[a].hash = Current
  BY DEF Placed, Recorded, ReleasedRecord
<1>3. Mode[a] = "whole" => g.part = Current /\ g.user = 0 /\ m.records[a].hash = <<Current, 0>>
  BY DEF Placed, Recorded
<1>4. ASSUME Mode[a] = "keys"
      PROVE  g.part = f.part
  <2>1. f.part \in AllKeys /\ f.part = Keys(f.part[2], f.part[3], f.part[4])
    BY <1>4, RecordedParts, KeysOfParts
  <2>2. f.part # Nothing /\ f.part[4] = "own"
    BY <1>4, <2>1, NotKeys DEF Untouched
  <2>3. f.part[2] = run.id /\ f.part[3] = run.project
    BY <1>4, <2>1 DEF IdOf, ProjectOf
  <2> QED BY <1>4, <2>1, <2>2, <2>3 DEF Placed
<1>5. Mode[a] = "keys" => /\ g.part \in AllKeys /\ m.records[a].hash = g.part
                          /\ m.id # 0 /\ m.id = g.part[2] /\ m.project = g.part[3]
  BY <1>4, RecordedParts
<1> QED BY <1>1, <1>2, <1>3, <1>5, RecordedFrom

\* What a connect installs in a file the user has not edited.
LEMMA InstalledPlaced ==
  ASSUME TInv, ConnectRun(run), NEW a \in Artifact, ~Skipped(a), Untouched(a, file[a]),
         run.plan[a] = ConnectKind(a, file[a], run.old), a = Config => ProjectOf(file[a]) = run.project
  PROVE  Placed(a, Installed(a))
<1>1. FileOK(a, file[a]) /\ (~file[a].there => file[a].part = Nothing)
  BY AbsentIsFile DEF TInv, Stored, FileOK
<1>2. Mode[a] = "line" => file[a].part = Nothing
  <2>1. ASSUME Mode[a] = "line", file[a].part = Current PROVE FALSE
    <3>1. file[a].there
      BY <1>1, <2>1, PartsDiffer
    <3>2. ConnectKind(a, file[a], run.old) = "adopt"
      BY <2>1, <3>1, PartsDiffer DEF ConnectKind, Managed
    <3> QED BY <2>1, <3>2 DEF Skipped
  <2> QED BY <2>1 DEF Untouched
<1>3. Installed(a).there
  BY InstalledFile
<1>4. Mode[a] = "keys" => a = Config
  BY Constants
<1> QED BY <1>2, <1>3, <1>4, InstalledFile DEF Placed

LEMMA SkippedPlaced ==
  ASSUME ConnectRun(run), NEW a \in Artifact, Skipped(a), NEW f, f = file[a],
         run.plan[a] = ConnectKind(a, f, run.old)
  PROVE  Placed(a, f)
<1>1. run.plan[a] \in Kinds /\ run.plan[a] # "conflict" /\ Mode[a] \in Modes
  BY PartsOfMode DEF ConnectRun, Kinds
<1>2. CASE Mode[a] = "env"
  BY <1>2 DEF Skipped, Placed
<1>3. CASE Mode[a] = "runtime"
  BY <1>3 DEF Skipped, Placed, ConnectKind, Managed
<1>4. CASE Mode[a] = "whole"
  <2>1. f.there /\ WholeKind(f, run.old, a) = "adopt"
    BY <1>1, <1>4 DEF Skipped, ConnectKind, Managed, WholeKind
  <2>2. Released(f) /\ f.part = Current
    BY <2>1 DEF WholeKind
  <2> QED BY <1>4, <2>1, <2>2 DEF Placed, Released
<1>5. CASE Mode[a] \in {"section", "line"}
  BY <1>1, <1>5 DEF Skipped, ConnectKind, Managed, Placed
<1>6. CASE Mode[a] = "keys"
  BY <1>1, <1>6 DEF Skipped, ConnectKind, Managed
<1> QED BY <1>1, <1>2, <1>3, <1>4, <1>5, <1>6 DEF Modes

\* What is left of a file the user has not edited.
LEMMA RemainingUntouched ==
  ASSUME TInv, NEW a \in Artifact, file[a].there, Untouched(a, file[a]), run.plan[a] = "remove", MayRemove(a)
  PROVE  Untouched(a, Without(a))
<1>1. Mode[a] \in {"section", "whole", "keys"}
  BY DEF MayRemove
<1>2. Without(a).part = Nothing
  BY RemainingFile
<1>3. Mode[a] = "whole" => Without(a) = Absent
  BY DEF Without
<1> QED BY <1>1, <1>2, <1>3, AbsentIsFile DEF Untouched

LEMMA FirstAhead == ASSUME at = 1 PROVE \A a \in Artifact : Ahead(a)
BY Constants DEF Artifact, Ahead

\* The manifest that connect writes.
LEMMA WrittenRecorded ==
  ASSUME TInv, ConnectRun(run), run.id # 0, NEW a \in Artifact, Placed(a, file[a]), FileOK(a, file[a]),
         NEW m, m.id = run.id, m.project = run.project, m.records = Records
  PROVE  Recorded(a, file[a], m)
<1>1. m.records[a].hash = RecordHash(a, file[a]) /\ file[a].there
  BY RecordsType DEF Placed
<1>2. Mode[a] \in {"section", "line"} => file[a].part = Current /\ m.records[a].hash = Current
  BY <1>1, DigestOf, PartsDiffer DEF Placed, RecordHash
<1>3. Mode[a] = "whole" => file[a].part = Current /\ file[a].user = 0 /\ m.records[a].hash = <<Current, 0>>
  BY <1>1, DigestOf DEF Placed, RecordHash
<1>4. ASSUME Mode[a] = "keys"
      PROVE  /\ file[a].part \in AllKeys /\ m.records[a].hash = file[a].part
             /\ m.id # 0 /\ m.id = file[a].part[2] /\ m.project = file[a].part[3]
  <2>1. m.records[a].hash = file[a].part
    BY <1>1, <1>4, DigestOf DEF RecordHash
  <2>2. file[a].part = Keys(run.id, run.project, "own") /\ file[a].part \in {Nothing, Broken} \cup AllKeys
    BY <1>4, PartsOfMode DEF Placed, FileOK
  <2>3. file[a].part \in AllKeys /\ file[a].part[2] = run.id /\ file[a].part[3] = run.project
    BY <2>2, KeysOfParts
  <2> QED BY <2>1, <2>3
<1> QED BY <1>1, <1>2, <1>3, <1>4, RecordedFrom

-----------------------------------------------------------------------------
(* Files and manifest, action by action.                                    *)

LEMMA RestM ==
  ASSUME TInv', pc' = "idle", \A a \in Artifact \ touched' : Untouched(a, file'[a]),
         Trusted(manifest)' => \A a \in Artifact \ touched' : Recorded(a, file'[a], manifest')
  PROVE  MInv'
<1>1. kept' = <<>>
  BY DEF TInv, KeptOK
<1>2. Kept' = {}
  BY <1>1 DEF Kept
<1> QED BY <1>2 DEF MInv, FilesUntouched, AtRest, JustInstalled, FoundRecorded, BothRecorded, PlanOfFiles, IdentityKept,
        Connecting, AllPlaced, RecordedNow, ManifestLast

\* A command that has not written ends.
LEMMA EndM ==
  ASSUME TInv, MInv, TInv', pc \in {"observe", "check", "recheck", "installed", "config"}, pc' = "idle",
         UNCHANGED <<file, manifest, touched, hurt>>
  PROVE  MInv'
<1>1. \A a \in Artifact \ touched' : Untouched(a, file'[a])
  BY DEF MInv, FilesUntouched
<1>2. Trusted(manifest)' => \A a \in Artifact \ touched' : Recorded(a, file'[a], manifest')
  BY DEF MInv, AtRest, JustInstalled, Trusted
<1> QED BY <1>1, <1>2, RestM

LEMMA UserEditM == ASSUME TInv, MInv, NEW a \in Artifact, UserEdit(a) PROVE MInv'
<1>1. /\ Kept' = Kept /\ UNCHANGED <<manifest, pc, at, run, kept, hurt, unresolved>>
      /\ \A b \in Artifact \ {a} : file'[b] = file[b]
      /\ touched' = touched \cup {a}
  BY UserEditT DEF process
<1>2. \A b \in Artifact \ touched' : b \in Artifact \ touched /\ file'[b] = file[b]
  BY <1>1
<1>3. FilesUntouched' /\ AtRest'
  BY <1>1, <1>2 DEF MInv, FilesUntouched, AtRest, Trusted
<1>4. JustInstalled' /\ FoundRecorded'
  BY <1>1, <1>2 DEF MInv, JustInstalled, FoundRecorded, Trusted
<1>5. BothRecorded' /\ PlanOfFiles'
  BY <1>1, <1>2 DEF MInv, BothRecorded, PlanOfFiles
<1>6. IdentityKept' /\ ManifestLast'
  BY <1>1, <1>2, Constants DEF MInv, IdentityKept, Connecting, ManifestLast
<1>7. AllPlaced' /\ RecordedNow'
  BY <1>1, <1>2 DEF MInv, AllPlaced, RecordedNow, Placed, Ahead
<1> QED BY <1>3, <1>4, <1>5, <1>6, <1>7 DEF MInv

LEMMA PlanConnectM == ASSUME TInv, MInv, PlanConnect PROVE MInv'
<1>1. /\ pc = "idle" /\ pc' = "observe" /\ ConnectRun(run') /\ run'.plan = ConnectPlan /\ run'.old = manifest /\ Kept' = {}
      /\ run'.id = (IF manifest.there THEN manifest.id ELSE runs + 1)
      /\ run'.project = (IF manifest.there THEN manifest.project ELSE ProjectOf(file[Config]))
      /\ UNCHANGED <<file, manifest, touched, hurt>> /\ ConnectReady /\ runs < MaxRuns /\ runs \in 0..MaxRuns
  BY PlanConnectT DEF PlanConnect, Idle, disk, TInv, Stored
<1>2. manifest.there => manifest.id # 0 /\ manifest.project = ProjectOf(file[Config])
  BY <1>1 DEF ConnectReady, ManifestValid, Matches
<1>3. IdentityKept'
  <2>1. runs + 1 # 0 /\ runs + 1 # MaxRuns + 1
    BY <1>1, Constants
  <2> QED BY <1>1, <1>2, <2>1 DEF IdentityKept, Connecting
<1>4. PlanOfFiles'
  BY <1>1 DEF PlanOfFiles, ConnectPlan
<1>5. FilesUntouched' /\ AtRest'
  BY <1>1 DEF MInv, FilesUntouched, AtRest, Trusted
<1> QED BY <1>1, <1>3, <1>4, <1>5 DEF MInv, JustInstalled, FoundRecorded, BothRecorded, AllPlaced, RecordedNow, ManifestLast

LEMMA ObserveM == ASSUME TInv, MInv, Observe PROVE MInv'
<1>1. /\ pc = "observe" /\ pc' = "check" /\ Kept' = {} /\ ConnectRun(run) /\ ConnectRun(run')
      /\ run'.plan = run.plan /\ run'.old = run.old /\ run'.id = run.id /\ run'.project = run.project
      /\ UNCHANGED <<file, manifest, touched, hurt>>
  BY ObserveT DEF Observe, disk, trace, past
<1>2. run.op = "connect" /\ run'.op = "connect"
  BY <1>1 DEF ConnectRun
<1>3. IdentityKept'
  BY <1>1, <1>2 DEF MInv, IdentityKept, Connecting
<1>4. PlanOfFiles'
  BY <1>1 DEF MInv, PlanOfFiles
<1>5. FilesUntouched' /\ AtRest'
  BY <1>1 DEF MInv, FilesUntouched, AtRest, Trusted
<1> QED BY <1>1, <1>3, <1>4, <1>5 DEF MInv, JustInstalled, FoundRecorded, BothRecorded, AllPlaced, RecordedNow, ManifestLast

LEMMA CheckM == ASSUME TInv, BInv, MInv, Check PROVE MInv'
<1>1. /\ TInv' /\ pc = "check" /\ ConnectRun(run) /\ kept' = <<>> /\ UNCHANGED <<file, manifest, touched, hurt>>
      /\ \/ Stop
         \/ /\ pc' = "apply" /\ UNCHANGED <<at, kept, raced>> /\ ConnectRun(run')
            /\ run'.plan = run.plan /\ run'.old = run.old /\ run'.id = run.id /\ run'.project = run.project
            /\ run'.before = disk
  BY CheckT DEF disk, past
<1>2. CASE Stop
  BY <1>1, <1>2, EndM DEF Stop
<1>3. CASE /\ pc' = "apply" /\ UNCHANGED <<at, kept, raced>> /\ ConnectRun(run')
           /\ run'.plan = run.plan /\ run'.old = run.old /\ run'.id = run.id /\ run'.project = run.project
           /\ run'.before = disk
  <2>1. /\ run.op = "connect" /\ run'.op = "connect" /\ run'.before[1] = file /\ run'.old = manifest /\ Kept' = {}
    BY <1>1, <1>3 DEF ConnectRun, disk, BInv, BeforeWriting, Kept
  <2>2. FilesUntouched'
    BY <1>1, <2>1 DEF MInv, FilesUntouched
  <2>3. FoundRecorded'
    BY <1>1, <2>1 DEF MInv, AtRest, FoundRecorded, Trusted
  <2>4. PlanOfFiles' /\ IdentityKept'
    BY <1>1, <1>3, <2>1 DEF MInv, PlanOfFiles, IdentityKept, Connecting
  <2>5. AllPlaced'
    <3>1. at = 1
      BY <1>1 DEF TInv, Stored
    <3>2. \A a \in Artifact : Ahead(a)'
      BY <1>3, <3>1, FirstAhead DEF Ahead
    <3> QED BY <1>3, <3>2 DEF AllPlaced
  <2>6. RecordedNow'
    <3> SUFFICES ASSUME run.id # MaxRuns + 1, hurt \subseteq {"connect"}, manifest.there
                 PROVE  \A a \in Artifact \ touched : Recorded(a, file[a], manifest)
      BY <1>1, <1>3, <2>1 DEF RecordedNow
    <3>1. manifest.id = run.id
      BY <1>1, <2>1 DEF MInv, IdentityKept, Connecting
    <3>2. Trusted(manifest)
      BY <3>1 DEF Trusted
    <3> QED BY <1>1, <3>2 DEF MInv, AtRest
  <2> QED BY <1>3, <2>2, <2>3, <2>4, <2>5, <2>6 DEF MInv, AtRest, JustInstalled, BothRecorded, ManifestLast
<1> QED BY <1>1, <1>2, <1>3

\* Where connect is while it writes.
LEMMA ConnectingM ==
  ASSUME TInv, UInv, BInv, MInv, pc = "apply", NEW a \in Artifact, Ahead(a), a \notin touched
  PROVE  /\ file[a] = run.before[1][a] /\ run.plan[a] = ConnectKind(a, file[a], run.old) /\ Untouched(a, file[a])
         /\ a = Config => ProjectOf(file[a]) = run.project
         /\ \A x \in Kept : x.name # a
<1>1. ConnectRun(run) /\ run.op = "connect" /\ a \notin raced
  BY DEF TInv, RunOK, ConnectRun, Stored
<1>2. \A x \in Kept : x.name # a
  BY DEF TInv, KeptOK
<1>3. file[a] = run.before[1][a]
  BY <1>1, <1>2 DEF BInv, WhileWriting
<1>4. run.plan[a] = ConnectKind(a, file[a], run.old)
  BY <1>1, <1>3 DEF MInv, PlanOfFiles
<1>5. Untouched(a, file[a]) /\ (a = Config => ProjectOf(file[a]) = run.project)
  BY <1>1 DEF MInv, FilesUntouched, IdentityKept, Connecting
<1> QED BY <1>2, <1>3, <1>4, <1>5

\* A connect goes on, or turns back, with a file that may have been installed.
LEMMA PlacingM ==
  ASSUME TInv, UInv, BInv, MInv, TInv', pc = "apply", NEW a \in Artifact, Ahead(a),
         UNCHANGED <<manifest, run, touched, hurt>>,
         file' = file \/ file' = [file EXCEPT ![a] = Installed(a)],
         a \notin touched => file' = file \/ Placed(a, Installed(a)),
         \/ Kept' = Kept
         \/ Placing(a),
         \/ pc' = "restore"
         \/ /\ pc' \in {"apply", "manifest"}
            /\ a \notin touched => Placed(a, file'[a])
            /\ pc' = "apply" => \A b \in Artifact : Ahead(b)' <=> Ahead(b) /\ b # a
            /\ pc' = "manifest" => \A b \in Artifact : Ahead(b) => b = a
  PROVE  MInv'
<1>1. /\ ConnectRun(run) /\ run.op = "connect" /\ file \in [Artifact -> Files] /\ FileOK(a, Installed(a))
      /\ pc' \in {"apply", "manifest", "restore"}
  BY InstalledFile DEF TInv, RunOK, ConnectRun, Stored
<1>2. /\ \A b \in Artifact \ {a} : file'[b] = file[b]
      /\ a \notin touched => file'[a] = file[a] \/ (file'[a] = Installed(a) /\ Placed(a, file'[a]))
  BY <1>1
<1>3. a \notin touched => /\ run.plan[a] = ConnectKind(a, file[a], run.old) /\ Untouched(a, file[a])
                          /\ a = Config => ProjectOf(file[a]) = run.project
  BY ConnectingM
<1>4. FilesUntouched'
  <2>1. \A b \in Artifact \ touched : Untouched(b, file'[b])
    BY <1>1, <1>2, PlacedUntouched DEF MInv, FilesUntouched
  <2>2. \A x \in Kept' : x \in Kept \/ (x.name = a /\ x.was = file[a])
    BY DEF Placing
  <2> QED BY <1>3, <2>1, <2>2 DEF MInv, FilesUntouched
<1>5. FoundRecorded' /\ PlanOfFiles'
  BY <1>1 DEF MInv, FoundRecorded, PlanOfFiles, Trusted
<1>6. IdentityKept'
  <2>1. Config \notin touched => ProjectOf(file'[Config]) = run.project
    <3>1. CASE Config # a
      BY <1>1, <1>2, <3>1, Constants DEF MInv, IdentityKept, Connecting
    <3>2. CASE Config = a
      <4>1. ASSUME Config \notin touched, file'[a] = Installed(a), Placed(a, file'[a])
            PROVE  ProjectOf(file'[a]) = run.project
        <5>1. file'[a].part = Keys(run.id, run.project, "own") /\ file'[a].part \in {Nothing, Broken} \cup AllKeys
          BY <1>1, <3>2, <4>1, Constants, PartsOfMode DEF Placed, FileOK
        <5> QED BY <5>1, KeysOfParts DEF ProjectOf
      <4> QED BY <1>2, <1>3, <3>2, <4>1
    <3> QED BY <3>1, <3>2
  <2> QED BY <1>1, <2>1 DEF MInv, IdentityKept, Connecting
<1>7. AllPlaced'
  <2> SUFFICES ASSUME pc' \in {"apply", "manifest"}, NEW b \in Artifact \ touched, pc' = "manifest" \/ ~Ahead(b)'
               PROVE  Placed(b, file'[b])
    BY <1>1 DEF AllPlaced, Placed
  <2>1. CASE b = a
    BY <2>1
  <2>2. CASE b # a
    <3>1. ~Ahead(b)
      BY <2>2
    <3> QED BY <1>1, <1>2, <2>2, <3>1 DEF MInv, AllPlaced
  <2> QED BY <2>1, <2>2
<1>8. RecordedNow'
  <2> SUFFICES ASSUME run.id # MaxRuns + 1, hurt \subseteq {"connect"}, NEW b \in Artifact \ touched
               PROVE  /\ manifest.there => Recorded(b, file'[b], manifest)
                      /\ run.old.there => Recorded(b, file'[b], run.old)
    BY <1>1 DEF RecordedNow
  <2>1. /\ manifest.there => Recorded(b, file[b], manifest)
        /\ run.old.there => Recorded(b, file[b], run.old)
    BY <1>1 DEF MInv, RecordedNow
  <2>2. CASE file'[b] = file[b]
    BY <2>1, <2>2
  <2>3. CASE b = a /\ Placed(a, file'[a])
    <3>1. ASSUME NEW m, Recorded(a, file[a], m), m.id = run.id
          PROVE  Recorded(a, file'[a], m)
      <4>1. Mode[a] = "keys" => IdOf(file[a]) = run.id /\ ProjectOf(file[a]) = run.project
        <5>1. Mode[a] = "keys" => a = Config
          BY Constants
        <5>2. a = Config => IdOf(file[a]) = m.id
          BY <3>1 DEF Recorded, Matches
        <5> QED BY <1>3, <2>3, <3>1, <5>1, <5>2
      <4> QED BY <1>3, <2>3, <3>1, <4>1, RecordedAgain
    <3>2. /\ manifest.there => manifest.id = run.id
          /\ run.old.there => run.old.id = run.id
      BY <1>1 DEF MInv, IdentityKept, Connecting
    <3> QED BY <2>1, <2>3, <3>1, <3>2
  <2> QED BY <1>2, <2>2, <2>3
<1>9. ManifestLast'
  <2>1. ASSUME NEW n \in 1..(Len(kept') - 1) PROVE kept'[n].name # "manifest"
    <3>1. kept' \in Seq(Kept')
      BY DEF TInv, KeptOK
    <3>2. Len(kept') \in Nat
      BY <3>1, LenProperties
    <3>3. kept'[n] \in Kept'
      BY <2>1, <3>2 DEF Kept
    <3>4. \A x \in Kept' : x.name \in Artifact
      BY DEF TInv, KeptOK, Placing
    <3> QED BY <3>3, <3>4, Constants
  <2> QED BY <2>1 DEF ManifestLast
<1> QED BY <1>1, <1>4, <1>5, <1>6, <1>7, <1>8, <1>9 DEF MInv, AtRest, JustInstalled, BothRecorded

LEMMA ApplyStepM == ASSUME TInv, UInv, BInv, MInv, ApplyStep PROVE MInv'
<1> DEFINE a == Registry[at]
<1>1. /\ TInv' /\ pc = "apply" /\ ConnectRun(run) /\ a \in Artifact /\ Ahead(a)
      /\ UNCHANGED <<manifest, run, touched, hurt>>
  BY ApplyStepT DEF trace, past
<1>2. Onward(at) => /\ pc' \in {"apply", "manifest"}
                    /\ pc' = "apply" => \A b \in Artifact : Ahead(b)' <=> Ahead(b) /\ b # a
                    /\ pc' = "manifest" => \A b \in Artifact : Ahead(b) => b = a
  BY <1>1, Moved
<1> HIDE DEF a
<1>3. a \notin touched => /\ run.plan[a] = ConnectKind(a, file[a], run.old) /\ Untouched(a, file[a])
                          /\ a = Config => ProjectOf(file[a]) = run.project
  BY <1>1, ConnectingM
<1>4. a \notin touched /\ ~Skipped(a) => Placed(a, Installed(a))
  BY <1>1, <1>3, InstalledPlaced
<1>5. a \notin touched /\ Skipped(a) => Placed(a, file[a])
  BY <1>1, <1>3, SkippedPlaced
<1>6. CASE Skipped(a) /\ Onward(at) /\ file' = file /\ Kept' = Kept
  <2>1. a \notin touched => Placed(a, file'[a])
    BY <1>5, <1>6
  <2> QED BY <1>1, <1>2, <1>6, <2>1, PlacingM
<1>7. CASE /\ ~Skipped(a) /\ Onward(at) /\ Placing(a)
           /\ file' = [file EXCEPT ![a] = Installed(a)]
  <2>1. file'[a] = Installed(a)
    BY <1>1, <1>7 DEF TInv, Stored
  <2>2. a \notin touched => Placed(a, file'[a]) /\ Placed(a, Installed(a))
    BY <1>4, <1>7, <2>1
  <2> QED BY <1>1, <1>2, <1>7, <2>2, PlacingM
<1>8. CASE /\ ~Skipped(a) /\ pc' = "restore" /\ Placing(a)
           /\ file' = file \/ file' = [file EXCEPT ![a] = Installed(a)]
  BY <1>1, <1>4, <1>8, PlacingM
<1> QED BY <1>6, <1>7, <1>8, ApplyStepT DEF a

\* The manifest is captured on top of the files.
LEMMA CapturedLast ==
  ASSUME TInv, pc = "manifest", kept' = kept \/ CaptureManifest
  PROVE  /\ \A x \in Kept' : x.name \in Artifact => x \in Kept
         /\ \A n \in 1..(Len(kept') - 1) : kept'[n].name # "manifest"
<1>1. kept \in Seq(Kept) /\ \A x \in Kept : x.name \in Artifact
  BY DEF TInv, KeptOK
<1>2. Len(kept) \in Nat /\ \A n \in 1..Len(kept) : kept[n].name # "manifest"
  BY <1>1, LenProperties, Constants DEF Kept
<1>3. CASE kept' = kept
  <2>1. Kept' = Kept
    BY <1>3 DEF Kept
  <2> QED BY <1>2, <1>3, <2>1
<1>4. CASE CaptureManifest
  <2> DEFINE y == [name |-> "manifest", was |-> Absent]
  <2>1. kept' = Append(kept, y)
    BY <1>4 DEF CaptureManifest
  <2>2. Kept' = Kept \cup {y} /\ y.name \notin Artifact
    BY <1>1, <2>1, KeptAppend, Constants
  <2> HIDE DEF y
  <2>3. Len(kept') = Len(kept) + 1 /\ \A n \in 1..Len(kept) : kept'[n] = kept[n]
    BY <1>1, <2>1, AppendProperties
  <2> QED BY <1>2, <2>2, <2>3
<1> QED BY <1>3, <1>4

LEMMA WriteManifestM == ASSUME TInv, BInv, MInv, WriteManifest PROVE MInv'
<1>1. /\ TInv' /\ pc = "manifest" /\ ConnectRun(run) /\ UNCHANGED <<file, touched, hurt>> /\ run.op = "connect"
  BY WriteManifestT DEF ConnectRun, trace, past
<1>2. \/ manifest' = manifest /\ pc' = "restore" /\ run' = run /\ (kept' = kept \/ CaptureManifest)
      \/ /\ manifest'.there /\ manifest'.id = run.id /\ manifest'.project = run.project
         /\ manifest'.records = Records
         /\ \/ pc' = "restore" /\ run' = run /\ CaptureManifest
            \/ pc' = "installed" /\ kept' = <<>> /\ run'.new = manifest'
  BY WriteManifestT
<1>3. ASSUME manifest'.id = run.id, manifest'.project = run.project, manifest'.records = Records,
             NEW a \in Artifact \ touched
      PROVE  Recorded(a, file[a], manifest')
  <2>1. run.id # 0 /\ Placed(a, file[a]) /\ FileOK(a, file[a])
    BY <1>1 DEF MInv, IdentityKept, Connecting, AllPlaced, TInv, Stored
  <2> QED BY <1>1, <1>3, <2>1, WrittenRecorded
<1>4. CASE /\ pc' = "installed" /\ kept' = <<>> /\ run'.new = manifest'
           /\ manifest'.id = run.id /\ manifest'.project = run.project /\ manifest'.records = Records
  <2>1. JustInstalled'
    BY <1>1, <1>3, <1>4 DEF JustInstalled
  <2>2. Kept' = {}
    BY <1>4 DEF Kept
  <2>3. FilesUntouched'
    BY <1>1, <2>2 DEF MInv, FilesUntouched
  <2> QED BY <1>4, <2>1, <2>3
          DEF MInv, AtRest, FoundRecorded, BothRecorded, PlanOfFiles, IdentityKept, Connecting, AllPlaced, RecordedNow, ManifestLast
<1>5. CASE pc' = "restore" /\ run' = run /\ (kept' = kept \/ CaptureManifest)
  <2>1. \/ manifest' = manifest
        \/ manifest'.there /\ manifest'.id = run.id /\ manifest'.project = run.project /\ manifest'.records = Records
    BY <1>2
  <2>2. FilesUntouched' /\ ManifestLast'
    BY <1>1, <1>5, CapturedLast DEF MInv, FilesUntouched, ManifestLast
  <2>3. FoundRecorded' /\ PlanOfFiles'
    BY <1>1, <1>5 DEF MInv, FoundRecorded, PlanOfFiles, Trusted
  <2>4. IdentityKept'
    BY <1>1, <1>5, <2>1 DEF MInv, IdentityKept, Connecting
  <2>5. RecordedNow'
    BY <1>1, <1>3, <1>5, <2>1 DEF MInv, RecordedNow
  <2> QED BY <1>5, <2>2, <2>3, <2>4, <2>5 DEF MInv, AtRest, JustInstalled, BothRecorded, AllPlaced
<1> QED BY <1>2, <1>4, <1>5

LEMMA RestoreStepM == ASSUME TInv, BInv, MInv, RestoreStep PROVE MInv'
<1> DEFINE x == kept[Len(kept)]
<1>1. /\ TInv' /\ pc = "restore" /\ x \in Kept /\ file \in [Artifact -> Files] /\ WhileWriting /\ kept # <<>>
      /\ (ConnectRun(run) \/ DisconnectRun(run)) /\ touched' = touched /\ touched \subseteq Artifact /\ raced \subseteq touched
      /\ x.name \in Artifact => x.name # "manifest"
  BY RestoreStepT, Constants DEF TInv, Stored, BInv
<1>2. \/ UNCHANGED disk
      \/ x.name = "manifest" /\ manifest' = run.old /\ file' = file
      \/ x.name \in Artifact /\ manifest' = manifest /\ file' = [file EXCEPT ![x.name] = x.was]
  BY RestoreStepT
<1>3. \/ /\ pc' = "restore" /\ run' = run /\ hurt' = hurt
         /\ kept' = SubSeq(kept, 1, Len(kept) - 1) /\ Kept' \subseteq Kept
      \/ Stop /\ hurt' = hurt \cup {run.op}
  BY RestoreStepT
<1>4. x.name \in Artifact => \A y \in Kept : y.name # "manifest"
  <2>1. \A n \in 1..(Len(kept) - 1) : kept[n].name # "manifest"
    BY <1>1 DEF MInv, ManifestLast
  <2>2. kept \in Seq(Kept)
    BY DEF TInv, KeptOK
  <2>3. Len(kept) \in Nat
    BY <2>2, LenProperties
  <2> QED BY <1>1, <2>1, <2>3 DEF Kept
<1> HIDE DEF x
<1>5. \A a \in Artifact : file'[a] = file[a] \/ (a = x.name /\ file'[a] = x.was)
  BY <1>1, <1>2 DEF disk
<1>6. \A a \in Artifact \ touched : a = x.name => x.was = run.before[1][a] /\ Untouched(a, x.was)
  BY <1>1 DEF WhileWriting, MInv, FilesUntouched
<1>7. \A a \in Artifact \ touched : Untouched(a, file'[a])
  BY <1>5, <1>6 DEF MInv, FilesUntouched
<1>8. ASSUME run.op = "connect"
      PROVE  manifest'.there => manifest'.id = run.id
  <2>1. /\ manifest.there => manifest.id = run.id
        /\ run.old.there => run.old.id = run.id
    BY <1>1, <1>8 DEF MInv, IdentityKept, Connecting
  <2> QED BY <1>2, <2>1 DEF disk
<1>9. ASSUME run.op = "connect", run.id # MaxRuns + 1, hurt \subseteq {"connect"}, NEW a \in Artifact \ touched
      PROVE  /\ manifest'.there => Recorded(a, file'[a], manifest')
             /\ run.old.there => Recorded(a, file'[a], run.old)
  <2>1. /\ manifest.there => Recorded(a, file[a], manifest)
        /\ run.old.there => Recorded(a, file[a], run.old)
    BY <1>1, <1>9 DEF MInv, RecordedNow
  <2>2. CASE file' = file
    BY <1>2, <2>1, <2>2 DEF disk
  <2>3. CASE x.name \in Artifact /\ manifest' = manifest /\ file' = [file EXCEPT ![x.name] = x.was]
    <3>1. CASE a # x.name
      <4>1. file'[a] = file[a]
        BY <1>1, <2>3, <3>1
      <4> QED BY <2>1, <2>3, <4>1
    <3>2. CASE a = x.name
      <4>1. file'[a] = run.before[1][a]
        BY <1>1, <1>6, <2>3, <3>2
      <4>2. manifest = run.old
        BY <1>1, <1>4, <2>3 DEF WhileWriting
      <4>3. run.old.there => run.old.id = run.id
        BY <1>1, <1>9 DEF MInv, IdentityKept, Connecting
      <4>4. run.old.there => Trusted(run.old)
        BY <1>9, <4>3 DEF Trusted
      <4>5. run.old.there => Recorded(a, run.before[1][a], run.old)
        BY <1>1, <4>4 DEF MInv, FoundRecorded
      <4> QED BY <2>3, <4>1, <4>2, <4>5
    <3> QED BY <3>1, <3>2
  <2> QED BY <1>2, <2>2, <2>3 DEF disk
<1>10. CASE Stop /\ hurt' = hurt \cup {run.op}
  <2>1. ASSUME Trusted(manifest)'
        PROVE  run.op = "connect" /\ hurt \subseteq {"connect"} /\ manifest'.there /\ manifest'.id # MaxRuns + 1
    BY <1>10, <2>1 DEF Trusted
  <2>2. Trusted(manifest)' => \A a \in Artifact \ touched' : Recorded(a, file'[a], manifest')
    BY <1>1, <1>8, <1>9, <2>1
  <2> QED BY <1>1, <1>7, <1>10, <2>2, RestM DEF Stop
<1>11. CASE /\ pc' = "restore" /\ run' = run /\ hurt' = hurt
            /\ kept' = SubSeq(kept, 1, Len(kept) - 1) /\ Kept' \subseteq Kept
  <2>1. FilesUntouched'
    BY <1>1, <1>7, <1>11 DEF MInv, FilesUntouched
  <2>2. FoundRecorded' /\ PlanOfFiles'
    BY <1>1, <1>11 DEF MInv, FoundRecorded, PlanOfFiles, Trusted
  <2>3. IdentityKept'
    BY <1>1, <1>8, <1>11 DEF MInv, IdentityKept, Connecting
  <2>4. RecordedNow'
    BY <1>1, <1>9, <1>11 DEF RecordedNow
  <2>5. ManifestLast'
    <3>1. kept \in Seq(Kept)
      BY DEF TInv, KeptOK
    <3>2. Len(kept) \in Nat /\ Len(kept) > 0
      BY <1>1, <3>1, EmptySeq, LenProperties
    <3>3. Len(kept') = Len(kept) - 1 /\ \A n \in 1..(Len(kept) - 1) : kept'[n] = kept[n]
      BY <1>1, <1>11, <3>1, KeptLess
    <3>4. \A n \in 1..(Len(kept) - 1) : kept[n].name # "manifest"
      BY <1>1 DEF MInv, ManifestLast
    <3> QED BY <3>2, <3>3, <3>4 DEF ManifestLast
  <2> QED BY <1>11, <2>1, <2>2, <2>3, <2>4, <2>5 DEF MInv, AtRest, JustInstalled, BothRecorded, AllPlaced
<1> QED BY <1>3, <1>10, <1>11

LEMMA RestoredM == ASSUME TInv, BInv, MInv, Restored PROVE MInv'
<1>1. TInv' /\ pc = "restore" /\ kept = <<>> /\ pc' = "idle" /\ UNCHANGED <<file, manifest, touched, hurt>>
  BY StopT DEF Restored, disk, past
<1>2. Kept = {} /\ raced \subseteq touched
  BY <1>1, KeptNothing DEF TInv, Stored
<1>3. manifest = run.old /\ \A a \in Artifact \ touched : file[a] = run.before[1][a]
  BY <1>1, <1>2 DEF BInv, WhileWriting
<1>4. Trusted(manifest)' => \A a \in Artifact \ touched' : Recorded(a, file'[a], manifest')
  BY <1>1, <1>3 DEF MInv, FoundRecorded, Trusted
<1> QED BY <1>1, <1>4, RestM DEF MInv, FilesUntouched

LEMMA DieM == ASSUME TInv, MInv, Die PROVE MInv'
<1>1. /\ TInv' /\ pc' = "idle" /\ UNCHANGED <<file, manifest, touched>> /\ pc # "idle"
      /\ hurt' = IF pc \in Writing THEN hurt \cup {run.op} ELSE hurt
  BY DieT DEF Die, Stop, disk, Idle
<1>2. CASE pc \notin Writing
  <2>1. pc \in {"observe", "check", "recheck", "installed", "config"}
    BY <1>1, <1>2 DEF TInv, RunOK
  <2> QED BY <1>1, <1>2, <2>1, EndM
<1>3. CASE pc \in Writing
  <2>1. \A a \in Artifact \ touched' : Untouched(a, file'[a])
    BY <1>1 DEF MInv, FilesUntouched
  <2>2. ASSUME Trusted(manifest)'
        PROVE  run.op = "connect" /\ hurt \subseteq {"connect"} /\ manifest.there /\ manifest.id # MaxRuns + 1
    BY <1>1, <1>3, <2>2 DEF Trusted
  <2>3. run.op = "connect" => pc \in {"apply", "manifest", "restore"}
    BY <1>3, RunsDiffer DEF TInv, RunOK, Writing
  <2>4. ASSUME Trusted(manifest)' PROVE \A a \in Artifact \ touched : Recorded(a, file[a], manifest)
    BY <2>2, <2>3, <2>4 DEF MInv, IdentityKept, Connecting, RecordedNow
  <2> QED BY <1>1, <2>1, <2>4, RestM
<1> QED BY <1>2, <1>3

LEMMA ResolveM == ASSUME TInv, MInv, NEW p \in Project, Resolve(p) PROVE MInv'
<1>1. /\ pc = "installed" /\ pc' = "config" /\ Kept' = {} /\ run'.new = run.new
      /\ UNCHANGED <<file, manifest, touched, hurt>>
  BY ResolveT DEF disk, trace, past
<1>2. FilesUntouched' /\ JustInstalled'
  BY <1>1 DEF MInv, FilesUntouched, JustInstalled
<1> QED BY <1>1, <1>2 DEF MInv, AtRest, FoundRecorded, BothRecorded, PlanOfFiles, IdentityKept, Connecting, AllPlaced,
        RecordedNow, ManifestLast

LEMMA PersistConfigM == ASSUME TInv, MInv, PersistConfig PROVE MInv'
<1> DEFINE f == Registered(file[Config])
           m == RegisteredManifest(f)
<1>1. /\ TInv' /\ pc = "config" /\ InstalledRun(run) /\ UNCHANGED <<manifest, touched, hurt>>
      /\ Config \in Artifact /\ file \in [Artifact -> Files]
      /\ \/ Stop /\ file' = file
         \/ /\ file[Config].part # Broken /\ pc' \in {"bind", "unconfig"}
            /\ run'.old = manifest /\ run'.new = m /\ run'.before = disk
            /\ kept' = <<[name |-> Config, was |-> file[Config]]>> /\ Kept' = {kept'[1]}
            /\ pc' = "bind" => file' = [file EXCEPT ![Config] = f]
            /\ file' = file \/ file' = [file EXCEPT ![Config] = f]
  BY PersistConfigT, Constants DEF past, TInv, Stored
<1>2. /\ run.new = manifest /\ \A a \in Artifact \ touched : Recorded(a, file[a], manifest)
  BY <1>1 DEF MInv, JustInstalled
<1>3. /\ f.there
      /\ f.part = Keys(run.id, run.project, IF file[Config].part \in AllKeys THEN file[Config].part[4] ELSE "part")
      /\ f.part \in AllKeys
  BY <1>1, RegisteredFile
<1>4. /\ m.id = manifest.id /\ m.project = run.project /\ m.records[Config].hash = f.part
      /\ \A a \in Artifact \ {Config} : m.records[a] = manifest.records[a]
  BY <1>1, <1>2, NewManifest
<1>5. manifest.id = run.id
  BY <1>1, <1>2 DEF InstalledRun
<1> HIDE DEF f, m
<1>6. ASSUME Config \notin touched
      PROVE  Recorded(Config, f, m) /\ Untouched(Config, f)
  <2>1. Mode[Config] = "keys"
    BY Constants
  <2>2. file[Config].part \in AllKeys /\ manifest.id # 0
    BY <1>1, <1>2, <1>6, <2>1, RecordedParts
  <2>3. file[Config].part[4] = "own"
    BY <1>1, <1>6, <2>1, <2>2, NotKeys DEF MInv, FilesUntouched, Untouched
  <2>4. f.part[2] = run.id /\ f.part[3] = run.project /\ f.part[4] = "own"
    BY <1>3, <2>2, <2>3, KeysOfParts
  <2>5. Recorded(Config, f, m)
    BY <1>1, <1>3, <1>4, <1>5, <2>1, <2>2, <2>4, RecordedFrom
  <2> QED BY <1>3, <2>1, <2>4, <2>5 DEF Untouched
<1>7. CASE Stop /\ file' = file
  BY <1>1, <1>7, EndM DEF Stop
<1>8. CASE /\ pc' \in {"bind", "unconfig"} /\ run'.old = manifest /\ run'.new = m /\ run'.before = disk
           /\ kept' = <<[name |-> Config, was |-> file[Config]]>> /\ Kept' = {kept'[1]}
           /\ pc' = "bind" => file' = [file EXCEPT ![Config] = f]
           /\ file' = file \/ file' = [file EXCEPT ![Config] = f]
  <2>1. /\ \A a \in Artifact \ {Config} : file'[a] = file[a]
        /\ file'[Config] \in {file[Config], f} /\ (pc' = "bind" => file'[Config] = f)
    BY <1>1, <1>8
  <2>2. kept'[1].name = Config /\ kept'[1].was = file[Config]
    BY <1>8
  <2>3. FilesUntouched'
    <3>1. \A a \in Artifact \ touched : Untouched(a, file'[a])
      BY <1>6, <2>1 DEF MInv, FilesUntouched
    <3> QED BY <1>1, <1>8, <2>2, <3>1 DEF MInv, FilesUntouched
  <2>4. BothRecorded'
    <3>1. run'.before[1] = file
      BY <1>8 DEF disk
    <3>2. ASSUME NEW a \in Artifact \ touched, pc' = "bind" PROVE Recorded(a, file'[a], m)
      <4>1. CASE a = Config
        BY <1>6, <2>1, <3>2, <4>1
      <4>2. CASE a # Config
        <5>1. Recorded(a, file[a], manifest) /\ file'[a] = file[a]
          BY <1>2, <2>1, <4>2
        <5> QED BY <1>4, <4>2, <5>1 DEF Recorded
      <4> QED BY <4>1, <4>2
    <3> QED BY <1>1, <1>2, <1>8, <3>1, <3>2 DEF BothRecorded
  <2> QED BY <1>8, <2>3, <2>4 DEF MInv, AtRest, JustInstalled, FoundRecorded, PlanOfFiles, IdentityKept, Connecting,
          AllPlaced, RecordedNow, ManifestLast
<1> QED BY <1>1, <1>7, <1>8

LEMMA PersistManifestM == ASSUME TInv, MInv, PersistManifest PROVE MInv'
<1>1. /\ TInv' /\ pc = "bind" /\ UNCHANGED <<file, touched, hurt>>
      /\ \/ Stop /\ manifest' = run.new
         \/ pc' = "unconfig" /\ UNCHANGED <<at, run, kept, raced>>
  BY PersistManifestT DEF past
<1>2. CASE Stop /\ manifest' = run.new
  <2>1. \A a \in Artifact \ touched' : Untouched(a, file'[a]) /\ Recorded(a, file'[a], manifest')
    BY <1>1, <1>2 DEF MInv, FilesUntouched, BothRecorded
  <2> QED BY <1>1, <1>2, <2>1, RestM DEF Stop
<1>3. CASE pc' = "unconfig" /\ UNCHANGED <<at, run, kept, raced>>
  <2>1. FilesUntouched' /\ BothRecorded'
    BY <1>1, <1>3 DEF MInv, FilesUntouched, BothRecorded, Kept
  <2> QED BY <1>3, <2>1 DEF MInv, AtRest, JustInstalled, FoundRecorded, PlanOfFiles, IdentityKept, Connecting,
          AllPlaced, RecordedNow, ManifestLast
<1> QED BY <1>1, <1>2, <1>3

LEMMA UndoConfigM == ASSUME TInv, MInv, UndoConfig PROVE MInv'
<1>1. /\ pc = "unconfig" /\ pc' = "unbind" /\ Kept' = Kept /\ kept[1] \in Kept /\ kept[1].name = Config
      /\ UNCHANGED <<run, touched>> /\ file \in [Artifact -> Files] /\ Config \in Artifact
      /\ \/ file' = [file EXCEPT ![Config] = kept[1].was] /\ unresolved' = {}
         \/ file' = file /\ hurt' = hurt \cup {"register"}
  BY UndoConfigT, Constants DEF TInv, Stored
<1>2. FilesUntouched'
  BY <1>1 DEF MInv, FilesUntouched
<1>3. BothRecorded'
  BY <1>1 DEF MInv, BothRecorded
<1> QED BY <1>1, <1>2, <1>3 DEF MInv, AtRest, JustInstalled, FoundRecorded, PlanOfFiles, IdentityKept, Connecting,
        AllPlaced, RecordedNow, ManifestLast

LEMMA UndoManifestM == ASSUME TInv, BInv, MInv, UndoManifest PROVE MInv'
<1>1. /\ TInv' /\ pc = "unbind" /\ pc' = "idle" /\ UNCHANGED <<file, touched>> /\ raced \subseteq touched
      /\ \/ manifest' = run.old /\ hurt' = hurt
         \/ hurt' = hurt \cup {"register"}
  BY UndoManifestT DEF Stop, TInv, Stored
<1>2. ASSUME Trusted(manifest)', NEW a \in Artifact \ touched'
      PROVE  Recorded(a, file'[a], manifest')
  <2>1. manifest' = run.old /\ "register" \notin hurt
    BY <1>1, <1>2 DEF Trusted
  <2>2. unresolved = {}
    BY <1>1, <2>1 DEF MInv, BothRecorded
  <2>3. file[a] = run.before[1][a]
    BY <1>1, <1>2, <2>2 DEF BInv, WhileRegistering
  <2> QED BY <1>1, <1>2, <2>1, <2>3 DEF MInv, BothRecorded
<1>3. \A a \in Artifact \ touched' : Untouched(a, file'[a])
  BY <1>1 DEF MInv, FilesUntouched
<1> QED BY <1>1, <1>2, <1>3, RestM

LEMMA PlanDisconnectM == ASSUME TInv, MInv, PlanDisconnect PROVE MInv'
<1>1. pc = "idle" /\ pc' = "recheck" /\ Kept' = {} /\ UNCHANGED <<file, manifest, touched, hurt>>
  BY PlanDisconnectT DEF disk
<1>2. FilesUntouched' /\ AtRest'
  BY <1>1 DEF MInv, FilesUntouched, AtRest, Trusted
<1> QED BY <1>1, <1>2 DEF MInv, JustInstalled, FoundRecorded, BothRecorded, PlanOfFiles, IdentityKept, Connecting,
        AllPlaced, RecordedNow, ManifestLast

LEMMA RecheckM == ASSUME TInv, BInv, MInv, Recheck PROVE MInv'
<1>1. /\ TInv' /\ pc = "recheck" /\ kept' = <<>> /\ UNCHANGED <<file, manifest, touched, hurt>>
      /\ \/ Stop
         \/ /\ pc' = "remove" /\ DisconnectRun(run') /\ run'.old = run.old /\ run'.before = disk
  BY RecheckT DEF disk, past
<1>2. CASE Stop
  BY <1>1, <1>2, EndM DEF Stop
<1>3. CASE pc' = "remove" /\ DisconnectRun(run') /\ run'.old = run.old /\ run'.before = disk
  <2>1. /\ run'.op = "disconnect" /\ run'.before[1] = file /\ run'.old = manifest /\ Kept' = {}
    BY <1>1, <1>3 DEF DisconnectRun, disk, BInv, BeforeWriting, Kept
  <2>2. FilesUntouched' /\ FoundRecorded'
    BY <1>1, <2>1 DEF MInv, FilesUntouched, AtRest, FoundRecorded, Trusted
  <2> QED BY <1>3, <2>2 DEF MInv, AtRest, JustInstalled, BothRecorded, PlanOfFiles, IdentityKept, Connecting,
          AllPlaced, RecordedNow, ManifestLast
<1> QED BY <1>1, <1>2, <1>3

LEMMA RemoveStepM == ASSUME TInv, UInv, MInv, RemoveStep PROVE MInv'
<1> DEFINE a == Registry[at]
<1>1. /\ TInv' /\ pc = "remove" /\ DisconnectRun(run) /\ run.op = "disconnect" /\ a \in Artifact /\ Ahead(a)
      /\ UNCHANGED <<manifest, run, touched, hurt>> /\ file \in [Artifact -> Files]
      /\ \A x \in Kept : x.name # "manifest"
  <2>1. /\ TInv' /\ pc = "remove" /\ DisconnectRun(run) /\ a \in Artifact /\ Ahead(a)
        /\ UNCHANGED <<manifest, run, trace>>
    BY RemoveStepT
  <2>2. \A x \in Kept : x.name # "manifest"
    BY <2>1, Constants DEF TInv, KeptOK
  <2> QED BY <2>1, <2>2 DEF DisconnectRun, trace, past, TInv, Stored
<1>2. /\ pc' \in {"remove", "manifest", "restore"}
      /\ Kept' = Kept \/ Kept' = Kept \cup {[name |-> a, was |-> file[a]]}
      /\ \/ file' = file
         \/ run.plan[a] = "remove" /\ file[a].there /\ file' = [file EXCEPT ![a] = Without(a)]
  BY <1>1, RemoveStepT, Moved DEF Placing
<1> HIDE DEF a
<1>3. \A b \in Artifact \ touched : Untouched(b, file[b]) /\ Untouched(b, file'[b])
  <2>1. MayRemove(a)
    BY <1>1 DEF UInv, PlanFits
  <2>2. \A b \in Artifact \ touched : Untouched(b, file[b])
    BY DEF MInv, FilesUntouched
  <2>3. a \notin touched /\ run.plan[a] = "remove" /\ file[a].there => Untouched(a, Without(a))
    BY <1>1, <2>1, <2>2, RemainingUntouched
  <2> QED BY <1>1, <1>2, <2>2, <2>3
<1>4. FilesUntouched'
  BY <1>1, <1>2, <1>3 DEF MInv, FilesUntouched
<1>5. FoundRecorded'
  BY <1>1, <1>2 DEF MInv, FoundRecorded, Trusted
<1>6. ManifestLast'
  <2>1. kept' \in Seq(Kept')
    BY <1>1 DEF TInv, KeptOK
  <2>2. Len(kept') \in Nat
    BY <2>1, LenProperties
  <2>3. \A x \in Kept' : x.name # "manifest"
    BY <1>1, <1>2, Constants
  <2> QED BY <2>2, <2>3 DEF ManifestLast, Kept
<1> QED BY <1>1, <1>2, <1>4, <1>5, <1>6 DEF MInv, AtRest, JustInstalled, BothRecorded, PlanOfFiles, IdentityKept, Connecting,
        AllPlaced, RecordedNow

LEMMA RemoveManifestM == ASSUME TInv, MInv, RemoveManifest PROVE MInv'
<1>1. /\ TInv' /\ pc = "manifest" /\ DisconnectRun(run) /\ run.op = "disconnect" /\ UNCHANGED <<file, touched, hurt>>
      /\ \/ Stop /\ manifest' = NoManifest
         \/ pc' = "restore" /\ CaptureManifest /\ UNCHANGED <<run, raced>>
  BY RemoveManifestT DEF DisconnectRun, past
<1>2. CASE Stop /\ manifest' = NoManifest
  <2>1. ~Trusted(manifest)'
    BY <1>2, NoManifestOK DEF Trusted
  <2> QED BY <1>1, <1>2, <2>1, RestM DEF Stop, MInv, FilesUntouched
<1>3. CASE pc' = "restore" /\ CaptureManifest /\ UNCHANGED <<run, raced>>
  <2>1. FilesUntouched' /\ ManifestLast'
    BY <1>1, <1>3, CapturedLast DEF MInv, FilesUntouched, ManifestLast
  <2>2. FoundRecorded'
    BY <1>1, <1>3 DEF MInv, FoundRecorded, Trusted
  <2> QED BY <1>1, <1>3, <2>1, <2>2 DEF MInv, AtRest, JustInstalled, BothRecorded, PlanOfFiles, IdentityKept, Connecting,
          AllPlaced, RecordedNow
<1> QED BY <1>1, <1>2, <1>3

LEMMA InitM == ASSUME Init PROVE MInv
<1>1. TInv /\ Kept = {} /\ pc = "idle" /\ hurt = {}
  BY InitT DEF Init
<1>2. ASSUME NEW a \in Artifact PROVE Untouched(a, file[a])
  <2>1. Mode[a] \in Modes
    BY PartsOfMode
  <2>2. CASE \E project \in {"empty", "user", "clone", "script"} : file = [b \in Artifact |-> FirstFile(b, project)]
    <3>1. PICK project \in {"empty", "user", "clone", "script"} : file[a] = FirstFile(a, project)
      BY <2>2
    <3>2. Untouched(a, Absent)
      BY AbsentUntouched
    <3>3. Mode[a] # "whole" => Untouched(a, Holding(1, Nothing, FALSE))
      BY DEF Untouched, Holding
    <3>4. Mode[a] \in {"section", "line"} => Untouched(a, Holding(1, Current, FALSE)) /\ Untouched(a, Holding(0, Current, FALSE))
      BY DEF Untouched, Holding
    <3>5. Mode[a] = "whole" => Untouched(a, Holding(0, Prior, FALSE))
      BY DEF Untouched, Holding
    <3>6. Mode[a] = "keys" => Untouched(a, Holding(0, Keys(0, NoProject, "own"), FALSE))
      <4>1. Keys(0, NoProject, "own") \in AllKeys /\ Keys(0, NoProject, "own")[4] = "own"
        BY Constants, KeysOfParts DEF Identity
      <4> QED BY <4>1 DEF Untouched, Holding
    <3>7. Untouched(a, Packed(a))
      BY <2>1, <3>3, <3>4, <3>5, <3>6 DEF Packed, Modes
    <3> QED BY <3>1, <3>2, <3>3, <3>4, <3>7 DEF FirstFile
  <2>3. CASE file = OlderInstall
    <3>1. Mode[a] = "keys" => file[a].part \in AllKeys /\ file[a].part[4] = "own"
      BY <2>3, OlderFiles, KeysOfParts, Constants DEF Identity
    <3> QED BY <2>3, <3>1, OlderFiles DEF Untouched
  <2> QED BY <2>2, <2>3 DEF Init
<1>3. ASSUME manifest.there, NEW a \in Artifact PROVE Recorded(a, file[a], manifest)
  <2>1. file = OlderInstall /\ manifest = OlderManifest
    BY <1>3, NoManifestOK DEF Init, OlderManifest
  <2>2. /\ manifest.id = MaxRuns + 1 /\ manifest.project = NoProject /\ manifest.records[a].hash = RecordHash(a, file[a])
        /\ file[a].there /\ file[a].user = 0
        /\ Mode[a] \in {"section", "line"} => file[a].part = Current
        /\ Mode[a] = "whole" => file[a].part = Prior
        /\ Mode[a] = "keys" => file[a].part = Keys(MaxRuns + 1, NoProject, "own")
    BY <2>1, OlderRecords, OlderFiles
  <2>3. MaxRuns + 1 # 0 /\ MaxRuns + 1 \in Identity /\ Mode[a] \in Modes /\ (a = Config => Mode[a] = "keys")
    BY Constants DEF Identity, Modes
  <2>4. CASE Mode[a] = "keys"
    <3>1. /\ file[a].part \in AllKeys /\ file[a].part[2] = MaxRuns + 1 /\ file[a].part[3] = NoProject
      BY <2>2, <2>3, <2>4, KeysOfParts
    <3>2. manifest.records[a].hash = file[a].part
      BY <2>2, <2>4, DigestOf DEF RecordHash
    <3> QED BY <2>2, <2>3, <2>4, <3>1, <3>2, RecordedFrom
  <2>5. CASE Mode[a] = "whole"
    <3>1. Digest(a, file[a]) = <<Prior, 0>> /\ manifest.records[a].hash = <<Prior, 0>>
      BY <2>2, <2>5, DigestOf DEF RecordHash
    <3> QED BY <2>2, <2>3, <2>5, <3>1 DEF Recorded, ReleasedRecord
  <2>6. CASE Mode[a] \in {"section", "line"}
    <3>1. Digest(a, file[a]) = Current /\ manifest.records[a].hash = Current
      BY <2>2, <2>6, DigestOf, PartsDiffer DEF RecordHash
    <3> QED BY <2>2, <2>3, <2>6, <3>1 DEF Recorded, ReleasedRecord
  <2>7. CASE Mode[a] \in {"env", "runtime"}
    BY <2>2, <2>3, <2>7 DEF Recorded, ReleasedRecord, Managed
  <2> QED BY <2>3, <2>4, <2>5, <2>6, <2>7 DEF Modes
<1> QED BY <1>1, <1>2, <1>3 DEF MInv, FilesUntouched, AtRest, Trusted, JustInstalled, FoundRecorded, BothRecorded, PlanOfFiles,
        IdentityKept, Connecting, AllPlaced, RecordedNow, ManifestLast

LEMMA NextM == ASSUME TInv, UInv, BInv, MInv, Next PROVE MInv'
<1>1. ASSUME Restored \/ EndConnect PROVE MInv'
  <2>1. CASE EndConnect
    BY <2>1, StopT, EndM DEF EndConnect, disk, past
  <2> QED BY <1>1, <2>1, RestoredM
<1> QED BY <1>1, UserEditM, DieM, PlanConnectM, ObserveM, CheckM, ApplyStepM, WriteManifestM, RestoreStepM, ResolveM,
        PersistConfigM, PersistManifestM, UndoConfigM, UndoManifestM, PlanDisconnectM, RecheckM, RemoveStepM,
        RemoveManifestM DEF Next, Connect, Register, Disconnect

LEMMA IdleM == ASSUME TInv, MInv, UNCHANGED vars PROVE MInv'
<1>1. /\ UNCHANGED <<file, manifest, pc, at, run, kept, edits, runs, faults, original, touched, raced, hurt, unresolved>>
      /\ Kept' = Kept
  BY IdleT DEF vars, disk, process, counts, trace, past
<1>2. FilesUntouched' /\ AtRest' /\ JustInstalled' /\ FoundRecorded'
  BY <1>1 DEF MInv, FilesUntouched, AtRest, JustInstalled, FoundRecorded, Trusted
<1>3. BothRecorded' /\ PlanOfFiles' /\ IdentityKept'
  BY <1>1 DEF MInv, BothRecorded, PlanOfFiles, IdentityKept, Connecting
<1>4. AllPlaced' /\ RecordedNow' /\ ManifestLast'
  BY <1>1 DEF MInv, AllPlaced, RecordedNow, ManifestLast, Placed, Ahead
<1> QED BY <1>2, <1>3, <1>4 DEF MInv

LEMMA StepM ==
  TInv /\ UInv /\ BInv /\ MInv /\ [Next]_vars => (TInv /\ UInv /\ BInv /\ MInv)'
BY StepUB, NextM, IdleM

\* A manifest whose files are all on record is usable.
LEMMA AllRecorded ==
  ASSUME TInv, MInv, Idle, Trusted(manifest), touched = {}
  PROVE  ManifestValid /\ \A a \in Artifact : Recorded(a, file[a], manifest)
<1>1. \A a \in Artifact : Recorded(a, file[a], manifest)
  BY DEF MInv, AtRest, Idle
<1>2. Recorded(Config, file[Config], manifest)
  BY <1>1, Constants
<1>3. file[Config].part # Broken /\ Matches(manifest, file[Config])
  BY <1>2, NotKeys DEF Recorded
<1> QED BY <1>1, <1>3 DEF ManifestValid, Recorded

LEMMA DriftOfUser == ASSUME TInv, MInv PROVE DriftIsOfTheUser
<1> SUFFICES ASSUME Idle, manifest.there, hurt = {}
             PROVE  /\ \A a \in Artifact : Drifted(a) => a \in touched
                    /\ touched = {} => LocallyConnected
  BY DEF DriftIsOfTheUser
<1>1. Trusted(manifest)
  BY DEF Trusted
<1>2. \A a \in Artifact \ touched : Recorded(a, file[a], manifest)
  BY <1>1 DEF MInv, AtRest, Idle
<1>3. \A a \in Artifact : Drifted(a) => a \in touched
  BY <1>2 DEF Recorded, Drifted
<1>4. touched = {} => ManifestValid
  BY <1>1, AllRecorded
<1> QED BY <1>3, <1>4 DEF LocallyConnected

LEMMA CommandAccepted == ASSUME TInv, MInv PROVE NextCommandAccepted
<1> SUFFICES ASSUME Idle, touched = {}, hurt = {} \/ (hurt = {"connect"} /\ ~(manifest.there /\ manifest.id = MaxRuns + 1))
             PROVE  ConnectReady /\ (manifest.there => DisconnectReady)
  BY DEF NextCommandAccepted
<1>1. manifest.there => ManifestValid /\ \A a \in Artifact : Recorded(a, file[a], manifest)
  BY AllRecorded DEF Trusted
<1>2. \A a \in Artifact : Untouched(a, file[a])
  BY DEF MInv, FilesUntouched
<1>3. ASSUME NEW a \in Artifact PROVE ConnectKind(a, file[a], manifest) # "conflict"
  <2>1. Mode[a] \in Modes
    BY PartsOfMode
  <2>2. CASE Mode[a] = "whole"
    <3>1. file[a].there => Released(file[a])
      BY <1>2, <2>2 DEF Untouched, Released
    <3>2. manifest.there => Digest(a, file[a]) = manifest.records[a].hash
      BY <1>1, <2>2 DEF Recorded, Managed
    <3>3. file[a].there => WholeKind(file[a], manifest, a) # "conflict"
      BY <3>1, <3>2 DEF WholeKind
    <3> QED BY <2>2, <3>3 DEF ConnectKind, Managed
  <2>3. CASE Mode[a] \in {"section", "line"}
    BY <1>2, <2>3 DEF Untouched, ConnectKind, Managed
  <2>4. CASE Mode[a] = "keys"
    <3>1. file[a].part # Broken /\ (file[a].part \in AllKeys => file[a].part[4] = "own")
      BY <1>2, <2>4, NotKeys, PartsDiffer DEF Untouched
    <3> QED BY <2>4, <3>1 DEF ConnectKind, Managed, Adoptable
  <2>5. CASE Mode[a] \in {"env", "runtime"}
    BY <2>5 DEF ConnectKind, Managed
  <2> QED BY <2>1, <2>2, <2>3, <2>4, <2>5 DEF Modes
<1>4. ConnectReady
  <2>1. Adoptable(file[Config])
    BY <1>2, Constants, NotKeys, PartsDiffer DEF Untouched, Adoptable
  <2>2. Ready(ConnectPlan)
    BY <1>3 DEF Ready, ConnectPlan
  <2>3. ManifestValid
    BY <1>1 DEF ManifestValid
  <2> QED BY <2>1, <2>2, <2>3 DEF ConnectReady
<1>5. ASSUME manifest.there, NEW a \in Artifact
      PROVE  DisconnectKind(a, file[a], manifest.records[a]) # "conflict"
  <2>1. Recorded(a, file[a], manifest)
    BY <1>1, <1>5
  <2>2. Mode[a] = "whole" => Released(file[a])
    BY <2>1, RecordedParts DEF Released
  <2>3. Mode[a] = "section" => file[a].part = Current
    BY <2>1, RecordedParts
  <2> QED BY <2>1, <2>2, <2>3, PartsOfMode DEF DisconnectKind, Recorded, Managed, Modes
<1>6. manifest.there => DisconnectReady
  <2>1. manifest.there => Ready(DisconnectPlan)
    BY <1>5 DEF Ready, DisconnectPlan
  <2> QED BY <1>1, <2>1 DEF DisconnectReady
<1> QED BY <1>4, <1>6

\* While no command has died or failed to restore, doctor reports only files
\* the user has edited: what the manifest records follows every write, of a
\* registration as of a connect.
THEOREM DriftIsUsers == Spec => []DriftIsOfTheUser
<1>1. Init => TInv /\ UInv /\ BInv /\ MInv
  BY InitUB, InitM
<1>2. TInv /\ UInv /\ BInv /\ MInv => DriftIsOfTheUser
  BY DriftOfUser
<1> QED BY <1>1, <1>2, StepM, PTL DEF Spec

\* A project whose files the user has not edited can always be connected, and
\* disconnected when it has a manifest, after any sequence of commands, failed
\* ones included, and after a first connect that died.
THEOREM CommandsAccepted == Spec => []NextCommandAccepted
<1>1. Init => TInv /\ UInv /\ BInv /\ MInv
  BY InitUB, InitM
<1>2. TInv /\ UInv /\ BInv /\ MInv => NextCommandAccepted
  BY CommandAccepted
<1> QED BY <1>1, <1>2, StepM, PTL DEF Spec

-----------------------------------------------------------------------------
(* What was there at first, action by action.                               *)

Resting == {"idle", "observe", "check", "recheck", "installed", "config"}

LEMMA RestE ==
  ASSUME pc' \in Resting, hurt' = {} => \A a \in OwnParts \ touched' : Faithful(a, file[a], manifest)'
  PROVE  EInv'
BY DEF EInv, FaithfulNow, FaithfulFound, Cleared, FilesFound, Resting

LEMMA KeepE ==
  ASSUME EInv, pc \in Resting, pc' \in Resting, UNCHANGED <<file, manifest, touched, hurt, original>>
  PROVE  EInv'
<1>1. hurt' = {} => \A a \in OwnParts \ touched' : Faithful(a, file[a], manifest)'
  BY DEF EInv, FaithfulNow, Faithful, Resting
<1> QED BY <1>1, RestE

LEMMA UserEditE == ASSUME TInv, EInv, NEW a \in Artifact, UserEdit(a) PROVE EInv'
<1>1. /\ UNCHANGED <<manifest, pc, at, run, hurt, original>>
      /\ \A b \in Artifact \ {a} : file'[b] = file[b]
      /\ touched' = touched \cup {a}
  BY UserEditT DEF process
<1>2. \A b \in Artifact \ touched' : b \in Artifact \ touched /\ file'[b] = file[b]
  BY <1>1
<1>3. \A b \in OwnParts \ touched' : b \in OwnParts \ touched /\ file'[b] = file[b]
  BY <1>2 DEF OwnParts
<1>4. FaithfulNow' /\ FaithfulFound'
  BY <1>1, <1>3 DEF EInv, FaithfulNow, FaithfulFound, Faithful
<1>5. Cleared' /\ FilesFound'
  BY <1>1, <1>2 DEF EInv, Cleared, FilesFound, Ahead
<1> QED BY <1>4, <1>5 DEF EInv

LEMMA DieE == ASSUME TInv, EInv, Die PROVE EInv'
<1>1. /\ pc' = "idle" /\ UNCHANGED <<file, manifest, touched, original>>
      /\ hurt' = IF pc \in Writing THEN hurt \cup {run.op} ELSE hurt
  BY DEF Die, Stop, disk
<1>2. CASE pc \notin Writing
  BY <1>1, <1>2, KeepE DEF TInv, RunOK, Resting
<1>3. CASE pc \in Writing
  <2>1. hurt' # {}
    BY <1>1, <1>3
  <2> QED BY <1>1, <2>1, RestE DEF Resting
<1> QED BY <1>2, <1>3

LEMMA PlanE == ASSUME EInv, PlanConnect \/ Observe \/ PlanDisconnect \/ EndConnect PROVE EInv'
BY KeepE DEF PlanConnect, Observe, PlanDisconnect, EndConnect, Idle, Stop, disk, trace, past, Resting

LEMMA ResolveE == ASSUME EInv, NEW p \in Project, Resolve(p) PROVE EInv'
BY KeepE DEF Resolve, disk, trace, past, Resting

\* A command begins to write.
LEMMA BeginE ==
  ASSUME TInv, BInv, EInv, pc \in {"check", "recheck"}, pc' \in {"apply", "remove"},
         UNCHANGED <<file, manifest, touched, hurt, original>>, run'.old = run.old, run'.before = disk
  PROVE  FaithfulNow' /\ FaithfulFound' /\ FilesFound'
<1>1. run'.before[1] = file /\ run'.old = manifest
  BY DEF disk, BInv, BeforeWriting
<1>2. FaithfulNow'
  BY DEF FaithfulNow
<1>3. FaithfulFound'
  <2> SUFFICES ASSUME hurt = {}, NEW a \in OwnParts \ touched PROVE Faithful(a, file[a], manifest)
    BY <1>1 DEF FaithfulFound, Faithful
  <2> QED BY DEF EInv, FaithfulNow
<1>4. FilesFound'
  BY <1>1 DEF FilesFound, TInv, Stored
<1> QED BY <1>2, <1>3, <1>4

LEMMA CheckE == ASSUME TInv, BInv, EInv, Check PROVE EInv'
<1>1. /\ pc = "check" /\ UNCHANGED <<file, manifest, touched, hurt, original>>
      /\ \/ Stop
         \/ pc' = "apply" /\ ConnectRun(run') /\ run'.old = run.old /\ run'.before = disk
  BY CheckT DEF disk, past
<1>2. CASE Stop
  BY <1>1, <1>2, KeepE DEF Stop, Resting
<1>3. CASE pc' = "apply" /\ ConnectRun(run') /\ run'.old = run.old /\ run'.before = disk
  <2>1. FaithfulNow' /\ FaithfulFound' /\ FilesFound'
    BY <1>1, <1>3, BeginE
  <2>2. Cleared'
    BY <1>3 DEF ConnectRun, Cleared
  <2> QED BY <2>1, <2>2 DEF EInv
<1> QED BY <1>1, <1>2, <1>3

LEMMA RecheckE == ASSUME TInv, BInv, EInv, Recheck PROVE EInv'
<1>1. /\ pc = "recheck" /\ UNCHANGED <<file, manifest, touched, hurt, original>>
      /\ \/ Stop
         \/ /\ pc' = "remove" /\ DisconnectPlan = run.plan /\ UNCHANGED at /\ run'.plan = run.plan
            /\ run'.old = run.old /\ run'.before = disk
  BY RecheckT DEF disk, past
<1>2. CASE Stop
  BY <1>1, <1>2, KeepE DEF Stop, Resting
<1>3. CASE /\ pc' = "remove" /\ DisconnectPlan = run.plan /\ UNCHANGED at /\ run'.plan = run.plan
           /\ run'.old = run.old /\ run'.before = disk
  <2>1. FaithfulNow' /\ FaithfulFound' /\ FilesFound'
    BY <1>1, <1>3, BeginE
  <2>2. run'.before[1] = file /\ run'.old = manifest
    BY <1>1, <1>3 DEF disk, BInv, BeforeWriting
  <2>3. \A a \in Artifact : Ahead(a)'
    <3>1. at = 1
      BY <1>1 DEF TInv, Stored
    <3> QED BY <1>3, <3>1, FirstAhead DEF Ahead
  <2>4. \A a \in Artifact : run'.plan[a] = DisconnectKind(a, file[a], manifest.records[a])
    BY <1>3 DEF DisconnectPlan
  <2>5. Cleared'
    BY <1>1, <1>3, <2>2, <2>3, <2>4 DEF Cleared
  <2> QED BY <2>1, <2>5 DEF EInv
<1> QED BY <1>1, <1>2, <1>3

\* A command that writes goes on.
LEMMA GoOnE ==
  ASSUME EInv, pc \in {"apply", "remove", "manifest", "restore"}, pc' \in {"apply", "remove", "manifest", "restore"},
         UNCHANGED <<run, touched, hurt, original>>
  PROVE  FaithfulNow' /\ FaithfulFound' /\ FilesFound'
BY DEF EInv, FaithfulNow, FaithfulFound, FilesFound, Faithful

LEMMA ApplyStepE == ASSUME TInv, EInv, ApplyStep PROVE EInv'
<1>1. /\ pc = "apply" /\ pc' \in {"apply", "manifest", "restore"} /\ UNCHANGED <<run, touched, hurt, original>>
      /\ run.op = "connect"
  BY ApplyStepT, Moved DEF trace, past, ConnectRun
<1>2. Cleared'
  BY <1>1 DEF Cleared
<1> QED BY <1>1, <1>2, GoOnE DEF EInv

\* Who created what: a connect records what the files and the manifest that
\* it found say.
LEMMA CreatedFaithful ==
  ASSUME TInv, MInv, EInv, pc = "manifest", ConnectRun(run), hurt = {}, NEW a \in OwnParts \ touched
  PROVE  /\ original[a].part = Nothing => Created(a)
         /\ Mode[a] # "keys" /\ original[a].part # Nothing => ~Created(a)
<1> DEFINE f == run.before[1][a]
<1>1. /\ a \in Artifact \ touched /\ Mode[a] \in {"section", "whole", "keys"}
      /\ run.op = "connect" /\ run.plan[a] \in Kinds /\ run.plan[a] # "conflict"
  BY DEF OwnParts, ConnectRun, Kinds
<1>2. run.plan[a] = ConnectKind(a, f, run.old)
  BY <1>1 DEF MInv, PlanOfFiles
<1>3. Faithful(a, f, run.old)
  BY DEF EInv, FaithfulFound
<1> HIDE DEF f
<1>4. CASE Mode[a] = "keys"
  <2>1. run.plan[a] \in {"create", "update"}
    BY <1>1, <1>2, <1>4 DEF ConnectKind, Managed
  <2> QED BY <1>4, <2>1 DEF Created
<1>5. CASE Mode[a] \in {"section", "whole"} /\ run.old.there
  <2>1. Recorded(a, f, run.old)
    BY <1>1, <1>5 DEF MInv, FoundRecorded, Trusted, f
  <2>2. /\ f.there /\ (Mode[a] = "section" => f.part = Current)
    BY <1>1, <2>1, RecordedParts
  <2>3. run.plan[a] \in {"adopt", "upgrade"}
    BY <1>1, <1>2, <1>5, <2>2, PartsDiffer DEF ConnectKind, Managed, WholeKind
  <2> QED BY <1>3, <1>5, <2>3 DEF Created, Faithful
<1>6. CASE Mode[a] \in {"section", "whole"} /\ ~run.old.there
  <2>1. /\ original[a].part = Nothing => f.part = Nothing
        /\ original[a].part # Nothing => f.part # Nothing
    BY <1>3, <1>6 DEF Faithful
  <2>2. f.part = Nothing => run.plan[a] \in {"create", "update"}
    BY <1>1, <1>2, <1>6, PartsDiffer DEF ConnectKind, Managed, WholeKind, Released
  <2>3. f.part # Nothing => run.plan[a] \notin {"create", "update"}
    <3>1. ASSUME f.part # Nothing PROVE f.there
      <4>1. FileOK(a, f)
        BY <1>1 DEF EInv, FilesFound, f
      <4> QED BY <3>1, <4>1, AbsentIsFile DEF FileOK
    <3> QED BY <1>1, <1>2, <1>6, <3>1 DEF ConnectKind, Managed, WholeKind
  <2> QED BY <1>6, <2>1, <2>2, <2>3 DEF Created
<1> QED BY <1>1, <1>4, <1>5, <1>6

\* The manifest of a connect says what was there at first.
LEMMA WriteManifestE == ASSUME TInv, MInv, EInv, WriteManifest PROVE EInv'
<1>1. /\ pc = "manifest" /\ ConnectRun(run) /\ run.op = "connect" /\ UNCHANGED <<file, touched, hurt, original>>
      /\ \/ pc' = "restore" /\ run' = run
         \/ pc' = "installed" /\ manifest'.there /\ manifest'.records = Records
  BY WriteManifestT DEF ConnectRun, trace, past
<1>2. CASE pc' = "restore" /\ run' = run
  <2>1. Cleared'
    BY <1>2 DEF Cleared
  <2> QED BY <1>1, <1>2, <2>1, GoOnE DEF EInv
<1>3. CASE pc' = "installed" /\ manifest'.there /\ manifest'.records = Records
  <2>1. ASSUME hurt = {}, NEW a \in OwnParts \ touched PROVE Faithful(a, file[a], manifest)'
    <3>1. a \in Artifact /\ (manifest'.records[a].created <=> Created(a))
      BY <1>1, <1>3, <2>1, RecordsType DEF OwnParts
    <3>2. /\ original[a].part = Nothing => Created(a)
          /\ Mode[a] # "keys" /\ original[a].part # Nothing => ~Created(a)
      BY <1>1, <2>1, CreatedFaithful
    <3> QED BY <1>1, <1>3, <3>1, <3>2 DEF Faithful
  <2> QED BY <1>1, <1>3, <2>1, RestE DEF Resting
<1> QED BY <1>1, <1>2, <1>3

LEMMA RestoreStepE == ASSUME TInv, EInv, RestoreStep PROVE EInv'
<1>1. /\ pc = "restore" /\ UNCHANGED <<touched, original>>
      /\ \/ pc' = "restore" /\ run' = run /\ hurt' = hurt
         \/ pc' = "idle" /\ hurt' # {}
  BY RestoreStepT DEF Stop
<1>2. CASE pc' = "restore" /\ run' = run /\ hurt' = hurt
  <2>1. Cleared'
    BY <1>2 DEF Cleared
  <2> QED BY <1>1, <1>2, <2>1, GoOnE DEF EInv
<1>3. CASE pc' = "idle" /\ hurt' # {}
  BY <1>3, RestE DEF Resting
<1> QED BY <1>1, <1>2, <1>3

LEMMA RestoredE == ASSUME TInv, BInv, EInv, Restored PROVE EInv'
<1>1. /\ pc = "restore" /\ kept = <<>> /\ pc' = "idle" /\ UNCHANGED <<file, manifest, touched, hurt, original>>
  BY DEF Restored, Stop, disk, past
<1>2. Kept = {} /\ raced \subseteq touched /\ touched \subseteq Artifact
  BY <1>1, KeptNothing DEF TInv, Stored
<1>3. manifest = run.old /\ \A a \in Artifact \ touched : file[a] = run.before[1][a]
  BY <1>1, <1>2 DEF BInv, WhileWriting
<1>4. ASSUME hurt = {}, NEW a \in OwnParts \ touched PROVE Faithful(a, file[a], manifest)'
  <2>1. Faithful(a, run.before[1][a], run.old) /\ file[a] = run.before[1][a]
    BY <1>1, <1>3, <1>4 DEF EInv, FaithfulFound, OwnParts
  <2> QED BY <1>1, <1>3, <2>1 DEF Faithful
<1> QED BY <1>1, <1>4, RestE DEF Resting

\* A registration keeps who created what.
LEMMA PersistConfigE == ASSUME TInv, MInv, EInv, PersistConfig PROVE EInv'
<1> DEFINE m == RegisteredManifest(Registered(file[Config]))
<1>1. /\ pc = "config" /\ InstalledRun(run) /\ UNCHANGED <<manifest, touched, hurt, original>>
      /\ \/ pc' = "idle" /\ file' = file
         \/ pc' \in {"bind", "unconfig"} /\ run'.old = manifest /\ run'.new = m /\ run'.before = disk
  BY PersistConfigT DEF past, Stop
<1>2. run.new = manifest /\ m.there /\ \A a \in Artifact : m.records[a].created = run.new.records[a].created
  BY <1>1, NewManifest DEF MInv, JustInstalled
<1>3. manifest.there
  BY <1>1, <1>2 DEF InstalledRun
<1> HIDE DEF m
<1>4. CASE pc' = "idle" /\ file' = file
  BY <1>1, <1>4, KeepE DEF Resting
<1>5. CASE pc' \in {"bind", "unconfig"} /\ run'.old = manifest /\ run'.new = m /\ run'.before = disk
  <2>1. ASSUME hurt = {}, NEW a \in OwnParts \ touched
        PROVE  Faithful(a, run.before[1][a], run.old)' /\ Faithful(a, file[a], run.new)'
    <3>1. Faithful(a, file[a], manifest) /\ a \in Artifact
      BY <1>1, <2>1 DEF EInv, FaithfulNow, OwnParts
    <3>2. /\ original[a].part = Nothing => manifest.records[a].created
          /\ Mode[a] # "keys" /\ original[a].part # Nothing => ~manifest.records[a].created
      BY <1>3, <3>1 DEF Faithful
    <3>3. m.records[a].created = manifest.records[a].created
      BY <1>2, <3>1
    <3> QED BY <1>1, <1>2, <1>3, <1>5, <3>2, <3>3 DEF Faithful
  <2>2. FaithfulFound'
    BY <1>1, <1>5, <2>1 DEF FaithfulFound
  <2> QED BY <1>5, <2>2 DEF EInv, FaithfulNow, Cleared, FilesFound
<1> QED BY <1>1, <1>4, <1>5

LEMMA PersistManifestE == ASSUME TInv, EInv, PersistManifest PROVE EInv'
<1>1. /\ pc = "bind" /\ UNCHANGED <<file, touched, hurt, original>>
      /\ \/ pc' = "idle" /\ manifest' = run.new
         \/ pc' = "unconfig" /\ run' = run
  BY PersistManifestT DEF past, Stop
<1>2. CASE pc' = "idle" /\ manifest' = run.new
  <2>1. ASSUME hurt = {}, NEW a \in OwnParts \ touched PROVE Faithful(a, file[a], manifest)'
    BY <1>1, <1>2, <2>1 DEF EInv, FaithfulFound, Faithful
  <2> QED BY <1>1, <1>2, <2>1, RestE DEF Resting
<1>3. CASE pc' = "unconfig" /\ run' = run
  BY <1>1, <1>3 DEF EInv, FaithfulNow, FaithfulFound, Faithful, Cleared, FilesFound
<1> QED BY <1>1, <1>2, <1>3

LEMMA UndoConfigE == ASSUME TInv, EInv, UndoConfig PROVE EInv'
<1>1. /\ pc = "unconfig" /\ pc' = "unbind" /\ UNCHANGED <<run, touched, original>> /\ (hurt' = {} => hurt = {})
      /\ run.new.there
  BY UndoConfigT DEF RegisterRun
<1>2. FaithfulFound'
  BY <1>1 DEF EInv, FaithfulFound, Faithful
<1> QED BY <1>1, <1>2 DEF EInv, FaithfulNow, Cleared, FilesFound

LEMMA UndoManifestE == ASSUME TInv, BInv, MInv, EInv, UndoManifest PROVE EInv'
<1>1. /\ pc = "unbind" /\ pc' = "idle" /\ UNCHANGED <<file, touched, original>> /\ RegisterRun(run)
      /\ \/ manifest' = run.old /\ hurt' = hurt
         \/ hurt' = hurt \cup {"register"}
  BY UndoManifestT DEF Stop
<1>2. run.old.there
  BY <1>1 DEF RegisterRun
<1>3. ASSUME hurt' = {}, NEW a \in OwnParts \ touched PROVE Faithful(a, file[a], manifest)'
  <2>1. manifest' = run.old /\ hurt = {}
    BY <1>1, <1>3
  <2>2. Faithful(a, run.before[1][a], run.old)
    BY <1>1, <1>3, <2>1 DEF EInv, FaithfulFound
  <2> QED BY <1>1, <1>2, <2>1, <2>2 DEF Faithful
<1> QED BY <1>1, <1>3, RestE DEF Resting

LEMMA RemoveStepE == ASSUME TInv, EInv, RemoveStep PROVE EInv'
<1> DEFINE a == Registry[at]
<1>1. /\ pc = "remove" /\ DisconnectRun(run) /\ run.op = "disconnect" /\ a \in Artifact
      /\ UNCHANGED <<run, touched, hurt, original>> /\ file \in [Artifact -> Files]
      /\ \/ /\ run.plan[a] # "remove" \/ ~file[a].there
            /\ Onward(at) /\ file' = file
         \/ run.plan[a] = "remove" /\ file[a].there /\ Onward(at) /\ file' = [file EXCEPT ![a] = Without(a)]
         \/ pc' = "restore"
  BY RemoveStepT DEF DisconnectRun, trace, past, TInv, Stored
<1>2. CASE pc' = "restore"
  <2>1. Cleared'
    BY <1>2 DEF Cleared
  <2> QED BY <1>1, <1>2, <2>1, GoOnE DEF EInv
<1>3. CASE /\ Onward(at)
           /\ \/ (run.plan[a] # "remove" \/ ~file[a].there) /\ file' = file
              \/ run.plan[a] = "remove" /\ file[a].there /\ file' = [file EXCEPT ![a] = Without(a)]
  <2>1. /\ pc' \in {"remove", "manifest"}
        /\ \A b \in Artifact : (pc' = "manifest" \/ ~Ahead(b)') => ~Ahead(b) \/ b = a
    BY <1>1, <1>3, Moved
  <2>2. \A b \in Artifact \ {a} : file'[b] = file[b]
    BY <1>1, <1>3
  <2>3. run.plan[a] # "remove" => file'[a] = file[a]
    BY <1>1, <1>3
  <2>4. run.plan[a] = "remove" => file'[a].part = Nothing
    <3>1. ~file[a].there => file[a].part = Nothing
      BY <1>1, AbsentIsFile DEF TInv, Stored, FileOK
    <3>2. file[a].there => Without(a).part = Nothing
      BY <1>1, RemainingFile
    <3> QED BY <1>1, <1>3, <3>1, <3>2
  <2> HIDE DEF a
  <2>5. ASSUME NEW b \in Artifact \ touched
        PROVE  /\ run.plan[b] = DisconnectKind(b, run.before[1][b], run.old.records[b])
               /\ run.plan[b] # "remove" => file'[b] = run.before[1][b]
               /\ run.plan[b] = "remove" /\ (pc' = "manifest" \/ ~Ahead(b)') => file'[b].part = Nothing
    <3>1. /\ run.plan[b] = DisconnectKind(b, run.before[1][b], run.old.records[b])
          /\ run.plan[b] # "remove" => file[b] = run.before[1][b]
          /\ run.plan[b] = "remove" /\ ~Ahead(b) => file[b].part = Nothing
      BY <1>1 DEF EInv, Cleared
    <3> QED BY <2>1, <2>2, <2>3, <2>4, <3>1
  <2>6. Cleared'
    BY <1>1, <2>5 DEF Cleared
  <2> QED BY <1>1, <2>1, <2>6, GoOnE DEF EInv
<1> QED BY <1>1, <1>2, <1>3

\* When disconnect takes the manifest away, the rest has gone before.
LEMMA RemoveManifestE == ASSUME TInv, MInv, EInv, RemoveManifest PROVE EInv'
<1>1. /\ pc = "manifest" /\ DisconnectRun(run) /\ run.op = "disconnect" /\ UNCHANGED <<file, touched, hurt, original>>
      /\ \/ pc' = "idle" /\ manifest' = NoManifest
         \/ pc' = "restore" /\ run' = run
  BY RemoveManifestT DEF DisconnectRun, past, Stop
<1>2. CASE pc' = "idle" /\ manifest' = NoManifest
  <2>1. ASSUME hurt = {}, NEW a \in OwnParts \ touched PROVE Faithful(a, file[a], manifest)'
    <3> DEFINE f == run.before[1][a]
    <3>1. /\ a \in Artifact \ touched /\ Mode[a] \in {"section", "whole", "keys"}
          /\ run.old.there /\ run.plan[a] \in Kinds /\ run.plan[a] # "conflict"
      BY <1>1 DEF DisconnectRun, OwnParts, Kinds
    <3>2. /\ original[a].part = Nothing => run.old.records[a].created
          /\ Mode[a] # "keys" /\ original[a].part # Nothing => ~run.old.records[a].created
      BY <1>1, <2>1, <3>1 DEF EInv, FaithfulFound, Faithful
    <3>3. Recorded(a, f, run.old)
      BY <1>1, <2>1, <3>1 DEF MInv, FoundRecorded, Trusted
    <3>4. f.there /\ (Mode[a] \in {"section", "whole"} => f.part # Nothing)
      BY <3>1, <3>3, RecordedParts, PartsDiffer
    <3>5. /\ run.plan[a] = DisconnectKind(a, f, run.old.records[a])
          /\ run.plan[a] # "remove" => file[a] = f
          /\ run.plan[a] = "remove" => file[a].part = Nothing
      BY <1>1, <3>1 DEF EInv, Cleared
    <3> HIDE DEF f
    <3>6. ASSUME original[a].part = Nothing PROVE file[a].part = Nothing
      <4>1. run.plan[a] = "remove"
        BY <3>1, <3>2, <3>4, <3>5, <3>6 DEF DisconnectKind
      <4> QED BY <3>5, <4>1
    <3>7. ASSUME Mode[a] # "keys", original[a].part # Nothing PROVE file[a].part # Nothing
      <4>1. run.plan[a] = "preserve"
        BY <3>1, <3>2, <3>5, <3>7 DEF DisconnectKind
      <4> QED BY <3>1, <3>4, <3>5, <3>7, <4>1
    <3> QED BY <1>1, <1>2, <3>6, <3>7, NoManifestOK DEF Faithful
  <2> QED BY <1>1, <1>2, <2>1, RestE DEF Resting
<1>3. CASE pc' = "restore" /\ run' = run
  <2>1. Cleared'
    BY <1>3 DEF Cleared
  <2> QED BY <1>1, <1>3, <2>1, GoOnE DEF EInv
<1> QED BY <1>1, <1>2, <1>3

LEMMA InitE == ASSUME Init PROVE EInv
<1>1. pc = "idle"
  BY DEF Init
<1>2. ASSUME NEW a \in OwnParts PROVE Faithful(a, file[a], manifest)
  <2>1. CASE manifest = NoManifest /\ original = file
    BY <2>1, NoManifestOK DEF Faithful
  <2>2. CASE file = OlderInstall /\ manifest = OlderManifest /\ original = [b \in Artifact |-> Absent]
    <3>1. a \in Artifact /\ OlderManifest.there /\ OlderManifest.records[a].created
      BY <1>2, <2>2, OlderRecords DEF OwnParts
    <3>2. original[a].part = Nothing
      BY <2>2, <3>1, AbsentIsFile
    <3> QED BY <2>2, <3>1, <3>2 DEF Faithful
  <2> QED BY <2>1, <2>2 DEF Init, OlderManifest
<1> QED BY <1>1, <1>2 DEF EInv, FaithfulNow, FaithfulFound, Cleared, FilesFound

LEMMA NextE == ASSUME TInv, BInv, MInv, EInv, Next PROVE EInv'
BY UserEditE, DieE, PlanE, CheckE, ApplyStepE, WriteManifestE, RestoreStepE, RestoredE, ResolveE, PersistConfigE,
   PersistManifestE, UndoConfigE, UndoManifestE, RecheckE, RemoveStepE, RemoveManifestE
   DEF Next, Connect, Register, Disconnect

LEMMA IdleE == ASSUME EInv, UNCHANGED vars PROVE EInv'
<1>1. UNCHANGED <<file, manifest, pc, at, run, original, touched, hurt>>
  BY DEF vars, disk, process, trace, past
<1> QED BY <1>1 DEF EInv, FaithfulNow, FaithfulFound, Faithful, Cleared, FilesFound, Ahead

LEMMA StepE ==
  TInv /\ UInv /\ BInv /\ MInv /\ EInv /\ [Next]_vars => (TInv /\ UInv /\ BInv /\ MInv /\ EInv)'
BY StepM, NextE, IdleE

\* Without manifest, nothing of the connector is left in a file that held
\* nothing of it before the first command, and what an earlier connector had
\* put there still is: disconnect takes away what connect created, whichever
\* commands came between.
THEOREM DisconnectIsExact == Spec => []DisconnectExact
<1>1. Init => TInv /\ UInv /\ BInv /\ MInv /\ EInv
  BY InitUB, InitM, InitE
<1>2. EInv => DisconnectExact
  BY DEF EInv, FaithfulNow, Faithful, OwnParts, DisconnectExact, Idle
<1> QED BY <1>1, <1>2, StepE, PTL DEF Spec
=============================================================================
