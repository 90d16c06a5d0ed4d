--------------------------- MODULE ConnectorFiles ---------------------------
(***************************************************************************)
(* The project connector on the file system: `memlayer connect --apply`    *)
(* plans over the files of a project, applies the plan file by file,       *)
(* writes the manifest last and restores what it changed when a step       *)
(* fails; with --register-project it then records the answer of the        *)
(* service in the configuration and the manifest; `disconnect --apply`     *)
(* takes the connector's files away again.  One command runs at a time;    *)
(* the user may edit a file between any two of its steps, a step may fail  *)
(* before or after its effect, and the process may die.                    *)
(*                                                                         *)
(* Every write replaces a whole file by a rename, so a step is one action. *)
(* Directories, file modes, symbolic links and paths are left out.         *)
(***************************************************************************)
EXTENDS Naturals, Sequences, FiniteSets

CONSTANTS
  Registry,    \* the artifacts in the order of the registry
  Mode,        \* the ownership mode of each
  Config,      \* the artifact that holds the configuration
  Project,     \* project ids the service may answer with
  MaxEdits,    \* bound on the edits of the user
  MaxRuns,     \* bound on the commands that are started
  MaxFaults    \* bound on failed steps and deaths

Artifact == {Registry[n] : n \in 1..Len(Registry)}
Modes    == {"section", "line", "whole", "keys", "env", "runtime"}

ASSUME ConnectorAssumption ==
  /\ Registry \in Seq(Artifact)
  /\ \A m, n \in 1..Len(Registry) : Registry[m] = Registry[n] => m = n
  /\ Mode \in [Artifact -> Modes]
  /\ Config \in Artifact /\ \A a \in Artifact : Mode[a] = "keys" <=> a = Config
  /\ "manifest" \notin Artifact
  /\ MaxEdits \in Nat /\ MaxRuns \in Nat /\ MaxFaults \in Nat

NoProject == "none"
Identity  == 0..(MaxRuns + 1)     \* 0: none; each run has its own, the last is an older one

-----------------------------------------------------------------------------
(* Files                                                                    *)

\* What a file holds of the connector: nothing, the released artifact, a
\* prior release of it, something else, no JSON, or the managed keys with an
\* identity, a project and values that are the connector's own, only a part
\* of them, or foreign.
Nothing == <<>>
Current == <<"current">>
Prior   == <<"prior">>
Changed == <<"changed">>
Broken  == <<"broken">>
Keys(i, p, values) == <<"keys", i, p, values>>

AllKeys == {Keys(i, p, v) : i \in Identity, p \in Project \cup {NoProject},
                            v \in {"own", "part", "foreign"}}
Parts   == {Nothing, Current, Prior, Changed, Broken} \cup AllKeys

\* A file holds a version of the user's content, the connector's part, and
\* text of the connector outside that part: the heading of a new AGENTS.md,
\* the last_write_check of the configuration.
Files  == [there : BOOLEAN, user : 0..(MaxEdits + 1), part : Parts, rest : BOOLEAN]
Absent == [there |-> FALSE, user |-> 0, part |-> Nothing, rest |-> FALSE]
Holding(user, part, rest) == [there |-> TRUE, user |-> user, part |-> part, rest |-> rest]

IdOf(f)      == IF f.part \in AllKeys THEN f.part[2] ELSE 0
ProjectOf(f) == IF f.part \in AllKeys THEN f.part[3] ELSE NoProject

Managed(a) == Mode[a] \notin {"env", "runtime"}

\* What a plan compares: a file of the user's is not looked at, and the
\* ignore line counts only when it occurs once.
Digest(a, f) ==
  CASE Mode[a] = "env" -> Nothing
    [] Mode[a] # "env" /\ ~f.there -> <<"absent">>
    [] Mode[a] = "keys" /\ f.there -> f.part
    [] Mode[a] = "section" /\ f.there -> IF f.part = Nothing THEN <<"text", f.user>> ELSE f.part
    [] Mode[a] = "line" /\ f.there -> IF f.part = Current THEN Current ELSE <<"absent">>
    [] OTHER -> <<f.part, f.user>>

\* What a record of the manifest says a file held.
RecordHash(a, f) == IF Mode[a] = "line" THEN Current ELSE Digest(a, f)

Released(f) == f.part \in {Current, Prior} /\ f.user = 0

NoManifest == [there |-> FALSE]
Manifest(id, project, records) ==
  [there |-> TRUE, id |-> id, project |-> project, records |-> records]

VARIABLES
  file,        \* the file of each artifact
  manifest,    \* connection-manifest.json
  bound,       \* projects the service has bound to identities
  pc, at,      \* where the command is, and at which artifact
  run,         \* its local state
  kept,        \* what it captured to restore, in order
  edits, runs, faults,  \* counts, each below its bound
  original,    \* history: the files before the first command
  touched,     \* history: files the user edited
  raced,       \* history: files edited where this command no longer looks
  hurt,        \* history: commands that died or could not restore
  unresolved   \* history: files a restore left as they were

disk    == <<file, manifest>>
process == <<pc, at, run, kept>>
counts  == <<edits, runs, faults>>
past    == <<original, touched, hurt, unresolved>>
trace   == <<past, raced>>
vars    == <<disk, bound, process, counts, trace>>

-----------------------------------------------------------------------------
(* Plans                                                                    *)

\* The manifest is usable only with the configuration it was written with.
Matches(m, f) ==
  /\ m.id # 0 /\ m.id = IdOf(f)
  /\ m.project = ProjectOf(f)

\* A record names a hash that was released.
ReleasedRecord(a, hash) ==
  /\ Mode[a] = "whole" => hash \in {<<Current, 0>>, <<Prior, 0>>}
  /\ Mode[a] \in {"section", "line"} => hash = Current

ManifestValid ==
  manifest.there =>
    /\ \A a \in Artifact : ReleasedRecord(a, manifest.records[a].hash)
    /\ file[Config].part # Broken
    /\ Matches(manifest, file[Config])

\* Mutant: a configuration with an identity is somebody else's.
AdoptableUnclaimed(f) == f.part # Broken /\ IdOf(f) = 0 /\ (f.part \in AllKeys => f.part[4] = "own")

\* A configuration without a manifest may be adopted.
Adoptable(f) ==
  /\ f.part # Broken
  /\ f.part \in AllKeys => \/ f.part[4] = "own"
                           \/ f.part[4] = "part" /\ f.part[3] = NoProject

WholeKind(f, m, a) ==
  IF m.there /\ Digest(a, f) # m.records[a].hash THEN "conflict"
  ELSE IF ~Released(f) THEN "conflict"
  ELSE IF f.part = Current THEN "adopt" ELSE "upgrade"

ConnectKind(a, f, m) ==
  CASE ~Managed(a) -> IF f.there THEN "preserve" ELSE "create"
    [] Managed(a) /\ ~f.there -> "create"
    [] Mode[a] = "whole" /\ f.there -> WholeKind(f, m, a)
    [] Mode[a] \in {"section", "line"} /\ f.there ->
         IF f.part = Nothing THEN "update" ELSE IF f.part = Current THEN "adopt" ELSE "conflict"
    [] OTHER -> IF f.part = Broken \/ (~m.there /\ ~Adoptable(f)) THEN "conflict" ELSE "update"

ConnectPlan == [a \in Artifact |-> ConnectKind(a, file[a], manifest)]

DisconnectKind(a, f, r) ==
  IF Mode[a] \in {"env", "runtime", "line"} \/ ~r.created \/ ~f.there THEN "preserve"
  ELSE IF /\ Digest(a, f) = r.hash
          /\ Mode[a] = "whole" => Released(f)
          /\ Mode[a] = "section" => f.part = Current
       THEN "remove" ELSE "conflict"

DisconnectPlan == [a \in Artifact |-> DisconnectKind(a, file[a], manifest.records[a])]

Ready(plan) == \A a \in Artifact : plan[a] # "conflict"

ConnectReady    == ManifestValid /\ Ready(ConnectPlan) /\ (~manifest.there => Adoptable(file[Config]))
DisconnectReady == manifest.there /\ ManifestValid /\ Ready(DisconnectPlan)

\* What doctor reports of the files.
Drifted(a) == ~file[a].there \/ (Managed(a) /\ Digest(a, file[a]) # manifest.records[a].hash)

LocallyConnected == manifest.there /\ ManifestValid /\ \A a \in Artifact : ~Drifted(a)

-----------------------------------------------------------------------------
(* The user, failures and deaths                                            *)

Idle == pc = "idle"

NoRun == [op |-> "none"]

EditsOf(a) ==
  LET f == file[a]
      u == edits + 2
  IN {Absent} \cup
     CASE Mode[a] = "whole"   -> {Holding(u, Changed, FALSE)}
       [] Mode[a] = "section" -> {Holding(u, f.part, f.rest), Holding(f.user, Changed, f.rest)}
       [] Mode[a] = "line"    -> {Holding(u, Nothing, FALSE), Holding(f.user, Changed, FALSE)}
       [] Mode[a] = "keys"    -> {Holding(u, f.part, f.rest), Holding(f.user, Broken, FALSE),
                                  Holding(f.user, Keys(IdOf(f), ProjectOf(f), "foreign"), f.rest)}
       [] OTHER               -> {Holding(u, Nothing, FALSE)}

\* An edit is too late for the command once it has compared the files, and
\* before that while its plan is made and not yet fingerprinted.
Unseen(a) == ~Idle /\ pc \notin {"check", "recheck"}

UserEdit(a) ==
  /\ edits < MaxEdits
  /\ file' \in {[file EXCEPT ![a] = f] : f \in EditsOf(a) \ {file[a]}}
  /\ edits' = edits + 1
  /\ touched' = touched \cup {a}
  /\ raced' = IF Unseen(a) THEN raced \cup {a} ELSE raced
  /\ UNCHANGED <<manifest, bound, process, runs, faults, original, hurt, unresolved>>

\* A step of a command works, fails without effect, or fails when the effect
\* is there: the rename is done and syncing the directory is not.
Outcomes == {"ok", "failed", "late"}
MayFail(o)  == o # "ok" => faults < MaxFaults
Count(o)    == faults' = IF o = "ok" THEN faults ELSE faults + 1
Effect(o)   == o \in {"ok", "late"}

Stop == pc' = "idle" /\ at' = 1 /\ run' = NoRun /\ kept' = <<>> /\ raced' = {}

\* Where a command that dies leaves the files half changed.
Writing == {"apply", "remove", "manifest", "restore", "bind", "unconfig", "unbind"}

Die ==
  /\ ~Idle /\ faults < MaxFaults
  /\ Stop
  /\ faults' = faults + 1
  /\ hurt' = IF pc \in Writing THEN hurt \cup {run.op} ELSE hurt
  /\ UNCHANGED <<disk, bound, edits, runs, original, touched, unresolved>>

-----------------------------------------------------------------------------
(* connect                                                                  *)

\* A plan with a conflict ends the command, and so does a plan alone.
PlanConnect ==
  /\ Idle /\ runs < MaxRuns
  /\ ConnectReady
  /\ runs' = runs + 1
  /\ pc' = "observe"
  /\ run' = [op |-> "connect", plan |-> ConnectPlan, old |-> manifest,
             id |-> IF manifest.there THEN manifest.id ELSE runs + 1,
             project |-> IF manifest.there THEN manifest.project ELSE ProjectOf(file[Config]),
             seen |-> NoRun, before |-> disk]
  /\ unresolved' = {}
  /\ UNCHANGED <<disk, bound, at, kept, edits, faults, original, touched, raced, hurt>>

Observed == [a \in Artifact |-> Digest(a, file[a])]

Observe ==
  /\ pc = "observe"
  /\ run' = [run EXCEPT !.seen = Observed]
  /\ pc' = "check"
  /\ UNCHANGED <<disk, bound, at, kept, counts, trace>>

\* Mutant: the plan is applied whatever became of the files.
CheckNothing ==
  /\ pc = "check"
  /\ pc' = "apply" /\ run' = [run EXCEPT !.before = disk]
  /\ UNCHANGED <<disk, bound, at, kept, counts, trace>>

\* A plan whose files have changed since is refused.
Check ==
  /\ pc = "check"
  /\ IF Observed = run.seen
     THEN pc' = "apply" /\ run' = [run EXCEPT !.before = disk] /\ UNCHANGED <<at, kept, raced>>
     ELSE Stop
  /\ UNCHANGED <<disk, bound, counts, past>>

\* Mutant: only files that exist are captured.
CaptureExisting(a) ==
  IF file[a].there
  THEN kept' = Append(kept, [name |-> a, was |-> file[a]])
  ELSE UNCHANGED kept

Capture(a) == kept' = Append(kept, [name |-> a, was |-> file[a]])

\* Only files of the user's and of the run time are looked at again.
Skipped(a) ==
  IF Mode[a] = "env" THEN file[a].there ELSE run.plan[a] \in {"preserve", "adopt"}

\* The section or the configuration changed into something that cannot be merged.
Unmergeable(a) ==
  \/ Mode[a] = "section" /\ file[a].part # Nothing
  \/ Mode[a] = "keys" /\ file[a].part = Broken

MergeKeys(f) == Holding(f.user, Keys(run.id, ProjectOf(f), "own"), f.rest)

Installed(a) ==
  LET f == file[a] IN
  CASE Mode[a] = "section" -> Holding(f.user, Current, IF f.there THEN f.rest ELSE TRUE)
    [] Mode[a] = "line"    -> Holding(f.user, IF f.part = Nothing THEN Current ELSE Changed, FALSE)
    [] Mode[a] = "keys"    -> MergeKeys(f)
    [] Mode[a] = "whole"   -> Holding(0, Current, FALSE)
    [] Mode[a] = "env"     -> Holding(0, Nothing, FALSE)
    [] OTHER               -> IF f.there THEN f ELSE Holding(0, Current, FALSE)

\* Mutant: the last artifact is not the end.
OnwardForever(n) == pc' = pc /\ at' = n + 1

Onward(n) == IF n < Len(Registry) THEN pc' = pc /\ at' = n + 1 ELSE pc' = "manifest" /\ at' = 1

Restore == pc' = "restore" /\ at' = 1

ApplyStep ==
  /\ pc = "apply"
  /\ LET a == Registry[at] IN
     IF Skipped(a)
     THEN Onward(at) /\ UNCHANGED <<disk, kept, faults>>
     ELSE \E o \in Outcomes :
            /\ MayFail(o) /\ Capture(a) /\ UNCHANGED manifest
            /\ IF Unmergeable(a)
               THEN o = "ok" /\ UNCHANGED <<file, faults>> /\ Restore
               ELSE /\ Count(o)
                    /\ file' = IF Effect(o) THEN [file EXCEPT ![a] = Installed(a)] ELSE file
                    /\ IF o = "ok" THEN Onward(at) ELSE Restore
  /\ UNCHANGED <<bound, run, edits, runs, trace>>

\* Mutant: what an upgrade or an adoption finds counts as the connector's.
CreatedAlways(a) == run.plan[a] # "preserve"

\* A record keeps what an earlier manifest said when the file was adopted or
\* upgraded.
Created(a) ==
  IF run.plan[a] \in {"adopt", "upgrade"}
  THEN run.old.there /\ run.old.records[a].created
  ELSE run.plan[a] \in {"create", "update"}

Records == [a \in Artifact |-> [created |-> Created(a), hash |-> RecordHash(a, file[a])]]

\* Files that must be read to be recorded.
Recordable ==
  \A a \in Artifact :
    /\ Mode[a] \notin {"env", "line"} => file[a].there
    /\ Mode[a] = "section" => file[a].part # Nothing
    /\ Mode[a] = "keys" => file[a].part # Broken

\* The manifest is captured last; what it was is in the plan.
CaptureManifest == kept' = Append(kept, [name |-> "manifest", was |-> Absent])

WriteManifest ==
  /\ pc = "manifest" /\ run.op = "connect"
  /\ IF ~Recordable
     THEN UNCHANGED <<manifest, kept, run, faults>> /\ Restore
     ELSE \E o \in Outcomes :
            LET m == Manifest(run.id, run.project, Records) IN
            /\ MayFail(o) /\ Count(o)
            /\ manifest' = IF Effect(o) THEN m ELSE manifest
            /\ IF o = "ok"
               THEN /\ pc' = "installed" /\ at' = 1 /\ kept' = <<>>
                    /\ run' = [op |-> "register", id |-> run.id, new |-> m]
               ELSE CaptureManifest /\ Restore /\ UNCHANGED run
  /\ UNCHANGED <<file, bound, edits, runs, trace>>

-----------------------------------------------------------------------------
(* Restoring, for connect and disconnect                                    *)

\* The captured files are written back, the last one first.
RestoreStep ==
  /\ pc = "restore" /\ kept # <<>>
  /\ \E o \in Outcomes :
       LET x == kept[Len(kept)] IN
       /\ MayFail(o) /\ Count(o)
       /\ IF ~Effect(o) THEN UNCHANGED disk
          ELSE IF x.name = "manifest" THEN manifest' = run.old /\ UNCHANGED file
          ELSE file' = [file EXCEPT ![x.name] = x.was] /\ UNCHANGED manifest
       /\ IF o = "ok"
          THEN /\ kept' = SubSeq(kept, 1, Len(kept) - 1)
               /\ UNCHANGED <<pc, at, run, raced, hurt, unresolved>>
          ELSE \* the exception leaves the loop and names this file alone
               /\ Stop
               /\ hurt' = hurt \cup {run.op}
               /\ unresolved' = {kept[n].name : n \in 1..(Len(kept) - (IF o = "late" THEN 1 ELSE 0))}
  /\ UNCHANGED <<bound, edits, runs, original, touched>>

Restored ==
  /\ pc = "restore" /\ kept = <<>>
  /\ Stop
  /\ UNCHANGED <<disk, bound, counts, past>>

-----------------------------------------------------------------------------
(* connect --register-project                                               *)

\* Without the option, or when the service refuses or does not answer, the
\* installation stays as it is.
EndConnect ==
  /\ pc = "installed"
  /\ Stop
  /\ UNCHANGED <<disk, bound, counts, past>>

\* The service answers with the project it has bound to the identity.
Resolve(p) ==
  /\ pc = "installed"
  /\ bound[run.id] \in {NoProject, p}
  /\ bound' = [bound EXCEPT ![run.id] = p]
  /\ pc' = "config"
  /\ run' = [op |-> "register", id |-> run.id, new |-> run.new, project |-> p]
  /\ UNCHANGED <<disk, at, kept, counts, trace>>

Registered(f) ==
  Holding(f.user, Keys(run.id, run.project, IF f.part \in AllKeys THEN f.part[4] ELSE "part"), TRUE)

\* Mutant: the record keeps the hash of the configuration as installed.
RegisteredManifestOldHash(f) == Manifest(run.new.id, run.project, run.new.records)

RegisteredManifest(f) ==
  Manifest(run.new.id, run.project, [run.new.records EXCEPT ![Config].hash = f.part])

\* The manifest, the files and what is written are read before the first write.
PersistConfig ==
  /\ pc = "config"
  /\ LET f == Registered(file[Config]) IN
     IF file[Config].part = Broken
     THEN Stop /\ UNCHANGED <<file, faults>>
     ELSE \E o \in Outcomes :
            /\ MayFail(o) /\ Count(o)
            /\ file' = IF Effect(o) THEN [file EXCEPT ![Config] = f] ELSE file
            /\ run' = [op |-> "register", old |-> manifest, new |-> RegisteredManifest(f), before |-> disk]
            /\ pc' = IF o = "ok" THEN "bind" ELSE "unconfig"
            /\ Capture(Config) /\ raced' = {} /\ UNCHANGED at
  /\ UNCHANGED <<manifest, bound, edits, runs, past>>

PersistManifest ==
  /\ pc = "bind"
  /\ \E o \in Outcomes :
       /\ MayFail(o) /\ Count(o)
       /\ manifest' = IF Effect(o) THEN run.new ELSE manifest
       /\ IF o = "ok" THEN Stop
          ELSE pc' = "unconfig" /\ UNCHANGED <<at, run, kept, raced>>
  /\ UNCHANGED <<file, bound, edits, runs, past>>

\* Both files are written back, the second one also when the first one fails,
\* and what fails is named.
UndoConfig ==
  /\ pc = "unconfig"
  /\ \E o \in Outcomes :
       /\ MayFail(o) /\ Count(o)
       /\ file' = IF Effect(o) THEN [file EXCEPT ![Config] = kept[1].was] ELSE file
       /\ hurt' = IF Effect(o) THEN hurt ELSE hurt \cup {"register"}
       /\ unresolved' = IF Effect(o) THEN {} ELSE {Config}
  /\ pc' = "unbind"
  /\ UNCHANGED <<manifest, bound, at, run, kept, edits, runs, original, touched, raced>>

UndoManifest ==
  /\ pc = "unbind"
  /\ \E o \in Outcomes :
       /\ MayFail(o) /\ Count(o)
       /\ manifest' = IF Effect(o) THEN run.old ELSE manifest
       /\ hurt' = IF Effect(o) THEN hurt ELSE hurt \cup {"register"}
       /\ unresolved' = IF Effect(o) THEN unresolved ELSE unresolved \cup {"manifest"}
  /\ Stop
  /\ UNCHANGED <<file, bound, edits, runs, original, touched>>

-----------------------------------------------------------------------------
(* disconnect                                                               *)

PlanDisconnect ==
  /\ Idle /\ runs < MaxRuns
  /\ DisconnectReady
  /\ runs' = runs + 1
  /\ pc' = "recheck"
  /\ run' = [op |-> "disconnect", plan |-> DisconnectPlan, old |-> manifest, before |-> disk]
  /\ unresolved' = {}
  /\ UNCHANGED <<disk, bound, at, kept, edits, faults, original, touched, raced, hurt>>

Recheck ==
  /\ pc = "recheck"
  /\ IF DisconnectReady /\ DisconnectPlan = run.plan
     THEN pc' = "remove" /\ run' = [run EXCEPT !.before = disk] /\ UNCHANGED <<at, kept, raced>>
     ELSE Stop
  /\ UNCHANGED <<disk, bound, counts, past>>

\* What is left of a file: a section or keys are cut out of it.
Without(a) ==
  LET f == file[a] IN
  CASE Mode[a] = "section" -> [f EXCEPT !.part = Nothing]
    [] Mode[a] = "keys" -> IF f.user = 0 /\ ~f.rest THEN Absent ELSE [f EXCEPT !.part = Nothing]
    [] OTHER -> Absent

RemoveStep ==
  /\ pc = "remove"
  /\ LET a == Registry[at] IN
     IF run.plan[a] # "remove" \/ ~file[a].there
     THEN Onward(at) /\ UNCHANGED <<disk, kept, faults>>
     ELSE \E o \in Outcomes :
            /\ MayFail(o) /\ Capture(a) /\ UNCHANGED manifest
            /\ IF \/ Mode[a] = "section" /\ file[a].part # run.old.records[a].hash
                  \/ Mode[a] = "keys" /\ file[a].part = Broken
               THEN o = "ok" /\ UNCHANGED <<file, faults>> /\ Restore
               ELSE /\ Count(o)
                    /\ file' = IF Effect(o) THEN [file EXCEPT ![a] = Without(a)] ELSE file
                    /\ IF o = "ok" THEN Onward(at) ELSE Restore
  /\ UNCHANGED <<bound, run, edits, runs, trace>>

RemoveManifest ==
  /\ pc = "manifest" /\ run.op = "disconnect"
  /\ \E o \in Outcomes :
       /\ MayFail(o) /\ Count(o)
       /\ manifest' = IF Effect(o) THEN NoManifest ELSE manifest
       /\ IF o = "ok" THEN Stop
          ELSE CaptureManifest /\ Restore /\ UNCHANGED <<run, raced>>
  /\ UNCHANGED <<file, bound, edits, runs, past>>

-----------------------------------------------------------------------------

\* What the install script of the prior release leaves in a project with an
\* AGENTS.md of its own: the pack, the section, and a configuration without
\* identity.
Packed(a) ==
  CASE Mode[a] = "section" -> Holding(1, Current, FALSE)
    [] Mode[a] = "whole"   -> Holding(0, Prior, FALSE)
    [] Mode[a] = "keys"    -> Holding(0, Keys(0, NoProject, "own"), FALSE)
    [] Mode[a] = "line"    -> Holding(0, Current, FALSE)
    [] OTHER               -> Holding(1, Nothing, FALSE)

\* What a project may hold: nothing, files of the user's, a clone of a
\* connected project, or the pack of the install script.
FirstFile(a, project) ==
  CASE project = "empty" -> Absent
    [] project = "user" -> IF Mode[a] = "whole" THEN Absent ELSE Holding(1, Nothing, FALSE)
    [] project = "clone" ->
         IF Mode[a] \in {"section", "line"} THEN Holding(1, Current, FALSE) ELSE Absent
    [] project = "script" -> Packed(a)

\* An installation of the prior release of the connector.
OlderInstall ==
  [a \in Artifact |->
     CASE Mode[a] = "section" -> Holding(0, Current, TRUE)
       [] Mode[a] = "line"    -> Holding(0, Current, FALSE)
       [] Mode[a] = "whole"   -> Holding(0, Prior, FALSE)
       [] Mode[a] = "keys"    -> Holding(0, Keys(MaxRuns + 1, NoProject, "own"), FALSE)
       [] OTHER               -> Holding(0, Nothing, FALSE)]

Init ==
  /\ \/ /\ \E project \in {"empty", "user", "clone", "script"} :
                file = [a \in Artifact |-> FirstFile(a, project)]
        /\ manifest = NoManifest
        /\ original = file
     \/ /\ file = OlderInstall
        /\ manifest = Manifest(MaxRuns + 1, NoProject,
                               [a \in Artifact |-> [created |-> TRUE, hash |-> RecordHash(a, file[a])]])
        /\ original = [a \in Artifact |-> Absent]
  /\ bound = [i \in Identity |-> NoProject]
  /\ pc = "idle" /\ at = 1 /\ run = NoRun /\ kept = <<>>
  /\ edits = 0 /\ runs = 0 /\ faults = 0
  /\ touched = {} /\ raced = {} /\ hurt = {} /\ unresolved = {}

Connect    == PlanConnect \/ Observe \/ Check \/ ApplyStep \/ WriteManifest
Register   == \/ EndConnect \/ PersistConfig \/ PersistManifest \/ UndoConfig \/ UndoManifest
              \/ \E p \in Project : Resolve(p)
Disconnect == PlanDisconnect \/ Recheck \/ RemoveStep \/ RemoveManifest
Next       == \/ Connect \/ Register \/ Disconnect \/ RestoreStep \/ Restored \/ Die
              \/ \E a \in Artifact : UserEdit(a)

Spec == Init /\ [][Next]_vars

-----------------------------------------------------------------------------
(* Properties                                                               *)

Hash == {<<"absent">>, Current} \cup Parts \cup {<<"text", u>> : u \in 0..(MaxEdits + 1)}
          \cup (Parts \X (0..(MaxEdits + 1)))
Kinds == {"create", "adopt", "upgrade", "update", "preserve", "remove"}

\* Files, manifest and local state of the command are of their kinds.
TypeOK ==
  /\ file \in [Artifact -> Files]
  /\ manifest.there =>
       /\ manifest.id \in Identity /\ manifest.project \in Project \cup {NoProject}
       /\ \A a \in Artifact : manifest.records[a].created \in BOOLEAN /\ manifest.records[a].hash \in Hash
  /\ at \in 1..Len(Registry)
  /\ pc \in Writing \cup {"idle", "observe", "check", "recheck", "installed", "config"}
  /\ \A n \in 1..Len(kept) : kept[n].name \in Artifact \cup {"manifest"} /\ kept[n].was \in Files
  /\ run # NoRun => run.op \in {"connect", "register", "disconnect"}
  /\ run # NoRun /\ run.op \in {"connect", "disconnect"} => \A a \in Artifact : run.plan[a] \in Kinds
  /\ touched \subseteq Artifact /\ raced \subseteq Artifact /\ unresolved \subseteq Artifact \cup {"manifest"}

\* No step of a command changes the user's content of a file, or a file the
\* user has made his own, unless the user edited it after the command had
\* compared it: an edit between the plan's fingerprint and the comparison
\* ends the command, and failures restore what was there.
UserContentKept ==
  [][edits' = edits =>
       \A a \in Artifact \ raced :
         /\ file'[a].user = file[a].user
         /\ file[a].part \in {Changed, Broken} => file'[a].part = file[a].part]_vars

\* A command that ends by restoring leaves every file and the manifest as it
\* found them when it began to write, whichever step failed and whether or
\* not the failed step had its effect; only later edits are lost.
RollbackExact ==
  [][pc' = "idle" /\ pc \in {"restore", "unbind"} /\ faults' = faults /\ unresolved = {} =>
       /\ \A a \in Artifact \ raced : file'[a] = run.before[1][a]
       /\ manifest' = run.before[2]]_vars

\* A project whose files the user has not edited since can always be
\* connected again, and disconnected when it has a manifest: after any
\* sequence of commands, failed ones included, and after one that died or
\* could not restore while it connected the project for the first time.
NextCommandAccepted ==
  Idle /\ touched = {}
  /\ (hurt = {} \/ (hurt = {"connect"} /\ ~(manifest.there /\ manifest.id = MaxRuns + 1))) =>
    /\ ConnectReady
    /\ manifest.there => DisconnectReady

\* While no command died or failed to restore, doctor reports only files the
\* user edited: the records of the manifest follow every write.
DriftIsOfTheUser ==
  Idle /\ manifest.there /\ hurt = {} =>
    /\ \A a \in Artifact : Drifted(a) => a \in touched
    /\ touched = {} => LocallyConnected

\* Without manifest, nothing of the connector is left in a file that held
\* nothing of it at first, but for the ignore line and run-time files, and
\* what was there of an earlier connector still is.
DisconnectExact ==
  Idle /\ ~manifest.there /\ hurt = {} =>
    \A a \in {x \in Artifact : Mode[x] \in {"section", "whole", "keys"}} \ touched :
      /\ original[a].part = Nothing => file[a].part = Nothing
      /\ Mode[a] # "keys" /\ original[a].part # Nothing => file[a].part # Nothing
=============================================================================
