---------------------------- MODULE PythonSetup ----------------------------
(***************************************************************************)
(* The set-up of a project's Python environment:                           *)
(* python-setup/controllers/PythonSetupEnvironmentSetup.ts with the        *)
(* collaborators of pythonSetupDeps.ts and PythonSetupCliClient.ts.        *)
(*                                                                         *)
(* One guarded run at a time takes the folder of the active project, asks  *)
(* for compute and preset, runs the CLI, which writes the project's        *)
(* pyproject.toml, and points the editor at the environment. The user may  *)
(* switch the project at any time. A run whose pins conflict leaves a      *)
(* notification that offers to put the files back and to try once more; it *)
(* can be clicked much later. What is attached changes in PythonDrift.     *)
(*                                                                         *)
(* A file's content is the number of the run that wrote it last, 0 for     *)
(* what the user had. Messages, telemetry other than the outcome of a run, *)
(* and edits by the user between two runs are left out.                    *)
(***************************************************************************)
EXTENDS Naturals, Sequences, FiniteSets

CONSTANTS
    Folders,    \* folders that may be opened, by every name they have
    Real,       \* the symlink-resolved name of a folder
    Root,       \* the uv workspace root of a real folder, or the folder
    Computes,   \* what can be attached; each has its own environment
    MaxRuns     \* bound: runs of the CLI

ASSUME ConstantsAssumption ==
    /\ MaxRuns \in Nat
    /\ Real \in [Folders -> Folders] /\ \A f \in Folders : Real[Real[f]] = Real[f]
    /\ Root \in [Folders -> Folders]
    /\ \A f \in Folders : Real[Root[f]] = Root[f] /\ Root[Root[f]] = Root[f]

CONSTANT None   \* no folder, no compute, nothing saved

ASSUME NoneAssumption == None \notin Folders \cup Computes

VARIABLES
    active,     \* the folder of the active project
    compute,    \* the attached compute
    pc,         \* where the run in flight is; "idle" when there is none
    cwd,        \* the folder it captured
    chosen,     \* the compute it is for
    pins,       \* whether it merges the runtime's pins (presetToFlags)
    undo,       \* the notification it was started from, and
    todo,       \* the files that are still to be put back
    runFolders, \* the folder of each run of the CLI, as it was opened
    outcome,    \* what was reported of each of them
    content,    \* the run that wrote each project file last
    toasts,     \* open notifications with a Retry button
    readyRoots,
    adopted,    \* the run whose interpreter each folder uses
    saved       \* setupState in the workspace's storage

run == <<pc, cwd, chosen, pins, undo, todo>>
user == <<active, compute>>
disk == <<content, adopted>>
session == <<runFolders, outcome, toasts, readyRoots>>
setupVars == <<user, run, session, disk, saved>>

Current == Len(runFolders)
Files(f) == {Real[f], Root[Real[f]]}

\* trustedUvWorkspaceRoot ?? cwd: a member's files are those of its workspace.
Scope(f) == IF Root[Real[f]] # Real[f] THEN Root[Real[f]] ELSE f

\* containsPath, which compares text.
Inside(scope, f) == f = scope \/ (Real[f] = f /\ Root[f] = scope)

NoToast == [run |-> 0, cwd |-> None, compute |-> None, before |-> <<>>]

SetupInit ==
    /\ active \in Folders /\ compute \in Computes \cup {None}
    /\ pc = "idle" /\ cwd = None /\ chosen = None /\ pins = FALSE
    /\ undo = NoToast /\ todo = {}
    /\ runFolders = <<>> /\ outcome = <<>>
    /\ toasts = {} /\ readyRoots = {}
    /\ content = [f \in Folders |-> 0]
    /\ adopted = [f \in Folders |-> 0]
    /\ saved \in [env : Computes, root : Folders, run : {0}] \cup {None}

------------------------------------------------------------------------------
(* setup() *)

SwitchProject == /\ active' \in Folders \ {active}
                 /\ UNCHANGED <<compute, run, session, disk, saved>>

Goto(label) == pc' = label /\ UNCHANGED <<cwd, chosen, pins, undo, todo>>

\* The finally of runGuarded; what the run knew is forgotten.
Release == /\ pc' = "idle" /\ cwd' = None /\ chosen' = None /\ pins' = FALSE
           /\ undo' = NoToast /\ todo' = {}

\* A click while a run is in flight joins it.
Setup ==
    /\ pc = "idle" /\ Current < MaxRuns
    /\ pc' = "visible" /\ cwd' = active
    /\ UNCHANGED <<chosen, pins, undo, todo, user, session, disk, saved>>

Visible ==
    /\ pc = "visible"
    /\ Goto("compute") \/ Release
    /\ UNCHANGED <<user, session, disk, saved>>

\* The attached compute, or else what the user picks, if anything.
ResolveCompute ==
    /\ pc = "compute"
    /\ \/ /\ chosen' \in (IF compute = None THEN Computes ELSE {compute})
          /\ pc' = "preset" /\ UNCHANGED <<cwd, pins, undo, todo>>
       \/ Release
    /\ UNCHANGED <<user, session, disk, saved>>

PickPreset ==
    /\ pc = "preset"
    /\ \/ pins' \in BOOLEAN /\ pc' = "start" /\ UNCHANGED <<cwd, chosen, undo, todo>>
       \/ Release
    /\ UNCHANGED <<user, session, disk, saved>>

------------------------------------------------------------------------------
(* runResolved() *)

\* Once the folder's real path is known the run is on record and its attempt
\* is reported.
Start ==
    /\ pc = "start"
    /\ runFolders' = Append(runFolders, cwd)
    /\ outcome' = Append(outcome, "open")
    /\ Goto("cli")
    /\ UNCHANGED <<user, toasts, readyRoots, disk, saved>>

Report(o) == outcome' = [outcome EXCEPT ![Current] = o]

Writes == content' = [f \in Folders |-> IF f \in Files(cwd) THEN Current ELSE content[f]]

\* The CLI is cancelled, cannot be spawned or fails; it may have written.
CliFails ==
    /\ pc = "cli"
    /\ Writes \/ UNCHANGED content
    /\ \E o \in {"cancelled", "not_started", "failed"} : Report(o)
    /\ Release
    /\ UNCHANGED <<user, runFolders, toasts, readyRoots, adopted, saved>>

\* The pins conflict, after they were merged, with backups to restore from; a
\* backup of the workspace's file is a must.
CliConflict ==
    /\ pc = "cli" /\ pins
    /\ Writes
    /\ \E F \in SUBSET Files(cwd) :
         /\ Root[Real[cwd]] \in F
         /\ toasts' = toasts \cup
              {[run |-> Current, cwd |-> cwd, compute |-> chosen,
                before |-> [f \in F |-> content[f]]]}
    /\ Report("failed")
    /\ Release
    /\ UNCHANGED <<user, runFolders, readyRoots, adopted, saved>>

CliReady ==
    /\ pc = "cli"
    /\ Writes
    /\ Goto("adopt")
    /\ UNCHANGED <<user, session, adopted, saved>>

\* The folder is gone, or the Python extension refuses the interpreter.
AdoptFails ==
    /\ pc = "adopt"
    /\ Report("failed")
    /\ Release
    /\ UNCHANGED <<user, runFolders, toasts, readyRoots, disk, saved>>

\* Mutant of Adopt: the interpreter of the project that is active by now.
AdoptLive == adopted' = [adopted EXCEPT ![active] = Current]

Adopt == adopted' = [adopted EXCEPT ![cwd] = Current]

\* Mutant of SaveFails: the throw is not reported.
SaveFailsSilently ==
    /\ pc = "adopt"
    /\ Adopt
    /\ Release
    /\ UNCHANGED <<user, session, content, saved>>

\* Adopted, but the state cannot be saved.
SaveFails ==
    /\ pc = "adopt"
    /\ Adopt
    /\ Report("failed")
    /\ Release
    /\ UNCHANGED <<user, runFolders, toasts, readyRoots, content, saved>>

Complete ==
    /\ pc = "adopt"
    /\ Adopt
    /\ saved' = [env |-> chosen, root |-> cwd, run |-> Current]
    /\ readyRoots' = readyRoots \cup {cwd}
    /\ Report("ok")
    /\ Release
    /\ UNCHANGED <<user, runFolders, toasts, content>>

------------------------------------------------------------------------------
(* The Retry button of a conflict. *)

\* Mutant of Stale: only later runs of the project itself count.
StaleOwn(t) == \E k \in (t.run + 1) .. Current :
                 \E f \in {runFolders[k], Real[runFolders[k]]} : f = t.cwd

Stale(t) == \E k \in (t.run + 1) .. Current :
              \E f \in {runFolders[k], Real[runFolders[k]]} : Inside(Scope(t.cwd), f)

\* Nothing comes of it when the project is ready, a later run was there or a
\* run is in flight; a notification can be used once.
Retry(t) ==
    /\ toasts' = toasts \ {t}
    /\ IF t.cwd \in readyRoots \/ Stale(t) \/ pc # "idle"
       THEN UNCHANGED run
       ELSE /\ Current < MaxRuns
            /\ pc' = "check" /\ cwd' = t.cwd /\ chosen' = t.compute
            /\ pins' = FALSE /\ undo' = t /\ todo' = DOMAIN t.before
    /\ UNCHANGED <<user, runFolders, outcome, readyRoots, disk, saved>>

\* Every backup has to be readable before the first file is put back.
CheckBackups ==
    /\ pc = "check"
    /\ Goto("restore") \/ Release
    /\ UNCHANGED <<user, session, disk, saved>>

\* The project's own file first, the workspace's last.
Restore ==
    /\ pc = "restore"
    /\ \E f \in todo :
         /\ Root[f] = f => todo = {f}
         /\ content' = [content EXCEPT ![f] = undo.before[f]]
         /\ todo' = todo \ {f}
    /\ pc' = IF todo' = {} THEN "start" ELSE "restore"
    /\ UNCHANGED <<cwd, chosen, pins, undo, user, session, adopted, saved>>

RestoreFails ==
    /\ pc = "restore"
    /\ Release
    /\ UNCHANGED <<user, session, disk, saved>>

------------------------------------------------------------------------------

\* The steps of the run in flight.
Work == \/ Visible \/ ResolveCompute \/ PickPreset
        \/ Start \/ CliFails \/ CliConflict \/ CliReady
        \/ AdoptFails \/ SaveFails \/ Complete
        \/ CheckBackups \/ Restore \/ RestoreFails

SetupNext == \/ SwitchProject
             \/ Setup \/ Work \/ (\E t \in toasts : Retry(t))

SetupSpec == SetupInit /\ [][SetupNext]_setupVars

------------------------------------------------------------------------------
(* Properties. *)

Outcomes == {"open", "cancelled", "not_started", "failed", "ok"}

Toasts == [run : 1 .. Current, cwd : Folders, compute : Computes,
           before : UNION {[F -> 0 .. Current] : F \in SUBSET Folders}]

TypeOK ==
    /\ active \in Folders
    /\ pc \in {"idle", "visible", "compute", "preset", "start", "cli", "adopt",
               "check", "restore"}
    /\ compute \in Computes \cup {None} /\ chosen \in Computes \cup {None}
    /\ cwd \in Folders \cup {None} /\ pins \in BOOLEAN
    /\ undo \in Toasts \cup {NoToast} /\ todo \in SUBSET Folders
    /\ runFolders \in Seq(Folders) /\ outcome \in Seq(Outcomes)
    /\ toasts \in SUBSET Toasts /\ readyRoots \in SUBSET Folders
    /\ content \in [Folders -> 0 .. Current]
    /\ adopted \in [Folders -> 0 .. Current]
    /\ saved \in [env : Computes, root : Folders, run : 0 .. Current] \cup {None}

\* Every run of the CLI that is over has exactly one outcome reported, the one
\* in flight has none yet; a Retry belongs to a run that failed, and only the
\* files it has a backup of are put back. A Retry under way always has a file
\* left whose turn it is, so the guard that every click joins is not held by one
\* that cannot go on. (runResolved, runGuarded, buildConflictRecoveryActions.)
PythonSetupInv ==
    /\ TypeOK
    /\ Len(outcome) = Current /\ Current <= MaxRuns
    /\ \A k \in 1 .. Current :
         outcome[k] = "open" <=> k = Current /\ pc \in {"cli", "adopt"}
    /\ cwd = None <=> pc = "idle"
    /\ \A t \in toasts : outcome[t.run] = "failed" /\ runFolders[t.run] = t.cwd
    /\ todo # {} => todo \subseteq DOMAIN undo.before /\ cwd = undo.cwd
    /\ pc \in {"check", "restore"} => \E f \in todo : Root[f] = f => todo = {f}
    /\ pc \in {"visible", "compute", "preset", "start", "check", "restore"} =>
         Current < MaxRuns

\* A folder uses the interpreter of a run in that very folder, whichever
\* project was active when the run ended; a folder that counts as ready and
\* the folder of the saved state have had a run that ended well there. And a
\* ready folder that is opened under one name only, as is its workspace, still
\* has the project files of that run or a later one: no old Retry has undone
\* it. (runResolved, readyRoots, buildConflictRecoveryActions.)
OnlyName(f) == \A g \in Folders : Real[g] = Real[f] => g = f

ReadyMeansAdopted ==
    /\ \A f \in Folders : adopted[f] # 0 => runFolders[adopted[f]] = f
    /\ \A f \in readyRoots :
         /\ adopted[f] # 0
         /\ \E k \in 1 .. adopted[f] : outcome[k] = "ok" /\ runFolders[k] = f
         /\ OnlyName(f) /\ OnlyName(Root[f]) => \A g \in Files(f) : content[g] >= adopted[f]
    /\ saved # None /\ saved.run # 0 =>
         /\ outcome[saved.run] = "ok" /\ runFolders[saved.run] = saved.root
         /\ \A k \in (saved.run + 1) .. Current : outcome[k] # "ok"

\* A Retry that goes ahead takes nothing back but what its own conflict wrote,
\* as long as the paths it compares are real: the conflict's folder was opened
\* by its real path, or is a member, whose workspace the CLI names by it.
RetryUndoesOnlyItsRun ==
    [][\A f \in Folders : content'[f] < content[f] =>
         /\ undo # NoToast
         /\ (Scope(undo.cwd) = Real[Scope(undo.cwd)] => content[f] = undo.run)]_setupVars
============================================================================
