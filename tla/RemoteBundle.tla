---------------------------- MODULE RemoteBundle ----------------------------
(***************************************************************************)
(* The bundle in a Remote SSH session: ConfigModel with a pinned auth      *)
(* provider, BundleValidateModel and BundleRemoteStateModel with the       *)
(* credential guard, the file events of RemoteBundleManager, and           *)
(* BundleCommands.  The processes, each between two awaits, are            *)
(*   "resolve"  resolveTarget, serialised by resolveTargetMutex            *)
(*   "select"   setTarget by the user                                      *)
(*   "pin"      pinAuthProvider on connect                                 *)
(*   "deploy"   the deploy command                                         *)
(* validateLine is the line of calls to BundleValidateModel's cache,       *)
(* remoteLine that of BundleRemoteStateModel's mutex; the head of a line   *)
(* runs, at the place validateAt or remoteAt, for validateFor or remoteFor.*)
(* A call may be for a process or for "watch" (a file event), "pull" (the  *)
(* head of refreshLine, the line of BundleCommands.refreshStateMutex) or   *)
(* "bg" (a process that Promise.all no longer keeps waiting).  A cached    *)
(* state is known by the target it was read for.  ConfigModel's merged     *)
(* cache and its readers are left out.                                     *)
(***************************************************************************)
EXTENDS MutexOps, Naturals, FiniteSets

CONSTANTS
  Targets, NoTarget,
  DefaultTarget,  \* the target that the bundle marks as its default
  Files,          \* bound: the contents the bundle files may have
  MaxEdits,       \* bound: changes of the bundle files
  MaxCommands     \* bound: target changes and deployments by the user

\* What the files say of a target: "session" when its host is the session's or
\* it has none, "refused" when it is another host or one that cannot be resolved.
Kinds == {"session", "refused", "absent"}

ASSUME RemoteBundleAssumption ==
  /\ NoTarget \notin Targets /\ DefaultTarget \in Targets
  /\ Files \subseteq [Targets -> Kinds]
  /\ MaxEdits \in Nat /\ MaxCommands \in Nat

Committers == {"resolve", "select"}
Procs == Committers \cup {"pin", "deploy"}
Callers == Procs \cup {"watch", "pull", "bg"}

Null == "null"
Empty == "empty"

VARIABLES
  disk,          \* the bundle files
  bundleTargets, \* the targets in BundleFileSet.bundleDataCache
  fileEvents,    \* changes that the watcher has not reported yet
  target, saved, \* ConfigModel._target, and the target in StateStorage
  modelTarget,   \* target of the bundle models
  auth,          \* the bundle models have the provider and the guard
  pinned,
  configsMutex,
  validate, dirty, validateLine, validateAt, validateFor,
  remoteState, remoteLine, remoteAt, remoteFor, refreshLine,
  resolves,      \* a resolveTarget waits in resolveTargetMutex
  pc,
  seen,          \* the targets read by resolveTargetLocked
  want,          \* the argument of each commitTarget
  changed,       \* validateChanged of each refreshAuthenticatedState
  failed,        \* history: the last validate run failed
  edits, commands

fileVars == <<disk, bundleTargets, fileEvents, edits>>
targetVars == <<target, saved, want, seen>>
modelVars == <<modelTarget, auth>>
validateVars == <<validate, dirty, validateLine, validateAt, validateFor, changed, failed>>
remoteVars == <<remoteState, remoteLine, remoteAt, remoteFor>>
vars == <<fileVars, targetVars, modelVars, pinned, configsMutex, validateVars, remoteVars,
          refreshLine, resolves, pc, commands>>

TargetOrNone == Targets \cup {NoTarget}
Places == {"idle", "saved", "check", "switch", "store", "refresh", "clear", "clearing",
           "pinning", "apply", "applyValidate", "applyRemote", "mode", "modal", "cli", "pull"}

TypeOK ==
  /\ disk \in Files /\ bundleTargets \subseteq Targets
  /\ fileEvents \in 0..MaxEdits /\ edits \in 0..MaxEdits
  /\ {target, saved, modelTarget, validateFor, remoteFor} \subseteq TargetOrNone
  /\ {auth, pinned, dirty, resolves, failed} \subseteq BOOLEAN
  /\ {validate, remoteState} \subseteq Targets \cup {Null, Empty}
  /\ configsMutex \in Seq(Procs) /\ validateLine \in Seq(Callers) /\ remoteLine \in Seq(Callers)
  /\ refreshLine \in Seq({"event", "deploy"})
  /\ {validateAt, remoteAt} \subseteq {"line", "guard", "cli"}
  /\ pc \in [Procs -> Places]
  /\ seen \subseteq Targets /\ want \in [Committers -> TargetOrNone]
  /\ changed \subseteq Procs
  /\ commands \in 0..MaxCommands

Defined(d) == {t \in Targets : d[t] # "absent"}

\* The extension starts: init() resolves the target while the session connects.
Init ==
  /\ disk \in Files /\ bundleTargets = Defined(disk)
  /\ fileEvents = 0 /\ edits = 0
  /\ target = NoTarget /\ saved \in TargetOrNone
  /\ modelTarget = NoTarget /\ auth = FALSE /\ pinned = FALSE
  /\ configsMutex = Free
  /\ validate = Null /\ dirty = TRUE /\ validateLine = Free
  /\ validateAt = "line" /\ validateFor = NoTarget
  /\ remoteState = Null /\ remoteLine = Free /\ remoteAt = "line" /\ remoteFor = NoTarget
  /\ refreshLine = Free /\ resolves = TRUE
  /\ pc = [p \in Procs |-> "idle"]
  /\ seen = {} /\ want = [p \in Committers |-> NoTarget]
  /\ changed = {} /\ failed = FALSE /\ commands = 0

\* Those for whom refreshAuthenticatedState listens to validate.
Listeners == {p \in Procs : pc[p] = "applyValidate"}

Goto(p, place) == pc' = [pc EXCEPT ![p] = place]

-----------------------------------------------------------------------------
\* Files

\* The bundle files change on disk (external).
editFiles ==
  /\ edits < MaxEdits
  /\ \E d \in Files : d # disk /\ disk' = d
  /\ edits' = edits + 1 /\ fileEvents' = fileEvents + 1
  /\ UNCHANGED <<bundleTargets, targetVars, modelVars, pinned, configsMutex, validateVars, remoteVars,
                 refreshLine, resolves, pc, commands>>

\* Mutant: only a bundle with a target is resolved again.
fileEventWithTarget ==
  /\ fileEvents > 0
  /\ fileEvents' = fileEvents - 1
  /\ bundleTargets' = Defined(disk)
  /\ resolves' = (resolves \/ target # NoTarget)
  /\ dirty' = TRUE /\ validateLine' = Wait(validateLine, "watch")
  /\ UNCHANGED <<disk, edits, targetVars, modelVars, pinned, configsMutex, validate, validateAt, validateFor,
                 changed, failed, remoteVars, refreshLine, pc, commands>>

\* BundleWatcher reports a change: the merged bundle is read again, validate is
\* refreshed, and the target is resolved, by RemoteBundleManager if there is one
\* and by ConfigModel if there is none.
fileEvent ==
  /\ fileEvents > 0
  /\ fileEvents' = fileEvents - 1
  /\ bundleTargets' = Defined(disk)
  /\ resolves' = TRUE
  /\ dirty' = TRUE /\ validateLine' = Wait(validateLine, "watch")
  /\ UNCHANGED <<disk, edits, targetVars, modelVars, pinned, configsMutex, validate, validateAt, validateFor,
                 changed, failed, remoteVars, refreshLine, pc, commands>>

-----------------------------------------------------------------------------
\* ConfigModel: resolving and committing a target

\* resolveTargetLocked, to the first wait for configsMutex.
resolveTarget ==
  /\ resolves /\ pc["resolve"] = "idle"
  /\ resolves' = FALSE
  /\ IF target \in bundleTargets
       THEN UNCHANGED <<seen, configsMutex, pc>>
       ELSE /\ seen' = bundleTargets
            /\ configsMutex' = Wait(configsMutex, "resolve")
            /\ Goto("resolve", "saved")
  /\ UNCHANGED <<fileVars, target, saved, want, modelVars, pinned, validateVars, remoteVars, refreshLine, commands>>

Resolution ==
  IF saved \in seen THEN saved
  ELSE IF DefaultTarget \in bundleTargets THEN DefaultTarget ELSE NoTarget

\* The saved target or the default one is chosen; commitTarget has nothing to do
\* for the current target, and does not look up the absence of one.
resolveSaved ==
  /\ pc["resolve"] = "saved" /\ Holds(configsMutex, "resolve")
  /\ want' = [want EXCEPT !["resolve"] = IF Resolution = target THEN NoTarget ELSE Resolution]
  /\ seen' = {}
  /\ IF Resolution = target THEN configsMutex' = Signal(configsMutex) /\ Goto("resolve", "idle")
     ELSE IF Resolution = NoTarget
       THEN configsMutex' = Wait(Signal(configsMutex), "resolve") /\ Goto("resolve", "switch")
       ELSE configsMutex' = Signal(configsMutex) /\ Goto("resolve", "check")
  /\ UNCHANGED <<fileVars, target, saved, modelVars, pinned, validateVars, remoteVars,
                 refreshLine, resolves, commands>>

\* setTarget(t) by the user; nothing happens for the current target.
setTarget ==
  /\ pc["select"] = "idle" /\ commands < MaxCommands
  /\ \E t \in bundleTargets \ {target} : want' = [want EXCEPT !["select"] = t]
  /\ Goto("select", "check")
  /\ commands' = commands + 1
  /\ UNCHANGED <<fileVars, target, saved, seen, modelVars, pinned, configsMutex, validateVars, remoteVars,
                 refreshLine, resolves>>

\* commitTarget throws when the bundle does not define the target.
checkTarget(p) ==
  /\ pc[p] = "check"
  /\ IF want[p] \in bundleTargets
       THEN configsMutex' = Wait(configsMutex, p) /\ Goto(p, "switch")
       ELSE configsMutex' = configsMutex /\ Goto(p, "idle")
  /\ want' = IF want[p] \in bundleTargets THEN want ELSE [want EXCEPT ![p] = NoTarget]
  /\ UNCHANGED <<fileVars, target, saved, seen, modelVars, pinned, validateVars, remoteVars, refreshLine, resolves, commands>>

\* Mutant: the remote state is reset and not refreshed.
setModelsResetOnly(p, t) ==
  /\ modelTarget' = t
  /\ IF t = modelTarget THEN UNCHANGED <<auth, validate, remoteState, changed>>
     ELSE /\ auth' = FALSE
          /\ validate' = Empty /\ remoteState' = Empty
          /\ changed' = IF validate # Empty THEN Listeners ELSE changed
  /\ dirty' = TRUE /\ validateLine' = Wait(validateLine, p)
  /\ resolves' = TRUE
  /\ Goto(p, "refresh")
  /\ UNCHANGED <<remoteLine, validateAt, validateFor, failed, remoteAt, remoteFor>>

\* The models get the target and forget state, provider and guard, if it differs;
\* then both are refreshed. The pre-validate model fires, so a resolve follows.
setModels(p, t) ==
  /\ modelTarget' = t
  /\ IF t = modelTarget THEN UNCHANGED <<auth, validate, remoteState, changed>>
     ELSE /\ auth' = FALSE
          /\ validate' = Empty /\ remoteState' = Empty
          /\ changed' = IF validate # Empty THEN Listeners ELSE changed
  /\ dirty' = TRUE /\ validateLine' = Wait(validateLine, p)
  /\ remoteLine' = Wait(remoteLine, p)
  /\ resolves' = TRUE
  /\ Goto(p, "refresh")
  /\ UNCHANGED <<validateAt, validateFor, failed, remoteAt, remoteFor>>

\* commitTarget holds configsMutex: _target changes, and is stored unless it is
\* a resolution to none.
switchTarget(p) ==
  /\ pc[p] = "switch" /\ Holds(configsMutex, p)
  /\ target' = want[p]
  /\ IF want[p] = NoTarget
       THEN saved' = saved /\ setModels(p, want[p])
       ELSE /\ saved' = want[p] /\ Goto(p, "store")
            /\ UNCHANGED <<modelVars, validateVars, remoteVars, resolves>>
  /\ UNCHANGED <<fileVars, want, seen, pinned, configsMutex, refreshLine, commands>>

\* The storage has the target: the models follow.
storedTarget(p) ==
  /\ pc[p] = "store"
  /\ setModels(p, want[p])
  /\ want' = [want EXCEPT ![p] = NoTarget]
  /\ UNCHANGED <<fileVars, target, saved, seen, pinned, configsMutex, refreshLine, commands>>

\* Waits for nothing: no refresh of p is under way.
Refreshed(p) == \A i \in DOMAIN validateLine : validateLine[i] # p
Pulled(p) == \A i \in DOMAIN remoteLine : remoteLine[i] # p

\* Mutant: the credentials are dropped with the old target whether or not they
\* are pinned.
targetSwitchedClears(p) ==
  /\ pc[p] = "refresh" /\ Refreshed(p) /\ Pulled(p)
  /\ configsMutex' = Wait(Signal(configsMutex), p)
  /\ Goto(p, "clear")
  /\ UNCHANGED <<fileVars, targetVars, modelVars, pinned, validateVars, remoteVars, refreshLine, resolves, commands>>

\* Mutant: the provider is applied again within configsMutex.
targetSwitchedHolds(p) ==
  /\ pc[p] = "refresh" /\ Refreshed(p) /\ Pulled(p)
  /\ configsMutex' = Wait(configsMutex, p)
  /\ Goto(p, IF pinned THEN "apply" ELSE "clear")
  /\ UNCHANGED <<fileVars, targetVars, modelVars, pinned, validateVars, remoteVars, refreshLine, resolves, commands>>

\* Promise.all has settled; configsMutex is released and queued for again, for
\* the pinned provider or for none.
targetSwitched(p) ==
  /\ pc[p] = "refresh" /\ Refreshed(p) /\ Pulled(p)
  /\ configsMutex' = Wait(Signal(configsMutex), p)
  /\ Goto(p, IF pinned THEN "apply" ELSE "clear")
  /\ UNCHANGED <<fileVars, targetVars, modelVars, pinned, validateVars, remoteVars, refreshLine, resolves, commands>>

\* setAuthProvider(undefined) refreshes both models within configsMutex.
clearAuth(p) ==
  /\ pc[p] = "clear" /\ Holds(configsMutex, p)
  /\ auth' = FALSE
  /\ dirty' = TRUE /\ validateLine' = Wait(validateLine, p)
  /\ remoteLine' = Wait(remoteLine, p)
  /\ Goto(p, "clearing")
  /\ UNCHANGED <<fileVars, targetVars, modelTarget, pinned, configsMutex, validate, validateAt, validateFor,
                 changed, failed, remoteState, remoteAt, remoteFor, refreshLine, resolves, commands>>

authCleared(p) ==
  /\ pc[p] = "clearing" /\ Refreshed(p) /\ Pulled(p)
  /\ configsMutex' = Signal(configsMutex)
  /\ Goto(p, "idle")
  /\ UNCHANGED <<fileVars, targetVars, modelVars, pinned, validateVars, remoteVars, refreshLine, resolves, commands>>

-----------------------------------------------------------------------------
\* ConfigModel: the pinned provider

\* pinAuthProvider, when the session connects; pinning it again changes nothing.
pinAuthProvider ==
  /\ ~pinned /\ pinned' = TRUE
  /\ Goto("pin", "pinning")
  /\ UNCHANGED <<fileVars, targetVars, modelVars, configsMutex, validateVars, remoteVars,
                 refreshLine, resolves, commands>>

\* setSessionHost has refreshed the pre-validate model, which may have changed.
reapply ==
  /\ pc["pin"] = "pinning"
  /\ configsMutex' = Wait(configsMutex, "pin")
  /\ Goto("pin", "apply")
  /\ resolves' = TRUE
  /\ UNCHANGED <<fileVars, targetVars, modelVars, pinned, validateVars, remoteVars, refreshLine, commands>>

\* reapplyPinnedAuthProvider hands out provider and guard and releases the mutex;
\* refreshAuthenticatedState listens for a change of validate and refreshes it.
applyAuth(p) ==
  /\ pc[p] = "apply" /\ Holds(configsMutex, p)
  /\ auth' = TRUE
  /\ configsMutex' = Signal(configsMutex)
  /\ dirty' = TRUE /\ validateLine' = Wait(validateLine, p)
  /\ Goto(p, "applyValidate")
  /\ UNCHANGED <<fileVars, targetVars, modelTarget, pinned, validate, validateAt, validateFor, failed, changed,
                 remoteVars, refreshLine, resolves, commands>>

\* The remote state is refreshed only if no change of validate makes
\* BundleCommands pull it.
validateApplied(p) ==
  /\ pc[p] = "applyValidate" /\ Refreshed(p)
  /\ IF p \in changed THEN Goto(p, "idle") /\ UNCHANGED remoteLine
     ELSE Goto(p, "applyRemote") /\ remoteLine' = Wait(remoteLine, p)
  /\ changed' = changed \ {p}
  /\ UNCHANGED <<fileVars, targetVars, modelVars, pinned, configsMutex, validate, dirty, validateLine, validateAt,
                 validateFor, failed, remoteState, remoteAt, remoteFor, refreshLine, resolves, commands>>

remoteApplied(p) ==
  /\ pc[p] = "applyRemote" /\ Pulled(p)
  /\ Goto(p, "idle")
  /\ UNCHANGED <<fileVars, targetVars, modelVars, pinned, configsMutex, validateVars, remoteVars,
                 refreshLine, resolves, commands>>

-----------------------------------------------------------------------------
\* BundleValidateModel

\* A failed call of a commit rejects its Promise.all: its other call goes on alone.
Detached(line, p) ==
  IF p \in Committers /\ pc[p] = "refresh"
    THEN [i \in DOMAIN line |-> IF line[i] = p THEN "bg" ELSE line[i]]
    ELSE line

\* Mutant: pulls are not serialised.
PullAtOnce(who, line) ==
  /\ refreshLine' = Wait(refreshLine, who)
  /\ remoteLine' = Wait(line, "pull")

\* BundleCommands.refreshRemoteState: the head of refreshLine has a call of the model.
Pull(who, line) ==
  /\ refreshLine' = Wait(refreshLine, who)
  /\ remoteLine' = IF Locked(refreshLine) THEN line ELSE Wait(line, "pull")

\* The call at the head of the line returns v. A change is announced to
\* refreshAuthenticatedState and to BundleCommands, which pulls the remote state.
\* The finally blocks of the cache are taken together here.
validateReturns(v, announce) ==
  /\ validate' = v
  /\ dirty' = FALSE /\ validateLine' = Signal(validateLine) /\ validateAt' = "line"
  /\ validateFor' = NoTarget
  /\ IF announce THEN changed' = Listeners /\ Pull("event", remoteLine)
     ELSE UNCHANGED <<changed, refreshLine, remoteLine>>
  /\ UNCHANGED <<fileVars, targetVars, modelVars, pinned, configsMutex, remoteState, remoteAt, remoteFor,
                 resolves, pc, commands>>

\* readState returns nothing without a target and credentials, and the cached
\* state when it is clean.
validateWithoutCli ==
  /\ Locked(validateLine) /\ validateAt = "line"
  /\ IF dirty \/ validate = Null
       THEN (modelTarget = NoTarget \/ ~auth) /\ validateReturns(Empty, validate # Empty)
       ELSE validateReturns(validate, FALSE)
  /\ UNCHANGED failed

\* readState takes its snapshot and calls the guard.
validateGuard ==
  /\ Locked(validateLine) /\ validateAt = "line" /\ (dirty \/ validate = Null)
  /\ modelTarget # NoTarget /\ auth
  /\ validateFor' = modelTarget /\ validateAt' = "guard"
  /\ UNCHANGED <<fileVars, targetVars, modelVars, pinned, configsMutex, validate, dirty, validateLine, changed,
                 failed, remoteVars, refreshLine, resolves, pc, commands>>

\* authGuard: getTargetWorkspaceHost reads the files, not the cache.
authGuard(t) == disk[t] = "session"

\* Mutant: the CLI gets the target of the moment.
validateAllowedRereads ==
  /\ validateAt = "guard" /\ authGuard(validateFor) /\ modelTarget # NoTarget
  /\ validateAt' = "cli" /\ validateFor' = modelTarget
  /\ UNCHANGED <<fileVars, targetVars, modelVars, pinned, configsMutex, validate, dirty, validateLine, changed,
                 failed, remoteVars, refreshLine, resolves, pc, commands>>

\* The guard allows the target: the CLI starts.
validateAllowed ==
  /\ validateAt = "guard" /\ authGuard(validateFor)
  /\ validateAt' = "cli"
  /\ UNCHANGED <<fileVars, targetVars, modelVars, pinned, configsMutex, validate, dirty, validateLine, validateFor,
                 changed, failed, remoteVars, refreshLine, resolves, pc, commands>>

validateRefused ==
  /\ validateAt = "guard" /\ ~authGuard(validateFor)
  /\ validateReturns(Empty, validate # Empty)
  /\ UNCHANGED failed

\* The CLI answers; after an edit the answer for the same target may differ.
validateAnswers ==
  /\ validateAt = "cli"
  /\ \E announce \in BOOLEAN :
       /\ validate # validateFor => announce
       /\ announce => validate # validateFor \/ edits > 0
       /\ validateReturns(validateFor, announce)
  /\ failed' = FALSE

\* The CLI fails: the cache keeps what it has.
validateFails ==
  /\ validateAt = "cli"
  /\ dirty' = FALSE /\ validateLine' = Signal(validateLine) /\ validateAt' = "line"
  /\ validateFor' = NoTarget /\ failed' = TRUE
  /\ remoteLine' = Detached(remoteLine, Head(validateLine))
  /\ UNCHANGED <<fileVars, targetVars, modelVars, pinned, configsMutex, validate, changed,
                 remoteState, remoteAt, remoteFor, refreshLine, resolves, pc, commands>>

-----------------------------------------------------------------------------
\* BundleRemoteStateModel and BundleCommands

\* A pull at the head of the line is over and the next one in refreshLine begins;
\* a deploy that waited for it ends.
pullReturns(line) ==
  /\ refreshLine' = Signal(refreshLine)
  /\ remoteLine' = IF Locked(Signal(refreshLine)) THEN Wait(line, "pull") ELSE line
  /\ pc' = IF Holds(refreshLine, "deploy") THEN [pc EXCEPT !["deploy"] = "idle"] ELSE pc

\* The call at the head of the line, not a deploy, returns; c is set to the state v.
refreshReturns(v) ==
  /\ remoteState' = v
  /\ remoteAt' = "line" /\ remoteFor' = NoTarget
  /\ IF Holds(remoteLine, "pull") THEN pullReturns(Signal(remoteLine))
     ELSE remoteLine' = Signal(remoteLine) /\ UNCHANGED <<refreshLine, pc>>
  /\ UNCHANGED <<fileVars, targetVars, modelVars, pinned, configsMutex, validateVars, resolves, commands>>

Refreshing == Locked(remoteLine) /\ ~Holds(remoteLine, "deploy")

\* readState returns nothing without a target and credentials.
remoteWithoutCli ==
  /\ Refreshing /\ remoteAt = "line" /\ (modelTarget = NoTarget \/ ~auth)
  /\ refreshReturns(Empty)

\* readState or deploy takes its snapshot and calls the guard.
remoteGuard ==
  /\ Locked(remoteLine) /\ remoteAt = "line"
  /\ modelTarget # NoTarget /\ auth
  /\ remoteFor' = modelTarget /\ remoteAt' = "guard"
  /\ UNCHANGED <<fileVars, targetVars, modelVars, pinned, configsMutex, validateVars, remoteState, remoteLine,
                 refreshLine, resolves, pc, commands>>

remoteAllowed ==
  /\ remoteAt = "guard" /\ authGuard(remoteFor)
  /\ remoteAt' = "cli"
  /\ UNCHANGED <<fileVars, targetVars, modelVars, pinned, configsMutex, validateVars, remoteState, remoteLine,
                 remoteFor, refreshLine, resolves, pc, commands>>

remoteRefused ==
  /\ Refreshing /\ remoteAt = "guard" /\ ~authGuard(remoteFor)
  /\ refreshReturns(Empty)

remoteAnswers ==
  /\ Refreshing /\ remoteAt = "cli"
  /\ refreshReturns(remoteFor)

\* The CLI fails: the state stays; a commit that waited goes on.
remoteFails ==
  /\ Refreshing /\ remoteAt = "cli"
  /\ refreshReturns(remoteState)

-----------------------------------------------------------------------------
\* BundleCommands.deploy

\* deploy() asks ConfigModel for the mode, within configsMutex.
deploy ==
  /\ pc["deploy"] = "idle" /\ commands < MaxCommands
  /\ commands' = commands + 1
  /\ configsMutex' = Wait(configsMutex, "deploy")
  /\ Goto("deploy", "mode")
  /\ UNCHANGED <<fileVars, targetVars, modelVars, pinned, validateVars, remoteVars, refreshLine, resolves>>

deployMode ==
  /\ pc["deploy"] = "mode" /\ Holds(configsMutex, "deploy")
  /\ configsMutex' = Signal(configsMutex)
  /\ Goto("deploy", "modal")
  /\ UNCHANGED <<fileVars, targetVars, modelVars, pinned, validateVars, remoteVars, refreshLine, resolves, commands>>

\* The user confirms, or no confirmation was needed.
deployConfirmed ==
  /\ pc["deploy"] = "modal"
  /\ remoteLine' = Wait(remoteLine, "deploy")
  /\ Goto("deploy", "cli")
  /\ UNCHANGED <<fileVars, targetVars, modelVars, pinned, configsMutex, validateVars, remoteState, remoteAt,
                 remoteFor, refreshLine, resolves, commands>>

deployCancelled ==
  /\ pc["deploy"] = "modal"
  /\ Goto("deploy", "idle")
  /\ UNCHANGED <<fileVars, targetVars, modelVars, pinned, configsMutex, validateVars, remoteVars,
                 refreshLine, resolves, commands>>

\* The model throws: there is no target or no provider, the guard refuses, or
\* the CLI fails.
deployFails ==
  /\ Holds(remoteLine, "deploy")
  /\ \/ remoteAt = "line" /\ (modelTarget = NoTarget \/ ~auth)
     \/ remoteAt = "guard" /\ ~authGuard(remoteFor)
     \/ remoteAt = "cli"
  /\ remoteLine' = Signal(remoteLine) /\ remoteAt' = "line" /\ remoteFor' = NoTarget
  /\ Goto("deploy", "idle")
  /\ UNCHANGED <<fileVars, targetVars, modelVars, pinned, configsMutex, validateVars, remoteState,
                 refreshLine, resolves, commands>>

\* The deployment is done: the command pulls the remote state.
deployed ==
  /\ Holds(remoteLine, "deploy") /\ remoteAt = "cli"
  /\ Pull("deploy", Signal(remoteLine)) /\ remoteAt' = "line" /\ remoteFor' = NoTarget
  /\ Goto("deploy", "pull")
  /\ UNCHANGED <<fileVars, targetVars, modelVars, pinned, configsMutex, validateVars, remoteState,
                 resolves, commands>>

-----------------------------------------------------------------------------
Commit(p) ==
  checkTarget(p) \/ switchTarget(p) \/ storedTarget(p) \/ targetSwitched(p) \/ clearAuth(p) \/ authCleared(p)

Apply(p) == applyAuth(p) \/ validateApplied(p) \/ remoteApplied(p)

Validate ==
  \/ validateWithoutCli \/ validateGuard \/ validateAllowed \/ validateRefused
  \/ validateAnswers \/ validateFails

Remote ==
  \/ remoteWithoutCli \/ remoteGuard \/ remoteAllowed \/ remoteRefused
  \/ remoteAnswers \/ remoteFails \/ deployFails \/ deployed

\* What the event loop, the CLI and the watcher do by themselves.
System ==
  \/ fileEvent \/ resolveTarget \/ resolveSaved
  \/ \E p \in Committers : Commit(p)
  \/ reapply
  \/ \E p \in Committers \cup {"pin"} : Apply(p)
  \/ Validate \/ Remote
  \/ deployMode

\* What the user, the files and the connection do.
Environment ==
  \/ editFiles \/ pinAuthProvider
  \/ setTarget \/ deploy \/ deployConfirmed \/ deployCancelled

Next == System \/ Environment

Spec == Init /\ [][Next]_vars

-----------------------------------------------------------------------------
\* Nothing is running or pending.
Quiet ==
  /\ \A p \in Procs : pc[p] = "idle"
  /\ ~resolves /\ fileEvents = 0
  /\ validateLine = Free /\ remoteLine = Free

Times(x, line) == Cardinality({i \in DOMAIN line : line[i] = x})

Waiting == {"saved", "switch", "apply", "clear", "mode"}
Holding == {"store", "refresh", "clearing"}

\* The locks: a process is once in the line of configsMutex from its request to
\* its release and at the head while it changes something; one pull and one
\* deploy at most are in the line of the remote state. Between two commits the
\* models have the target of ConfigModel, and they have no credentials before
\* these are pinned.
RemoteBundleInv ==
  /\ TypeOK
  /\ \A p \in Procs : Times(p, configsMutex) = IF pc[p] \in Waiting \cup Holding THEN 1 ELSE 0
  /\ \A p \in Procs : pc[p] \in Holding => Holds(configsMutex, p)
  /\ \A p \in Procs \ {"deploy"} : Times(p, validateLine) <= 1 /\ Times(p, remoteLine) <= 1
  /\ validateAt # "line" => Locked(validateLine) /\ validateFor \in Targets
  /\ remoteAt # "line" => Locked(remoteLine) /\ remoteFor \in Targets
  /\ Times("pull", remoteLine) = IF Locked(refreshLine) THEN 1 ELSE 0
  /\ Times("deploy", remoteLine) = IF pc["deploy"] = "cli" THEN 1 ELSE 0
  /\ Times("deploy", refreshLine) = IF pc["deploy"] = "pull" THEN 1 ELSE 0
  /\ (\A p \in Committers : pc[p] # "store") => target = modelTarget
  /\ target = NoTarget \/ target = saved
  /\ auth => pinned

\* A step that starts the CLI starts it for a target that the files, at that time,
\* give the session's host.
StartsAllowed ==
  /\ validateAt' = "cli" /\ validateAt # "cli" => authGuard(validateFor')
  /\ remoteAt' = "cli" /\ remoteAt # "cli" => authGuard(remoteFor')

\* No CLI run starts with the session's credentials for a target on another host,
\* although the target and the files can change while the guard reads the files
\* ("must not let the CLI run a target the guard never checked").
CredentialsOnlyWhereAllowed == [][StartsAllowed]_vars

\* When everything has settled the bundle models have the target of ConfigModel,
\* and, once the session is connected, its credentials and guard.
PinnedIsApplied == Quiet => modelTarget = target /\ auth = pinned

\* When everything has settled no state shown is that of a former target, unless
\* the last validate of the bundle failed.
StatesAreTargets ==
  Quiet => /\ remoteState \in {Null, Empty, target}
           /\ failed \/ validate \in {Null, Empty, target}

\* When everything has settled there is a target unless the bundle defines
\* neither the saved nor the default one, and it is one the bundle defines.
TargetIsResolved ==
  Quiet => IF target = NoTarget THEN {saved, DefaultTarget} \cap bundleTargets = {}
           ELSE target \in bundleTargets

\* A target change, a resolution, a pin or a deployment that the user has confirmed
\* is under way.
Pending == pc["deploy"] \in {"mode", "cli", "pull"} \/ \E p \in Procs \ {"deploy"} : pc[p] # "idle"

\* Somebody can go on without the user: the head of a model's line, or one who has
\* the lock it waits for or whose calls of the models are over.
CanGo ==
  \/ Locked(validateLine) \/ Locked(remoteLine)
  \/ pc["pin"] = "pinning"
  \/ \E p \in Committers : pc[p] \in {"check", "store"}
  \/ \E p \in Procs : pc[p] \in Waiting /\ Holds(configsMutex, p)
  \/ \E p \in Procs : pc[p] \in {"refresh", "clearing", "applyValidate", "applyRemote"} /\ Refreshed(p) /\ Pulled(p)

\* Nobody waits for ever: while something is under way somebody can go on, whatever
\* has failed and whoever holds or awaits the locks.
NobodyIsStuck == Pending => CanGo

=============================================================================
