------------------------- MODULE RemoteBundleProofs -------------------------
(***************************************************************************)
(* The bundle of a Remote SSH session, for any set of targets, any files   *)
(* and any number of edits and commands.  First, the CLI is started for    *)
(* targets the guard has allowed only: of all actions only the two that    *)
(* follow the guard move a line to "cli".  Then, RemoteBundleInv and what  *)
(* holds whenever the window has settled: the models have the target and   *)
(* the pinned provider, no state is that of a former target, and the       *)
(* target is resolved.  Each of these needs to be said of the window that  *)
(* has not settled as well, that is, who is still going to put it right;   *)
(* RInv says it, part by part, and each part has a lemma that every step   *)
(* preserves it.  What the parts share is that most steps move one process *)
(* from a place to another and change the lines accordingly (Moves).  At   *)
(* the end, nobody waits for ever: a holder of configsMutex waits for the  *)
(* models only.                                                            *)
(***************************************************************************)
EXTENDS RemoteBundle, SequenceTheorems, FiniteSetTheorems, TLAPS

\* Files, target resolution, commits and the provider leave the places alone.
LEMMA ConfigKeepsPlaces ==
  ASSUME \/ editFiles \/ fileEvent \/ resolveTarget \/ resolveSaved \/ setTarget
         \/ pinAuthProvider \/ reapply
         \/ \E p \in Committers : Commit(p)
         \/ \E p \in Committers \cup {"pin"} : Apply(p)
  PROVE  validateAt' = validateAt /\ remoteAt' = remoteAt
  <1> USE DEF fileVars, targetVars, modelVars, validateVars, remoteVars
  <1>1. CASE editFiles \/ fileEvent
    BY <1>1 DEF editFiles, fileEvent
  <1>2. CASE resolveTarget \/ resolveSaved \/ setTarget
    BY <1>2 DEF resolveTarget, resolveSaved, setTarget
  <1>3. CASE pinAuthProvider \/ reapply
    BY <1>3 DEF pinAuthProvider, reapply
  <1>4. ASSUME NEW p \in Committers, Commit(p) PROVE validateAt' = validateAt /\ remoteAt' = remoteAt
    <2>1. CASE checkTarget(p) \/ targetSwitched(p) \/ authCleared(p)
      BY <2>1 DEF checkTarget, targetSwitched, authCleared
    <2>2. CASE switchTarget(p)
      BY <2>2 DEF switchTarget, setModels
    <2>3. CASE storedTarget(p)
      BY <2>3 DEF storedTarget, setModels
    <2>4. CASE clearAuth(p)
      BY <2>4 DEF clearAuth
    <2> QED BY <1>4, <2>1, <2>2, <2>3, <2>4 DEF Commit
  <1>5. ASSUME NEW p \in Committers \cup {"pin"}, Apply(p) PROVE validateAt' = validateAt /\ remoteAt' = remoteAt
    BY <1>5 DEF Apply, applyAuth, validateApplied, remoteApplied
  <1> QED BY <1>1, <1>2, <1>3, <1>4, <1>5

\* The steps of BundleValidateModel start the CLI behind the guard only.
LEMMA ValidateStartsAllowed == ASSUME Validate PROVE StartsAllowed
  <1> USE DEF StartsAllowed, remoteVars
  <1>1. CASE validateWithoutCli
    BY <1>1 DEF validateWithoutCli, validateReturns
  <1>2. CASE validateGuard
    BY <1>2 DEF validateGuard
  <1>3. CASE validateAllowed
    BY <1>3 DEF validateAllowed
  <1>4. CASE validateRefused
    BY <1>4 DEF validateRefused, validateReturns
  <1>5. CASE validateAnswers
    BY <1>5 DEF validateAnswers, validateReturns
  <1>6. CASE validateFails
    BY <1>6 DEF validateFails
  <1> QED BY <1>1, <1>2, <1>3, <1>4, <1>5, <1>6 DEF Validate

\* The steps of BundleRemoteStateModel, the deployments among them, likewise.
LEMMA RemoteStartsAllowed == ASSUME Remote PROVE StartsAllowed
  <1> USE DEF StartsAllowed, validateVars
  <1>1. CASE remoteWithoutCli \/ remoteRefused \/ remoteAnswers \/ remoteFails
    BY <1>1 DEF remoteWithoutCli, remoteRefused, remoteAnswers, remoteFails, refreshReturns
  <1>2. CASE remoteGuard
    BY <1>2 DEF remoteGuard
  <1>3. CASE remoteAllowed
    BY <1>3 DEF remoteAllowed
  <1>4. CASE deployFails \/ deployed
    BY <1>4 DEF deployFails, deployed
  <1> QED BY <1>1, <1>2, <1>3, <1>4 DEF Remote

\* The commands start no CLI by themselves: they queue for the model.
LEMMA CommandsKeepPlaces ==
  ASSUME deploy \/ deployMode \/ deployConfirmed \/ deployCancelled
  PROVE  validateAt' = validateAt /\ remoteAt' = remoteAt
  BY DEF deploy, deployMode, deployConfirmed, deployCancelled, validateVars, remoteVars

\* For all targets, files and bounds: the session's credentials go to the CLI for
\* a target on the session's host only (the snapshots and guards of readState and
\* deploy in BundleValidateModel.ts and BundleRemoteStateModel.ts).
THEOREM GuardBeforeCli == Spec => CredentialsOnlyWhereAllowed
  <1>1. ASSUME Next PROVE StartsAllowed
    <2>1. CASE System
      BY <2>1, ConfigKeepsPlaces, ValidateStartsAllowed, RemoteStartsAllowed, CommandsKeepPlaces
         DEF System, StartsAllowed
    <2>2. CASE Environment
      BY <2>2, ConfigKeepsPlaces, CommandsKeepPlaces DEF Environment, StartsAllowed
    <2> QED BY <1>1, <2>1, <2>2 DEF Next
  <1> QED BY <1>1, PTL DEF Spec, CredentialsOnlyWhereAllowed

-----------------------------------------------------------------------------
\* What holds between the steps, part by part.

InLine(m, x) == \E i \in 1 .. Len(m) : m[i] = x
Once(m, x) == \A i, j \in 1 .. Len(m) : m[i] = x /\ m[j] = x => i = j
Ahead(m, x, y) == \E i, j \in 1 .. Len(m) : i < j /\ m[i] = x /\ m[j] = y

\* configsMutex is the line of those who hold or await it.
ConfigsOK ==
  \A p \in Procs :
    /\ Once(configsMutex, p)
    /\ InLine(configsMutex, p) <=> pc[p] \in Waiting \cup Holding
    /\ pc[p] \in Holding => Holds(configsMutex, p)

\* Who waits for the models, and at which of its places.
ValidatePlaces == {"refresh", "clearing", "applyValidate"}
RemotePlaces(p) == IF p = "deploy" THEN {"cli"} ELSE {"refresh", "clearing", "applyRemote"}

CallsOK ==
  /\ \A p \in Procs : Once(validateLine, p) /\ (InLine(validateLine, p) => pc[p] \in ValidatePlaces)
  /\ \A p \in Procs : Once(remoteLine, p) /\ (InLine(remoteLine, p) => pc[p] \in RemotePlaces(p))
  /\ pc["deploy"] = "cli" => InLine(remoteLine, "deploy")
  /\ Once(remoteLine, "pull") /\ (InLine(remoteLine, "pull") <=> Locked(refreshLine))
  /\ Once(refreshLine, "deploy") /\ (InLine(refreshLine, "deploy") <=> pc["deploy"] = "pull")

\* A call past readState's snapshot has a target, and a commit's own call gets
\* there only with the credentials of before the commit.
RunsOK ==
  /\ validateAt # "line" => Locked(validateLine) /\ validateFor \in Targets /\ pinned
  /\ remoteAt # "line" => Locked(remoteLine) /\ remoteFor \in Targets
  /\ \A p \in Procs : pc[p] = "refresh" =>
       /\ Holds(validateLine, p) /\ validateAt # "line" => auth
       /\ Holds(remoteLine, p) /\ remoteAt # "line" => auth

\* The models get the target from the holder of configsMutex, and the pinned
\* provider from somebody who is on the way; a commit that found no provider
\* pinned clears the models before the pin reaches them.
ProviderOK ==
  /\ \A p \in Committers : pc[p] = "store" => want[p] = target
  /\ (\A p \in Committers : pc[p] # "store") => target = modelTarget
  /\ target = NoTarget \/ target = saved
  /\ auth => pinned
  /\ \A p \in Procs : pc[p] = "apply" => pinned
  /\ pc["pin"] # "idle" => pinned
  /\ pinned => auth \/ \E p \in Procs : pc[p] \in {"refresh", "pinning", "apply"}
  /\ \A p \in Procs : pinned /\ pc[p] = "clear" =>
       \/ pc["pin"] = "pinning"
       \/ pc["pin"] = "apply" /\ Ahead(configsMutex, p, "pin")

\* A call for a former target returns before the commit that changed it goes on,
\* and so does, for the remote state, a call that empties it again.  Validate
\* may keep what such a call left until the provider is applied again.
StatesOK ==
  /\ remoteState \notin {Null, Empty, modelTarget} \/ (remoteAt # "line" /\ remoteFor # modelTarget) =>
       ~auth /\ \E p \in Procs : pc[p] = "refresh" /\ InLine(remoteLine, p)
  /\ validateAt # "line" /\ validateFor # modelTarget =>
       ~auth /\ \E p \in Procs : pc[p] = "refresh" /\ InLine(validateLine, p)
  /\ validate \notin {Null, Empty, modelTarget} =>
       \/ failed
       \/ pinned /\ \E p \in Procs : pc[p] \in {"refresh", "apply"}
       \/ dirty /\ Locked(validateLine)

Resolved == IF target = NoTarget THEN {saved, DefaultTarget} \cap bundleTargets = {}
            ELSE target \in bundleTargets

\* Until the target is right a resolution is due, under way or made due by the
\* commit under way; a resolution works with the targets of the bundle unless
\* another one is due.
ResolveOK ==
  /\ \/ resolves \/ Resolved \/ pc["select"] = "store"
     \/ pc["resolve"] \in {"saved", "check", "switch", "store"}
  /\ pc["resolve"] = "saved" => resolves \/ seen = bundleTargets
  /\ pc["resolve"] = "check" => resolves \/ want["resolve"] \in bundleTargets

\* No event without an edit, so that their number is bounded as well.
EventsOK == fileEvents <= edits

RInv == TypeOK /\ EventsOK /\ ConfigsOK /\ CallsOK /\ RunsOK /\ ProviderOK /\ StatesOK /\ ResolveOK

-----------------------------------------------------------------------------
\* The lines.

\* Joining a line at its end.
LEMMA JoinLine ==
  ASSUME NEW S, NEW m \in Seq(S), NEW x \in S, NEW n, n = Wait(m, x)
  PROVE  /\ n \in Seq(S) /\ Locked(n) /\ InLine(n, x)
         /\ \A y : y # x => (InLine(n, y) <=> InLine(m, y)) /\ (Once(m, y) => Once(n, y))
         /\ ~InLine(m, x) => Once(n, x)
         /\ \A y : Holds(m, y) => Holds(n, y)
         /\ \A y : Holds(n, y) => Holds(m, y) \/ (~Locked(m) /\ y = x)
         /\ \A y, z : Ahead(m, y, z) => Ahead(n, y, z)
         /\ \A y : InLine(m, y) => Ahead(n, y, x)
  <1>0. /\ n \in Seq(S) /\ Len(n) = Len(m) + 1 /\ Len(m) \in Nat
        /\ \A i \in 1 .. Len(m) : n[i] = m[i] /\ i \in 1 .. Len(n)
        /\ n[Len(m) + 1] = x /\ Len(m) + 1 \in 1 .. Len(n)
        /\ \A i \in 1 .. Len(n) : i \in 1 .. Len(m) \/ i = Len(m) + 1
    BY AppendProperties, LenProperties DEF Wait
  <1>1. Locked(n) /\ InLine(n, x)
    BY <1>0, EmptySeq, LenProperties DEF Locked, InLine
  <1>2. ASSUME NEW y, y # x PROVE (InLine(n, y) <=> InLine(m, y)) /\ (Once(m, y) => Once(n, y))
    <2>1. \A i \in 1 .. Len(n) : n[i] = y => i \in 1 .. Len(m) /\ m[i] = y
      BY <1>0, <1>2
    <2> QED
      BY <1>0, <2>1 DEF InLine, Once
  <1>3. ASSUME ~InLine(m, x) PROVE Once(n, x)
    BY <1>0, <1>3 DEF InLine, Once
  <1>4. \A y : Holds(m, y) => Holds(n, y)
    BY <1>0, HeadTailAppend DEF Wait, Holds
  <1>5. \A y : Holds(n, y) => Holds(m, y) \/ (~Locked(m) /\ y = x)
    BY <1>0, HeadTailAppend DEF Wait, Holds, Locked
  <1>6. \A y, z : Ahead(m, y, z) => Ahead(n, y, z)
    BY <1>0 DEF Ahead
  <1>7. ASSUME NEW y, InLine(m, y) PROVE Ahead(n, y, x)
    <2>1. PICK i \in 1 .. Len(m) : m[i] = y
      BY <1>7 DEF InLine
    <2>2. i < Len(m) + 1
      BY <1>0
    <2> QED
      BY <1>0, <2>1, <2>2 DEF Ahead
  <1> QED
    BY <1>0, <1>1, <1>2, <1>3, <1>4, <1>5, <1>6, <1>7

\* The head of a line leaves it.
LEMMA LeaveLine ==
  ASSUME NEW S, NEW m \in Seq(S), NEW x, Holds(m, x), NEW n, n = Signal(m)
  PROVE  /\ n \in Seq(S) /\ InLine(m, x) /\ Locked(m)
         /\ \A y : y # x => (InLine(n, y) <=> InLine(m, y))
         /\ \A y : InLine(n, y) => InLine(m, y)
         /\ \A y : Once(m, y) => Once(n, y)
         /\ Once(m, x) => ~InLine(n, x)
         /\ \A y, z : y # x /\ Ahead(m, y, z) => Ahead(n, y, z)
         /\ Once(m, x) => \A y : ~Ahead(m, y, x)
  <1>0. m # << >> /\ Head(m) = x
    BY DEF Holds
  <1>1. /\ n \in Seq(S) /\ Len(m) \in Nat /\ Len(m) > 0 /\ Len(n) = Len(m) - 1
        /\ m[1] = x /\ \A i \in 1 .. Len(m) - 1 : n[i] = m[i + 1]
    BY <1>0, HeadTailProperties, LenProperties DEF Signal
  <1>2. \A i \in 1 .. Len(n) : i + 1 \in 1 .. Len(m) /\ i + 1 # 1 /\ n[i] = m[i + 1]
    BY <1>1
  <1>3. \A i \in 1 .. Len(m) : i # 1 => i - 1 \in 1 .. Len(n) /\ n[i - 1] = m[i]
    BY <1>1
  <1>4. 1 \in 1 .. Len(m)
    BY <1>1
  <1>5. InLine(m, x) /\ Locked(m)
    BY <1>0, <1>1, <1>4 DEF InLine, Locked
  <1>6. ASSUME NEW y, InLine(n, y) PROVE InLine(m, y)
    BY <1>2, <1>6 DEF InLine
  <1>7. ASSUME NEW y, y # x, InLine(m, y) PROVE InLine(n, y)
    <2>1. PICK i \in 1 .. Len(m) : m[i] = y
      BY <1>7 DEF InLine
    <2>2. i # 1
      BY <1>1, <1>7, <2>1
    <2> QED
      BY <1>3, <2>1, <2>2 DEF InLine
  <1>8. ASSUME NEW y, Once(m, y) PROVE Once(n, y)
    <2> SUFFICES ASSUME NEW i \in 1 .. Len(n), NEW k \in 1 .. Len(n), n[i] = y, n[k] = y PROVE i = k
      BY DEF Once
    <2>1. i + 1 = k + 1
      BY <1>2, <1>8 DEF Once
    <2> QED
      BY <2>1
  <1>9. ASSUME Once(m, x) PROVE \A i \in 1 .. Len(m) : m[i] = x => i = 1
    BY <1>1, <1>4, <1>9 DEF Once
  <1>10. ASSUME Once(m, x) PROVE ~InLine(n, x)
    BY <1>2, <1>9, <1>10 DEF InLine
  <1>11. ASSUME NEW y, NEW z, Ahead(m, y, z), y # x PROVE Ahead(n, y, z)
    <2>1. PICK i \in 1 .. Len(m), k \in 1 .. Len(m) : i < k /\ m[i] = y /\ m[k] = z
      BY <1>11 DEF Ahead
    <2>2. i # 1 /\ k # 1
      BY <1>1, <1>11, <2>1
    <2>3. i - 1 < k - 1
      BY <2>1
    <2> QED
      BY <1>3, <2>1, <2>2, <2>3 DEF Ahead
  <1>12. ASSUME Once(m, x), NEW y PROVE ~Ahead(m, y, x)
    BY <1>9, <1>12 DEF Ahead
  <1> QED
    BY <1>1, <1>5, <1>6, <1>7, <1>8, <1>10, <1>11, <1>12

\* A call whose process no longer waits for it becomes a background call.
LEMMA DetachLine ==
  ASSUME NEW m \in Seq(Callers), NEW p, NEW n, n = Detached(m, p)
  PROVE  /\ n \in Seq(Callers) /\ (Locked(n) <=> Locked(m))
         /\ \A y : y # "bg" => (InLine(n, y) => InLine(m, y)) /\ (Once(m, y) => Once(n, y))
         /\ \A y : y # "bg" /\ y # p => (InLine(m, y) => InLine(n, y))
         /\ \A y : y # "bg" /\ Holds(n, y) => Holds(m, y)
         /\ ~(p \in Committers /\ pc[p] = "refresh") => n = m
  <1>1. CASE ~(p \in Committers /\ pc[p] = "refresh")
    BY <1>1 DEF Detached
  <1>2. CASE p \in Committers /\ pc[p] = "refresh"
    <2>1. n = [i \in 1 .. Len(m) |-> IF m[i] = p THEN "bg" ELSE m[i]]
      BY <1>2, LenProperties DEF Detached
    <2>2. Len(m) \in Nat /\ \A i \in 1 .. Len(m) : m[i] \in Callers
      BY ElementOfSeq, LenProperties
    <2>3. n \in Seq(Callers) /\ Len(n) = Len(m)
      <3>1. \A i \in 1 .. Len(m) : (IF m[i] = p THEN "bg" ELSE m[i]) \in Callers
        BY <2>2 DEF Callers
      <3> QED
        BY <2>1, <2>2, <3>1, IsASeq, LenProperties
    <2>4. \A i \in 1 .. Len(m) : n[i] = IF m[i] = p THEN "bg" ELSE m[i]
      BY <2>1
    <2>5. Locked(n) <=> Locked(m)
      BY <2>3, EmptySeq DEF Locked
    <2>6. \A y : y # "bg" => (InLine(n, y) => InLine(m, y)) /\ (Once(m, y) => Once(n, y))
      BY <2>3, <2>4 DEF InLine, Once
    <2>7. \A y : y # "bg" /\ y # p => (InLine(m, y) => InLine(n, y))
      BY <2>3, <2>4 DEF InLine
    <2>8. ASSUME NEW y, y # "bg", Holds(n, y) PROVE Holds(m, y)
      <3>1. m # << >> /\ n # << >>
        BY <2>5, <2>8 DEF Holds, Locked
      <3>2. Head(n) = n[1] /\ Head(m) = m[1] /\ 1 \in 1 .. Len(m)
        BY <2>2, <2>3, <3>1, HeadTailProperties, EmptySeq
      <3> QED
        BY <2>4, <2>8, <3>1, <3>2 DEF Holds
    <2> QED
      BY <1>2, <2>3, <2>5, <2>6, <2>7, <2>8
  <1> QED
    BY <1>1, <1>2

\* How often a call is in a line.
LEMMA TimesInLine ==
  ASSUME NEW S, NEW m \in Seq(S), NEW x
  PROVE  /\ ~InLine(m, x) => Times(x, m) = 0
         /\ Once(m, x) => Times(x, m) = IF InLine(m, x) THEN 1 ELSE 0
  <1>0. DOMAIN m = 1 .. Len(m)
    BY LenProperties
  <1>1. ASSUME ~InLine(m, x) PROVE Times(x, m) = 0
    <2>1. {i \in DOMAIN m : m[i] = x} = {}
      BY <1>0, <1>1 DEF InLine
    <2> QED
      BY <2>1, FS_EmptySet DEF Times
  <1>2. ASSUME Once(m, x), InLine(m, x) PROVE Times(x, m) = 1
    <2>1. PICK k \in 1 .. Len(m) : m[k] = x
      BY <1>2 DEF InLine
    <2>2. {i \in DOMAIN m : m[i] = x} = {k}
      BY <1>0, <1>2, <2>1 DEF Once
    <2> QED
      BY <2>2, FS_Singleton DEF Times
  <1> QED
    BY <1>1, <1>2

-----------------------------------------------------------------------------
\* A process moves from a place to another, and what it does to the lines.

ConfigsTurn(p, to) ==
  \/ configsMutex' = configsMutex /\ (pc[p] \in Waiting \cup Holding <=> to \in Waiting \cup Holding)
  \/ configsMutex' = Wait(configsMutex, p) /\ pc[p] \notin Waiting \cup Holding /\ to \in Waiting
  \/ configsMutex' = Signal(configsMutex) /\ Holds(configsMutex, p) /\ to \notin Waiting \cup Holding
  \/ configsMutex' = Wait(Signal(configsMutex), p) /\ Holds(configsMutex, p) /\ to \in Waiting

ValidateTurn(p, to) ==
  \/ validateLine' = validateLine /\ (InLine(validateLine, p) => to \in ValidatePlaces)
  \/ validateLine' = Wait(validateLine, p) /\ pc[p] \notin ValidatePlaces /\ to \in ValidatePlaces

RemoteTurn(p, to) ==
  \/ /\ remoteLine' = remoteLine
     /\ InLine(remoteLine, p) => to \in RemotePlaces(p)
     /\ p = "deploy" /\ to = "cli" => pc[p] = "cli"
  \/ remoteLine' = Wait(remoteLine, p) /\ pc[p] \notin RemotePlaces(p) /\ to \in RemotePlaces(p)

Moves(p, to) ==
  /\ pc' = [pc EXCEPT ![p] = to] /\ to \in Places
  /\ ConfigsTurn(p, to) /\ (to \in Holding => Holds(configsMutex, p) /\ configsMutex' = configsMutex)
  /\ ValidateTurn(p, to) /\ RemoteTurn(p, to)
  /\ UNCHANGED refreshLine
  /\ p = "deploy" => (pc[p] = "pull" <=> to = "pull")

LinesTyped ==
  /\ configsMutex \in Seq(Procs) /\ validateLine \in Seq(Callers) /\ remoteLine \in Seq(Callers)
  /\ refreshLine \in Seq({"event", "deploy"})
  /\ pc \in [Procs -> Places]

LEMMA ConfigsTurnKeeps ==
  ASSUME LinesTyped, ConfigsOK, NEW p \in Procs, NEW to, pc' = [pc EXCEPT ![p] = to],
         ConfigsTurn(p, to), to \in Holding => Holds(configsMutex, p) /\ configsMutex' = configsMutex
  PROVE  /\ ConfigsOK' /\ configsMutex' \in Seq(Procs)
         /\ \A q, r : q # p /\ r # p /\ Ahead(configsMutex, q, r) => Ahead(configsMutex', q, r)
  <1> DEFINE m == configsMutex
             n == configsMutex'
             from == pc[p]
             In == Waiting \cup Holding
  <1>0. /\ pc \in [Procs -> Places] /\ m \in Seq(Procs)
        /\ pc'[p] = to /\ \A q \in Procs : q # p => pc'[q] = pc[q]
    BY DEF LinesTyped
  <1>1. \A q \in Procs : Once(m, q) /\ (InLine(m, q) <=> pc[q] \in In) /\ (pc[q] \in Holding => Holds(m, q))
    BY DEF ConfigsOK
  <1>2. /\ n \in Seq(Procs)
        /\ \A q \in Procs : Once(n, q) /\ (q # p => (InLine(n, q) <=> InLine(m, q)))
        /\ InLine(n, p) <=> to \in In
        /\ \A q \in Procs : q # p /\ Holds(m, q) => Holds(n, q)
        /\ \A q, r : q # p /\ r # p /\ Ahead(m, q, r) => Ahead(n, q, r)
    <2>1. CASE n = m /\ (from \in In <=> to \in In)
      BY <1>0, <1>1, <2>1
    <2>2. CASE n = Wait(m, p) /\ from \notin In /\ to \in Waiting
      <3>1. ~InLine(m, p)
        BY <1>1, <2>2
      <3>2. to \in In
        BY <2>2
      <3> HIDE DEF m, n, from, In
      <3>3. /\ n \in Seq(Procs) /\ InLine(n, p) /\ Once(n, p)
            /\ \A y : y # p => (InLine(n, y) <=> InLine(m, y)) /\ (Once(m, y) => Once(n, y))
            /\ \A y : Holds(m, y) => Holds(n, y)
            /\ \A y, z : Ahead(m, y, z) => Ahead(n, y, z)
            /\ \A y : InLine(m, y) => Ahead(n, y, p)
        BY <1>0, <2>2, <3>1, JoinLine
      <3> QED
        BY <1>1, <3>2, <3>3
    <2>3. CASE n = Signal(m) /\ Holds(m, p) /\ to \notin In
      <3>1. Once(m, p)
        BY <1>1
      <3> HIDE DEF m, n, from
      <3>2. /\ n \in Seq(Procs)
            /\ \A y : y # p => (InLine(n, y) <=> InLine(m, y))
            /\ \A y : Once(m, y) => Once(n, y)
            /\ Once(m, p) => ~InLine(n, p)
            /\ \A y, z : y # p /\ Ahead(m, y, z) => Ahead(n, y, z)
        BY <1>0, <2>3, LeaveLine
      <3>3. \A q \in Procs : Holds(m, q) => q = p
        BY <2>3 DEF Holds
      <3> QED
        BY <1>1, <2>3, <3>1, <3>2, <3>3
    <2>4. CASE n = Wait(Signal(m), p) /\ Holds(m, p) /\ to \in Waiting
      <3> DEFINE l == Signal(m)
      <3>1. Once(m, p) /\ n = Wait(l, p) /\ l = Signal(m) /\ Holds(m, p) /\ to \in Waiting
        BY <1>1, <2>4
      <3> HIDE DEF m, n, from, l
      <3>2. /\ l \in Seq(Procs)
            /\ \A y : y # p => (InLine(l, y) <=> InLine(m, y))
            /\ \A y : Once(m, y) => Once(l, y)
            /\ ~InLine(l, p)
            /\ \A y, z : y # p /\ Ahead(m, y, z) => Ahead(l, y, z)
        BY <1>0, <3>1, LeaveLine
      <3>3. /\ n \in Seq(Procs) /\ InLine(n, p) /\ Once(n, p)
            /\ \A y : y # p => (InLine(n, y) <=> InLine(l, y)) /\ (Once(l, y) => Once(n, y))
            /\ \A y, z : Ahead(l, y, z) => Ahead(n, y, z)
            /\ \A y : InLine(l, y) => Ahead(n, y, p)
        BY <3>1, <3>2, JoinLine
      <3>4. \A q \in Procs : Holds(m, q) => q = p
        BY <3>1 DEF Holds
      <3> QED
        BY <1>1, <3>1, <3>2, <3>3, <3>4
    <2> QED
      BY <2>1, <2>2, <2>3, <2>4 DEF ConfigsTurn
  <1>3. ASSUME NEW q \in Procs PROVE Once(n, q) /\ (InLine(n, q) <=> pc'[q] \in In) /\ (pc'[q] \in Holding => Holds(n, q))
    <2>1. CASE q = p
      BY <1>0, <1>1, <1>2, <2>1
    <2>2. CASE q # p
      BY <1>0, <1>1, <1>2, <2>2
    <2> QED
      BY <2>1, <2>2
  <1> QED
    BY <1>2, <1>3 DEF ConfigsOK

LEMMA MovesKeepLines ==
  ASSUME LinesTyped, ConfigsOK, CallsOK, NEW p \in Procs, NEW to, Moves(p, to)
  PROVE  /\ LinesTyped' /\ ConfigsOK' /\ CallsOK'
         /\ pc'[p] = to /\ \A q \in Procs : q # p => pc'[q] = pc[q]
         /\ \A q, r : q # p /\ r # p /\ Ahead(configsMutex, q, r) => Ahead(configsMutex', q, r)
  <1>0. /\ pc' = [pc EXCEPT ![p] = to] /\ to \in Places /\ p \in Callers
        /\ pc'[p] = to /\ \A q \in Procs : q # p => pc'[q] = pc[q]
        /\ pc' \in [Procs -> Places]
    BY DEF Moves, LinesTyped, Callers
  <1>1. /\ ConfigsOK' /\ configsMutex' \in Seq(Procs)
        /\ \A q, r : q # p /\ r # p /\ Ahead(configsMutex, q, r) => Ahead(configsMutex', q, r)
    BY ConfigsTurnKeeps DEF Moves
  <1>2. /\ validateLine' \in Seq(Callers)
        /\ \A q \in Procs : Once(validateLine', q) /\ (InLine(validateLine', q) => pc'[q] \in ValidatePlaces)
    <2>1. CASE validateLine' = validateLine /\ (InLine(validateLine, p) => to \in ValidatePlaces)
      BY <1>0, <2>1 DEF CallsOK, LinesTyped
    <2>2. CASE validateLine' = Wait(validateLine, p) /\ pc[p] \notin ValidatePlaces /\ to \in ValidatePlaces
      <3>1. validateLine \in Seq(Callers) /\ ~InLine(validateLine, p)
        BY <2>2 DEF CallsOK, LinesTyped
      <3>2. /\ validateLine' \in Seq(Callers) /\ Once(validateLine', p)
            /\ \A y : y # p => (InLine(validateLine', y) <=> InLine(validateLine, y))
                               /\ (Once(validateLine, y) => Once(validateLine', y))
        BY <1>0, <2>2, <3>1, JoinLine
      <3> QED
        BY <1>0, <2>2, <3>2 DEF CallsOK
    <2> QED
      BY <2>1, <2>2 DEF Moves, ValidateTurn
  <1>3. /\ remoteLine' \in Seq(Callers)
        /\ \A q \in Procs : Once(remoteLine', q) /\ (InLine(remoteLine', q) => pc'[q] \in RemotePlaces(q))
        /\ pc'["deploy"] = "cli" => InLine(remoteLine', "deploy")
        /\ Once(remoteLine', "pull") /\ (InLine(remoteLine', "pull") <=> InLine(remoteLine, "pull"))
    <2>0. "pull" # p /\ "deploy" \in Procs
      BY DEF Procs, Committers
    <2>1. CASE /\ remoteLine' = remoteLine
               /\ InLine(remoteLine, p) => to \in RemotePlaces(p)
               /\ p = "deploy" /\ to = "cli" => pc[p] = "cli"
      BY <1>0, <2>0, <2>1 DEF CallsOK, LinesTyped
    <2>2. CASE remoteLine' = Wait(remoteLine, p) /\ pc[p] \notin RemotePlaces(p) /\ to \in RemotePlaces(p)
      <3>1. remoteLine \in Seq(Callers) /\ ~InLine(remoteLine, p)
        BY <2>2 DEF CallsOK, LinesTyped
      <3>2. /\ remoteLine' \in Seq(Callers) /\ Once(remoteLine', p) /\ InLine(remoteLine', p)
            /\ \A y : y # p => (InLine(remoteLine', y) <=> InLine(remoteLine, y))
                               /\ (Once(remoteLine, y) => Once(remoteLine', y))
        BY <1>0, <2>2, <3>1, JoinLine
      <3>3. ASSUME NEW q \in Procs PROVE Once(remoteLine', q) /\ (InLine(remoteLine', q) => pc'[q] \in RemotePlaces(q))
        BY <1>0, <2>2, <3>2 DEF CallsOK
      <3> QED
        BY <1>0, <2>0, <3>2, <3>3 DEF CallsOK
    <2> QED
      BY <2>1, <2>2 DEF Moves, RemoteTurn
  <1>4. refreshLine' = refreshLine /\ (pc'["deploy"] = "pull" <=> pc["deploy"] = "pull")
    BY <1>0 DEF Moves, Procs, Committers
  <1> QED
    BY <1>0, <1>1, <1>2, <1>3, <1>4 DEF LinesTyped, CallsOK

LEMMA LinesAreTyped == TypeOK => LinesTyped
  BY DEF TypeOK, LinesTyped

\* The holder of configsMutex.
LEMMA OneHolder ==
  ASSUME ConfigsOK, NEW p \in Procs, NEW q \in Procs, pc[p] \in Holding, Holds(configsMutex, q)
  PROVE  p = q
  BY DEF ConfigsOK, Holds

\* Each step of ConfigModel and of the commands moves one process.
LEMMA ResolveMoves ==
  ASSUME TypeOK, ConfigsOK, CallsOK
  PROVE  /\ resolveTarget /\ target \notin bundleTargets => Moves("resolve", "saved")
         /\ resolveSaved => \E to \in {"idle", "switch", "check"} :
              /\ Moves("resolve", to)
              /\ to = "idle" => Resolution = target
              /\ to = "check" => want'["resolve"] = Resolution
              /\ to = "switch" => Resolution = NoTarget
         /\ setTarget => Moves("select", "check")
  <1> USE DEF Moves, ConfigsTurn, ValidateTurn, RemoteTurn, Goto, Waiting, Holding,
              ValidatePlaces, RemotePlaces, Places, validateVars, remoteVars, modelVars
  <1>0. "resolve" \in Procs /\ "select" \in Procs /\ "resolve" \in Committers
    BY DEF Procs, Committers
  <1>1. \A p \in Procs : /\ InLine(validateLine, p) => pc[p] \in ValidatePlaces
                         /\ InLine(remoteLine, p) => pc[p] \in RemotePlaces(p)
    BY DEF CallsOK
  <1>2. ASSUME resolveTarget, target \notin bundleTargets PROVE Moves("resolve", "saved")
    BY <1>0, <1>1, <1>2 DEF resolveTarget
  <1>3. ASSUME resolveSaved PROVE
               \E to \in {"idle", "switch", "check"} :
                 /\ Moves("resolve", to)
                 /\ to = "idle" => Resolution = target
                 /\ to = "check" => want'["resolve"] = Resolution
                 /\ to = "switch" => Resolution = NoTarget
    <2>1. /\ pc["resolve"] = "saved" /\ Holds(configsMutex, "resolve")
          /\ ~InLine(validateLine, "resolve") /\ ~InLine(remoteLine, "resolve")
          /\ UNCHANGED <<validateLine, remoteLine, refreshLine>>
      BY <1>0, <1>1, <1>3 DEF resolveSaved
    <2>2. CASE Resolution = target
      <3>1. Moves("resolve", "idle")
        BY <1>3, <2>1, <2>2 DEF resolveSaved
      <3> QED
        BY <2>2, <3>1
    <2>3. CASE Resolution # target /\ Resolution = NoTarget
      <3>1. Moves("resolve", "switch")
        BY <1>3, <2>1, <2>3 DEF resolveSaved
      <3> QED
        BY <2>3, <3>1
    <2>4. CASE Resolution # target /\ Resolution # NoTarget
      <3>1. Moves("resolve", "check")
        BY <1>3, <2>1, <2>4 DEF resolveSaved
      <3>2. want'["resolve"] = Resolution
        BY <1>0, <1>3, <2>4 DEF resolveSaved, TypeOK
      <3> QED
        BY <3>1, <3>2
    <2> QED
      BY <2>2, <2>3, <2>4
  <1>4. ASSUME setTarget PROVE Moves("select", "check")
    BY <1>0, <1>1, <1>4 DEF setTarget
  <1> QED
    BY <1>2, <1>3, <1>4

LEMMA CommitMoves ==
  ASSUME TypeOK, ConfigsOK, CallsOK, NEW p \in Committers
  PROVE  /\ checkTarget(p) => \/ want[p] \in bundleTargets /\ want' = want /\ Moves(p, "switch")
                              \/ want[p] \notin bundleTargets /\ Moves(p, "idle")
         /\ switchTarget(p) /\ want[p] = NoTarget => Moves(p, "refresh")
         /\ switchTarget(p) /\ want[p] # NoTarget => Moves(p, "store")
         /\ storedTarget(p) => Moves(p, "refresh")
         /\ targetSwitched(p) => Moves(p, IF pinned THEN "apply" ELSE "clear")
         /\ clearAuth(p) => Moves(p, "clearing")
         /\ authCleared(p) => Moves(p, "idle")
  <1> USE DEF Moves, ConfigsTurn, ValidateTurn, RemoteTurn, Goto, Waiting, Holding,
              ValidatePlaces, RemotePlaces, Places, validateVars, remoteVars, modelVars
  <1>0. p \in Procs /\ p # "deploy"
    BY DEF Procs, Committers
  <1>1. /\ InLine(validateLine, p) => pc[p] \in ValidatePlaces
        /\ InLine(remoteLine, p) => pc[p] \in RemotePlaces(p)
        /\ pc[p] \in Holding => Holds(configsMutex, p)
    BY <1>0 DEF CallsOK, ConfigsOK
  <1>2. /\ Refreshed(p) => ~InLine(validateLine, p)
        /\ Pulled(p) => ~InLine(remoteLine, p)
    BY LenProperties DEF Refreshed, Pulled, InLine, TypeOK
  <1>3. ASSUME checkTarget(p) PROVE \/ want[p] \in bundleTargets /\ want' = want /\ Moves(p, "switch")
                                    \/ want[p] \notin bundleTargets /\ Moves(p, "idle")
    BY <1>0, <1>1, <1>3 DEF checkTarget
  <1>4. ASSUME switchTarget(p) PROVE IF want[p] = NoTarget THEN Moves(p, "refresh") ELSE Moves(p, "store")
    BY <1>0, <1>1, <1>4 DEF switchTarget, setModels
  <1>5. ASSUME storedTarget(p) PROVE Moves(p, "refresh")
    BY <1>0, <1>1, <1>5 DEF storedTarget, setModels
  <1>6. ASSUME targetSwitched(p) PROVE Moves(p, IF pinned THEN "apply" ELSE "clear")
    BY <1>0, <1>1, <1>2, <1>6 DEF targetSwitched
  <1>7. ASSUME clearAuth(p) PROVE Moves(p, "clearing")
    BY <1>0, <1>1, <1>7 DEF clearAuth
  <1>8. ASSUME authCleared(p) PROVE Moves(p, "idle")
    BY <1>0, <1>1, <1>2, <1>8 DEF authCleared
  <1> QED
    BY <1>3, <1>4, <1>5, <1>6, <1>7, <1>8

LEMMA ApplyMoves ==
  ASSUME TypeOK, ConfigsOK, CallsOK, NEW p \in Committers \cup {"pin"}
  PROVE  /\ reapply => Moves("pin", "apply")
         /\ applyAuth(p) => Moves(p, "applyValidate")
         /\ validateApplied(p) => Moves(p, "idle") \/ Moves(p, "applyRemote")
         /\ remoteApplied(p) => Moves(p, "idle")
  <1> USE DEF Moves, ConfigsTurn, ValidateTurn, RemoteTurn, Goto, Waiting, Holding,
              ValidatePlaces, RemotePlaces, Places, validateVars, remoteVars, modelVars
  <1>0. p \in Procs /\ p # "deploy" /\ "pin" \in Procs
    BY DEF Procs, Committers
  <1>1. \A q \in Procs :
          /\ InLine(validateLine, q) => pc[q] \in ValidatePlaces
          /\ InLine(remoteLine, q) => pc[q] \in RemotePlaces(q)
    BY <1>0 DEF CallsOK, ConfigsOK
  <1>2. /\ Refreshed(p) => ~InLine(validateLine, p)
        /\ Pulled(p) => ~InLine(remoteLine, p)
    BY LenProperties DEF Refreshed, Pulled, InLine, TypeOK
  <1>3. ASSUME reapply PROVE Moves("pin", "apply")
    BY <1>0, <1>1, <1>3 DEF reapply
  <1>4. ASSUME applyAuth(p) PROVE Moves(p, "applyValidate")
    BY <1>0, <1>1, <1>4 DEF applyAuth
  <1>5. ASSUME validateApplied(p) PROVE Moves(p, "idle") \/ Moves(p, "applyRemote")
    BY <1>0, <1>1, <1>2, <1>5 DEF validateApplied
  <1>6. ASSUME remoteApplied(p) PROVE Moves(p, "idle")
    BY <1>0, <1>1, <1>2, <1>6 DEF remoteApplied
  <1> QED
    BY <1>3, <1>4, <1>5, <1>6

\* pinAuthProvider and the commands.
LEMMA UserMoves ==
  ASSUME TypeOK, ConfigsOK, CallsOK, ProviderOK
  PROVE  /\ pinAuthProvider => Moves("pin", "pinning")
         /\ deploy => Moves("deploy", "mode")
         /\ deployMode => Moves("deploy", "modal")
         /\ deployConfirmed => Moves("deploy", "cli")
         /\ deployCancelled => Moves("deploy", "idle")
  <1> USE DEF Moves, ConfigsTurn, ValidateTurn, RemoteTurn, Goto, Waiting, Holding,
              ValidatePlaces, RemotePlaces, Places, validateVars, remoteVars, modelVars
  <1>0. "deploy" \in Procs /\ "pin" \in Procs
    BY DEF Procs, Committers
  <1>1. \A q \in Procs :
          /\ InLine(validateLine, q) => pc[q] \in ValidatePlaces
          /\ InLine(remoteLine, q) => pc[q] \in RemotePlaces(q)
    BY <1>0 DEF CallsOK, ConfigsOK
  <1>2. ASSUME pinAuthProvider PROVE Moves("pin", "pinning")
    <2>1. pc["pin"] = "idle"
      BY <1>2 DEF pinAuthProvider, ProviderOK
    <2> QED
      BY <1>0, <1>1, <1>2, <2>1 DEF pinAuthProvider
  <1>3. ASSUME deploy PROVE Moves("deploy", "mode")
    BY <1>0, <1>1, <1>3 DEF deploy
  <1>4. ASSUME deployMode PROVE Moves("deploy", "modal")
    BY <1>0, <1>1, <1>4 DEF deployMode
  <1>5. ASSUME deployConfirmed PROVE Moves("deploy", "cli")
    BY <1>0, <1>1, <1>5 DEF deployConfirmed
  <1>6. ASSUME deployCancelled PROVE Moves("deploy", "idle")
    BY <1>0, <1>1, <1>6 DEF deployCancelled
  <1> QED
    BY <1>2, <1>3, <1>4, <1>5, <1>6

-----------------------------------------------------------------------------
\* The calls of the models.

\* A pull is asked for: it is in the line of the remote state once.
LEMMA PullKeepsLines ==
  ASSUME NEW r \in Seq({"event", "deploy"}), NEW m \in Seq(Callers), NEW who \in {"event", "deploy"},
         NEW s, NEW n, s = Wait(r, who), n = IF Locked(r) THEN m ELSE Wait(m, "pull"),
         Once(m, "pull"), InLine(m, "pull") <=> Locked(r)
  PROVE  /\ s \in Seq({"event", "deploy"}) /\ n \in Seq(Callers) /\ (Locked(m) => Locked(n))
         /\ Once(n, "pull") /\ (InLine(n, "pull") <=> Locked(s))
         /\ \A y : y # "pull" => (InLine(n, y) <=> InLine(m, y)) /\ (Once(m, y) => Once(n, y))
                                 /\ (Holds(n, y) => Holds(m, y))
         /\ \A y : y # who => (InLine(s, y) <=> InLine(r, y)) /\ (Once(r, y) => Once(s, y))
         /\ InLine(s, who) /\ (~InLine(r, who) => Once(s, who))
  <1>1. "pull" \in Callers
    BY DEF Callers
  <1>2. /\ s \in Seq({"event", "deploy"}) /\ Locked(s) /\ InLine(s, who)
        /\ \A y : y # who => (InLine(s, y) <=> InLine(r, y)) /\ (Once(r, y) => Once(s, y))
        /\ ~InLine(r, who) => Once(s, who)
    BY JoinLine
  <1>3. CASE Locked(r)
    BY <1>2, <1>3
  <1>4. CASE ~Locked(r)
    <2>1. n = Wait(m, "pull") /\ ~InLine(m, "pull")
      BY <1>4
    <2>2. /\ n \in Seq(Callers) /\ Locked(n) /\ InLine(n, "pull") /\ Once(n, "pull")
          /\ \A y : y # "pull" => (InLine(n, y) <=> InLine(m, y)) /\ (Once(m, y) => Once(n, y))
          /\ \A y : Holds(n, y) => Holds(m, y) \/ (~Locked(m) /\ y = "pull")
      BY <1>1, <2>1, JoinLine
    <2> QED
      BY <1>2, <2>2
  <1> QED
    BY <1>3, <1>4

\* What a step of BundleValidateModel does to the lines: it goes on at the head,
\* or returns, with a pull, with nothing or with a failure.
ValidateReturned ==
  /\ Locked(validateLine) /\ validateLine' = Signal(validateLine)
  /\ validateAt' = "line" /\ validateFor' = NoTarget

LEMMA ValidateShape ==
  ASSUME RunsOK, Validate
  PROVE  /\ UNCHANGED <<fileVars, targetVars, modelVars, pinned, configsMutex, remoteState, remoteAt, remoteFor,
                        resolves, pc, commands>>
         /\ \/ /\ UNCHANGED <<validateLine, remoteLine, refreshLine, validate, dirty, failed, changed>>
               /\ \/ validateAt' = "guard" /\ validateFor' = modelTarget /\ modelTarget # NoTarget /\ auth
                     /\ Locked(validateLine)
                  \/ validateAt = "guard" /\ validateAt' = "cli" /\ validateFor' = validateFor
            \/ ValidateReturned /\ UNCHANGED <<remoteLine, refreshLine>>
            \/ ValidateReturned /\ Pull("event", remoteLine)
            \/ /\ ValidateReturned /\ UNCHANGED refreshLine /\ validateAt = "cli"
               /\ remoteLine' = Detached(remoteLine, Head(validateLine))
  <1> USE DEF remoteVars, modelVars, targetVars, fileVars, ValidateReturned, RunsOK, validateReturns
  <1>1. CASE validateWithoutCli
    BY <1>1 DEF validateWithoutCli
  <1>2. CASE validateGuard
    BY <1>2 DEF validateGuard
  <1>3. CASE validateAllowed
    BY <1>3 DEF validateAllowed
  <1>4. CASE validateRefused
    BY <1>4 DEF validateRefused
  <1>5. CASE validateAnswers
    BY <1>5 DEF validateAnswers
  <1>6. CASE validateFails
    BY <1>6 DEF validateFails
  <1> QED
    BY <1>1, <1>2, <1>3, <1>4, <1>5, <1>6 DEF Validate

\* No process but one whose call has failed loses its call of the remote state,
\* and nobody becomes the head of that line before its turn.
LEMMA ValidateKeepsLines ==
  ASSUME TypeOK, ConfigsOK, CallsOK, RunsOK, Validate
  PROVE  /\ LinesTyped' /\ ConfigsOK' /\ CallsOK'
         /\ Locked(remoteLine) => Locked(remoteLine')
         /\ \A p \in Procs : Holds(remoteLine', p) => Holds(remoteLine, p)
         /\ \A p \in Procs : InLine(remoteLine, p) =>
              InLine(remoteLine', p) \/ (pc[p] = "refresh" /\ Holds(validateLine, p) /\ validateAt # "line")
         /\ \A p \in Procs : InLine(validateLine, p) => InLine(validateLine', p) \/ validateAt' = "line"
         /\ validateAt' # "line" => validateLine' = validateLine
  <1>0. UNCHANGED <<configsMutex, pc>> /\ "pull" \notin Procs /\ "bg" \notin Procs /\ "deploy" \in Procs
    BY ValidateShape DEF Procs, Committers
  <1>t. /\ configsMutex \in Seq(Procs) /\ validateLine \in Seq(Callers) /\ remoteLine \in Seq(Callers)
        /\ refreshLine \in Seq({"event", "deploy"}) /\ pc \in [Procs -> Places]
    BY DEF TypeOK
  <1>a. ConfigsOK'
    BY <1>0 DEF ConfigsOK
  <1>b. /\ validateLine' \in Seq(Callers)
        /\ \A p \in Procs : Once(validateLine', p) /\ (InLine(validateLine', p) => InLine(validateLine, p))
        /\ \A p \in Procs : InLine(validateLine, p) => InLine(validateLine', p) \/ validateAt' = "line"
        /\ validateAt' # "line" => validateLine' = validateLine
    <2>1. CASE validateLine' = validateLine
      BY <1>t, <2>1 DEF CallsOK
    <2>2. CASE ValidateReturned
      <3>1. Holds(validateLine, Head(validateLine)) /\ validateLine' = Signal(validateLine) /\ validateAt' = "line"
        BY <2>2 DEF ValidateReturned, Holds, Locked
      <3>2. /\ validateLine' \in Seq(Callers)
            /\ \A y : InLine(validateLine', y) => InLine(validateLine, y)
            /\ \A y : Once(validateLine, y) => Once(validateLine', y)
        BY <1>t, <3>1, LeaveLine
      <3> QED
        BY <3>1, <3>2 DEF CallsOK
    <2> QED
      BY <2>1, <2>2, ValidateShape
  <1>c. /\ remoteLine' \in Seq(Callers) /\ refreshLine' \in Seq({"event", "deploy"})
        /\ Locked(remoteLine) => Locked(remoteLine')
        /\ \A p \in Procs : Once(remoteLine', p) /\ (InLine(remoteLine', p) => InLine(remoteLine, p))
        /\ \A p \in Procs : Holds(remoteLine', p) => Holds(remoteLine, p)
        /\ \A p \in Procs : InLine(remoteLine, p) =>
             InLine(remoteLine', p) \/ (pc[p] = "refresh" /\ p \in Committers /\ Holds(validateLine, p) /\ validateAt # "line")
        /\ Once(remoteLine', "pull") /\ (InLine(remoteLine', "pull") <=> Locked(refreshLine'))
        /\ Once(refreshLine', "deploy") /\ (InLine(refreshLine', "deploy") <=> InLine(refreshLine, "deploy"))
    <2>1. CASE UNCHANGED <<remoteLine, refreshLine>>
      BY <1>t, <2>1 DEF CallsOK
    <2>2. CASE Pull("event", remoteLine)
      <3> DEFINE m == remoteLine
                 n == remoteLine'
                 r == refreshLine
                 s == refreshLine'
      <3>1. /\ s = Wait(r, "event") /\ n = IF Locked(r) THEN m ELSE Wait(m, "pull")
            /\ Once(m, "pull") /\ (InLine(m, "pull") <=> Locked(r))
            /\ r \in Seq({"event", "deploy"}) /\ m \in Seq(Callers)
        BY <1>t, <2>2 DEF CallsOK, Pull
      <3> HIDE DEF m, n, r, s
      <3>2. /\ s \in Seq({"event", "deploy"}) /\ n \in Seq(Callers) /\ (Locked(m) => Locked(n))
            /\ Once(n, "pull") /\ (InLine(n, "pull") <=> Locked(s))
            /\ \A y : y # "pull" => (InLine(n, y) <=> InLine(m, y)) /\ (Once(m, y) => Once(n, y))
                                    /\ (Holds(n, y) => Holds(m, y))
            /\ \A y : y # "event" => (InLine(s, y) <=> InLine(r, y)) /\ (Once(r, y) => Once(s, y))
        BY <3>1, PullKeepsLines
      <3> QED
        BY <1>0, <3>2 DEF CallsOK, m, n, r, s
    <2>3. CASE /\ ValidateReturned /\ UNCHANGED refreshLine /\ validateAt = "cli"
               /\ remoteLine' = Detached(remoteLine, Head(validateLine))
      <3> DEFINE h == Head(validateLine)
      <3>1. Holds(validateLine, h)
        BY <2>3 DEF ValidateReturned, Holds, Locked
      <3>2. remoteLine' = Detached(remoteLine, h)
        BY <2>3
      <3>3. h \notin Committers \/ pc[h] # "refresh" => remoteLine' = remoteLine
        BY <1>t, <3>2, DetachLine
      <3>4. /\ remoteLine' \in Seq(Callers) /\ (Locked(remoteLine') <=> Locked(remoteLine))
            /\ \A y : y # "bg" => (InLine(remoteLine', y) => InLine(remoteLine, y))
                                  /\ (Once(remoteLine, y) => Once(remoteLine', y))
            /\ \A y : y # "bg" /\ y # h => (InLine(remoteLine, y) => InLine(remoteLine', y))
            /\ \A y : y # "bg" /\ Holds(remoteLine', y) => Holds(remoteLine, y)
        BY <1>t, <3>2, DetachLine
      <3>5. h \in Committers => h # "deploy" /\ h # "pull" /\ h \in Procs
        BY DEF Committers, Procs
      <3> HIDE DEF h
      <3>6. \A p \in Procs : InLine(remoteLine, p) =>
             InLine(remoteLine', p) \/ (pc[p] = "refresh" /\ p \in Committers /\ Holds(validateLine, p) /\ validateAt # "line")
        BY <1>0, <2>3, <3>1, <3>3, <3>4
      <3>7. InLine(remoteLine', "pull") <=> InLine(remoteLine, "pull")
        BY <3>3, <3>4, <3>5
      <3> QED
        BY <1>0, <1>t, <2>3, <3>4, <3>6, <3>7 DEF CallsOK
    <2> QED
      BY <2>1, <2>2, <2>3, ValidateShape
  <1>d. CallsOK'
    <2>1. pc["deploy"] = "cli" => InLine(remoteLine', "deploy")
      BY <1>0, <1>c DEF CallsOK, Committers
    <2> QED
      BY <1>0, <1>b, <1>c, <2>1 DEF CallsOK
  <1> QED
    BY <1>0, <1>t, <1>a, <1>b, <1>c, <1>d DEF LinesTyped

\* What a step of BundleRemoteStateModel does: it goes on at the head, returns
\* with a state, or ends a deployment.
LEMMA RemoteShape ==
  ASSUME Remote
  PROVE  /\ UNCHANGED <<fileVars, targetVars, modelVars, pinned, configsMutex, validateVars, resolves, commands>>
         /\ \/ /\ UNCHANGED <<remoteLine, refreshLine, pc, remoteState>>
               /\ \/ remoteAt' = "guard" /\ remoteFor' = modelTarget /\ modelTarget # NoTarget /\ auth
                     /\ Locked(remoteLine)
                  \/ remoteAt = "guard" /\ remoteAt' = "cli" /\ remoteFor' = remoteFor
            \/ Refreshing /\ refreshReturns(Empty)
            \/ Refreshing /\ remoteAt = "cli" /\ (refreshReturns(remoteFor) \/ refreshReturns(remoteState))
            \/ deployFails \/ deployed
  <1> USE DEF validateVars
  <1>1. CASE remoteWithoutCli \/ remoteRefused
    BY <1>1 DEF remoteWithoutCli, remoteRefused, refreshReturns
  <1>2. CASE remoteAnswers \/ remoteFails
    BY <1>2 DEF remoteAnswers, remoteFails, refreshReturns
  <1>3. CASE remoteGuard
    BY <1>3 DEF remoteGuard
  <1>4. CASE remoteAllowed
    BY <1>4 DEF remoteAllowed
  <1>5. CASE deployFails \/ deployed
    BY <1>5 DEF deployFails, deployed
  <1> QED
    BY <1>1, <1>2, <1>3, <1>4, <1>5 DEF Remote

\* What the lines need of a step of the remote state.
RemoteLinesOK ==
  /\ remoteLine' \in Seq(Callers) /\ refreshLine' \in Seq({"event", "deploy"})
  /\ \A p \in Procs : Once(remoteLine', p) /\ (InLine(remoteLine', p) => InLine(remoteLine, p))
  /\ \A p \in Procs : InLine(remoteLine, p) => InLine(remoteLine', p) \/ Holds(remoteLine, p)
  /\ Once(remoteLine', "pull") /\ (InLine(remoteLine', "pull") <=> Locked(refreshLine'))
  /\ Once(refreshLine', "deploy")
  /\ \/ /\ pc' = pc /\ (InLine(refreshLine', "deploy") <=> InLine(refreshLine, "deploy"))
        /\ ~Holds(remoteLine, "deploy") \/ remoteLine' = remoteLine
     \/ /\ pc["deploy"] \in {"cli", "pull"} /\ ~InLine(remoteLine', "deploy")
        /\ \/ pc' = [pc EXCEPT !["deploy"] = "idle"] /\ ~InLine(refreshLine', "deploy")
           \/ pc' = [pc EXCEPT !["deploy"] = "pull"] /\ InLine(refreshLine', "deploy")

LEMMA PullReturnKeepsLines ==
  ASSUME TypeOK, CallsOK, Holds(remoteLine, "pull"), pullReturns(Signal(remoteLine))
  PROVE  RemoteLinesOK
  <1> DEFINE m == remoteLine
             l == Signal(remoteLine)
             n == remoteLine'
             r == refreshLine
             s == refreshLine'
             h == Head(refreshLine)
  <1>0. "pull" \in Callers /\ "pull" \notin Procs /\ "deploy" \in Procs
    BY DEF Callers, Procs, Committers
  <1>1. /\ m \in Seq(Callers) /\ r \in Seq({"event", "deploy"}) /\ Holds(m, "pull") /\ l = Signal(m)
        /\ s = Signal(r) /\ n = IF Locked(s) THEN Wait(l, "pull") ELSE l
        /\ Once(m, "pull") /\ (InLine(m, "pull") <=> Locked(r))
        /\ \A p \in Procs : Once(m, p)
        /\ Once(r, "deploy")
    BY DEF TypeOK, CallsOK, pullReturns
  <1>2. /\ pc' = IF Holds(r, "deploy") THEN [pc EXCEPT !["deploy"] = "idle"] ELSE pc
        /\ InLine(r, "deploy") <=> pc["deploy"] = "pull"
        /\ InLine(m, "deploy") => pc["deploy"] = "cli"
    BY <1>0 DEF pullReturns, CallsOK, RemotePlaces
  <1>3. h = Head(r)
    OBVIOUS
  <1> HIDE DEF m, l, n, r, s, h
  <1>4. /\ l \in Seq(Callers) /\ InLine(m, "pull")
        /\ \A y : y # "pull" => (InLine(l, y) <=> InLine(m, y))
        /\ \A y : Once(m, y) => Once(l, y)
        /\ ~InLine(l, "pull")
    BY <1>1, LeaveLine
  <1>5. Holds(r, h)
    BY <1>1, <1>3, <1>4 DEF Holds, Locked
  <1>6. /\ s \in Seq({"event", "deploy"})
        /\ \A y : y # h => (InLine(s, y) <=> InLine(r, y))
        /\ \A y : Once(r, y) => Once(s, y)
        /\ InLine(r, h)
        /\ Once(r, h) => ~InLine(s, h)
    BY <1>1, <1>5, LeaveLine
  <1>7. /\ n \in Seq(Callers) /\ Once(n, "pull") /\ (InLine(n, "pull") <=> Locked(s))
        /\ \A y : y # "pull" => (InLine(n, y) <=> InLine(l, y)) /\ (Once(l, y) => Once(n, y))
    <2>1. CASE Locked(s)
      BY <1>0, <1>1, <1>4, <2>1, JoinLine
    <2>2. CASE ~Locked(s)
      BY <1>1, <1>4, <2>2
    <2> QED
      BY <2>1, <2>2
  <1>8. ASSUME NEW p \in Procs
        PROVE Once(n, p) /\ (InLine(n, p) <=> InLine(m, p))
    BY <1>0, <1>1, <1>4, <1>7
  <1>9. \/ /\ pc' = pc /\ (InLine(s, "deploy") <=> InLine(r, "deploy")) /\ ~Holds(m, "deploy")
        \/ /\ pc["deploy"] \in {"cli", "pull"} /\ ~InLine(n, "deploy")
           /\ pc' = [pc EXCEPT !["deploy"] = "idle"] /\ ~InLine(s, "deploy")
    <2>1. CASE h = "deploy"
      <3>1. pc["deploy"] = "pull" /\ ~InLine(s, "deploy") /\ Holds(r, "deploy")
        BY <1>1, <1>2, <1>5, <1>6, <2>1
      <3>2. ~InLine(n, "deploy")
        BY <1>0, <1>2, <1>8, <3>1
      <3> QED
        BY <1>2, <3>1, <3>2
    <2>2. CASE h # "deploy"
      <3>1. ~Holds(r, "deploy") /\ ~Holds(m, "deploy")
        BY <1>1, <1>5, <2>2 DEF Holds
      <3> QED
        BY <1>2, <1>6, <2>2, <3>1
    <2> QED
      BY <2>1, <2>2
  <1>10. Once(s, "deploy")
    BY <1>1, <1>6
  <1> QED
    BY <1>6, <1>7, <1>8, <1>9, <1>10 DEF RemoteLinesOK, m, n, r, s

LEMMA RefreshReturnKeepsLines ==
  ASSUME TypeOK, CallsOK, NEW v, Refreshing, refreshReturns(v)
  PROVE  RemoteLinesOK
  <1>1. CASE Holds(remoteLine, "pull")
    BY <1>1, PullReturnKeepsLines DEF refreshReturns
  <1>2. CASE ~Holds(remoteLine, "pull")
    <2> DEFINE m == remoteLine
               n == remoteLine'
               h == Head(remoteLine)
    <2>1. /\ m \in Seq(Callers) /\ n = Signal(m) /\ Holds(m, h) /\ h # "pull" /\ h # "deploy"
          /\ UNCHANGED <<refreshLine, pc>>
      BY <1>2 DEF TypeOK, Refreshing, refreshReturns, Holds, Locked
    <2>2. /\ \A p \in Procs : Once(m, p)
          /\ Once(m, "pull") /\ (InLine(m, "pull") <=> Locked(refreshLine))
          /\ Once(refreshLine, "deploy")
      BY DEF CallsOK
    <2> HIDE DEF m, n, h
    <2>3. /\ n \in Seq(Callers)
          /\ \A y : y # h => (InLine(n, y) <=> InLine(m, y))
          /\ \A y : InLine(n, y) => InLine(m, y)
          /\ \A y : Once(m, y) => Once(n, y)
      BY <2>1, LeaveLine
    <2>4. ~Holds(m, "deploy")
      BY <2>1 DEF Holds
    <2>5. \A p \in Procs : InLine(m, p) => InLine(n, p) \/ Holds(m, p)
      BY <2>1, <2>3
    <2> QED
      BY <2>1, <2>2, <2>3, <2>4, <2>5 DEF RemoteLinesOK, m, n, TypeOK
  <1> QED
    BY <1>1, <1>2

LEMMA DeployReturnKeepsLines ==
  ASSUME TypeOK, CallsOK, deployFails \/ deployed
  PROVE  RemoteLinesOK
  <1> DEFINE m == remoteLine
             l == Signal(remoteLine)
             n == remoteLine'
             r == refreshLine
             s == refreshLine'
  <1>0. "pull" \notin Procs /\ "deploy" \in Procs
    BY DEF Procs, Committers
  <1>1. /\ m \in Seq(Callers) /\ r \in Seq({"event", "deploy"}) /\ Holds(m, "deploy") /\ l = Signal(m)
        /\ Once(m, "pull") /\ (InLine(m, "pull") <=> Locked(r))
        /\ \A p \in Procs : Once(m, p)
        /\ Once(r, "deploy")
        /\ InLine(m, "deploy") => pc["deploy"] = "cli"
        /\ InLine(r, "deploy") <=> pc["deploy"] = "pull"
    BY <1>0 DEF TypeOK, CallsOK, deployFails, deployed, RemotePlaces
  <1>2. deployFails => n = l /\ s = r /\ pc' = [pc EXCEPT !["deploy"] = "idle"]
    BY DEF deployFails, Goto
  <1>3. deployed => /\ s = Wait(r, "deploy") /\ n = IF Locked(r) THEN l ELSE Wait(l, "pull")
                    /\ pc' = [pc EXCEPT !["deploy"] = "pull"]
    BY DEF deployed, Goto, Pull
  <1> HIDE DEF m, l, n, r, s
  <1>4. /\ l \in Seq(Callers) /\ InLine(m, "deploy")
        /\ \A y : y # "deploy" => (InLine(l, y) <=> InLine(m, y))
        /\ \A y : Once(m, y) => Once(l, y)
        /\ ~InLine(l, "deploy")
    BY <1>0, <1>1, LeaveLine
  <1>5. Once(l, "pull") /\ (InLine(l, "pull") <=> Locked(r)) /\ ~InLine(r, "deploy")
    BY <1>1, <1>4
  <1>6. CASE deployFails
    <2>1. \A p \in Procs : /\ Once(n, p) /\ (InLine(n, p) => InLine(m, p))
                           /\ InLine(m, p) => InLine(n, p) \/ Holds(m, p)
      BY <1>1, <1>2, <1>4, <1>6
    <2> QED
      BY <1>1, <1>2, <1>4, <1>5, <1>6, <2>1 DEF RemoteLinesOK, m, n, r, s
  <1>7. CASE deployed
    <2>1. /\ s \in Seq({"event", "deploy"}) /\ n \in Seq(Callers)
          /\ Once(n, "pull") /\ (InLine(n, "pull") <=> Locked(s))
          /\ \A y : y # "pull" => (InLine(n, y) <=> InLine(l, y)) /\ (Once(l, y) => Once(n, y))
          /\ InLine(s, "deploy") /\ Once(s, "deploy")
      BY <1>1, <1>3, <1>4, <1>5, <1>7, PullKeepsLines
    <2>2. \A p \in Procs : /\ Once(n, p) /\ (InLine(n, p) => InLine(m, p))
                           /\ InLine(m, p) => InLine(n, p) \/ Holds(m, p)
      BY <1>0, <1>1, <1>4, <2>1
    <2>3. ~InLine(n, "deploy")
      BY <1>0, <1>4, <2>1
    <2> QED
      BY <1>1, <1>3, <1>4, <1>7, <2>1, <2>2, <2>3 DEF RemoteLinesOK, m, n, r, s
  <1> QED
    BY <1>6, <1>7

LEMMA RemoteKeepsLines ==
  ASSUME TypeOK, ConfigsOK, CallsOK, RunsOK, Remote
  PROVE  /\ LinesTyped' /\ ConfigsOK' /\ CallsOK'
         /\ \A p \in Procs : p # "deploy" => pc'[p] = pc[p]
         /\ pc'["deploy"] = pc["deploy"] \/ (pc["deploy"] \in {"cli", "pull"} /\ pc'["deploy"] \in {"idle", "pull"})
         /\ \A p \in Procs : InLine(remoteLine, p) => InLine(remoteLine', p) \/ Holds(remoteLine, p)
         /\ remoteAt' # "line" => remoteLine' = remoteLine /\ pc' = pc
  <1>0. /\ "deploy" \in Procs /\ pc \in [Procs -> Places]
        /\ UNCHANGED <<configsMutex, validateLine>>
    BY RemoteShape DEF Procs, Committers, TypeOK, validateVars
  <1>1. RemoteLinesOK
    <2>1. CASE UNCHANGED <<remoteLine, refreshLine, pc>>
      <3>1. Holds(remoteLine, "deploy") => remoteLine' = remoteLine
        BY <2>1
      <3> QED
        BY <2>1, <3>1 DEF RemoteLinesOK, TypeOK, CallsOK
    <2> QED
      BY <2>1, RemoteShape, RefreshReturnKeepsLines, DeployReturnKeepsLines
  <1>2. remoteAt' # "line" => remoteLine' = remoteLine /\ pc' = pc
    BY RemoteShape DEF refreshReturns, deployFails, deployed
  <1>3. /\ pc' \in [Procs -> Places]
        /\ \A p \in Procs : p # "deploy" => pc'[p] = pc[p]
        /\ pc'["deploy"] = pc["deploy"] \/ (pc["deploy"] \in {"cli", "pull"} /\ pc'["deploy"] \in {"idle", "pull"})
        /\ InLine(refreshLine', "deploy") <=> pc'["deploy"] = "pull"
    BY <1>0, <1>1 DEF RemoteLinesOK, Places, CallsOK
  <1>4. ConfigsOK'
    <2>1. \A p \in Procs : /\ pc'[p] \in Waiting \cup Holding <=> pc[p] \in Waiting \cup Holding
                           /\ pc'[p] \in Holding => pc[p] \in Holding
      BY <1>3 DEF Waiting, Holding
    <2> QED
      BY <1>0, <2>1 DEF ConfigsOK
  <1>5. \A p \in Procs : Once(validateLine', p) /\ (InLine(validateLine', p) => pc'[p] \in ValidatePlaces)
    BY <1>0, <1>3 DEF CallsOK, ValidatePlaces
  <1>6. \A p \in Procs : Once(remoteLine', p) /\ (InLine(remoteLine', p) => pc'[p] \in RemotePlaces(p))
    <2> SUFFICES ASSUME NEW p \in Procs, InLine(remoteLine', p) PROVE pc'[p] \in RemotePlaces(p)
      BY <1>1 DEF RemoteLinesOK
    <2>1. InLine(remoteLine, p) /\ pc[p] \in RemotePlaces(p)
      BY <1>1 DEF RemoteLinesOK, CallsOK
    <2>2. CASE p # "deploy"
      BY <1>3, <2>1, <2>2
    <2>3. CASE p = "deploy"
      BY <1>1, <2>1, <2>3 DEF RemoteLinesOK
    <2> QED
      BY <2>2, <2>3
  <1>7. pc'["deploy"] = "cli" => InLine(remoteLine', "deploy")
    <2> SUFFICES ASSUME pc'["deploy"] = "cli" PROVE InLine(remoteLine', "deploy")
      OBVIOUS
    <2>1. pc["deploy"] = "cli" /\ InLine(remoteLine, "deploy")
      BY <1>3 DEF CallsOK
    <2>2. pc' = pc /\ (~Holds(remoteLine, "deploy") \/ remoteLine' = remoteLine)
      BY <1>0, <1>1 DEF RemoteLinesOK
    <2> QED
      BY <1>0, <1>1, <2>1, <2>2 DEF RemoteLinesOK
  <1>8. CallsOK'
    BY <1>1, <1>3, <1>5, <1>6, <1>7 DEF CallsOK, RemoteLinesOK
  <1> QED
    BY <1>0, <1>1, <1>2, <1>3, <1>4, <1>8 DEF LinesTyped, RemoteLinesOK, TypeOK

-----------------------------------------------------------------------------
\* Types and lines.

LEMMA InitIsInv == Init => RInv
  <1> SUFFICES ASSUME Init PROVE RInv
    OBVIOUS
  <1>1. LinesTyped
    BY DEF Init, LinesTyped, Free, Places
  <1>2. TypeOK
    <2>1. Defined(disk) \subseteq Targets
      BY DEF Defined
    <2>2. fileEvents \in 0 .. MaxEdits /\ edits \in 0 .. MaxEdits /\ commands \in 0 .. MaxCommands
      BY RemoteBundleAssumption DEF Init
    <2>3. want \in [Committers -> TargetOrNone]
      BY DEF Init, TargetOrNone
    <2> QED
      BY <1>1, <2>1, <2>2, <2>3 DEF Init, TypeOK, LinesTyped, TargetOrNone
  <1>3. ConfigsOK /\ CallsOK
    <2>1. \A x : ~InLine(<< >>, x) /\ Once(<< >>, x)
      BY EmptySeq DEF InLine, Once
    <2> QED
      BY <2>1 DEF Init, ConfigsOK, CallsOK, Free, Locked, Waiting, Holding, Procs, Committers
  <1>4. RunsOK /\ ProviderOK /\ StatesOK /\ ResolveOK
    <2>1. "pin" \in Procs /\ Committers \subseteq Procs /\ "resolve" \in Procs
      BY DEF Procs, Committers
    <2>2. RunsOK /\ StatesOK /\ ResolveOK
      BY <2>1 DEF Init, RunsOK, StatesOK, ResolveOK
    <2>3. ProviderOK
      BY <2>1 DEF Init, ProviderOK
    <2> QED
      BY <2>2, <2>3
  <1>5. EventsOK
    BY DEF Init, EventsOK
  <1> QED
    BY <1>2, <1>3, <1>4, <1>5 DEF RInv

LEMMA LinesStep ==
  ASSUME RInv, Next
  PROVE  LinesTyped' /\ ConfigsOK' /\ CallsOK'
  <1>0. TypeOK /\ LinesTyped /\ ConfigsOK /\ CallsOK /\ RunsOK /\ ProviderOK
    BY LinesAreTyped DEF RInv
  <1>1. CASE UNCHANGED <<configsMutex, validateLine, remoteLine, refreshLine, pc>>
    BY <1>0, <1>1 DEF LinesTyped, ConfigsOK, CallsOK
  <1>2. CASE fileEvent
    <2>1. UNCHANGED <<configsMutex, remoteLine, refreshLine, pc>> /\ validateLine' = Wait(validateLine, "watch")
      BY <1>2 DEF fileEvent, remoteVars
    <2>2. "watch" \in Callers /\ "watch" \notin Procs /\ validateLine \in Seq(Callers)
      BY <1>0 DEF Callers, Procs, Committers, LinesTyped
    <2>3. /\ validateLine' \in Seq(Callers)
          /\ \A y : y # "watch" => (InLine(validateLine', y) <=> InLine(validateLine, y))
                                   /\ (Once(validateLine, y) => Once(validateLine', y))
      BY <2>1, <2>2, JoinLine
    <2> QED
      BY <1>0, <2>1, <2>2, <2>3 DEF LinesTyped, ConfigsOK, CallsOK
  <1>3. ASSUME NEW p \in Procs, NEW to, Moves(p, to) PROVE LinesTyped' /\ ConfigsOK' /\ CallsOK'
    BY <1>0, <1>3, MovesKeepLines
  <1>4. "resolve" \in Procs /\ "select" \in Procs /\ "pin" \in Procs /\ "deploy" \in Procs
        /\ Committers \subseteq Procs
    BY DEF Procs, Committers
  <1>5. CASE editFiles
    BY <1>1, <1>5 DEF editFiles, validateVars, remoteVars
  <1>6. CASE resolveTarget \/ resolveSaved \/ setTarget
    <2>1. resolveTarget /\ target \in bundleTargets =>
            UNCHANGED <<configsMutex, validateLine, remoteLine, refreshLine, pc>>
      BY DEF resolveTarget, validateVars, remoteVars
    <2> QED
      BY <1>0, <1>1, <1>3, <1>4, <1>6, <2>1, ResolveMoves
  <1>7. ASSUME NEW p \in Committers, Commit(p) PROVE LinesTyped' /\ ConfigsOK' /\ CallsOK'
    BY <1>0, <1>3, <1>4, <1>7, CommitMoves DEF Commit
  <1>8. CASE reapply
    BY <1>0, <1>3, <1>4, <1>8, ApplyMoves
  <1>9. ASSUME NEW p \in Committers \cup {"pin"}, Apply(p) PROVE LinesTyped' /\ ConfigsOK' /\ CallsOK'
    BY <1>0, <1>3, <1>4, <1>9, ApplyMoves DEF Apply
  <1>10. CASE pinAuthProvider \/ deploy \/ deployMode \/ deployConfirmed \/ deployCancelled
    BY <1>0, <1>3, <1>4, <1>10, UserMoves
  <1>11. CASE Validate
    BY <1>0, <1>11, ValidateKeepsLines
  <1>12. CASE Remote
    BY <1>0, <1>12, RemoteKeepsLines
  <1> QED
    BY <1>2, <1>5, <1>6, <1>7, <1>8, <1>9, <1>10, <1>11, <1>12 DEF Next, System, Environment

LEMMA EventsStep ==
  ASSUME RInv, Next
  PROVE  EventsOK'
  <1>0. fileEvents <= edits /\ fileEvents \in Nat /\ edits \in Nat
    BY DEF RInv, TypeOK, EventsOK
  <1>1. CASE UNCHANGED <<fileEvents, edits>>
    BY <1>0, <1>1 DEF EventsOK
  <1>2. CASE editFiles \/ fileEvent
    BY <1>0, <1>2 DEF editFiles, fileEvent, EventsOK
  <1> USE <1>1 DEF fileVars
  <1>3. ASSUME NEW p \in Committers, Commit(p) PROVE EventsOK'
    BY <1>3 DEF Commit, checkTarget, switchTarget, storedTarget, targetSwitched, clearAuth, authCleared
  <1>4. ASSUME NEW p \in Committers \cup {"pin"}, Apply(p) PROVE EventsOK'
    BY <1>4 DEF Apply, applyAuth, validateApplied, remoteApplied
  <1>5. CASE resolveTarget \/ resolveSaved \/ setTarget \/ pinAuthProvider \/ reapply
    BY <1>5 DEF resolveTarget, resolveSaved, setTarget, pinAuthProvider, reapply
  <1>6. CASE deploy \/ deployMode \/ deployConfirmed \/ deployCancelled
    BY <1>6 DEF deploy, deployMode, deployConfirmed, deployCancelled
  <1>7. CASE Validate
    <2>1. RunsOK
      BY DEF RInv
    <2> QED
      BY <1>7, <2>1, ValidateShape
  <1>8. CASE Remote
    BY <1>8, RemoteShape
  <1> QED
    BY <1>2, <1>3, <1>4, <1>5, <1>6, <1>7, <1>8 DEF Next, System, Environment

LEMMA TypeStep ==
  ASSUME RInv, Next
  PROVE  TypeOK'
  <1> USE DEF TypeOK, LinesTyped
  <1>0. TypeOK /\ RunsOK /\ LinesTyped'
    BY LinesStep DEF RInv
  <1>1. MaxEdits \in Nat /\ MaxCommands \in Nat /\ DefaultTarget \in Targets
    BY RemoteBundleAssumption
  <1>a. Defined(disk) \subseteq Targets /\ NoTarget \in TargetOrNone /\ Targets \subseteq TargetOrNone
    BY DEF Defined, TargetOrNone
  <1>b. fileEvents <= edits
    BY DEF RInv, EventsOK
  <1>2. CASE editFiles
    <2>1. edits' \in 0 .. MaxEdits /\ fileEvents' \in 0 .. MaxEdits
      BY <1>0, <1>1, <1>b, <1>2 DEF editFiles
    <2> QED
      BY <1>0, <1>2, <2>1 DEF editFiles, validateVars, remoteVars, targetVars, modelVars
  <1>3. CASE fileEvent
    <2>1. fileEvents' \in 0 .. MaxEdits
      BY <1>0, <1>1, <1>3 DEF fileEvent
    <2> QED
      BY <1>0, <1>a, <1>3, <2>1 DEF fileEvent, remoteVars, targetVars, modelVars
  <1>4. CASE resolveTarget
    BY <1>0, <1>4 DEF resolveTarget, fileVars, modelVars, validateVars, remoteVars
  <1>5. CASE resolveSaved
    <2>1. Resolution \in TargetOrNone
      BY <1>0, <1>1, <1>a DEF Resolution
    <2> HIDE DEF Resolution
    <2>2. want' \in [Committers -> TargetOrNone] /\ seen' \subseteq Targets
      BY <1>0, <1>a, <1>5, <2>1 DEF resolveSaved
    <2> QED
      BY <1>0, <1>5, <2>2 DEF resolveSaved, fileVars, modelVars, validateVars, remoteVars
  <1>6. CASE setTarget
    <2>1. commands' \in 0 .. MaxCommands
      BY <1>0, <1>1, <1>6 DEF setTarget
    <2>2. PICK t \in bundleTargets : want' = [want EXCEPT !["select"] = t]
      BY <1>6 DEF setTarget
    <2>3. want' \in [Committers -> TargetOrNone]
      BY <1>0, <1>a, <2>2
    <2> QED
      BY <1>0, <1>6, <2>1, <2>3 DEF setTarget, fileVars, modelVars, validateVars, remoteVars
  <1>7. ASSUME NEW p \in Committers, Commit(p) PROVE TypeOK'
    <2> USE DEF fileVars, targetVars, modelVars, validateVars, remoteVars
    <2>0. want[p] \in TargetOrNone /\ Listeners \subseteq Procs
      BY <1>0 DEF Listeners
    <2>1. CASE checkTarget(p)
      BY <1>0, <1>a, <2>1 DEF checkTarget
    <2>2. CASE switchTarget(p)
      BY <1>0, <2>0, <2>2 DEF switchTarget, setModels
    <2>3. CASE storedTarget(p)
      BY <1>0, <1>a, <2>0, <2>3 DEF storedTarget, setModels
    <2>4. CASE targetSwitched(p) \/ authCleared(p)
      BY <1>0, <2>4 DEF targetSwitched, authCleared
    <2>5. CASE clearAuth(p)
      BY <1>0, <2>5 DEF clearAuth
    <2> QED
      BY <1>7, <2>1, <2>2, <2>3, <2>4, <2>5 DEF Commit
  <1>8. CASE pinAuthProvider \/ reapply
    BY <1>0, <1>8 DEF pinAuthProvider, reapply, fileVars, targetVars, modelVars, validateVars, remoteVars
  <1>9. ASSUME NEW p \in Committers \cup {"pin"}, Apply(p) PROVE TypeOK'
    BY <1>0, <1>9 DEF Apply, applyAuth, validateApplied, remoteApplied, fileVars, targetVars, modelVars,
                      validateVars, remoteVars
  <1>10. CASE deploy \/ deployMode \/ deployConfirmed \/ deployCancelled
    <2>1. commands' \in 0 .. MaxCommands
      BY <1>0, <1>1, <1>10 DEF deploy, deployMode, deployConfirmed, deployCancelled
    <2> QED
      BY <1>0, <1>10, <2>1 DEF deploy, deployMode, deployConfirmed, deployCancelled, fileVars, targetVars,
                               modelVars, validateVars, remoteVars
  <1>11. CASE Validate
    <2> USE DEF fileVars, targetVars, modelVars, remoteVars
    <2>0. Listeners \subseteq Procs
      BY DEF Listeners
    <2>1. CASE validateWithoutCli \/ validateRefused
      BY <1>0, <1>a, <1>11, <2>0, <2>1 DEF validateWithoutCli, validateRefused, validateReturns
    <2>2. CASE validateGuard \/ validateAllowed
      BY <1>0, <2>2 DEF validateGuard, validateAllowed
    <2>3. CASE validateAnswers
      BY <1>0, <1>a, <2>0, <2>3 DEF validateAnswers, validateReturns, RunsOK
    <2>4. CASE validateFails
      BY <1>0, <1>a, <2>4 DEF validateFails
    <2> QED
      BY <1>11, <2>1, <2>2, <2>3, <2>4 DEF Validate
  <1>12. CASE Remote
    <2> USE DEF fileVars, targetVars, modelVars, validateVars
    <2>1. CASE remoteWithoutCli \/ remoteRefused
      BY <1>0, <1>a, <2>1 DEF remoteWithoutCli, remoteRefused, refreshReturns
    <2>2. CASE remoteAnswers \/ remoteFails
      BY <1>0, <1>a, <2>2 DEF remoteAnswers, remoteFails, refreshReturns, RunsOK
    <2>3. CASE remoteGuard \/ remoteAllowed
      BY <1>0, <2>3 DEF remoteGuard, remoteAllowed
    <2>4. CASE deployFails \/ deployed
      BY <1>0, <1>a, <2>4 DEF deployFails, deployed
    <2> QED
      BY <1>12, <2>1, <2>2, <2>3, <2>4 DEF Remote
  <1> QED
    BY <1>2, <1>3, <1>4, <1>5, <1>6, <1>7, <1>8, <1>9, <1>10, <1>11, <1>12 DEF Next, System, Environment

-----------------------------------------------------------------------------
\* The calls of the models that are past their snapshot.

\* Who moves does not overtake anybody at the models.
LEMMA MovesKeepHeads ==
  ASSUME LinesTyped, CallsOK, NEW p \in Procs, NEW to, Moves(p, to)
  PROVE  /\ Locked(validateLine) => Locked(validateLine')
         /\ Locked(remoteLine) => Locked(remoteLine')
         /\ \A q \in Procs : q # p /\ Holds(validateLine', q) => Holds(validateLine, q)
         /\ \A q \in Procs : q # p /\ Holds(remoteLine', q) => Holds(remoteLine, q)
         /\ pc[p] \notin ValidatePlaces /\ Locked(validateLine) => ~Holds(validateLine', p)
         /\ pc[p] \notin RemotePlaces(p) /\ Locked(remoteLine) => ~Holds(remoteLine', p)
         /\ \A q \in Procs : InLine(validateLine, q) => InLine(validateLine', q)
         /\ \A q \in Procs : InLine(remoteLine, q) => InLine(remoteLine', q)
  <1>0. /\ validateLine \in Seq(Callers) /\ remoteLine \in Seq(Callers) /\ p \in Callers
        /\ pc[p] \notin ValidatePlaces => ~InLine(validateLine, p)
        /\ pc[p] \notin RemotePlaces(p) => ~InLine(remoteLine, p)
    BY DEF LinesTyped, CallsOK, Callers
  <1>1. ASSUME NEW m \in Seq(Callers), ~InLine(m, p), NEW n, n = m \/ n = Wait(m, p)
        PROVE /\ Locked(m) => Locked(n) /\ ~Holds(n, p)
              /\ \A q \in Procs : q # p /\ Holds(n, q) => Holds(m, q)
              /\ \A q \in Procs : InLine(m, q) => InLine(n, q)
    <2>1. ~Holds(m, p)
      BY <1>1, LeaveLine
    <2>2. CASE n = m
      BY <2>1, <2>2
    <2>3. CASE n = Wait(m, p)
      <3>1. /\ Locked(n) /\ InLine(n, p)
            /\ \A y : y # p => (InLine(n, y) <=> InLine(m, y))
            /\ \A y : Holds(n, y) => Holds(m, y) \/ (~Locked(m) /\ y = p)
        BY <1>0, <2>3, JoinLine
      <3> QED
        BY <2>1, <3>1
    <2> QED
      BY <1>1, <2>2, <2>3
  <1>2. /\ validateLine' = validateLine \/ (validateLine' = Wait(validateLine, p) /\ pc[p] \notin ValidatePlaces)
        /\ remoteLine' = remoteLine \/ (remoteLine' = Wait(remoteLine, p) /\ pc[p] \notin RemotePlaces(p))
    BY DEF Moves, ValidateTurn, RemoteTurn
  <1>3. /\ Locked(validateLine) => Locked(validateLine')
        /\ \A q \in Procs : q # p /\ Holds(validateLine', q) => Holds(validateLine, q)
        /\ pc[p] \notin ValidatePlaces /\ Locked(validateLine) => ~Holds(validateLine', p)
        /\ \A q \in Procs : InLine(validateLine, q) => InLine(validateLine', q)
    <2>1. CASE pc[p] \notin ValidatePlaces
      BY <1>0, <1>1, <1>2, <2>1
    <2>2. CASE pc[p] \in ValidatePlaces
      BY <1>2, <2>2
    <2> QED
      BY <2>1, <2>2
  <1>4. /\ Locked(remoteLine) => Locked(remoteLine')
        /\ \A q \in Procs : q # p /\ Holds(remoteLine', q) => Holds(remoteLine, q)
        /\ pc[p] \notin RemotePlaces(p) /\ Locked(remoteLine) => ~Holds(remoteLine', p)
        /\ \A q \in Procs : InLine(remoteLine, q) => InLine(remoteLine', q)
    <2>1. CASE pc[p] \notin RemotePlaces(p)
      BY <1>0, <1>1, <1>2, <2>1
    <2>2. CASE pc[p] \in RemotePlaces(p)
      BY <1>2, <2>2
    <2> QED
      BY <2>1, <2>2
  <1> QED
    BY <1>3, <1>4

LEMMA MovesKeepRuns ==
  ASSUME RInv, NEW p \in Procs, NEW to, Moves(p, to), pinned => pinned',
         UNCHANGED <<validateAt, validateFor, remoteAt, remoteFor>>,
         auth' = auth \/ Holds(configsMutex, p),
         to = "refresh" => Holds(configsMutex, p) /\ pc[p] \in {"switch", "store"}
  PROVE  RunsOK'
  <1>0. LinesTyped /\ ConfigsOK /\ CallsOK /\ RunsOK
    BY LinesAreTyped DEF RInv
  <1>1. /\ Locked(validateLine) => Locked(validateLine')
        /\ Locked(remoteLine) => Locked(remoteLine')
        /\ \A q \in Procs : q # p /\ Holds(validateLine', q) => Holds(validateLine, q)
        /\ \A q \in Procs : q # p /\ Holds(remoteLine', q) => Holds(remoteLine, q)
        /\ pc[p] \notin ValidatePlaces /\ Locked(validateLine) => ~Holds(validateLine', p)
        /\ pc[p] \notin RemotePlaces(p) /\ Locked(remoteLine) => ~Holds(remoteLine', p)
    BY <1>0, MovesKeepHeads
  <1>2. pc'[p] = to /\ \A q \in Procs : q # p => pc'[q] = pc[q]
    BY <1>0, MovesKeepLines
  <1>3. ASSUME NEW q \in Procs, pc'[q] = "refresh"
        PROVE  /\ Holds(validateLine', q) /\ validateAt # "line" => auth'
               /\ Holds(remoteLine', q) /\ remoteAt # "line" => auth'
    <2>1. CASE q = p
      <3>1. pc[p] \notin ValidatePlaces /\ pc[p] \notin RemotePlaces(p)
        BY <1>2, <1>3, <2>1 DEF ValidatePlaces, RemotePlaces
      <3> QED
        BY <1>0, <1>1, <2>1, <3>1 DEF RunsOK
    <2>2. CASE q # p
      <3>1. pc[q] = "refresh" /\ pc[q] \in Holding
        BY <1>2, <1>3, <2>2 DEF Holding
      <3>2. auth' = auth
        BY <1>0, <2>2, <3>1, OneHolder
      <3> QED
        BY <1>0, <1>1, <2>2, <3>1, <3>2 DEF RunsOK
    <2> QED
      BY <2>1, <2>2
  <1> QED
    BY <1>0, <1>1, <1>3 DEF RunsOK

LEMMA RunsStep ==
  ASSUME RInv, Next
  PROVE  RunsOK'
  <1> USE DEF fileVars, targetVars, modelVars, validateVars, remoteVars
  <1>0. TypeOK /\ LinesTyped /\ ConfigsOK /\ CallsOK /\ RunsOK /\ ProviderOK
    BY LinesAreTyped DEF RInv
  <1>1. "resolve" \in Procs /\ "select" \in Procs /\ "pin" \in Procs /\ "deploy" \in Procs
        /\ Committers \subseteq Procs
    BY DEF Procs, Committers
  <1>2. CASE editFiles \/ (resolveTarget /\ target \in bundleTargets)
    BY <1>0, <1>2 DEF RunsOK, editFiles, resolveTarget
  <1>3. CASE fileEvent
    <2>1. /\ validateLine' = Wait(validateLine, "watch")
          /\ UNCHANGED <<pc, auth, pinned, validateAt, validateFor, remoteVars>>
      BY <1>3 DEF fileEvent
    <2>2. "watch" \in Callers /\ "watch" \notin Procs /\ validateLine \in Seq(Callers)
      BY <1>0 DEF Callers, Procs, Committers, LinesTyped
    <2>3. Locked(validateLine') /\ \A q \in Procs : Holds(validateLine', q) => Holds(validateLine, q)
      BY <2>1, <2>2, JoinLine
    <2> QED
      BY <1>0, <2>1, <2>3 DEF RunsOK
  <1>4. CASE (resolveTarget /\ target \notin bundleTargets) \/ setTarget
    <2>1. UNCHANGED <<auth, pinned, validateAt, validateFor, remoteAt, remoteFor>>
      BY <1>4 DEF resolveTarget, setTarget
    <2> QED
      BY <1>0, <1>1, <1>4, <2>1, ResolveMoves, MovesKeepRuns
  <1>5. CASE resolveSaved
    <2>1. UNCHANGED <<auth, pinned, validateAt, validateFor, remoteAt, remoteFor>>
      BY <1>5 DEF resolveSaved
    <2>2. PICK to \in {"idle", "switch", "check"} : Moves("resolve", to)
      BY <1>0, <1>5, ResolveMoves
    <2>3. to # "refresh"
      BY <2>2
    <2> QED
      BY <1>1, <2>1, <2>2, <2>3, MovesKeepRuns
  <1>6. ASSUME NEW p \in Committers, Commit(p) PROVE RunsOK'
    <2>1. CASE checkTarget(p) \/ targetSwitched(p) \/ authCleared(p)
      <3>1. UNCHANGED <<auth, pinned, validateAt, validateFor, remoteAt, remoteFor>>
        BY <2>1 DEF checkTarget, targetSwitched, authCleared
      <3> QED
        BY <1>0, <1>1, <2>1, <3>1, CommitMoves, MovesKeepRuns
    <2>2. CASE switchTarget(p)
      <3>1. /\ UNCHANGED <<pinned, validateAt, validateFor, remoteAt, remoteFor>>
            /\ Holds(configsMutex, p) /\ pc[p] = "switch"
        BY <2>2 DEF switchTarget, setModels
      <3> QED
        BY <1>0, <1>1, <2>2, <3>1, CommitMoves, MovesKeepRuns
    <2>3. CASE storedTarget(p)
      <3>1. UNCHANGED <<pinned, validateAt, validateFor, remoteAt, remoteFor>> /\ pc[p] = "store"
        BY <2>3 DEF storedTarget, setModels
      <3>2. Holds(configsMutex, p)
        BY <1>0, <1>1, <3>1 DEF ConfigsOK, Holding
      <3> QED
        BY <1>0, <1>1, <2>3, <3>1, <3>2, CommitMoves, MovesKeepRuns
    <2>4. CASE clearAuth(p)
      <3>1. UNCHANGED <<pinned, validateAt, validateFor, remoteAt, remoteFor>> /\ Holds(configsMutex, p)
        BY <2>4 DEF clearAuth
      <3> QED
        BY <1>0, <1>1, <2>4, <3>1, CommitMoves, MovesKeepRuns
    <2> QED
      BY <1>6, <2>1, <2>2, <2>3, <2>4 DEF Commit
  <1>7. CASE reapply
    <2>1. UNCHANGED <<auth, pinned, validateAt, validateFor, remoteAt, remoteFor>>
      BY <1>7 DEF reapply
    <2> QED
      BY <1>0, <1>1, <1>7, <2>1, ApplyMoves, MovesKeepRuns
  <1>8. ASSUME NEW p \in Committers \cup {"pin"}, Apply(p) PROVE RunsOK'
    <2>1. /\ UNCHANGED <<pinned, validateAt, validateFor, remoteAt, remoteFor>>
          /\ auth' = auth \/ Holds(configsMutex, p)
      BY <1>8 DEF Apply, applyAuth, validateApplied, remoteApplied
    <2>2. \E to \in {"applyValidate", "applyRemote", "idle"} : Moves(p, to)
      BY <1>0, <1>8, ApplyMoves DEF Apply
    <2> QED
      BY <1>1, <2>1, <2>2, MovesKeepRuns
  <1>9. CASE pinAuthProvider \/ deploy \/ deployMode \/ deployConfirmed \/ deployCancelled
    <2>1. (pinned => pinned') /\ UNCHANGED <<auth, validateAt, validateFor, remoteAt, remoteFor>>
      BY <1>9 DEF pinAuthProvider, deploy, deployMode, deployConfirmed, deployCancelled
    <2> QED
      BY <1>0, <1>1, <1>9, <2>1, UserMoves, MovesKeepRuns
  <1>10. CASE Validate
    <2>1. UNCHANGED <<pc, auth, pinned, modelTarget, remoteAt, remoteFor>>
      BY <1>0, <1>10, ValidateShape
    <2>2. /\ Locked(remoteLine) => Locked(remoteLine')
          /\ \A p \in Procs : Holds(remoteLine', p) => Holds(remoteLine, p)
          /\ validateAt' # "line" => validateLine' = validateLine
      BY <1>0, <1>10, ValidateKeepsLines
    <2>3. validateAt' # "line" =>
            \/ validateFor' = modelTarget /\ modelTarget # NoTarget /\ auth /\ Locked(validateLine)
            \/ validateAt # "line" /\ validateFor' = validateFor
      BY <1>0, <1>10, ValidateShape DEF ValidateReturned
    <2>4. modelTarget # NoTarget => modelTarget \in Targets
      BY <1>0 DEF TypeOK, TargetOrNone
    <2> QED
      BY <1>0, <2>1, <2>2, <2>3, <2>4 DEF RunsOK, ProviderOK
  <1>11. CASE Remote
    <2>1. UNCHANGED <<auth, pinned, modelTarget, validateLine, validateAt, validateFor>>
      BY <1>11, RemoteShape
    <2>2. /\ \A p \in Procs : pc'[p] = "refresh" => pc[p] = "refresh"
          /\ remoteAt' # "line" => remoteLine' = remoteLine
      BY <1>0, <1>1, <1>11, RemoteKeepsLines
    <2>3. remoteAt' # "line" =>
            \/ remoteFor' = modelTarget /\ modelTarget # NoTarget /\ auth /\ Locked(remoteLine)
            \/ remoteAt # "line" /\ remoteFor' = remoteFor
      BY <1>11, RemoteShape DEF refreshReturns, deployFails, deployed
    <2>4. modelTarget # NoTarget => modelTarget \in Targets
      BY <1>0 DEF TypeOK, TargetOrNone
    <2> QED
      BY <1>0, <2>1, <2>2, <2>3, <2>4 DEF RunsOK
  <1> QED
    BY <1>2, <1>3, <1>4, <1>5, <1>6, <1>7, <1>8, <1>9, <1>10, <1>11 DEF Next, System, Environment

-----------------------------------------------------------------------------
\* The target and the provider of the models.

LEMMA MovesKeepProvider ==
  ASSUME RInv, NEW p \in Procs, NEW to, Moves(p, to),
         UNCHANGED <<target, modelTarget, saved, auth, pinned>>,
         \A q \in Committers : q # p => want'[q] = want[q],
         pc[p] # "store", to # "store",
         to = "apply" => pinned, to = "clear" => ~pinned,
         pc[p] \in {"refresh", "pinning", "apply"} => to = "apply" \/ ~pinned,
         p = "pin" => pinned /\ pc[p] \notin {"pinning", "apply"}
  PROVE  ProviderOK'
  <1>0. LinesTyped /\ ConfigsOK /\ CallsOK /\ ProviderOK /\ "pin" \in Procs /\ Committers \subseteq Procs
    BY LinesAreTyped DEF RInv, Procs, Committers
  <1>1. /\ pc'[p] = to /\ \A q \in Procs : q # p => pc'[q] = pc[q]
        /\ \A q, r : q # p /\ r # p /\ Ahead(configsMutex, q, r) => Ahead(configsMutex', q, r)
    BY <1>0, MovesKeepLines
  <1>2. /\ \A q \in Committers : pc'[q] = "store" => want'[q] = target
        /\ (\A q \in Committers : pc'[q] # "store") => target = modelTarget
    BY <1>0, <1>1 DEF ProviderOK
  <1>3. (\A q \in Procs : pc'[q] = "apply" => pinned) /\ (pc'["pin"] # "idle" => pinned)
    BY <1>0, <1>1 DEF ProviderOK
  <1>4. pinned => auth \/ \E q \in Procs : pc'[q] \in {"refresh", "pinning", "apply"}
    BY <1>0, <1>1 DEF ProviderOK
  <1>5. ASSUME NEW q \in Procs, pinned, pc'[q] = "clear"
        PROVE \/ pc'["pin"] = "pinning"
              \/ pc'["pin"] = "apply" /\ Ahead(configsMutex', q, "pin")
    BY <1>0, <1>1, <1>5 DEF ProviderOK
  <1> QED
    BY <1>0, <1>2, <1>3, <1>4, <1>5 DEF ProviderOK

\* A commit changes the target of both while it holds configsMutex.
LEMMA CommitKeepsProvider ==
  ASSUME RInv, NEW p \in Committers, switchTarget(p) \/ storedTarget(p) \/ clearAuth(p)
  PROVE  ProviderOK'
  <1> USE DEF targetVars, modelVars
  <1>0. /\ TypeOK /\ LinesTyped /\ ConfigsOK /\ CallsOK /\ ProviderOK
        /\ "pin" \in Procs /\ Committers \subseteq Procs /\ p # "pin" /\ p \in Procs
    BY LinesAreTyped DEF RInv, Procs, Committers
  <1>1. PICK to \in {"refresh", "store", "clearing"} :
          /\ Moves(p, to)
          /\ switchTarget(p) /\ want[p] = NoTarget => to = "refresh"
          /\ switchTarget(p) /\ want[p] # NoTarget => to = "store"
          /\ storedTarget(p) => to = "refresh"
          /\ clearAuth(p) => to = "clearing"
    <2>1. /\ switchTarget(p) => pc[p] = "switch"
          /\ storedTarget(p) => pc[p] = "store"
          /\ clearAuth(p) => pc[p] = "clear"
      BY DEF switchTarget, storedTarget, clearAuth
    <2>2. CASE switchTarget(p) /\ want[p] = NoTarget
      BY <1>0, <2>1, <2>2, CommitMoves
    <2>3. CASE switchTarget(p) /\ want[p] # NoTarget
      BY <1>0, <2>1, <2>3, CommitMoves
    <2>4. CASE storedTarget(p)
      BY <1>0, <2>1, <2>4, CommitMoves
    <2>5. CASE clearAuth(p)
      BY <1>0, <2>1, <2>5, CommitMoves
    <2> QED
      BY <2>2, <2>3, <2>4, <2>5
  <1>2. Holds(configsMutex, p) /\ \A q \in Procs : q # p => pc[q] \notin Holding
    <2>1. pc[p] = "store" => Holds(configsMutex, p)
      BY <1>0 DEF ConfigsOK, Holding
    <2>2. Holds(configsMutex, p)
      BY <2>1 DEF switchTarget, storedTarget, clearAuth
    <2> QED
      BY <1>0, <2>2, OneHolder
  <1>3. /\ pc'[p] = to /\ \A q \in Procs : q # p => pc'[q] = pc[q]
        /\ UNCHANGED <<configsMutex, pinned>>
    BY <1>0, <1>1, MovesKeepLines DEF switchTarget, storedTarget, clearAuth
  <1>4. \A q \in Committers : q # p => pc[q] # "store" /\ pc'[q] # "store"
    BY <1>0, <1>2, <1>3 DEF Holding
  <1>5. /\ auth' => auth
        /\ to = "refresh" => target' = modelTarget'
        /\ to = "store" => target' = want'[p]
        /\ to = "clearing" => UNCHANGED <<target, modelTarget>> /\ pc[p] = "clear"
        /\ target' = NoTarget \/ target' = saved'
    <2>1. CASE switchTarget(p)
      BY <1>0, <1>1, <2>1 DEF switchTarget, setModels, ProviderOK
    <2>2. CASE storedTarget(p)
      BY <1>0, <1>1, <2>2 DEF storedTarget, setModels, ProviderOK
    <2>3. CASE clearAuth(p)
      BY <1>0, <1>1, <2>3 DEF clearAuth, ProviderOK
    <2> QED
      BY <2>1, <2>2, <2>3
  <1>6. (\A q \in Committers : pc'[q] # "store") => target' = modelTarget'
    BY <1>0, <1>1, <1>3, <1>4, <1>5 DEF ProviderOK
  <1>7. pinned => auth' \/ \E q \in Procs : pc'[q] \in {"refresh", "pinning", "apply"}
    <2>1. CASE to = "refresh"
      BY <1>0, <1>3, <2>1
    <2>2. CASE to = "store"
      <3>1. auth' = auth /\ pc[p] = "switch"
        BY <1>1, <2>2 DEF switchTarget
      <3> QED
        BY <1>0, <1>3, <3>1 DEF ProviderOK
    <2>3. CASE to = "clearing"
      BY <1>0, <1>3, <1>5, <2>3 DEF ProviderOK
    <2> QED
      BY <2>1, <2>2, <2>3
  <1>8. /\ auth' => pinned
        /\ \A q \in Procs : pc'[q] = "apply" => pinned
        /\ pc'["pin"] # "idle" => pinned
        /\ \A q \in Procs : pinned /\ pc'[q] = "clear" =>
             \/ pc'["pin"] = "pinning"
             \/ pc'["pin"] = "apply" /\ Ahead(configsMutex', q, "pin")
    BY <1>0, <1>3, <1>5 DEF ProviderOK
  <1>9. \A q \in Committers : pc'[q] = "store" => want'[q] = target'
    BY <1>3, <1>4, <1>5
  <1> QED
    BY <1>3, <1>5, <1>6, <1>7, <1>8, <1>9 DEF ProviderOK

\* The provider is pinned, and handed out behind every commit that found none.
LEMMA PinKeepsProvider ==
  ASSUME RInv, \/ pinAuthProvider \/ reapply
               \/ \E p \in Committers \cup {"pin"} : applyAuth(p)
  PROVE  ProviderOK'
  <1> USE DEF targetVars, modelVars
  <1>0. /\ TypeOK /\ LinesTyped /\ ConfigsOK /\ CallsOK /\ ProviderOK
        /\ "pin" \in Procs /\ Committers \subseteq Procs /\ "pin" \notin Committers
    BY LinesAreTyped DEF RInv, Procs, Committers
  <1>1. CASE pinAuthProvider
    <2>1. /\ UNCHANGED <<target, saved, want, modelTarget, auth>> /\ pinned'
          /\ pc'["pin"] = "pinning" /\ \A q \in Procs : q # "pin" => pc'[q] = pc[q]
      BY <1>0, <1>1 DEF pinAuthProvider, Goto, TypeOK
    <2> QED
      BY <1>0, <2>1 DEF ProviderOK
  <1>2. CASE reapply
    <2>1. /\ UNCHANGED <<target, saved, want, modelTarget, auth, pinned>>
          /\ pc["pin"] = "pinning" /\ configsMutex' = Wait(configsMutex, "pin")
          /\ pc'["pin"] = "apply" /\ \A q \in Procs : q # "pin" => pc'[q] = pc[q]
      BY <1>0, <1>2 DEF reapply, Goto, TypeOK
    <2>2. pinned
      BY <1>0, <2>1 DEF ProviderOK
    <2>3. ASSUME NEW q \in Procs, pc'[q] = "clear" PROVE Ahead(configsMutex', q, "pin")
      <3>1. InLine(configsMutex, q) /\ configsMutex \in Seq(Procs)
        BY <1>0, <2>1, <2>3 DEF ConfigsOK, Waiting, LinesTyped
      <3> QED
        BY <1>0, <2>1, <3>1, JoinLine
    <2> QED
      BY <1>0, <2>1, <2>2, <2>3 DEF ProviderOK
  <1>3. ASSUME NEW p \in Committers \cup {"pin"}, applyAuth(p) PROVE ProviderOK'
    <2>1. /\ UNCHANGED <<target, saved, want, modelTarget, pinned>> /\ auth'
          /\ Holds(configsMutex, p) /\ pc[p] = "apply" /\ Moves(p, "applyValidate") /\ p \in Procs
      BY <1>0, <1>3, ApplyMoves DEF applyAuth
    <2>2. /\ pc'[p] = "applyValidate" /\ \A q \in Procs : q # p => pc'[q] = pc[q]
          /\ \A q, r : q # p /\ r # p /\ Ahead(configsMutex, q, r) => Ahead(configsMutex', q, r)
      BY <1>0, <2>1, MovesKeepLines
    <2>3. pinned
      BY <1>0, <2>1 DEF ProviderOK
    <2>4. \A q : ~Ahead(configsMutex, q, p)
      BY <1>0, <2>1, LeaveLine DEF ConfigsOK, LinesTyped
    <2>5. ASSUME NEW q \in Procs, pc'[q] = "clear"
          PROVE \/ pc'["pin"] = "pinning"
                \/ pc'["pin"] = "apply" /\ Ahead(configsMutex', q, "pin")
      <3>1. q # p /\ pc[q] = "clear"
        BY <2>2, <2>5
      <3>2. CASE p = "pin"
        BY <1>0, <2>1, <2>3, <2>4, <3>1, <3>2 DEF ProviderOK
      <3>3. CASE p # "pin"
        BY <1>0, <2>2, <2>3, <3>1, <3>3 DEF ProviderOK
      <3> QED
        BY <3>2, <3>3
    <2>6. /\ \A q \in Committers : pc'[q] = "store" => want[q] = target
          /\ (\A q \in Committers : pc'[q] # "store") => target = modelTarget
      BY <1>0, <2>1, <2>2 DEF ProviderOK
    <2> QED
      BY <1>0, <2>1, <2>2, <2>3, <2>5, <2>6 DEF ProviderOK
  <1> QED
    BY <1>1, <1>2, <1>3

LEMMA ProviderStep ==
  ASSUME RInv, Next
  PROVE  ProviderOK'
  <1> USE DEF fileVars, targetVars, modelVars
  <1>0. TypeOK /\ LinesTyped /\ ConfigsOK /\ CallsOK /\ RunsOK /\ ProviderOK
    BY LinesAreTyped DEF RInv
  <1>1. "resolve" \in Procs /\ "select" \in Procs /\ "pin" \in Procs /\ "deploy" \in Procs
        /\ Committers \subseteq Procs /\ "pin" \notin Committers
    BY DEF Procs, Committers
  <1>2. CASE editFiles \/ fileEvent \/ (resolveTarget /\ target \in bundleTargets)
    <2>1. UNCHANGED <<target, saved, want, modelTarget, auth, pinned, pc, configsMutex>>
      BY <1>2 DEF editFiles, fileEvent, resolveTarget
    <2> QED
      BY <1>0, <2>1 DEF ProviderOK
  <1>4. CASE (resolveTarget /\ target \notin bundleTargets) \/ setTarget
    <2>1. UNCHANGED <<target, modelTarget, saved, auth, pinned>>
      BY <1>4 DEF resolveTarget, setTarget
    <2>2. \/ Moves("resolve", "saved") /\ pc["resolve"] = "idle" /\ want' = want
          \/ Moves("select", "check") /\ pc["select"] = "idle" /\ \A q \in Committers : q # "select" => want'[q] = want[q]
      BY <1>0, <1>4, ResolveMoves DEF resolveTarget, setTarget, TypeOK
    <2> QED
      BY <1>1, <2>1, <2>2, MovesKeepProvider
  <1>5. CASE resolveSaved
    <2>1. /\ UNCHANGED <<target, modelTarget, saved, auth, pinned>> /\ pc["resolve"] = "saved"
          /\ \A q \in Committers : q # "resolve" => want'[q] = want[q]
      BY <1>0, <1>5 DEF resolveSaved, TypeOK
    <2>2. PICK to \in {"idle", "switch", "check"} : Moves("resolve", to)
      BY <1>0, <1>5, ResolveMoves
    <2>3. to \notin {"store", "apply", "clear"}
      BY <2>2
    <2> QED
      BY <1>1, <2>1, <2>2, <2>3, MovesKeepProvider
  <1>6. ASSUME NEW p \in Committers, Commit(p) PROVE ProviderOK'
    <2>0. p \in Procs /\ p # "pin"
      BY <1>1
    <2>1. CASE checkTarget(p)
      <3>1. /\ UNCHANGED <<target, modelTarget, saved, auth, pinned>> /\ pc[p] = "check"
            /\ \A q \in Committers : q # p => want'[q] = want[q]
        BY <1>0, <2>1 DEF checkTarget, TypeOK
      <3>2. Moves(p, "switch") \/ Moves(p, "idle")
        BY <1>0, <2>1, CommitMoves
      <3> QED
        BY <2>0, <3>1, <3>2, MovesKeepProvider
    <2>2. CASE targetSwitched(p)
      <3>1. UNCHANGED <<target, modelTarget, saved, auth, pinned, want>> /\ pc[p] = "refresh"
        BY <2>2 DEF targetSwitched
      <3>2. Moves(p, IF pinned THEN "apply" ELSE "clear")
        BY <1>0, <2>2, CommitMoves
      <3> QED
        BY <2>0, <3>1, <3>2, MovesKeepProvider
    <2>3. CASE authCleared(p)
      <3>1. UNCHANGED <<target, modelTarget, saved, auth, pinned, want>> /\ pc[p] = "clearing"
        BY <2>3 DEF authCleared
      <3> QED
        BY <1>0, <2>0, <2>3, <3>1, CommitMoves, MovesKeepProvider
    <2> QED
      BY <1>6, <2>1, <2>2, <2>3, CommitKeepsProvider DEF Commit
  <1>7. ASSUME NEW p \in Committers \cup {"pin"}, validateApplied(p) \/ remoteApplied(p) PROVE ProviderOK'
    <2>1. /\ UNCHANGED <<target, modelTarget, saved, auth, pinned, want>>
          /\ pc[p] \in {"applyValidate", "applyRemote"} /\ p \in Procs
      BY <1>1, <1>7 DEF validateApplied, remoteApplied
    <2>2. Moves(p, "idle") \/ Moves(p, "applyRemote")
      BY <1>0, <1>7, ApplyMoves
    <2>3. p = "pin" => pinned
      BY <1>0, <2>1 DEF ProviderOK
    <2> QED
      BY <2>1, <2>2, <2>3, MovesKeepProvider
  <1>8. CASE deploy \/ deployMode \/ deployConfirmed \/ deployCancelled
    <2>1. UNCHANGED <<target, modelTarget, saved, auth, pinned, want>> /\ pc["deploy"] \in {"idle", "mode", "modal"}
      BY <1>8 DEF deploy, deployMode, deployConfirmed, deployCancelled
    <2>2. PICK to \in {"idle", "mode", "modal", "cli"} : Moves("deploy", to)
      BY <1>0, <1>8, UserMoves
    <2>3. to \notin {"store", "apply", "clear"}
      BY <2>2
    <2> QED
      BY <1>1, <2>1, <2>2, <2>3, MovesKeepProvider
  <1>9. CASE Validate
    <2>1. UNCHANGED <<target, saved, want, modelTarget, auth, pinned, pc, configsMutex>>
      BY <1>0, <1>9, ValidateShape
    <2> QED
      BY <1>0, <2>1 DEF ProviderOK
  <1>10. CASE Remote
    <2>1. UNCHANGED <<target, saved, want, modelTarget, auth, pinned, configsMutex>>
      BY <1>10, RemoteShape
    <2>2. /\ \A q \in Procs : q # "deploy" => pc'[q] = pc[q]
          /\ pc'["deploy"] = pc["deploy"] \/ (pc["deploy"] \in {"cli", "pull"} /\ pc'["deploy"] \in {"idle", "pull"})
      BY <1>0, <1>10, RemoteKeepsLines
    <2>3. \A q \in Procs : \A x \in {"store", "apply", "clear", "refresh", "pinning"} : pc'[q] = x <=> pc[q] = x
      BY <2>2
    <2>4. pc'["pin"] = pc["pin"]
      BY <1>1, <2>2
    <2> QED
      BY <1>0, <1>1, <2>1, <2>3, <2>4 DEF ProviderOK
  <1> QED
    BY <1>2, <1>4, <1>5, <1>6, <1>7, <1>8, <1>9, <1>10, PinKeepsProvider DEF Next, System, Environment, Apply

-----------------------------------------------------------------------------
\* The states shown.

LEMMA MovesKeepStates ==
  ASSUME RInv, NEW p \in Procs, NEW to, Moves(p, to),
         UNCHANGED <<modelTarget, validate, remoteState, validateAt, validateFor, remoteAt, remoteFor, failed>>,
         auth' => auth, pinned => pinned', dirty => dirty',
         pc[p] = "refresh" =>
           /\ ~InLine(validateLine, p) /\ ~InLine(remoteLine, p)
           /\ pinned => to = "apply",
         pc[p] # "apply"
  PROVE  StatesOK'
  <1>0. LinesTyped /\ ConfigsOK /\ CallsOK /\ StatesOK
    BY LinesAreTyped DEF RInv
  <1>1. /\ pc'[p] = to /\ \A q \in Procs : q # p => pc'[q] = pc[q]
        /\ Locked(validateLine) => Locked(validateLine')
        /\ \A q \in Procs : InLine(validateLine, q) => InLine(validateLine', q)
        /\ \A q \in Procs : InLine(remoteLine, q) => InLine(remoteLine', q)
    BY <1>0, MovesKeepLines, MovesKeepHeads
  <1>2. remoteState' \notin {Null, Empty, modelTarget'} \/ (remoteAt' # "line" /\ remoteFor' # modelTarget') =>
          ~auth' /\ \E q \in Procs : pc'[q] = "refresh" /\ InLine(remoteLine', q)
    BY <1>0, <1>1 DEF StatesOK
  <1>3. validateAt' # "line" /\ validateFor' # modelTarget' =>
          ~auth' /\ \E q \in Procs : pc'[q] = "refresh" /\ InLine(validateLine', q)
    BY <1>0, <1>1 DEF StatesOK
  <1>4. validate' \notin {Null, Empty, modelTarget'} =>
          \/ failed'
          \/ pinned' /\ \E q \in Procs : pc'[q] \in {"refresh", "apply"}
          \/ dirty' /\ Locked(validateLine')
    BY <1>0, <1>1 DEF StatesOK
  <1> QED
    BY <1>2, <1>3, <1>4 DEF StatesOK

\* While p holds configsMutex elsewhere, every call is for the target of the models.
LEMMA HolderIsAlone ==
  ASSUME ConfigsOK, StatesOK, NEW p \in Procs, Holds(configsMutex, p), pc[p] # "refresh"
  PROVE  /\ remoteState \in {Null, Empty, modelTarget}
         /\ remoteAt # "line" => remoteFor = modelTarget
         /\ validateAt # "line" => validateFor = modelTarget
  <1>1. \A q \in Procs : pc[q] # "refresh"
    BY OneHolder DEF Holding
  <1> QED
    BY <1>1 DEF StatesOK

\* A new target for the models empties both states and has both read again.
LEMMA SetModelsKeepsStates ==
  ASSUME RInv, NEW p \in Committers, NEW t, Holds(configsMutex, p), pc[p] \in {"switch", "store"}, setModels(p, t)
  PROVE  StatesOK'
  <1>0. /\ TypeOK /\ ConfigsOK /\ CallsOK /\ StatesOK /\ p \in Procs /\ p \in Callers
        /\ validateLine \in Seq(Callers) /\ remoteLine \in Seq(Callers)
    BY DEF RInv, Procs, Callers, TypeOK
  <1>1. /\ validateLine' = Wait(validateLine, p) /\ remoteLine' = Wait(remoteLine, p) /\ dirty'
        /\ pc'[p] = "refresh" /\ modelTarget' = t
        /\ UNCHANGED <<validateAt, validateFor, remoteAt, remoteFor>>
    BY <1>0 DEF setModels, Goto, TypeOK
  <1>2. /\ Locked(validateLine') /\ InLine(validateLine', p)
        /\ InLine(remoteLine', p)
    BY <1>0, <1>1, JoinLine
  <1>3. CASE t = modelTarget
    <2>1. remoteState' = remoteState
      BY <1>3 DEF setModels
    <2> QED
      BY <1>0, <1>1, <1>2, <1>3, <2>1, HolderIsAlone DEF StatesOK
  <1>4. CASE t # modelTarget
    <2>1. ~auth'
      BY <1>4 DEF setModels
    <2> QED
      BY <1>0, <1>1, <1>2, <2>1 DEF StatesOK
  <1> QED
    BY <1>3, <1>4

LEMMA ValidateKeepsStates ==
  ASSUME RInv, Validate
  PROVE  StatesOK'
  <1>0. TypeOK /\ ConfigsOK /\ CallsOK /\ RunsOK /\ StatesOK
    BY DEF RInv
  <1>1. UNCHANGED <<modelTarget, auth, pinned, pc, remoteState, remoteAt, remoteFor>>
    BY <1>0, ValidateShape DEF modelVars
  <1>2. /\ \A q \in Procs : InLine(remoteLine, q) =>
              InLine(remoteLine', q) \/ (pc[q] = "refresh" /\ Holds(validateLine, q) /\ validateAt # "line")
        /\ validateAt' # "line" => validateLine' = validateLine
    BY <1>0, ValidateKeepsLines
  <1>3. remoteState' \notin {Null, Empty, modelTarget'} \/ (remoteAt' # "line" /\ remoteFor' # modelTarget') =>
          ~auth' /\ \E q \in Procs : pc'[q] = "refresh" /\ InLine(remoteLine', q)
    BY <1>0, <1>1, <1>2 DEF StatesOK, RunsOK
  <1>4. validateAt' # "line" =>
          validateFor' = modelTarget \/ (validateAt # "line" /\ validateFor' = validateFor)
    BY <1>0, ValidateShape DEF ValidateReturned
  <1>5. validateAt' # "line" /\ validateFor' # modelTarget' =>
          ~auth' /\ \E q \in Procs : pc'[q] = "refresh" /\ InLine(validateLine', q)
    BY <1>0, <1>1, <1>2, <1>4 DEF StatesOK
  <1>6. validate' \notin {Null, Empty, modelTarget} =>
          \/ failed'
          \/ pinned /\ \E q \in Procs : pc[q] \in {"refresh", "apply"}
          \/ dirty' /\ Locked(validateLine')
    <2>1. CASE (validateWithoutCli /\ (dirty \/ validate = Null)) \/ validateRefused
      BY <2>1 DEF validateWithoutCli, validateRefused, validateReturns
    <2>2. CASE validateWithoutCli /\ ~(dirty \/ validate = Null)
      BY <1>0, <2>2 DEF validateWithoutCli, validateReturns, StatesOK
    <2>3. CASE validateGuard \/ validateAllowed
      BY <1>0, <2>3 DEF validateGuard, validateAllowed, StatesOK
    <2>4. CASE validateAnswers
      <3>1. validate' = validateFor /\ validateAt # "line"
        BY <2>4 DEF validateAnswers, validateReturns
      <3> QED
        BY <1>0, <3>1 DEF StatesOK, RunsOK
    <2>5. CASE validateFails
      BY <2>5 DEF validateFails
    <2> QED
      BY <2>1, <2>2, <2>3, <2>4, <2>5 DEF Validate
  <1> QED
    BY <1>1, <1>3, <1>5, <1>6 DEF StatesOK

LEMMA RemoteKeepsStates ==
  ASSUME RInv, Remote
  PROVE  StatesOK'
  <1>0. TypeOK /\ ConfigsOK /\ CallsOK /\ RunsOK /\ StatesOK /\ "deploy" \in Procs
    BY DEF RInv, Procs, Committers
  <1>1. UNCHANGED <<modelTarget, auth, pinned, validate, dirty, validateLine, validateAt, validateFor, failed>>
    BY RemoteShape DEF modelVars, validateVars
  <1>2. /\ \A q \in Procs : pc[q] \in {"refresh", "apply"} => pc'[q] = pc[q]
        /\ \A q \in Procs : InLine(remoteLine, q) => InLine(remoteLine', q) \/ Holds(remoteLine, q)
        /\ remoteAt' # "line" => remoteLine' = remoteLine
    <2>1. /\ \A q \in Procs : q # "deploy" => pc'[q] = pc[q]
          /\ pc'["deploy"] = pc["deploy"] \/ pc["deploy"] \in {"cli", "pull"}
          /\ \A q \in Procs : InLine(remoteLine, q) => InLine(remoteLine', q) \/ Holds(remoteLine, q)
          /\ remoteAt' # "line" => remoteLine' = remoteLine
      BY <1>0, RemoteKeepsLines
    <2>2. ASSUME NEW q \in Procs, pc[q] \in {"refresh", "apply"} PROVE pc'[q] = pc[q]
      BY <2>1, <2>2
    <2> QED
      BY <2>1, <2>2
  <1> DEFINE Stale == remoteState \notin {Null, Empty, modelTarget} \/ (remoteAt # "line" /\ remoteFor # modelTarget)
  \* If there is something stale now and the call at the head is past its snapshot
  \* or a deployment, the commit's own call is still behind it.
  <1>3. ASSUME Stale, remoteAt # "line" \/ Holds(remoteLine, "deploy")
        PROVE  ~auth /\ \E q \in Procs : pc'[q] = "refresh" /\ InLine(remoteLine', q)
    <2>1. ~auth
      BY <1>0, <1>3 DEF StatesOK
    <2>2. PICK q \in Procs : pc[q] = "refresh" /\ InLine(remoteLine, q)
      BY <1>0, <1>3 DEF StatesOK
    <2>3. q # "deploy"
      BY <1>0, <2>2 DEF CallsOK, RemotePlaces
    <2>4. ~Holds(remoteLine, q)
      BY <1>0, <1>3, <2>1, <2>2, <2>3 DEF RunsOK, Holds
    <2> QED
      BY <1>2, <2>1, <2>2, <2>4
  <1>4. Stale' => \/ Stale /\ (remoteAt # "line" \/ Holds(remoteLine, "deploy"))
                  \/ (remoteAt' = "guard" /\ UNCHANGED <<remoteState, remoteLine, pc>> /\ auth)
    <2>1. CASE /\ UNCHANGED <<remoteLine, refreshLine, pc, remoteState>>
               /\ \/ remoteAt' = "guard" /\ remoteFor' = modelTarget /\ modelTarget # NoTarget /\ auth
                     /\ Locked(remoteLine)
                  \/ remoteAt = "guard" /\ remoteAt' = "cli" /\ remoteFor' = remoteFor
      BY <1>1, <2>1
    <2>2. CASE Refreshing /\ refreshReturns(Empty)
      BY <1>1, <2>2 DEF refreshReturns
    <2>3. CASE Refreshing /\ remoteAt = "cli" /\ (refreshReturns(remoteFor) \/ refreshReturns(remoteState))
      <3>1. remoteAt' = "line" /\ remoteState' \in {remoteFor, remoteState} /\ remoteAt = "cli"
        BY <2>3 DEF refreshReturns
      <3> QED
        BY <1>1, <3>1
    <2>4. CASE deployFails \/ deployed
      <3>1. remoteAt' = "line" /\ remoteState' = remoteState /\ Holds(remoteLine, "deploy")
        BY <2>4 DEF deployFails, deployed
      <3> QED
        BY <1>1, <3>1
    <2> QED
      BY <2>1, <2>2, <2>3, <2>4, RemoteShape
  <1>5. Stale' => ~auth' /\ \E q \in Procs : pc'[q] = "refresh" /\ InLine(remoteLine', q)
    <2>1. CASE remoteAt' = "guard" /\ auth /\ UNCHANGED remoteState
      <3>1. ~Stale
        BY <1>0, <2>1 DEF StatesOK
      <3>2. remoteFor' = modelTarget
        BY <2>1, RemoteShape DEF refreshReturns, deployFails, deployed
      <3> QED
        BY <1>1, <2>1, <3>1, <3>2
    <2>2. CASE Stale /\ (remoteAt # "line" \/ Holds(remoteLine, "deploy"))
      <3> HIDE DEF Stale
      <3> QED
        BY <1>1, <1>3, <2>2
    <2> QED
      BY <1>4, <2>1, <2>2
  <1> QED
    BY <1>0, <1>1, <1>2, <1>5 DEF StatesOK

LEMMA StatesStep ==
  ASSUME RInv, Next
  PROVE  StatesOK'
  <1> USE DEF fileVars, targetVars, modelVars, validateVars, remoteVars
  <1>0. TypeOK /\ LinesTyped /\ ConfigsOK /\ CallsOK /\ RunsOK /\ ProviderOK /\ StatesOK
    BY LinesAreTyped DEF RInv
  <1>1. "resolve" \in Procs /\ "select" \in Procs /\ "pin" \in Procs /\ "deploy" \in Procs
        /\ Committers \subseteq Procs
    BY DEF Procs, Committers
  <1>2. CASE editFiles \/ (resolveTarget /\ target \in bundleTargets)
    BY <1>0, <1>2 DEF StatesOK, editFiles, resolveTarget
  <1>3. CASE fileEvent
    <2>1. /\ validateLine' = Wait(validateLine, "watch") /\ dirty'
          /\ UNCHANGED <<pc, modelTarget, auth, pinned, validate, validateAt, validateFor, failed,
                         remoteState, remoteLine, remoteAt, remoteFor>>
      BY <1>3 DEF fileEvent
    <2>2. "watch" \in Callers /\ "watch" \notin Procs /\ validateLine \in Seq(Callers)
      BY <1>0 DEF Callers, Procs, Committers, LinesTyped
    <2>3. Locked(validateLine') /\ \A q \in Procs : InLine(validateLine, q) => InLine(validateLine', q)
      BY <2>1, <2>2, JoinLine
    <2> QED
      BY <1>0, <2>1, <2>3 DEF StatesOK
  <1>4. CASE (resolveTarget /\ target \notin bundleTargets) \/ setTarget
    <2>1. UNCHANGED <<modelVars, pinned, validate, dirty, validateAt, validateFor, failed, remoteState, remoteAt, remoteFor>>
      BY <1>4 DEF resolveTarget, setTarget
    <2>2. \/ Moves("resolve", "saved") /\ pc["resolve"] = "idle"
          \/ Moves("select", "check") /\ pc["select"] = "idle"
      BY <1>0, <1>4, ResolveMoves DEF resolveTarget, setTarget
    <2> QED
      BY <1>1, <2>1, <2>2, MovesKeepStates
  <1>5. CASE resolveSaved
    <2>1. /\ UNCHANGED <<modelVars, pinned, validate, dirty, validateAt, validateFor, failed, remoteState, remoteAt, remoteFor>>
          /\ pc["resolve"] = "saved"
      BY <1>5 DEF resolveSaved
    <2>2. PICK to \in {"idle", "switch", "check"} : Moves("resolve", to)
      BY <1>0, <1>5, ResolveMoves
    <2> QED
      BY <1>1, <2>1, <2>2, MovesKeepStates
  <1>6. ASSUME NEW p \in Committers, Commit(p) PROVE StatesOK'
    <2>0. p \in Procs
      BY <1>1
    <2>1. CASE checkTarget(p) \/ authCleared(p)
      <3>1. /\ UNCHANGED <<modelVars, pinned, validate, dirty, validateAt, validateFor, failed, remoteState, remoteAt, remoteFor>>
            /\ pc[p] \in {"check", "clearing"}
        BY <2>1 DEF checkTarget, authCleared
      <3>2. \E to \in {"switch", "idle"} : Moves(p, to)
        BY <1>0, <2>1, CommitMoves
      <3> QED
        BY <2>0, <3>1, <3>2, MovesKeepStates
    <2>2. CASE targetSwitched(p)
      <3>1. /\ UNCHANGED <<modelVars, pinned, validate, dirty, validateAt, validateFor, failed, remoteState, remoteAt, remoteFor>>
            /\ pc[p] = "refresh" /\ Refreshed(p) /\ Pulled(p)
        BY <2>2 DEF targetSwitched
      <3>2. ~InLine(validateLine, p) /\ ~InLine(remoteLine, p)
        BY <1>0, <3>1, LenProperties DEF Refreshed, Pulled, InLine, LinesTyped
      <3>3. Moves(p, IF pinned THEN "apply" ELSE "clear")
        BY <1>0, <2>2, CommitMoves
      <3> QED
        BY <2>0, <3>1, <3>2, <3>3, MovesKeepStates
    <2>3. CASE clearAuth(p)
      <3>1. /\ UNCHANGED <<modelTarget, pinned, validate, validateAt, validateFor, failed, remoteState, remoteAt, remoteFor>>
            /\ pc[p] = "clear" /\ dirty' /\ ~auth'
        BY <2>3 DEF clearAuth
      <3> QED
        BY <1>0, <2>0, <2>3, <3>1, CommitMoves, MovesKeepStates
    <2>4. CASE switchTarget(p) /\ want[p] # NoTarget
      <3>1. /\ UNCHANGED <<modelVars, pinned, validate, dirty, validateAt, validateFor, failed, remoteState, remoteAt, remoteFor>>
            /\ pc[p] = "switch"
        BY <2>4 DEF switchTarget
      <3> QED
        BY <1>0, <2>0, <2>4, <3>1, CommitMoves, MovesKeepStates
    <2>5. CASE (switchTarget(p) /\ want[p] = NoTarget) \/ storedTarget(p)
      <3>1. pc[p] \in {"switch", "store"} /\ setModels(p, want[p])
        BY <2>5 DEF switchTarget, storedTarget
      <3>2. Holds(configsMutex, p)
        BY <1>0, <2>0, <2>5 DEF switchTarget, storedTarget, ConfigsOK, Holding
      <3> QED
        BY <3>1, <3>2, SetModelsKeepsStates
    <2> QED
      BY <1>6, <2>1, <2>2, <2>3, <2>4, <2>5 DEF Commit
  <1>7. CASE pinAuthProvider \/ reapply
    <2>1. /\ UNCHANGED <<modelVars, validate, dirty, validateAt, validateFor, failed, remoteState, remoteAt, remoteFor>>
          /\ pinned => pinned'
      BY <1>7 DEF pinAuthProvider, reapply
    <2>2. pc["pin"] \in {"idle", "pinning"}
      BY <1>0, <1>7 DEF pinAuthProvider, reapply, ProviderOK
    <2>3. Moves("pin", "pinning") \/ Moves("pin", "apply")
      BY <1>0, <1>7, UserMoves, ApplyMoves
    <2> QED
      BY <1>1, <2>1, <2>2, <2>3, MovesKeepStates
  <1>8. ASSUME NEW p \in Committers \cup {"pin"}, Apply(p) PROVE StatesOK'
    <2>0. p \in Procs
      BY <1>1
    <2>1. CASE applyAuth(p)
      <3>1. /\ UNCHANGED <<modelTarget, pinned, validate, validateAt, validateFor, failed, remoteVars>>
            /\ pc[p] = "apply" /\ Holds(configsMutex, p) /\ dirty' /\ validateLine' = Wait(validateLine, p)
        BY <2>1 DEF applyAuth
      <3>2. /\ remoteState \in {Null, Empty, modelTarget}
            /\ remoteAt # "line" => remoteFor = modelTarget
            /\ validateAt # "line" => validateFor = modelTarget
        BY <1>0, <2>0, <3>1, HolderIsAlone
      <3>3. Locked(validateLine')
        BY <1>0, <2>0, <3>1, JoinLine DEF LinesTyped, Callers
      <3> QED
        BY <3>1, <3>2, <3>3 DEF StatesOK
    <2>2. CASE validateApplied(p) \/ remoteApplied(p)
      <3>1. /\ UNCHANGED <<modelVars, pinned, validate, dirty, validateAt, validateFor, failed, remoteState, remoteAt, remoteFor>>
            /\ pc[p] \in {"applyValidate", "applyRemote"}
        BY <2>2 DEF validateApplied, remoteApplied
      <3>2. Moves(p, "idle") \/ Moves(p, "applyRemote")
        BY <1>0, <2>2, ApplyMoves
      <3> QED
        BY <2>0, <3>1, <3>2, MovesKeepStates
    <2> QED
      BY <1>8, <2>1, <2>2 DEF Apply
  <1>9. CASE deploy \/ deployMode \/ deployConfirmed \/ deployCancelled
    <2>1. /\ UNCHANGED <<modelVars, pinned, validate, dirty, validateAt, validateFor, failed, remoteState, remoteAt, remoteFor>>
          /\ pc["deploy"] \in {"idle", "mode", "modal"}
      BY <1>9 DEF deploy, deployMode, deployConfirmed, deployCancelled
    <2>2. \E to \in {"idle", "mode", "modal", "cli"} : Moves("deploy", to)
      BY <1>0, <1>9, UserMoves
    <2> QED
      BY <1>1, <2>1, <2>2, MovesKeepStates
  <1> QED
    BY <1>2, <1>3, <1>4, <1>5, <1>6, <1>7, <1>8, <1>9, ValidateKeepsStates, RemoteKeepsStates
       DEF Next, System, Environment

-----------------------------------------------------------------------------
\* The resolution of the target.

LEMMA MovesKeepResolved ==
  ASSUME RInv, UNCHANGED <<target, saved, bundleTargets, seen, want>>, resolves => resolves',
         \A q \in Committers : \/ pc'[q] = pc[q]
                               \/ /\ pc[q] \notin {"saved", "check", "switch", "store"}
                                  /\ pc'[q] \notin {"saved", "check"}
  PROVE  ResolveOK'
  <1>1. ResolveOK /\ "resolve" \in Committers /\ "select" \in Committers
    BY DEF RInv, Committers
  <1> QED
    BY <1>1 DEF ResolveOK, Resolved

LEMMA ResolveStep ==
  ASSUME RInv, Next
  PROVE  ResolveOK'
  <1> USE DEF fileVars, targetVars
  <1>0. TypeOK /\ LinesTyped /\ ConfigsOK /\ CallsOK /\ RunsOK /\ ProviderOK /\ ResolveOK
    BY LinesAreTyped DEF RInv
  <1>1. /\ "resolve" \in Procs /\ "select" \in Procs /\ "pin" \in Procs /\ "deploy" \in Procs
        /\ Committers = {"resolve", "select"} /\ "resolve" # "select"
    BY DEF Procs, Committers
  <1>t. pc \in [Procs -> Places] /\ want \in [Committers -> TargetOrNone] /\ bundleTargets \subseteq Targets
    BY <1>0 DEF TypeOK
  <1>2. CASE editFiles
    BY <1>2, MovesKeepResolved DEF editFiles
  <1>3. CASE fileEvent
    BY <1>0, <1>3 DEF fileEvent, ResolveOK
  <1>4. CASE resolveTarget
    <2>1. CASE target \in bundleTargets
      <3>1. UNCHANGED <<target, saved, bundleTargets, seen, want, pc>> /\ pc["resolve"] = "idle"
        BY <1>4, <2>1 DEF resolveTarget
      <3>2. target # NoTarget
        BY <1>t, <2>1, RemoteBundleAssumption
      <3> QED
        BY <2>1, <3>1, <3>2 DEF ResolveOK, Resolved
    <2>2. CASE target \notin bundleTargets
      <3>1. pc'["resolve"] = "saved" /\ seen' = bundleTargets /\ bundleTargets' = bundleTargets
        BY <1>1, <1>t, <1>4, <2>2 DEF resolveTarget, Goto
      <3> QED
        BY <3>1 DEF ResolveOK
    <2> QED
      BY <2>1, <2>2
  <1>5. CASE resolveSaved
    <2>1. /\ UNCHANGED <<target, saved, bundleTargets, resolves>> /\ pc["resolve"] = "saved"
          /\ resolves \/ seen = bundleTargets
      BY <1>0, <1>5 DEF resolveSaved, ResolveOK
    <2>2. PICK to \in {"idle", "switch", "check"} :
            /\ Moves("resolve", to)
            /\ to = "idle" => Resolution = target
            /\ to = "check" => want'["resolve"] = Resolution
            /\ to = "switch" => Resolution = NoTarget
      BY <1>0, <1>5, ResolveMoves
    <2>3. pc'["resolve"] = to
      BY <1>0, <1>1, <2>2, MovesKeepLines
    <2>4. CASE to = "idle"
      <3>1. seen = bundleTargets => Resolved
        BY <1>t, <2>2, <2>4, RemoteBundleAssumption DEF Resolution, Resolved
      <3>2. resolves \/ Resolved'
        BY <2>1, <3>1 DEF Resolved
      <3> QED
        BY <2>1, <2>3, <2>4, <3>2 DEF ResolveOK
    <2>5. CASE to = "switch"
      BY <2>1, <2>3, <2>5 DEF ResolveOK
    <2>6. CASE to = "check"
      <3>1. Resolution # NoTarget
        BY <1>1, <1>5, <2>3, <2>6, <1>t DEF resolveSaved, Goto
      <3>2. seen = bundleTargets => Resolution \in bundleTargets
        BY <3>1 DEF Resolution
      <3> QED
        BY <2>1, <2>2, <2>3, <2>6, <3>2 DEF ResolveOK
    <2> QED
      BY <2>4, <2>5, <2>6
  <1>6. CASE setTarget
    <2>1. /\ UNCHANGED <<target, saved, bundleTargets, resolves, seen>> /\ pc["select"] = "idle"
          /\ pc'["resolve"] = pc["resolve"] /\ want'["resolve"] = want["resolve"]
      BY <1>1, <1>t, <1>6 DEF setTarget, Goto
    <2> QED
      BY <1>0, <2>1 DEF ResolveOK, Resolved
  <1>7. ASSUME NEW p \in Committers, Commit(p) PROVE ResolveOK'
    <2>0. /\ p \in Procs /\ \A to : pc' = [pc EXCEPT ![p] = to] =>
                              pc'[p] = to /\ \A q \in Committers : q # p => pc'[q] = pc[q]
      BY <1>1, <1>t
    <2>1. CASE checkTarget(p)
      <3>1. /\ UNCHANGED <<target, saved, bundleTargets, resolves, seen>> /\ pc[p] = "check"
            /\ \A q \in Committers : q # p => want'[q] = want[q]
        BY <1>t, <2>1 DEF checkTarget
      <3>2. IF want[p] \in bundleTargets THEN pc'[p] = "switch" ELSE pc'[p] = "idle"
        BY <2>0, <2>1 DEF checkTarget, Goto
      <3>3. \A q \in Committers : q # p => pc'[q] = pc[q]
        BY <2>0, <2>1 DEF checkTarget, Goto
      <3>4. CASE p = "resolve"
        BY <1>0, <1>1, <3>1, <3>2, <3>3, <3>4 DEF ResolveOK, Resolved
      <3>5. CASE p = "select"
        BY <1>0, <1>1, <3>1, <3>2, <3>3, <3>5 DEF ResolveOK, Resolved
      <3> QED
        BY <1>1, <3>4, <3>5
    <2>2. CASE switchTarget(p) /\ want[p] # NoTarget
      <3>1. /\ UNCHANGED <<bundleTargets, resolves, seen, want>> /\ pc[p] = "switch" /\ pc'[p] = "store"
            /\ \A q \in Committers : q # p => pc'[q] = pc[q]
        BY <2>0, <2>2 DEF switchTarget, Goto
      <3> QED
        BY <1>0, <1>1, <3>1 DEF ResolveOK
    <2>3. CASE (switchTarget(p) /\ want[p] = NoTarget) \/ storedTarget(p)
      <3>1. /\ resolves' /\ bundleTargets' = bundleTargets /\ pc'[p] = "refresh"
            /\ \A q \in Committers : q # p => pc'[q] = pc[q]
        BY <2>0, <2>3 DEF switchTarget, storedTarget, setModels, Goto
      <3> QED
        BY <3>1 DEF ResolveOK
    <2>4. CASE targetSwitched(p) \/ clearAuth(p) \/ authCleared(p)
      <3>1. /\ UNCHANGED <<target, saved, bundleTargets, seen, want, resolves>>
            /\ pc[p] \in {"refresh", "clear", "clearing"} /\ pc'[p] \in {"apply", "clear", "clearing", "idle"}
            /\ \A q \in Committers : q # p => pc'[q] = pc[q]
        BY <2>0, <2>4 DEF targetSwitched, clearAuth, authCleared, Goto
      <3> QED
        BY <3>1, MovesKeepResolved
    <2> QED
      BY <1>7, <2>1, <2>2, <2>3, <2>4 DEF Commit
  <1>8. CASE pinAuthProvider \/ reapply
    <2>1. /\ UNCHANGED <<target, saved, bundleTargets, seen, want>> /\ (resolves => resolves')
          /\ \A q \in Committers : pc'[q] = pc[q]
      BY <1>1, <1>t, <1>8 DEF pinAuthProvider, reapply, Goto
    <2> QED
      BY <2>1, MovesKeepResolved
  <1>9. ASSUME NEW p \in Committers \cup {"pin"}, Apply(p) PROVE ResolveOK'
    <2>1. /\ UNCHANGED <<target, saved, bundleTargets, seen, want, resolves>>
          /\ pc[p] \in {"apply", "applyValidate", "applyRemote"}
          /\ \E to \in {"idle", "applyValidate", "applyRemote"} : pc' = [pc EXCEPT ![p] = to]
      BY <1>9 DEF Apply, applyAuth, validateApplied, remoteApplied, Goto
    <2>2. \A q \in Committers : pc'[q] = pc[q]
            \/ (pc[q] \in {"apply", "applyValidate", "applyRemote"} /\ pc'[q] \in {"idle", "applyValidate", "applyRemote"})
      BY <1>1, <1>t, <2>1
    <2> QED
      BY <2>1, <2>2, MovesKeepResolved
  <1>10. CASE deploy \/ deployMode \/ deployConfirmed \/ deployCancelled
    <2>1. /\ UNCHANGED <<target, saved, bundleTargets, seen, want, resolves>>
          /\ \A q \in Committers : pc'[q] = pc[q]
      BY <1>1, <1>t, <1>10 DEF deploy, deployMode, deployConfirmed, deployCancelled, Goto
    <2> QED
      BY <2>1, MovesKeepResolved
  <1>11. CASE Validate
    <2>1. UNCHANGED <<target, saved, bundleTargets, seen, want, resolves, pc>>
      BY <1>0, <1>11, ValidateShape
    <2> QED
      BY <2>1, MovesKeepResolved
  <1>12. CASE Remote
    <2>1. UNCHANGED <<target, saved, bundleTargets, seen, want, resolves>>
      BY <1>12, RemoteShape
    <2>2. \A q \in Committers : pc'[q] = pc[q]
      BY <1>0, <1>1, <1>12, RemoteKeepsLines
    <2> QED
      BY <2>1, <2>2, MovesKeepResolved
  <1> QED
    BY <1>2, <1>3, <1>4, <1>5, <1>6, <1>7, <1>8, <1>9, <1>10, <1>11, <1>12 DEF Next, System, Environment

-----------------------------------------------------------------------------
\* The theorems.

LEMMA StepKeepsInv == RInv /\ [Next]_vars => RInv'
  <1> SUFFICES ASSUME RInv, [Next]_vars PROVE RInv'
    OBVIOUS
  <1>1. CASE Next
    <2>1. TypeOK' /\ EventsOK' /\ ConfigsOK' /\ CallsOK'
      BY <1>1, TypeStep, EventsStep, LinesStep
    <2>2. RunsOK' /\ ProviderOK' /\ StatesOK' /\ ResolveOK'
      BY <1>1, RunsStep, ProviderStep, StatesStep, ResolveStep
    <2> QED
      BY <2>1, <2>2 DEF RInv
  <1>2. CASE UNCHANGED vars
    <2> USE <1>2 DEF vars, fileVars, targetVars, modelVars, validateVars, remoteVars
    <2>1. TypeOK'
      BY DEF RInv, TypeOK
    <2>2. EventsOK' /\ ConfigsOK' /\ CallsOK' /\ RunsOK'
      BY DEF RInv, EventsOK, ConfigsOK, CallsOK, RunsOK
    <2>3. ProviderOK' /\ StatesOK'
      BY DEF RInv, ProviderOK, StatesOK
    <2>4. ResolveOK'
      BY DEF RInv, ResolveOK, Resolved
    <2> QED
      BY <2>1, <2>2, <2>3, <2>4 DEF RInv
  <1> QED
    BY <1>1, <1>2

LEMMA InvAlways == Spec => []RInv
  BY InitIsInv, StepKeepsInv, PTL DEF Spec

\* The parts of the invariant give what RemoteBundleInv counts.
LEMMA InvCounts == RInv => RemoteBundleInv
  <1> SUFFICES ASSUME RInv PROVE RemoteBundleInv
    OBVIOUS
  <1>1. /\ TypeOK /\ ConfigsOK /\ CallsOK /\ RunsOK /\ ProviderOK
        /\ configsMutex \in Seq(Procs) /\ validateLine \in Seq(Callers) /\ remoteLine \in Seq(Callers)
        /\ refreshLine \in Seq({"event", "deploy"}) /\ "deploy" \in Procs
    BY DEF RInv, TypeOK, Procs, Committers
  <1>2. \A p \in Procs : Times(p, configsMutex) = IF pc[p] \in Waiting \cup Holding THEN 1 ELSE 0
    BY <1>1, TimesInLine DEF ConfigsOK
  <1>3. \A p \in Procs \ {"deploy"} : Times(p, validateLine) <= 1 /\ Times(p, remoteLine) <= 1
    <2> SUFFICES ASSUME NEW p \in Procs PROVE Times(p, validateLine) <= 1 /\ Times(p, remoteLine) <= 1
      OBVIOUS
    <2>1. /\ Times(p, validateLine) = IF InLine(validateLine, p) THEN 1 ELSE 0
          /\ Times(p, remoteLine) = IF InLine(remoteLine, p) THEN 1 ELSE 0
      BY <1>1, TimesInLine DEF CallsOK
    <2> QED
      BY <2>1
  <1>4. Times("pull", remoteLine) = IF Locked(refreshLine) THEN 1 ELSE 0
    BY <1>1, TimesInLine DEF CallsOK
  <1>5. Times("deploy", remoteLine) = IF pc["deploy"] = "cli" THEN 1 ELSE 0
    <2>1. Once(remoteLine, "deploy") /\ (InLine(remoteLine, "deploy") <=> pc["deploy"] = "cli")
      BY <1>1 DEF CallsOK, RemotePlaces
    <2> QED
      BY <1>1, <2>1, TimesInLine
  <1>6. Times("deploy", refreshLine) = IF pc["deploy"] = "pull" THEN 1 ELSE 0
    BY <1>1, TimesInLine DEF CallsOK
  <1>7. \A p \in Procs : pc[p] \in Holding => Holds(configsMutex, p)
    BY <1>1 DEF ConfigsOK
  <1>8. /\ validateAt # "line" => Locked(validateLine) /\ validateFor \in Targets
        /\ remoteAt # "line" => Locked(remoteLine) /\ remoteFor \in Targets
    BY <1>1 DEF RunsOK
  <1>9. /\ (\A p \in Committers : pc[p] # "store") => target = modelTarget
        /\ target = NoTarget \/ target = saved
        /\ auth => pinned
    BY <1>1 DEF ProviderOK
  <1> QED
    BY <1>1, <1>2, <1>3, <1>4, <1>5, <1>6, <1>7, <1>8, <1>9 DEF RemoteBundleInv

\* The lines of configsMutex, of the models and of the pulls have every caller
\* as often as its place says, and the models follow ConfigModel's target and the
\* pin (ConfigModel.ts, BundleValidateModel.ts, BundleRemoteStateModel.ts,
\* BundleCommands.ts), for all targets, files and bounds.
THEOREM RemoteBundleInvariant == Spec => []RemoteBundleInv
  BY InvAlways, InvCounts, PTL

\* When the window has settled, the models have the target, and the session's
\* credentials and guard if it is connected: a pin is not lost to a target change
\* (reapplyPinnedAuthProvider and commitTarget in ConfigModel.ts).
THEOREM PinIsKept == Spec => []PinnedIsApplied
  <1>1. RInv => PinnedIsApplied
    BY DEF RInv, ProviderOK, PinnedIsApplied, Quiet, TypeOK, Procs, Committers
  <1> QED
    BY <1>1, InvAlways, PTL

\* When the window has settled, neither state is one that was read for a former
\* target, whatever was under way when the target changed (refresh and setTarget
\* of BundleValidateModel.ts and BundleRemoteStateModel.ts).
THEOREM NoFormerStates == Spec => []StatesAreTargets
  <1>1. RInv => StatesAreTargets
    <2> SUFFICES ASSUME RInv, Quiet
                 PROVE  /\ remoteState \in {Null, Empty, target}
                        /\ failed \/ validate \in {Null, Empty, target}
      BY DEF StatesAreTargets
    <2>1. /\ \A p \in Procs : pc[p] = "idle"
          /\ ~Locked(validateLine) /\ ~Locked(remoteLine)
          /\ StatesOK /\ RunsOK /\ ProviderOK /\ Committers \subseteq Procs
      BY DEF RInv, Quiet, Locked, Free, Procs
    <2>2. target = modelTarget
      BY <2>1 DEF ProviderOK
    <2> QED
      BY <2>1, <2>2 DEF StatesOK
  <1> QED
    BY <1>1, InvAlways, PTL

\* When the window has settled, the target is one the bundle defines, or there is
\* none to choose (resolveTarget in ConfigModel.ts), although the files can change
\* at any time between the reads of a resolution and its commit.
THEOREM ResolutionIsCurrent == Spec => []TargetIsResolved
  <1>1. RInv => TargetIsResolved
    <2>1. Quiet => ~resolves /\ pc["select"] = "idle" /\ pc["resolve"] = "idle"
      BY DEF Quiet, Procs, Committers
    <2> QED
      BY <2>1 DEF RInv, ResolveOK, Resolved, TargetIsResolved
  <1> QED
    BY <1>1, InvAlways, PTL

-----------------------------------------------------------------------------
\* Nobody waits for ever.

\* Each process is at its own places only.
RolesOK ==
  /\ pc["deploy"] \in {"idle", "mode", "modal", "cli", "pull"}
  /\ pc["pin"] \in {"idle", "pinning", "apply", "applyValidate", "applyRemote"}
  /\ \A p \in Committers : pc[p] \notin {"pinning", "mode", "modal", "cli", "pull"}

LEMMA RolesStep == ASSUME TypeOK, RolesOK, Next PROVE RolesOK'
  <1>0. /\ pc \in [Procs -> Places] /\ Procs = {"resolve", "select", "pin", "deploy"}
        /\ Committers = {"resolve", "select"}
    BY DEF TypeOK, Procs, Committers
  <1>1. CASE pc' = pc
    BY <1>1 DEF RolesOK
  <1>2. ASSUME NEW p \in Committers, NEW to, pc' = [pc EXCEPT ![p] = to],
               to \notin {"pinning", "mode", "modal", "cli", "pull"}
        PROVE  RolesOK'
    BY <1>0, <1>2 DEF RolesOK
  <1>3. ASSUME NEW to \in {"idle", "pinning", "apply", "applyValidate", "applyRemote"},
               pc' = [pc EXCEPT !["pin"] = to]
        PROVE  RolesOK'
    BY <1>0, <1>3 DEF RolesOK
  <1>4. ASSUME NEW to \in {"idle", "mode", "modal", "cli", "pull"}, pc' = [pc EXCEPT !["deploy"] = to]
        PROVE  RolesOK'
    BY <1>0, <1>4 DEF RolesOK
  <1>5. CASE editFiles \/ fileEvent
    BY <1>1, <1>5 DEF editFiles, fileEvent
  <1>6. CASE resolveTarget \/ resolveSaved \/ setTarget
    BY <1>0, <1>1, <1>2, <1>6 DEF resolveTarget, resolveSaved, setTarget, Goto
  <1>7. ASSUME NEW p \in Committers, Commit(p) PROVE RolesOK'
    <2>1. CASE checkTarget(p)
      BY <1>2, <2>1 DEF checkTarget, Goto
    <2>2. CASE switchTarget(p)
      BY <1>2, <2>2 DEF switchTarget, setModels, Goto
    <2>3. CASE storedTarget(p)
      BY <1>2, <2>3 DEF storedTarget, setModels, Goto
    <2>4. CASE targetSwitched(p) \/ clearAuth(p) \/ authCleared(p)
      BY <1>2, <2>4 DEF targetSwitched, clearAuth, authCleared, Goto
    <2> QED BY <1>7, <2>1, <2>2, <2>3, <2>4 DEF Commit
  <1>8. CASE pinAuthProvider \/ reapply
    BY <1>3, <1>8 DEF pinAuthProvider, reapply, Goto
  <1>9. ASSUME NEW p \in Committers \cup {"pin"}, Apply(p) PROVE RolesOK'
    <2>1. PICK to \in {"idle", "applyValidate", "applyRemote"} : pc' = [pc EXCEPT ![p] = to]
      BY <1>9 DEF Apply, applyAuth, validateApplied, remoteApplied, Goto
    <2> QED BY <1>2, <1>3, <2>1
  <1>10. CASE Validate
    <2>1. CASE validateWithoutCli \/ validateRefused \/ validateAnswers
      BY <1>1, <2>1 DEF validateWithoutCli, validateRefused, validateAnswers, validateReturns
    <2>2. CASE validateGuard \/ validateAllowed \/ validateFails
      BY <1>1, <2>2 DEF validateGuard, validateAllowed, validateFails
    <2> QED BY <1>10, <2>1, <2>2 DEF Validate
  <1>11. CASE Remote
    <2>1. ASSUME NEW v, refreshReturns(v) PROVE RolesOK'
      BY <1>1, <1>4, <2>1 DEF refreshReturns, pullReturns
    <2>2. CASE deployFails \/ deployed
      BY <1>4, <2>2 DEF deployFails, deployed, Goto
    <2> QED BY <1>1, <1>11, <2>1, <2>2, RemoteShape
  <1>12. CASE deploy \/ deployMode \/ deployConfirmed \/ deployCancelled
    BY <1>4, <1>12 DEF deploy, deployMode, deployConfirmed, deployCancelled, Goto
  <1> QED
    BY <1>5, <1>6, <1>7, <1>8, <1>9, <1>10, <1>11, <1>12 DEF Next, System, Environment

\* Where both models are idle, a process that waits for neither them nor
\* configsMutex can go on, and otherwise the head of configsMutex can: a holder
\* waits for the models only.
LEMMA SomebodyGoes == RInv /\ RolesOK => NobodyIsStuck
  <1> SUFFICES ASSUME RInv, RolesOK, Pending, ~Locked(validateLine), ~Locked(remoteLine)
               PROVE  CanGo
    BY DEF NobodyIsStuck, CanGo
  <1>0. /\ pc \in [Procs -> Places] /\ ConfigsOK /\ CallsOK /\ configsMutex \in Seq(Procs)
        /\ Procs = {"resolve", "select", "pin", "deploy"} /\ Committers = {"resolve", "select"}
    BY DEF RInv, TypeOK, Procs, Committers
  <1>1. \A p \in Procs : Refreshed(p) /\ Pulled(p)
    BY DEF Locked, Refreshed, Pulled
  <1>2. ASSUME NEW p \in Procs, pc[p] \in Waiting \cup Holding PROVE CanGo
    <2>1. InLine(configsMutex, p)
      BY <1>0, <1>2 DEF ConfigsOK
    <2>2. /\ configsMutex # << >> /\ Head(configsMutex) = configsMutex[1]
          /\ 1 \in 1 .. Len(configsMutex) /\ configsMutex[1] \in Procs
      BY <1>0, <2>1, LenProperties DEF InLine
    <2>3. PICK q \in Procs : Holds(configsMutex, q) /\ InLine(configsMutex, q)
      BY <2>2 DEF Holds, InLine
    <2>4. pc[q] \in Waiting \cup Holding
      BY <1>0, <2>3 DEF ConfigsOK
    <2>5. CASE pc[q] \in Waiting
      BY <2>3, <2>5 DEF CanGo
    <2>6. CASE pc[q] = "store"
      BY <1>0, <2>6 DEF RolesOK, CanGo
    <2>7. CASE pc[q] \in {"refresh", "clearing"}
      BY <1>1, <2>7 DEF CanGo
    <2> QED BY <2>4, <2>5, <2>6, <2>7 DEF Holding
  <1>3. pc["deploy"] # "cli"
    BY <1>0 DEF CallsOK, InLine, Locked
  <1>4. pc["deploy"] # "pull"
    <2>1. ~InLine(remoteLine, "pull") /\ ~InLine(refreshLine, "deploy")
      BY <1>0 DEF CallsOK, InLine, Locked
    <2> QED BY <1>0, <2>1 DEF CallsOK
  <1>5. CASE pc["deploy"] = "mode"
    BY <1>0, <1>2, <1>5 DEF Waiting
  <1>6. ASSUME NEW p \in Procs \ {"deploy"}, pc[p] # "idle" PROVE CanGo
    <2>1. CASE p = "pin"
      <3>1. pc[p] \in {"pinning", "apply", "applyValidate", "applyRemote"}
        BY <1>6, <2>1 DEF RolesOK
      <3> QED BY <1>1, <1>2, <2>1, <3>1 DEF Waiting, CanGo
    <2>2. CASE p \in Committers
      <3>1. \/ pc[p] \in Waiting \cup Holding \/ pc[p] \in {"check", "applyValidate", "applyRemote"}
        BY <1>0, <1>6, <2>2 DEF RolesOK, Places, Waiting, Holding
      <3> QED BY <1>1, <1>2, <2>2, <3>1 DEF CanGo
    <2> QED BY <1>0, <1>6, <2>1, <2>2
  <1> QED BY <1>3, <1>4, <1>5, <1>6 DEF Pending

\* Two commits, a pin, a resolution and a deployment never wait for each other in
\* a ring, whatever has failed meanwhile (commitTarget, reapplyPinnedAuthProvider
\* and getMode of ConfigModel.ts, refreshRemoteState of BundleCommands.ts).
THEOREM NobodyStuck == Spec => []NobodyIsStuck
  <1>1. Init => RolesOK
    BY DEF Init, RolesOK, Procs, Committers
  <1>2. RInv /\ RolesOK /\ [Next]_vars => RolesOK'
    <2>1. ASSUME RolesOK, UNCHANGED vars PROVE RolesOK'
      BY <2>1 DEF vars, RolesOK
    <2> QED BY <2>1, RolesStep DEF RInv
  <1>3. Spec => []RolesOK
    BY <1>1, <1>2, InvAlways, PTL DEF Spec
  <1> QED
    BY <1>3, InvAlways, SomebodyGoes, PTL

=============================================================================
