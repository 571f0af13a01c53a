------------------------- MODULE PythonDriftProofs -------------------------
(***************************************************************************)
(* For all folders, computes and bounds: the row of the Python environment *)
(* is right whenever nothing is pending; every run of the CLI is reported  *)
(* once; folders use interpreters of their own runs and a ready project's  *)
(* files are not undone by an old Retry; a Retry undoes no run but its own.*)
(***************************************************************************)
EXTENDS PythonDrift, TLAPS

\* What last, judged and drifted say of each other; it is what a skipped
\* evaluation relies on.
Agree == judged # None /\ last # None => (drifted <=> judged # last)

\* A dry run whose inputs moved has a trigger behind it.
MovedIsPending == eval.pc = "dry" /\ timer = None => ~Moved

Truth == saved # None /\ compute # None => (drifted <=> saved.env # compute)

DriftInv == /\ drifted \in BOOLEAN
            /\ Agree
            /\ MovedIsPending
            /\ Quiet /\ ~excused => Truth

\* The set-up never attaches a compute.
LEMMA SetupKeepsCompute == SetupNext => compute' = compute
  BY DEF SetupNext, SwitchProject, Setup, Work, Visible, ResolveCompute,
         PickPreset, Start, CliFails, CliConflict, CliReady, AdoptFails,
         SaveFails, Complete, CheckBackups, Restore, RestoreFails, Retry, user

LEMMA DriftInit == Init => DriftInv
  BY NoneIsNoTrigger DEF Init, DriftInv, Agree, MovedIsPending, Quiet, Idle, Triggers

LEMMA DriftStep == DriftInv /\ [Next]_vars => DriftInv'
<1> SUFFICES ASSUME DriftInv, [Next]_vars PROVE DriftInv'
  OBVIOUS
<1> USE DEF DriftInv
<1>1. CASE SetupStep
  <2>1. /\ compute' = compute
        /\ UNCHANGED <<drifted, last, eval, judged, excused>>
        /\ timer' = IF saved' # saved THEN "setupCompleted" ELSE timer
    BY <1>1, SetupKeepsCompute DEF SetupStep
  <2>2. CASE saved' = saved
    BY <2>1, <2>2 DEF Agree, MovedIsPending, Moved, Quiet, Truth
  <2>3. CASE saved' # saved
    <3>1. timer' # None
      BY <2>1, <2>3, NoneIsNoTrigger DEF Triggers
    <3> QED
      BY <2>1, <3>1 DEF Agree, MovedIsPending, Quiet
  <2> QED
    BY <2>2, <2>3
<1>2. CASE ComputeChange
  <2>1. timer' # None
    BY <1>2, NoneIsNoTrigger DEF ComputeChange, Triggers
  <2> QED
    BY <1>2, <2>1 DEF ComputeChange, Agree, MovedIsPending, Quiet
<1>3. CASE Fire
  BY <1>3 DEF Fire, Agree, MovedIsPending, Quiet, Idle
<1>4. CASE EvalVisible
  <2>0. UNCHANGED <<saved, compute, timer>>
    BY <1>4 DEF EvalVisible, setupVars, user
  <2>1. CASE Undecided /\ UNCHANGED last /\ eval' = Idle
    BY <2>1 DEF Undecided, Agree, MovedIsPending, Quiet, Idle
  <2>2. CASE Hidden /\ eval' = Idle
    BY <2>2 DEF Hidden, Agree, MovedIsPending, Quiet, Idle
  <2>3. CASE Nothing /\ eval' = Idle
    <3>1. Agree'
      BY <2>3 DEF Nothing, Agree
    <3> QED
      BY <2>0, <2>3, <3>1 DEF Nothing, MovedIsPending, Truth, Idle
  <2>4. CASE Skip /\ eval' = Idle /\ saved # None /\ compute # None
    <3>1. Agree' /\ MovedIsPending' /\ drifted' \in BOOLEAN
      BY <2>4 DEF Skip, Agree, MovedIsPending, Idle
    <3>2. ASSUME ~excused' PROVE Truth'
      BY <2>0, <2>4, <3>2 DEF Skip, Agree, Truth
    <3> QED
      BY <3>1, <3>2
  <2>5. CASE /\ eval' = [pc |-> "dry", trigger |-> eval.trigger,
                         descriptor |-> compute, persisted |-> saved.env]
             /\ UNCHANGED <<drifted, last, judged, excused>>
    <3>1. eval' # Idle /\ ~Moved'
      BY <2>0, <2>5 DEF Idle, Moved
    <3> QED
      BY <2>5, <3>1 DEF Agree, MovedIsPending, Quiet
  <2> QED
    BY <1>4, <2>1, <2>2, <2>3, <2>4, <2>5 DEF EvalVisible
<1>5. CASE EvalAnswered
  <2>0. UNCHANGED <<saved, compute, timer>> /\ eval' = Idle /\ eval.pc = "dry"
    BY <1>5 DEF EvalAnswered, setupVars, user
  <2>1. MovedIsPending'
    BY <2>0 DEF MovedIsPending, Idle
  <2>2. CASE Unknown
    BY <2>1, <2>2 DEF Unknown, Undecided, Agree
  <2>3. CASE Moved /\ UNCHANGED <<drifted, last, judged, excused>>
    <3>1. timer' # None
      BY <2>0, <2>3 DEF MovedIsPending
    <3> QED
      BY <2>1, <2>3, <3>1 DEF Agree, Quiet
  <2>4. CASE ~Moved /\ Decided
    <3>1. Agree' /\ drifted' \in BOOLEAN
      BY <2>4 DEF Decided, Agree
    <3>2. Truth'
      BY <2>0, <2>4 DEF Decided, Moved, Truth
    <3> QED
      BY <2>1, <3>1, <3>2
  <2> QED
    BY <1>5, <2>2, <2>3, <2>4 DEF EvalAnswered
<1>6. CASE UNCHANGED vars
  BY <1>6 DEF vars, setupVars, user, driftVars, Agree, MovedIsPending, Moved, Quiet, Truth
<1> QED
  BY <1>1, <1>2, <1>3, <1>4, <1>5, <1>6 DEF Next

\* In every behaviour, whatever the order of switches, set-ups, timers and
\* answers, the row is right once nothing is pending and the last evaluation
\* decided. (evaluate.)
THEOREM DriftIsCurrentAlways == Spec => []DriftIsCurrent
<1>1. DriftInv => DriftIsCurrent
  BY DEF DriftInv, DriftIsCurrent, Truth
<1> QED
  BY <1>1, DriftInit, DriftStep, PTL DEF Spec

------------------------------------------------------------------------------
(* The set-up: folders that share files, and the notifications that offer to  *)
(* put them back.                                                              *)

RealScope(f) == Scope(f) = Real[Scope(f)]

\* A run in folder d is one that the Retry of t is afraid of.
Hits(t, d) == Inside(Scope(t.cwd), d) \/ Inside(Scope(t.cwd), Real[d])

OnlyNames(f) == OnlyName(f) /\ OnlyName(Root[f])

\* Undoing: a Retry is on its way to put files back.
Undoing == pc \in {"check", "restore"}
Live == toasts \cup (IF Undoing THEN {undo} ELSE {})

\* The record of the runs, and what the run in flight knows.
RunsOK ==
    /\ Len(outcome) = Current
    /\ \A k \in 1 .. Current :
         outcome[k] = "open" <=> (k = Current /\ pc \in {"cli", "adopt"})
    /\ pc # "idle" => cwd \in Folders
    /\ pc \notin {"idle", "visible", "compute"} => chosen \in Computes
    /\ pc \in {"cli", "adopt"} => Current >= 1 /\ runFolders[Current] = cwd
    /\ pc = "adopt" => \A g \in Files(cwd) : content[g] = Current

\* A notification belongs to a run that failed, and offers what its run wrote
\* over; what it would put back suits every ready folder that had its last
\* interpreter before.
NoteOK(t) ==
    /\ outcome[t.run] = "failed" /\ runFolders[t.run] = t.cwd
    /\ DOMAIN t.before \subseteq Files(t.cwd)
    /\ \A r \in readyRoots : \A f \in Files(r) \cap DOMAIN t.before :
         OnlyNames(r) /\ adopted[r] < t.run => t.before[f] >= adopted[r]

\* Where the Retry of t would still go ahead, its files are as its run left
\* them, or a run is about to start that puts an end to it.
Untouched(t) ==
    RealScope(t.cwd) =>
      \/ Stale(t)
      \/ pc = "start" /\ Hits(t, cwd)
      \/ \A f \in DOMAIN t.before : content[f] = t.run

NotesOK ==
    /\ \A t \in Live : NoteOK(t)
    /\ \A t \in toasts : Untouched(t)
    /\ \A t, u \in toasts : t.run = u.run => t = u

\* A Retry that goes ahead.
UndoOK ==
    /\ ~Undoing => todo = {}
    /\ Undoing =>
         /\ undo \in Toasts /\ cwd = undo.cwd
         /\ todo \subseteq DOMAIN undo.before
         /\ undo.cwd \notin readyRoots /\ ~Stale(undo)
         /\ \A t \in toasts : t.run # undo.run
         /\ RealScope(undo.cwd) => \A f \in todo : content[f] = undo.run

SetupInv == /\ TypeOK /\ RunsOK /\ NotesOK /\ UndoOK
            /\ ReadyMeansAdopted


LEMMA RealFacts ==
  ASSUME NEW f \in Folders
  PROVE  /\ Real[f] \in Folders /\ Real[Real[f]] = Real[f]
         /\ Root[f] \in Folders /\ Real[Root[f]] = Root[f] /\ Root[Root[f]] = Root[f]
         /\ Files(f) \subseteq Folders
  BY ConstantsAssumption DEF Files

\* Two folders that share a file belong to one workspace, as far as a Retry can
\* tell that compares real paths.
LEMMA Overlap ==
  ASSUME NEW c \in Folders, NEW d \in Folders, RealScope(c),
         NEW f \in Files(c), f \in Files(d)
  PROVE  Inside(Scope(c), Real[d])
<1>1. /\ Real[c] \in Folders /\ Real[d] \in Folders
      /\ Real[Real[d]] = Real[d]
      /\ Root[Root[Real[c]]] = Root[Real[c]] /\ Root[Root[Real[d]]] = Root[Real[d]]
  BY RealFacts
<1>2. f \in {Real[c], Root[Real[c]]} /\ f \in {Real[d], Root[Real[d]]}
  BY DEF Files
<1>3. CASE Root[Real[c]] # Real[c]
  <2>1. Scope(c) = Root[Real[c]]
    BY <1>3 DEF Scope
  <2> QED
    BY <1>1, <1>2, <1>3, <2>1 DEF Inside
<1>4. CASE Root[Real[c]] = Real[c]
  <2>1. Scope(c) = Real[c]
    BY <1>4 DEF Scope, RealScope
  <2> QED
    BY <1>1, <1>2, <1>4, <2>1 DEF Inside
<1> QED
  BY <1>3, <1>4

\* A folder that shares a file with one that has a single name, as has its
\* workspace, is compared by its real path.
LEMMA SingleNames ==
  ASSUME NEW c \in Folders, NEW r \in Folders, OnlyNames(r),
         NEW f \in Files(c), f \in Files(r)
  PROVE  RealScope(c)
<1>1. Real[r] = r
  BY RealFacts DEF OnlyNames, OnlyName
<1>2. Real[Root[r]] = Root[r] /\ Root[r] \in Folders
  BY RealFacts
<1>3. f \in {r, Root[r]} /\ f \in {Real[c], Root[Real[c]]}
  BY <1>1 DEF Files
<1>4. CASE Root[Real[c]] # Real[c]
  <2>1. Scope(c) = Root[Real[c]]
    BY <1>4 DEF Scope
  <2> QED
    BY <2>1, RealFacts DEF RealScope
<1>5. CASE Root[Real[c]] = Real[c]
  <2>1. Real[c] = r \/ Real[c] = Root[r]
    BY <1>3, <1>5
  <2>2. Real[c] = c
    BY <1>1, <1>2, <2>1 DEF OnlyNames, OnlyName
  <2> QED
    BY <1>5, <2>2 DEF Scope, RealScope
<1> QED
  BY <1>4, <1>5

ToastsUpTo(n) == [run : 1 .. n, cwd : Folders, compute : Computes,
                  before : UNION {[F -> 0 .. n] : F \in SUBSET Folders}]

LEMMA ToastFields ==
  ASSUME NEW n \in Nat, NEW t \in ToastsUpTo(n)
  PROVE  /\ t.run \in 1 .. n /\ t.cwd \in Folders /\ t.compute \in Computes
         /\ DOMAIN t.before \subseteq Folders
         /\ \A f \in DOMAIN t.before : t.before[f] \in 0 .. n
<1>1. t.run \in 1 .. n /\ t.cwd \in Folders /\ t.compute \in Computes
  BY DEF ToastsUpTo
<1>2. t.before \in UNION {[F -> 0 .. n] : F \in SUBSET Folders}
  BY DEF ToastsUpTo
<1>3. PICK F \in SUBSET Folders : t.before \in [F -> 0 .. n]
  BY <1>2
<1> QED
  BY <1>1, <1>3

LEMMA ToastsGrow ==
  ASSUME NEW n \in Nat, NEW m \in Nat, m <= n
  PROVE  ToastsUpTo(m) \subseteq ToastsUpTo(n)
<1> SUFFICES ASSUME NEW t \in ToastsUpTo(m) PROVE t \in ToastsUpTo(n)
  OBVIOUS
<1>1. t.before \in UNION {[F -> 0 .. m] : F \in SUBSET Folders}
  BY DEF ToastsUpTo
<1>2. PICK F \in SUBSET Folders : t.before \in [F -> 0 .. m]
  BY <1>1
<1>3. t.before \in [F -> 0 .. n]
  BY <1>2
<1>4. t.before \in UNION {[G -> 0 .. n] : G \in SUBSET Folders}
  BY <1>3
<1> QED
  BY <1>4 DEF ToastsUpTo

LEMMA NewToast ==
  ASSUME NEW n \in Nat, NEW k \in 1 .. n, NEW c \in Folders, NEW p \in Computes,
         NEW F \in SUBSET Folders, NEW g \in [F -> 0 .. n]
  PROVE  [run |-> k, cwd |-> c, compute |-> p, before |-> g] \in ToastsUpTo(n)
<1>1. g \in UNION {[G -> 0 .. n] : G \in SUBSET Folders}
  OBVIOUS
<1> QED
  BY <1>1 DEF ToastsUpTo

LEMMA ToastsAre == Toasts = ToastsUpTo(Current)
  BY DEF Toasts, ToastsUpTo

LEMMA SetupInvInit == SetupInit => SetupInv
<1> SUFFICES ASSUME SetupInit PROVE SetupInv
  OBVIOUS
<1> USE DEF SetupInit
<1>1. Current = 0
  BY DEF Current
<1>2. TypeOK
  <2>1. runFolders \in Seq(Folders) /\ outcome \in Seq(Outcomes)
    OBVIOUS
  <2>2. content \in [Folders -> 0 .. Current] /\ adopted \in [Folders -> 0 .. Current]
    BY <1>1
  <2>3. saved \in [env : Computes, root : Folders, run : 0 .. Current] \cup {None}
    <3>1. 0 .. Current = {0}
      BY <1>1
    <3> QED
      BY <3>1
  <2> QED
    BY <2>1, <2>2, <2>3 DEF TypeOK
<1>3. RunsOK
  BY <1>1 DEF RunsOK, Current
<1>4. NotesOK /\ UndoOK
  BY DEF NotesOK, UndoOK, Live, Undoing
<1>5. ReadyMeansAdopted
  <2>1. \A f \in Folders : adopted[f] = 0
    OBVIOUS
  <2>2. saved # None => saved.run = 0
    OBVIOUS
  <2> QED
    BY <2>1, <2>2 DEF ReadyMeansAdopted
<1> QED
  BY <1>2, <1>3, <1>4, <1>5 DEF SetupInv

\* A step that neither records a run nor touches a file or a notification.
Quietly ==
    /\ UNCHANGED <<session, disk, saved>>
    /\ active' \in Folders /\ compute' \in Computes \cup {None}
    /\ \/ UNCHANGED run
       \/ /\ pc \notin {"start", "cli", "adopt"}
          /\ pc' \in {"idle", "visible", "compute", "preset", "start", "restore"}
          /\ cwd' \in Folders \cup {None} /\ chosen' \in Computes \cup {None}
          /\ pins' \in BOOLEAN /\ undo' \in Toasts \cup {NoToast}
          /\ pc' # "idle" => cwd' \in Folders
          /\ pc' \notin {"idle", "visible", "compute"} => chosen' \in Computes
          /\ ~Undoing' => todo' = {}
          /\ Undoing' => Undoing /\ UNCHANGED <<cwd, undo, todo>>

LEMMA QuietSteps ==
  ASSUME SetupInv,
         \/ SwitchProject \/ Setup \/ Visible \/ ResolveCompute \/ PickPreset
         \/ CheckBackups \/ RestoreFails \/ UNCHANGED setupVars
         \/ compute' \in Computes \cup {None} /\ UNCHANGED <<active, run, session, disk, saved>>
  PROVE  Quietly
<1>0. /\ TypeOK /\ (pc # "idle" => cwd \in Folders)
      /\ pc \notin {"idle", "visible", "compute"} => chosen \in Computes
      /\ ~Undoing => todo = {}
  BY DEF SetupInv, RunsOK, UndoOK
<1>1. /\ active \in Folders /\ compute \in Computes \cup {None}
      /\ chosen \in Computes \cup {None} /\ cwd \in Folders \cup {None}
      /\ pins \in BOOLEAN /\ undo \in Toasts \cup {NoToast}
  BY <1>0 DEF TypeOK
<1>2. CASE SwitchProject
  BY <1>1, <1>2 DEF SwitchProject, Quietly
<1>3. CASE Setup
  BY <1>0, <1>1, <1>3 DEF Setup, Quietly, user, Undoing
<1>4. CASE Visible
  BY <1>0, <1>1, <1>4 DEF Visible, Goto, Release, Quietly, user, Undoing
<1>5. CASE ResolveCompute
  BY <1>0, <1>1, <1>5 DEF ResolveCompute, Release, Quietly, user, Undoing
<1>6. CASE PickPreset
  BY <1>0, <1>1, <1>6 DEF PickPreset, Release, Quietly, user, Undoing
<1>7. CASE CheckBackups
  BY <1>0, <1>1, <1>7 DEF CheckBackups, Goto, Release, Quietly, user, Undoing
<1>8. CASE RestoreFails
  BY <1>0, <1>1, <1>8 DEF RestoreFails, Release, Quietly, user, Undoing
<1>9. CASE UNCHANGED setupVars
  BY <1>1, <1>9 DEF setupVars, user, Quietly
<1>10. CASE compute' \in Computes \cup {None} /\ UNCHANGED <<active, run, session, disk, saved>>
  BY <1>1, <1>10 DEF Quietly
<1> QED
  BY <1>2, <1>3, <1>4, <1>5, <1>6, <1>7, <1>8, <1>9, <1>10

LEMMA QuietKeeps == ASSUME SetupInv, Quietly PROVE SetupInv'
<1>0. TypeOK /\ RunsOK /\ NotesOK /\ UndoOK /\ ReadyMeansAdopted
  BY DEF SetupInv
<1>1. UNCHANGED <<runFolders, outcome, toasts, readyRoots, content, adopted, saved>>
  BY DEF Quietly, session, disk
<1>2. Current' = Current /\ Toasts' = Toasts
  BY <1>1 DEF Current, Toasts
<1>3. ReadyMeansAdopted'
  BY <1>0, <1>1, <1>2 DEF ReadyMeansAdopted
<1>4. \A t : NoteOK(t)' <=> NoteOK(t)
  BY <1>1 DEF NoteOK
<1>5. \A t : Stale(t)' <=> Stale(t)
  BY <1>1, <1>2 DEF Stale
<1>6. CASE UNCHANGED run
  <2>1. UNCHANGED <<pc, cwd, chosen, pins, undo, todo>>
    BY <1>6 DEF run
  <2>2. TypeOK'
    BY <1>0, <1>1, <1>2, <2>1 DEF TypeOK, Quietly
  <2>3. RunsOK'
    BY <1>0, <1>1, <1>2, <2>1 DEF RunsOK
  <2>4. NotesOK'
    BY <1>0, <1>1, <1>4, <1>5, <2>1 DEF NotesOK, Live, Undoing, Untouched
  <2>5. UndoOK'
    BY <1>0, <1>1, <1>2, <1>5, <2>1 DEF UndoOK, Undoing
  <2> QED
    BY <1>3, <2>2, <2>3, <2>4, <2>5 DEF SetupInv
<1>7. CASE ~UNCHANGED run
  <2>1. /\ pc \notin {"start", "cli", "adopt"}
        /\ pc' \in {"idle", "visible", "compute", "preset", "start", "restore"}
        /\ cwd' \in Folders \cup {None} /\ chosen' \in Computes \cup {None}
        /\ pins' \in BOOLEAN /\ undo' \in Toasts \cup {NoToast}
        /\ pc' # "idle" => cwd' \in Folders
        /\ pc' \notin {"idle", "visible", "compute"} => chosen' \in Computes
        /\ ~Undoing' => todo' = {}
        /\ Undoing' => Undoing /\ UNCHANGED <<cwd, undo, todo>>
    BY <1>7 DEF Quietly
  <2>2. TypeOK'
    <3>1. todo' \in SUBSET Folders
      BY <1>0, <2>1 DEF TypeOK
    <3> QED
      BY <1>0, <1>1, <1>2, <2>1, <3>1 DEF TypeOK, Quietly
  <2>3. RunsOK'
    BY <1>0, <1>1, <1>2, <2>1 DEF RunsOK
  <2>4. NotesOK'
    <3>1. Live' \subseteq Live
      BY <1>1, <2>1 DEF Live
    <3>2. \A t \in toasts : Untouched(t)'
      BY <1>0, <1>1, <1>5, <2>1 DEF NotesOK, Untouched
    <3> QED
      BY <1>0, <1>1, <1>4, <3>1, <3>2 DEF NotesOK
  <2>5. UndoOK'
    BY <1>0, <1>1, <1>2, <1>5, <2>1 DEF UndoOK
  <2> QED
    BY <1>3, <2>2, <2>3, <2>4, <2>5 DEF SetupInv
<1> QED
  BY <1>6, <1>7

LEMMA Recorded ==
  ASSUME TypeOK, RunsOK
  PROVE  /\ Current \in Nat /\ runFolders \in Seq(Folders) /\ outcome \in Seq(Outcomes)
         /\ Len(runFolders) = Current /\ Len(outcome) = Current
         /\ \A k \in 1 .. Current : runFolders[k] \in Folders /\ outcome[k] \in Outcomes
<1>1. runFolders \in Seq(Folders) /\ outcome \in Seq(Outcomes) /\ Len(outcome) = Current
  BY DEF TypeOK, RunsOK
<1> QED
  BY <1>1 DEF Current

LEMMA SavedFields ==
  ASSUME TypeOK, saved # None
  PROVE  saved.env \in Computes /\ saved.root \in Folders /\ saved.run \in 0 .. Current
  BY DEF TypeOK

\* What is recorded of earlier runs is never changed by a new one; a
\* notification whose project the new run shares is stale from now on.
LEMMA StartKeeps == ASSUME SetupInv, Start PROVE SetupInv'
<1>0. TypeOK /\ RunsOK /\ NotesOK /\ UndoOK /\ ReadyMeansAdopted
  BY DEF SetupInv
<1>1. /\ pc = "start" /\ pc' = "cli"
      /\ UNCHANGED <<cwd, chosen, pins, undo, todo, active, compute, toasts,
                     readyRoots, content, adopted, saved>>
      /\ runFolders' = Append(runFolders, cwd) /\ outcome' = Append(outcome, "open")
  BY DEF Start, Goto, user, disk
<1>2. /\ Current \in Nat /\ runFolders \in Seq(Folders) /\ outcome \in Seq(Outcomes)
      /\ Len(runFolders) = Current /\ Len(outcome) = Current
  BY <1>0, Recorded
<1>3. cwd \in Folders
  BY <1>0, <1>1 DEF RunsOK
<1>4. /\ runFolders' \in Seq(Folders) /\ outcome' \in Seq(Outcomes)
      /\ Current' = Current + 1 /\ Len(outcome') = Current + 1
      /\ runFolders'[Current + 1] = cwd /\ outcome'[Current + 1] = "open"
      /\ \A k \in 1 .. Current : runFolders'[k] = runFolders[k] /\ outcome'[k] = outcome[k]
  <2>1. "open" \in Outcomes
    BY DEF Outcomes
  <2> QED
    BY <1>1, <1>2, <1>3, <2>1 DEF Current
<1>5. Toasts \subseteq Toasts'
  <2>1. Toasts' = ToastsUpTo(Current')
    BY DEF Toasts, ToastsUpTo
  <2> QED
    BY <1>2, <1>4, <2>1, ToastsAre, ToastsGrow
<1>6. TypeOK'
  <2>1. content' \in [Folders -> 0 .. Current'] /\ adopted' \in [Folders -> 0 .. Current']
    <3>1. content \in [Folders -> 0 .. Current] /\ adopted \in [Folders -> 0 .. Current]
      BY <1>0 DEF TypeOK
    <3> QED
      BY <1>1, <1>2, <1>4, <3>1
  <2>2. saved' \in [env : Computes, root : Folders, run : 0 .. Current'] \cup {None}
    <3>1. saved \in [env : Computes, root : Folders, run : 0 .. Current] \cup {None}
      BY <1>0 DEF TypeOK
    <3>2. 0 .. Current \subseteq 0 .. Current'
      BY <1>2, <1>4
    <3> QED
      BY <1>1, <3>1, <3>2
  <2> QED
    BY <1>0, <1>1, <1>4, <1>5, <2>1, <2>2 DEF TypeOK
<1>7. RunsOK'
  <2>1. \A k \in 1 .. Current' : outcome'[k] = "open" <=> k = Current'
    <3> SUFFICES ASSUME NEW k \in 1 .. Current' PROVE outcome'[k] = "open" <=> k = Current'
      OBVIOUS
    <3>1. CASE k = Current'
      BY <1>4, <3>1
    <3>2. CASE k \in 1 .. Current
      BY <1>0, <1>1, <1>2, <1>4, <3>2 DEF RunsOK
    <3> QED
      BY <1>2, <1>4, <3>1, <3>2
  <2> QED
    BY <1>0, <1>1, <1>2, <1>3, <1>4, <2>1 DEF RunsOK
<1>8. ASSUME NEW t \in toasts
      PROVE  NoteOK(t)' /\ Untouched(t)'
  <2>1. t.run \in 1 .. Current /\ t.cwd \in Folders
    BY <1>0, <1>2, ToastsAre, ToastFields DEF TypeOK
  <2>2. NoteOK(t) /\ Untouched(t)
    BY <1>0 DEF NotesOK, Live
  <2>3. NoteOK(t)'
    BY <1>1, <1>4, <2>1, <2>2 DEF NoteOK
  <2>4. Stale(t) => Stale(t)'
    <3> SUFFICES ASSUME Stale(t) PROVE Stale(t)'
      OBVIOUS
    <3>1. PICK k \in (t.run + 1) .. Current :
             \E f \in {runFolders[k], Real[runFolders[k]]} : Inside(Scope(t.cwd), f)
      BY DEF Stale
    <3>2. k \in (t.run + 1) .. Current' /\ runFolders'[k] = runFolders[k]
      BY <1>2, <1>4, <2>1
    <3> QED
      BY <3>1, <3>2 DEF Stale
  <2>5. Hits(t, cwd) => Stale(t)'
    <3>1. Current' \in (t.run + 1) .. Current' /\ runFolders'[Current'] = cwd
      BY <1>2, <1>4, <2>1
    <3> QED
      BY <3>1 DEF Hits, Stale
  <2>6. Untouched(t)'
    BY <1>1, <2>2, <2>4, <2>5 DEF Untouched
  <2> QED
    BY <2>3, <2>6
<1>9. NotesOK' /\ UndoOK'
  <2>1. Live' = toasts /\ ~Undoing' /\ ~Undoing
    BY <1>1 DEF Live, Undoing
  <2>2. NotesOK'
    BY <1>0, <1>1, <1>8, <2>1 DEF NotesOK
  <2> QED
    BY <1>0, <1>1, <2>1, <2>2 DEF UndoOK
<1>10. ReadyMeansAdopted'
  <2>1. \A f \in Folders : adopted[f] \in 0 .. Current
    BY <1>0 DEF TypeOK
  <2>2. \A f \in Folders : adopted[f] # 0 => runFolders'[adopted[f]] = f
    BY <1>0, <1>2, <1>4, <2>1 DEF ReadyMeansAdopted
  <2>3. \A f \in readyRoots :
          /\ adopted[f] # 0
          /\ \E k \in 1 .. adopted[f] : outcome'[k] = "ok" /\ runFolders'[k] = f
          /\ OnlyName(f) /\ OnlyName(Root[f]) => \A g \in Files(f) : content[g] >= adopted[f]
    <3> SUFFICES ASSUME NEW f \in readyRoots
                 PROVE  \E k \in 1 .. adopted[f] : outcome'[k] = "ok" /\ runFolders'[k] = f
      BY <1>0 DEF ReadyMeansAdopted
    <3>1. f \in Folders
      BY <1>0 DEF TypeOK
    <3>2. PICK k \in 1 .. adopted[f] : outcome[k] = "ok" /\ runFolders[k] = f
      BY <1>0 DEF ReadyMeansAdopted
    <3> QED
      BY <1>2, <1>4, <2>1, <3>1, <3>2
  <2>4. ASSUME saved # None, saved.run # 0
        PROVE  /\ outcome'[saved.run] = "ok" /\ runFolders'[saved.run] = saved.root
               /\ \A k \in (saved.run + 1) .. Current' : outcome'[k] # "ok"
    <3>1. saved.run \in 1 .. Current
      BY <1>0, <1>2, <2>4, SavedFields
    <3>2. /\ outcome[saved.run] = "ok" /\ runFolders[saved.run] = saved.root
          /\ \A k \in (saved.run + 1) .. Current : outcome[k] # "ok"
      BY <1>0, <2>4 DEF ReadyMeansAdopted
    <3>3. \A k \in (saved.run + 1) .. Current' :
            \/ k = Current'
            \/ k \in 1 .. Current /\ k \in (saved.run + 1) .. Current
      BY <1>2, <1>4, <3>1
    <3> QED
      BY <1>2, <1>4, <3>1, <3>2, <3>3
  <2> QED
    BY <1>1, <2>2, <2>3, <2>4 DEF ReadyMeansAdopted
<1> QED
  BY <1>6, <1>7, <1>9, <1>10 DEF SetupInv

\* How the CLI may end.
CliEnds ==
    /\ pc = "cli" /\ (Writes \/ UNCHANGED content)
    /\ UNCHANGED <<active, compute, runFolders, readyRoots, adopted, saved>>
    /\ \/ /\ Release /\ toasts' = toasts
          /\ \E o \in {"cancelled", "not_started", "failed"} : Report(o)
       \/ /\ Release /\ Report("failed") /\ Writes
          /\ \E F \in SUBSET Files(cwd) :
               toasts' = toasts \cup {[run |-> Current, cwd |-> cwd, compute |-> chosen,
                                       before |-> [f \in F |-> content[f]]]}
       \/ Goto("adopt") /\ Writes /\ UNCHANGED <<toasts, outcome>>

LEMMA CliSteps == CliFails \/ CliConflict \/ CliReady => CliEnds
<1>1. CliFails => CliEnds
  BY DEF CliFails, CliEnds, user
<1>2. CliConflict => CliEnds
  BY DEF CliConflict, CliEnds, user
<1>3. CliReady => CliEnds
  BY DEF CliReady, CliEnds, user, session
<1> QED
  BY <1>1, <1>2, <1>3

\* The run writes its own folder's files: whoever offers to put one of them
\* back is stale since that run began.
LEMMA CliKeeps == ASSUME SetupInv, CliEnds PROVE SetupInv'
<1>0. TypeOK /\ RunsOK /\ NotesOK /\ UndoOK /\ ReadyMeansAdopted
  BY DEF SetupInv
<1>1. /\ pc = "cli" /\ (Writes \/ UNCHANGED content)
      /\ UNCHANGED <<active, compute, runFolders, readyRoots, adopted, saved>>
  BY DEF CliEnds
<1>2. /\ Current \in Nat /\ runFolders \in Seq(Folders) /\ outcome \in Seq(Outcomes)
      /\ Len(outcome) = Current
      /\ \A k \in 1 .. Current : outcome[k] \in Outcomes
  BY <1>0, Recorded
<1>3. /\ cwd \in Folders /\ chosen \in Computes /\ Current >= 1 /\ runFolders[Current] = cwd
      /\ \A k \in 1 .. Current : outcome[k] = "open" <=> k = Current
  BY <1>0, <1>1 DEF RunsOK
<1>4. Current' = Current /\ Toasts' = Toasts
  BY <1>1 DEF Current, Toasts
<1>5. /\ outcome' \in Seq(Outcomes) /\ Len(outcome') = Current
      /\ \A k \in 1 .. Current : k # Current => outcome'[k] = outcome[k]
      /\ \/ pc' = "idle" /\ outcome'[Current] \in {"cancelled", "not_started", "failed"}
         \/ pc' = "adopt" /\ outcome' = outcome
  <2>1. ASSUME NEW o \in {"cancelled", "not_started", "failed"}, Report(o)
        PROVE  /\ outcome' \in Seq(Outcomes) /\ Len(outcome') = Current
               /\ \A k \in 1 .. Current : k # Current => outcome'[k] = outcome[k]
               /\ outcome'[Current] = o
    <3>1. o \in Outcomes
      BY DEF Outcomes
    <3> QED
      BY <1>2, <1>3, <2>1, <3>1 DEF Report
  <2>2. CASE Goto("adopt") /\ outcome' = outcome
    BY <1>2, <2>2 DEF Goto
  <2>3. CASE Release /\ \E o \in {"cancelled", "not_started", "failed"} : Report(o)
    BY <2>1, <2>3 DEF Release
  <2> QED
    BY <2>2, <2>3 DEF CliEnds
<1>6. /\ todo' = {} /\ pc' \in {"idle", "adopt"}
      /\ cwd' \in Folders \cup {None} /\ chosen' \in Computes \cup {None}
      /\ pins' \in BOOLEAN /\ undo' \in Toasts \cup {NoToast}
      /\ pc' = "adopt" => cwd' = cwd /\ chosen' = chosen /\ Writes
  <2>1. CASE Release
    BY <2>1 DEF Release
  <2>2. CASE Goto("adopt") /\ Writes
    BY <1>0, <1>1, <1>3, <2>2 DEF Goto, TypeOK, UndoOK, Undoing
  <2> QED
    BY <2>1, <2>2 DEF CliEnds
<1>7. content \in [Folders -> 0 .. Current] /\ content' \in [Folders -> 0 .. Current]
      /\ \A f \in Folders : content'[f] >= content[f]
  <2>1. content \in [Folders -> 0 .. Current] /\ Current \in 0 .. Current
    BY <1>0, <1>2 DEF TypeOK
  <2>2. CASE Writes
    <3>1. content' \in [Folders -> 0 .. Current]
      BY <2>1, <2>2 DEF Writes
    <3>2. ASSUME NEW f \in Folders PROVE content'[f] >= content[f]
      <4>1. content'[f] \in {Current, content[f]} /\ content[f] \in 0 .. Current
        BY <2>1, <2>2 DEF Writes
      <4> QED
        BY <1>2, <4>1
    <3> QED
      BY <2>1, <3>1, <3>2
  <2>3. CASE UNCHANGED content
    <3>1. \A f \in Folders : content[f] \in 0 .. Current
      BY <2>1
    <3> QED
      BY <1>2, <2>1, <2>3, <3>1
  <2> QED
    BY <1>1, <2>2, <2>3
<1>8. \A t \in toasts' : \/ t \in toasts
                         \/ /\ t.run = Current /\ t.cwd = cwd /\ t \in Toasts
                            /\ DOMAIN t.before \subseteq Files(cwd)
                            /\ \A f \in DOMAIN t.before : t.before[f] = content[f]
                            /\ outcome'[Current] = "failed" /\ Writes
  <2>1. ASSUME NEW F \in SUBSET Files(cwd), NEW t, Report("failed"), Writes,
               t = [run |-> Current, cwd |-> cwd, compute |-> chosen,
                    before |-> [f \in F |-> content[f]]]
        PROVE  /\ t.run = Current /\ t.cwd = cwd /\ t \in Toasts
               /\ DOMAIN t.before \subseteq Files(cwd)
               /\ \A f \in DOMAIN t.before : t.before[f] = content[f]
               /\ outcome'[Current] = "failed"
    <3>1. F \in SUBSET Folders
      BY <1>3, RealFacts
    <3>2. [f \in F |-> content[f]] \in [F -> 0 .. Current]
      BY <1>7, <3>1
    <3>3. Current \in 1 .. Current
      BY <1>2, <1>3
    <3>4. t \in Toasts
      BY <1>2, <1>3, <2>1, <3>1, <3>2, <3>3, NewToast, ToastsAre
    <3>5. outcome'[Current] = "failed"
      BY <1>2, <1>3, <2>1 DEF Report
    <3> QED
      BY <2>1, <3>4, <3>5
  <2>2. CASE toasts' = toasts
    BY <2>2
  <2>3. CASE /\ Report("failed") /\ Writes
             /\ \E F \in SUBSET Files(cwd) :
                  toasts' = toasts \cup {[run |-> Current, cwd |-> cwd, compute |-> chosen,
                                          before |-> [f \in F |-> content[f]]]}
    BY <2>1, <2>3
  <2> QED
    BY <2>2, <2>3 DEF CliEnds
<1>9. toasts' \subseteq Toasts
  BY <1>0, <1>8 DEF TypeOK
<1>10. TypeOK'
  BY <1>0, <1>1, <1>4, <1>5, <1>6, <1>7, <1>9 DEF TypeOK
<1>11. RunsOK'
  <2>1. \A k \in 1 .. Current' : outcome'[k] = "open" <=> (k = Current' /\ pc' \in {"cli", "adopt"})
    BY <1>2, <1>3, <1>4, <1>5
  <2>2. pc' = "adopt" => \A g \in Files(cwd') : content'[g] = Current'
    BY <1>3, <1>4, <1>6, RealFacts DEF Writes
  <2>3. pc' # "idle" => cwd' \in Folders
    BY <1>3, <1>6
  <2>4. pc' \notin {"idle", "visible", "compute"} => chosen' \in Computes
    BY <1>3, <1>6
  <2>5. pc' \in {"cli", "adopt"} => Current' >= 1 /\ runFolders'[Current'] = cwd'
    BY <1>1, <1>3, <1>4, <1>6
  <2> QED
    BY <1>4, <1>5, <2>1, <2>2, <2>3, <2>4, <2>5 DEF RunsOK
<1>12. ASSUME NEW t \in toasts
       PROVE  /\ t.run \in 1 .. Current /\ t.cwd \in Folders
              /\ DOMAIN t.before \subseteq Folders
              /\ outcome[t.run] = "failed" /\ t.run # Current
              /\ NoteOK(t) /\ Untouched(t)
  <2>1. /\ t.run \in 1 .. Current /\ t.cwd \in Folders
        /\ DOMAIN t.before \subseteq Folders
    BY <1>0, <1>2, ToastsAre, ToastFields DEF TypeOK
  <2>2. NoteOK(t) /\ Untouched(t) /\ outcome[t.run] = "failed"
    BY <1>0 DEF NotesOK, Live, NoteOK
  <2> QED
    BY <1>3, <2>1, <2>2
<1>13. ASSUME NEW t \in toasts' PROVE NoteOK(t)'
  <2>1. CASE t \in toasts
    BY <1>1, <1>5, <1>12, <2>1 DEF NoteOK
  <2>2. CASE t \notin toasts
    <3>1. /\ t.run = Current /\ t.cwd = cwd
          /\ DOMAIN t.before \subseteq Files(cwd)
          /\ \A f \in DOMAIN t.before : t.before[f] = content[f]
          /\ outcome'[Current] = "failed"
      BY <1>8, <2>2
    <3>2. ASSUME NEW r \in readyRoots, NEW f \in Files(r) \cap DOMAIN t.before, OnlyNames(r)
          PROVE  t.before[f] >= adopted[r]
      BY <1>0, <3>1, <3>2 DEF ReadyMeansAdopted, OnlyNames
    <3> QED
      BY <1>1, <1>3, <3>1, <3>2 DEF NoteOK
  <2> QED
    BY <2>1, <2>2
<1>14. ASSUME NEW t \in toasts' PROVE Untouched(t)'
  <2>0. SUFFICES ASSUME RealScope(t.cwd)
                 PROVE  Stale(t)' \/ \A f \in DOMAIN t.before : content'[f] = t.run
    BY DEF Untouched
  <2>1. CASE t \notin toasts
    <3>1. /\ t.run = Current /\ DOMAIN t.before \subseteq Files(cwd) /\ Writes
      BY <1>8, <2>1
    <3> QED
      BY <1>3, <3>1, RealFacts DEF Writes
  <2>2. CASE t \in toasts
    <3>0. Stale(t) => Stale(t)'
      BY <1>1, <1>4 DEF Stale
    <3>1. Stale(t) \/ \A f \in DOMAIN t.before : content[f] = t.run
      BY <1>1, <1>12, <2>0, <2>2 DEF Untouched
    <3>2. CASE \E f \in DOMAIN t.before : f \in Files(cwd)
      <4>1. PICK f \in DOMAIN t.before : f \in Files(cwd)
        BY <3>2
      <4>2. f \in Files(t.cwd)
        BY <1>12, <2>2, <4>1 DEF NoteOK
      <4>3. Inside(Scope(t.cwd), Real[cwd])
        BY <1>3, <1>12, <2>0, <2>2, <4>1, <4>2, Overlap
      <4>4. Current \in (t.run + 1) .. Current
        BY <1>2, <1>3, <1>12, <2>2
      <4>5. Stale(t)
        BY <1>3, <4>3, <4>4 DEF Stale
      <4> QED
        BY <3>0, <4>5
    <3>3. CASE ~ \E f \in DOMAIN t.before : f \in Files(cwd)
      <4>1. \A f \in DOMAIN t.before : content'[f] = content[f]
        BY <1>1, <1>12, <2>2, <3>3 DEF Writes
      <4> QED
        BY <3>0, <3>1, <4>1
    <3> QED
      BY <3>2, <3>3
  <2> QED
    BY <2>1, <2>2
<1>15. \A t, u \in toasts' : t.run = u.run => t = u
  <2>1. \A t \in toasts' : t \in toasts <=> t.run # Current
    BY <1>8, <1>12
  <2>2. \A t, u \in toasts' : t \notin toasts /\ u \notin toasts => t = u
    BY DEF CliEnds
  <2> QED
    BY <1>0, <2>1, <2>2 DEF NotesOK
<1>16. NotesOK' /\ UndoOK'
  <2>1. Live' = toasts' /\ ~Undoing'
    BY <1>6 DEF Live, Undoing
  <2>2. NotesOK'
    BY <1>13, <1>14, <1>15, <2>1 DEF NotesOK
  <2> QED
    BY <1>6, <2>1, <2>2 DEF UndoOK
<1>17. ReadyMeansAdopted'
  <2>1. \A k \in 1 .. Current : outcome'[k] = "ok" <=> outcome[k] = "ok"
    BY <1>3, <1>5
  <2>2. \A f \in Folders : adopted[f] \in 0 .. Current
    BY <1>0 DEF TypeOK
  <2>3. ASSUME NEW f \in readyRoots
        PROVE  /\ adopted[f] # 0
               /\ \E k \in 1 .. adopted[f] : outcome'[k] = "ok" /\ runFolders[k] = f
               /\ OnlyName(f) /\ OnlyName(Root[f]) => \A g \in Files(f) : content'[g] >= adopted[f]
    <3>1. /\ adopted[f] # 0
          /\ \E k \in 1 .. adopted[f] : outcome[k] = "ok" /\ runFolders[k] = f
          /\ OnlyName(f) /\ OnlyName(Root[f]) => \A g \in Files(f) : content[g] >= adopted[f]
      BY <1>0 DEF ReadyMeansAdopted
    <3>2. f \in Folders
      BY <1>0 DEF TypeOK
    <3>3. \E k \in 1 .. adopted[f] : outcome'[k] = "ok" /\ runFolders[k] = f
      BY <1>2, <2>1, <2>2, <3>1, <3>2
    <3>4. \A g \in Files(f) : content[g] >= adopted[f] => content'[g] >= adopted[f]
      <4> SUFFICES ASSUME NEW g \in Files(f), content[g] >= adopted[f]
                   PROVE  content'[g] >= adopted[f]
        OBVIOUS
      <4>1. g \in Folders
        BY <3>2, RealFacts
      <4>2. content[g] \in Nat /\ content'[g] \in Nat /\ content'[g] >= content[g]
        BY <1>2, <1>7, <4>1
      <4>3. adopted[f] \in Nat
        BY <1>2, <2>2, <3>2
      <4> QED
        BY <4>2, <4>3
    <3> QED
      BY <3>1, <3>3, <3>4
  <2>4. ASSUME saved # None, saved.run # 0
        PROVE  /\ outcome'[saved.run] = "ok" /\ runFolders[saved.run] = saved.root
               /\ \A k \in (saved.run + 1) .. Current : outcome'[k] # "ok"
    <3>1. saved.run \in 1 .. Current
      BY <1>0, <1>2, <2>4, SavedFields
    <3>2. /\ outcome[saved.run] = "ok" /\ runFolders[saved.run] = saved.root
          /\ \A k \in (saved.run + 1) .. Current : outcome[k] # "ok"
      BY <1>0, <2>4 DEF ReadyMeansAdopted
    <3> QED
      BY <1>2, <2>1, <3>1, <3>2
  <2>5. \A f \in Folders : adopted[f] # 0 => runFolders[adopted[f]] = f
    BY <1>0 DEF ReadyMeansAdopted
  <2> QED
    BY <1>1, <1>4, <2>3, <2>4, <2>5 DEF ReadyMeansAdopted
<1> QED
  BY <1>10, <1>11, <1>16, <1>17 DEF SetupInv

\* How a run may end once the CLI is ready.
AdoptEnds ==
    /\ pc = "adopt" /\ Release
    /\ UNCHANGED <<active, compute, runFolders, toasts, content>>
    /\ \/ Report("failed") /\ UNCHANGED <<adopted, readyRoots, saved>>
       \/ Report("failed") /\ Adopt /\ UNCHANGED <<readyRoots, saved>>
       \/ /\ Report("ok") /\ Adopt /\ readyRoots' = readyRoots \cup {cwd}
          /\ saved' = [env |-> chosen, root |-> cwd, run |-> Current]

LEMMA AdoptSteps == AdoptFails \/ SaveFails \/ Complete => AdoptEnds
<1>1. AdoptFails => AdoptEnds
  BY DEF AdoptFails, AdoptEnds, user, disk
<1>2. SaveFails => AdoptEnds
  BY DEF SaveFails, AdoptEnds, user
<1>3. Complete => AdoptEnds
  BY DEF Complete, AdoptEnds, user
<1> QED
  BY <1>1, <1>2, <1>3

\* The folder that becomes ready has the files of the run that ends: no
\* notification can have an earlier content in store for it.
LEMMA AdoptKeeps == ASSUME SetupInv, AdoptEnds PROVE SetupInv'
<1>0. TypeOK /\ RunsOK /\ NotesOK /\ UndoOK /\ ReadyMeansAdopted
  BY DEF SetupInv
<1>1. /\ pc = "adopt" /\ pc' = "idle" /\ cwd' = None /\ chosen' = None /\ pins' = FALSE
      /\ undo' = NoToast /\ todo' = {}
      /\ UNCHANGED <<active, compute, runFolders, toasts, content>>
  BY DEF AdoptEnds, Release
<1>2. /\ Current \in Nat /\ runFolders \in Seq(Folders) /\ outcome \in Seq(Outcomes)
      /\ Len(outcome) = Current
      /\ \A k \in 1 .. Current : outcome[k] \in Outcomes
  BY <1>0, Recorded
<1>3. /\ cwd \in Folders /\ chosen \in Computes /\ Current >= 1 /\ runFolders[Current] = cwd
      /\ \A k \in 1 .. Current : outcome[k] = "open" <=> k = Current
      /\ \A g \in Files(cwd) : content[g] = Current
  BY <1>0, <1>1 DEF RunsOK
<1>4. Current' = Current /\ Toasts' = Toasts
  BY <1>1 DEF Current, Toasts
<1>5. /\ outcome' \in Seq(Outcomes) /\ Len(outcome') = Current
      /\ \A k \in 1 .. Current : k # Current => outcome'[k] = outcome[k]
      /\ outcome'[Current] \in {"failed", "ok"}
  <2>1. PICK o \in {"failed", "ok"} : Report(o)
    BY DEF AdoptEnds
  <2>2. o \in Outcomes
    BY DEF Outcomes
  <2> QED
    BY <1>2, <1>3, <2>1, <2>2 DEF Report
<1>6. adopted \in [Folders -> 0 .. Current]
  BY <1>0 DEF TypeOK
<1>7. \/ adopted' = adopted
      \/ adopted' = [adopted EXCEPT ![cwd] = Current]
  BY DEF AdoptEnds, Adopt
<1>8. \/ readyRoots' = readyRoots /\ saved' = saved
      \/ /\ readyRoots' = readyRoots \cup {cwd} /\ outcome'[Current] = "ok"
         /\ adopted' = [adopted EXCEPT ![cwd] = Current]
         /\ saved' = [env |-> chosen, root |-> cwd, run |-> Current]
  BY <1>2, <1>3 DEF AdoptEnds, Adopt, Report
<1>9. TypeOK'
  <2>1. adopted' \in [Folders -> 0 .. Current]
    BY <1>2, <1>3, <1>6, <1>7
  <2>2. saved' \in [env : Computes, root : Folders, run : 0 .. Current] \cup {None}
    <3>1. Current \in 0 .. Current
      BY <1>2
    <3> QED
      BY <1>0, <1>3, <1>8, <3>1 DEF TypeOK
  <2>3. readyRoots' \in SUBSET Folders
    BY <1>0, <1>3, <1>8 DEF TypeOK
  <2> QED
    BY <1>0, <1>1, <1>4, <1>5, <2>1, <2>2, <2>3 DEF TypeOK
<1>10. RunsOK'
  <2>1. \A k \in 1 .. Current' : outcome'[k] # "open"
    BY <1>2, <1>3, <1>4, <1>5
  <2> QED
    BY <1>1, <1>4, <1>5, <2>1 DEF RunsOK
<1>11. ASSUME NEW t \in toasts PROVE NoteOK(t)' /\ Untouched(t)'
  <2>1. t.run \in 1 .. Current /\ t.cwd \in Folders /\ DOMAIN t.before \subseteq Folders
    BY <1>0, <1>2, ToastsAre, ToastFields DEF TypeOK
  <2>2. NoteOK(t) /\ Untouched(t) /\ outcome[t.run] = "failed"
    BY <1>0 DEF NotesOK, Live, NoteOK
  <2>3. t.run < Current
    BY <1>2, <1>3, <2>1, <2>2
  <2>4. ASSUME NEW r \in readyRoots', adopted'[r] < t.run
        PROVE  r \in readyRoots /\ adopted'[r] = adopted[r]
    BY <1>0, <1>2, <1>3, <1>6, <1>7, <1>8, <2>1, <2>3, <2>4 DEF TypeOK
  <2>5. outcome'[t.run] = "failed" /\ runFolders'[t.run] = t.cwd
        /\ DOMAIN t.before \subseteq Files(t.cwd)
    BY <1>1, <1>5, <2>1, <2>2, <2>3 DEF NoteOK
  <2>6. \A r \in readyRoots' : \A f \in Files(r) \cap DOMAIN t.before :
          OnlyNames(r) /\ adopted'[r] < t.run => t.before[f] >= adopted'[r]
    BY <2>2, <2>4 DEF NoteOK
  <2>7. NoteOK(t)'
    BY <2>5, <2>6 DEF NoteOK
  <2>8. Untouched(t)'
    BY <1>1, <1>4, <2>2 DEF Untouched, Stale
  <2> QED
    BY <2>7, <2>8
<1>12. NotesOK' /\ UndoOK'
  <2>1. Live' = toasts /\ ~Undoing'
    BY <1>1 DEF Live, Undoing
  <2>2. NotesOK'
    BY <1>0, <1>1, <1>11, <2>1 DEF NotesOK
  <2> QED
    BY <1>1, <2>1, <2>2 DEF UndoOK
<1>13. ReadyMeansAdopted'
  <2>1. \A k \in 1 .. Current : outcome[k] = "ok" => k # Current /\ outcome'[k] = "ok"
    BY <1>3, <1>5
  <2>2. \A f \in Folders : adopted'[f] # 0 => runFolders[adopted'[f]] = f
    BY <1>0, <1>3, <1>6, <1>7 DEF ReadyMeansAdopted
  <2>3. ASSUME NEW f \in readyRoots'
        PROVE  /\ adopted'[f] # 0
               /\ \E k \in 1 .. adopted'[f] : outcome'[k] = "ok" /\ runFolders[k] = f
               /\ OnlyName(f) /\ OnlyName(Root[f]) => \A g \in Files(f) : content[g] >= adopted'[f]
    <3>0. f \in Folders
      BY <1>0, <1>3, <1>8 DEF TypeOK
    <3>1. CASE f = cwd /\ adopted'[f] = Current
      <4>1. adopted'[f] # 0
        BY <1>3, <3>1
      <4>2. CASE f \in readyRoots
        <5>1. PICK k \in 1 .. adopted[f] : outcome[k] = "ok" /\ runFolders[k] = f
          BY <1>0, <4>2 DEF ReadyMeansAdopted
        <5>2. k \in 1 .. Current
          BY <1>2, <1>6, <3>0, <5>1
        <5>3. outcome'[k] = "ok" /\ runFolders[k] = f
          BY <2>1, <5>1, <5>2
        <5>4. \A g \in Files(f) : content[g] >= adopted'[f]
          BY <1>2, <1>3, <3>1
        <5> QED
          BY <3>1, <4>1, <5>2, <5>3, <5>4
      <4>3. CASE f \notin readyRoots
        <5>1. outcome'[Current] = "ok" /\ runFolders[Current] = f /\ Current \in 1 .. Current
          BY <1>2, <1>3, <1>8, <3>1, <4>3
        <5>2. \A g \in Files(f) : content[g] >= adopted'[f]
          BY <1>2, <1>3, <3>1
        <5> QED
          BY <3>1, <4>1, <5>1, <5>2
      <4> QED
        BY <4>2, <4>3
    <3>2. CASE f \in readyRoots /\ adopted'[f] = adopted[f]
      <4>1. PICK k \in 1 .. adopted[f] : outcome[k] = "ok" /\ runFolders[k] = f
        BY <1>0, <3>2 DEF ReadyMeansAdopted
      <4>2. k \in 1 .. Current
        BY <1>2, <1>6, <3>0, <4>1
      <4>3. outcome'[k] = "ok"
        BY <2>1, <4>1, <4>2
      <4> QED
        BY <1>0, <3>2, <4>1, <4>3 DEF ReadyMeansAdopted
    <3> QED
      BY <1>3, <1>6, <1>7, <1>8, <3>0, <3>1, <3>2
  <2>4. ASSUME saved' # None, saved'.run # 0
        PROVE  /\ outcome'[saved'.run] = "ok" /\ runFolders[saved'.run] = saved'.root
               /\ \A k \in (saved'.run + 1) .. Current : outcome'[k] # "ok"
    <3>1. CASE saved' = [env |-> chosen, root |-> cwd, run |-> Current] /\ outcome'[Current] = "ok"
      BY <1>2, <1>3, <3>1
    <3>2. CASE saved' = saved /\ outcome'[Current] # "ok"
      <4>1. saved.run \in 1 .. Current
        BY <1>0, <1>2, <2>4, <3>2, SavedFields
      <4>2. /\ outcome[saved.run] = "ok" /\ runFolders[saved.run] = saved.root
            /\ \A k \in (saved.run + 1) .. Current : outcome[k] # "ok"
        BY <1>0, <2>4, <3>2 DEF ReadyMeansAdopted
      <4> QED
        BY <1>2, <1>5, <2>1, <3>2, <4>1, <4>2
    <3>3. \/ saved' = saved /\ outcome'[Current] # "ok"
          \/ saved' = [env |-> chosen, root |-> cwd, run |-> Current] /\ outcome'[Current] = "ok"
      BY <1>2, <1>3 DEF AdoptEnds, Report
    <3> QED
      BY <3>1, <3>2, <3>3
  <2> QED
    BY <1>1, <1>4, <2>2, <2>3, <2>4 DEF ReadyMeansAdopted
<1> QED
  BY <1>9, <1>10, <1>12, <1>13 DEF SetupInv

\* A Retry that goes ahead finds the files as its run left them.
LEMMA RetryKeeps == ASSUME SetupInv, NEW t \in toasts, Retry(t) PROVE SetupInv'
<1>0. TypeOK /\ RunsOK /\ NotesOK /\ UndoOK /\ ReadyMeansAdopted
  BY DEF SetupInv
<1>1. /\ toasts' = toasts \ {t}
      /\ UNCHANGED <<active, compute, runFolders, outcome, readyRoots, content, adopted, saved>>
  BY DEF Retry, user, disk
<1>2. Current' = Current /\ Toasts' = Toasts /\ Current \in Nat
  BY <1>0, <1>1, Recorded DEF Current, Toasts
<1>3. ReadyMeansAdopted'
  BY <1>0, <1>1, <1>2 DEF ReadyMeansAdopted
<1>4. \A u : (NoteOK(u)' <=> NoteOK(u)) /\ (Stale(u)' <=> Stale(u))
  BY <1>1, <1>2 DEF NoteOK, Stale
<1>5. CASE UNCHANGED run
  <2>1. UNCHANGED <<pc, cwd, chosen, pins, undo, todo>>
    BY <1>5 DEF run
  <2>2. TypeOK'
    BY <1>0, <1>1, <1>2, <2>1 DEF TypeOK
  <2>3. RunsOK'
    BY <1>0, <1>1, <1>2, <2>1 DEF RunsOK
  <2>4. NotesOK'
    BY <1>0, <1>1, <1>4, <2>1 DEF NotesOK, Live, Undoing, Untouched
  <2>5. UndoOK'
    BY <1>0, <1>1, <1>2, <1>4, <2>1 DEF UndoOK, Undoing
  <2> QED
    BY <1>3, <2>2, <2>3, <2>4, <2>5 DEF SetupInv
<1>6. CASE ~UNCHANGED run
  <2>1. /\ pc = "idle" /\ t.cwd \notin readyRoots /\ ~Stale(t)
        /\ pc' = "check" /\ cwd' = t.cwd /\ chosen' = t.compute
        /\ pins' = FALSE /\ undo' = t /\ todo' = DOMAIN t.before
    BY <1>6 DEF Retry
  <2>2. t \in Toasts /\ t.cwd \in Folders /\ t.compute \in Computes /\ DOMAIN t.before \subseteq Folders
    BY <1>0, <1>2, ToastsAre, ToastFields DEF TypeOK
  <2>3. TypeOK'
    BY <1>0, <1>1, <1>2, <2>1, <2>2 DEF TypeOK
  <2>4. RunsOK'
    BY <1>0, <1>1, <1>2, <2>1, <2>2 DEF RunsOK
  <2>5. NotesOK'
    <3>1. Live' \subseteq toasts /\ toasts \subseteq Live
      BY <1>1, <2>1 DEF Live
    <3>2. \A u \in toasts : Untouched(u)'
      BY <1>0, <1>1, <1>4, <2>1 DEF NotesOK, Untouched
    <3> QED
      BY <1>0, <1>1, <1>4, <3>1, <3>2 DEF NotesOK
  <2>6. UndoOK'
    <3>1. RealScope(t.cwd) => \A f \in DOMAIN t.before : content[f] = t.run
      BY <1>0, <2>1 DEF NotesOK, Untouched
    <3>2. \A u \in toasts' : u.run # t.run
      BY <1>0, <1>1 DEF NotesOK
    <3>3. Undoing'
      BY <2>1 DEF Undoing
    <3> QED
      BY <1>1, <1>2, <1>4, <2>1, <2>2, <3>1, <3>2, <3>3 DEF UndoOK
  <2> QED
    BY <1>3, <2>3, <2>4, <2>5, <2>6 DEF SetupInv
<1> QED
  BY <1>5, <1>6

\* The file that is put back had been written by the conflict's own run, or its
\* ready projects had their interpreter from an earlier one; and another
\* notification about it is stale as soon as the Retry starts its run.
LEMMA RestoreKeeps == ASSUME SetupInv, Restore PROVE SetupInv'
<1>0. TypeOK /\ RunsOK /\ NotesOK /\ UndoOK /\ ReadyMeansAdopted
  BY DEF SetupInv
<1>1. /\ pc = "restore" /\ UNCHANGED <<cwd, chosen, pins, undo, active, compute, runFolders,
                                       outcome, toasts, readyRoots, adopted, saved>>
      /\ pc' = IF todo' = {} THEN "start" ELSE "restore"
  BY DEF Restore, user, session
<1>2. PICK f \in todo : /\ Root[f] = f => todo = {f}
                        /\ content' = [content EXCEPT ![f] = undo.before[f]]
                        /\ todo' = todo \ {f}
  BY DEF Restore
<1>3. Current' = Current /\ Toasts' = Toasts /\ Current \in Nat
  BY <1>0, <1>1, Recorded DEF Current, Toasts
<1>4. /\ undo \in Toasts /\ cwd = undo.cwd /\ todo \subseteq DOMAIN undo.before
      /\ undo.cwd \notin readyRoots /\ ~Stale(undo)
      /\ \A t \in toasts : t.run # undo.run
      /\ RealScope(undo.cwd) => \A g \in todo : content[g] = undo.run
      /\ NoteOK(undo)
  BY <1>0, <1>1 DEF UndoOK, NotesOK, Live, Undoing
<1>5. /\ undo.run \in 1 .. Current /\ undo.cwd \in Folders
      /\ DOMAIN undo.before \subseteq Folders
      /\ \A g \in DOMAIN undo.before : undo.before[g] \in 0 .. Current
  BY <1>3, <1>4, ToastsAre, ToastFields
<1>6. /\ content \in [Folders -> 0 .. Current] /\ adopted \in [Folders -> 0 .. Current]
      /\ readyRoots \subseteq Folders /\ toasts \subseteq Toasts
  BY <1>0 DEF TypeOK
<1>7. f \in Folders /\ f \in DOMAIN undo.before /\ f \in Files(undo.cwd)
  BY <1>4, <1>5 DEF NoteOK
<1>8. content'[f] = undo.before[f] /\ \A g \in Folders : g # f => content'[g] = content[g]
  BY <1>2, <1>6, <1>7
<1>9. \A t : (NoteOK(t)' <=> NoteOK(t)) /\ (Stale(t)' <=> Stale(t))
  BY <1>1, <1>3 DEF NoteOK, Stale
<1>10. TypeOK'
  <2>1. content' \in [Folders -> 0 .. Current]
    BY <1>2, <1>5, <1>6, <1>7
  <2>2. todo' \in SUBSET Folders /\ pc' \in {"start", "restore"}
    BY <1>1, <1>2, <1>4, <1>5
  <2> QED
    BY <1>0, <1>1, <1>3, <2>1, <2>2 DEF TypeOK
<1>11. RunsOK'
  <2>1. pc' \in {"start", "restore"}
    BY <1>1
  <2> QED
    BY <1>0, <1>1, <1>3, <2>1 DEF RunsOK
<1>12. ASSUME NEW t \in toasts PROVE Untouched(t)'
  <2>0. SUFFICES ASSUME RealScope(t.cwd), ~Stale(t)
                 PROVE  \/ pc' = "start" /\ Hits(t, cwd)
                        \/ \A g \in DOMAIN t.before : content'[g] = t.run
    BY <1>1, <1>9 DEF Untouched
  <2>1. /\ t.cwd \in Folders /\ DOMAIN t.before \subseteq Folders
        /\ DOMAIN t.before \subseteq Files(t.cwd) /\ t.run # undo.run
    BY <1>0, <1>3, <1>4, <1>6, ToastsAre, ToastFields DEF NotesOK, Live, NoteOK
  <2>2. \A g \in DOMAIN t.before : content[g] = t.run
    BY <1>0, <1>1, <2>0 DEF NotesOK, Untouched
  <2>3. CASE f \notin DOMAIN t.before
    BY <1>8, <2>1, <2>2, <2>3
  <2>4. CASE f \in DOMAIN t.before /\ todo' = {}
    <3>1. Inside(Scope(t.cwd), Real[undo.cwd])
      BY <1>5, <1>7, <2>0, <2>1, <2>4, Overlap
    <3> QED
      BY <1>1, <1>4, <2>4, <3>1 DEF Hits
  <2>5. CASE f \in DOMAIN t.before /\ todo' # {}
    <3>1. PICK g \in todo : g # f
      BY <1>2, <2>5
    <3>2. f \in {Real[undo.cwd], Root[Real[undo.cwd]]} /\ g \in {Real[undo.cwd], Root[Real[undo.cwd]]}
      BY <1>4, <1>7, <3>1 DEF NoteOK, Files
    <3>3. Root[Real[undo.cwd]] # Real[undo.cwd]
      BY <3>1, <3>2
    <3>4. RealScope(undo.cwd)
      BY <1>5, <3>3, RealFacts DEF RealScope, Scope
    <3>5. content[f] = undo.run
      BY <1>2, <1>4, <3>4
    <3> QED
      BY <2>1, <2>2, <2>5, <3>5
  <2> QED
    BY <2>3, <2>4, <2>5
<1>13. NotesOK'
  <2>1. Live' \subseteq Live
    BY <1>1 DEF Live, Undoing
  <2> QED
    BY <1>0, <1>1, <1>9, <1>12, <2>1 DEF NotesOK
<1>14. UndoOK'
  <2>1. CASE todo' = {}
    BY <1>1, <2>1 DEF UndoOK, Undoing
  <2>2. CASE todo' # {}
    <3>1. RealScope(undo.cwd) => \A g \in todo' : content'[g] = undo.run
      BY <1>2, <1>4, <1>5, <1>8
    <3> QED
      BY <1>1, <1>2, <1>3, <1>4, <1>9, <2>2, <3>1 DEF UndoOK, Undoing
  <2> QED
    BY <2>1, <2>2
<1>15. ReadyMeansAdopted'
  <2>1. ASSUME NEW r \in readyRoots, OnlyName(r), OnlyName(Root[r]), NEW g \in Files(r)
        PROVE  content'[g] >= adopted[r]
    <3>1. r \in Folders /\ g \in Folders /\ OnlyNames(r)
      BY <1>6, <2>1, RealFacts DEF OnlyNames
    <3>2. content[g] >= adopted[r]
      BY <1>0, <2>1 DEF ReadyMeansAdopted
    <3>3. CASE g # f
      BY <1>8, <3>1, <3>2, <3>3
    <3>4. CASE g = f
      <4>1. RealScope(undo.cwd)
        BY <1>5, <1>7, <3>1, <3>4, <2>1, SingleNames
      <4>2. Inside(Scope(undo.cwd), Real[r])
        BY <1>5, <1>7, <2>1, <3>1, <3>4, <4>1, Overlap
      <4>3. adopted[r] \in 1 .. Current /\ runFolders[adopted[r]] = r
        BY <1>0, <1>3, <1>6, <3>1 DEF ReadyMeansAdopted
      <4>4. ~ (adopted[r] > undo.run)
        <5> SUFFICES ASSUME adopted[r] > undo.run PROVE FALSE
          OBVIOUS
        <5>1. adopted[r] \in (undo.run + 1) .. Current
          BY <1>3, <1>5, <4>3
        <5> QED
          BY <1>4, <4>2, <4>3, <5>1 DEF Stale
      <4>5. adopted[r] # undo.run
        BY <1>4, <4>3 DEF NoteOK
      <4>6. adopted[r] < undo.run
        BY <1>3, <1>5, <4>3, <4>4, <4>5
      <4>7. undo.before[f] >= adopted[r]
        BY <1>4, <1>7, <2>1, <3>1, <3>4, <4>6 DEF NoteOK
      <4> QED
        BY <1>8, <3>4, <4>7
    <3> QED
      BY <3>3, <3>4
  <2> QED
    BY <1>0, <1>1, <1>3, <2>1 DEF ReadyMeansAdopted
<1> QED
  BY <1>10, <1>11, <1>13, <1>14, <1>15 DEF SetupInv

\* Every step of the set-up on its own, and those that only switch the compute.
LEMMA SetupInvStep ==
  ASSUME SetupInv,
         \/ SetupNext
         \/ UNCHANGED setupVars
         \/ compute' \in Computes \cup {None} /\ UNCHANGED <<active, run, session, disk, saved>>
  PROVE  SetupInv'
<1>1. CASE Start
  BY <1>1, StartKeeps
<1>2. CASE CliFails \/ CliConflict \/ CliReady
  BY <1>2, CliSteps, CliKeeps
<1>3. CASE AdoptFails \/ SaveFails \/ Complete
  BY <1>3, AdoptSteps, AdoptKeeps
<1>4. CASE Restore
  BY <1>4, RestoreKeeps
<1>5. CASE \E t \in toasts : Retry(t)
  BY <1>5, RetryKeeps
<1>6. CASE \/ SwitchProject \/ Setup \/ Visible \/ ResolveCompute \/ PickPreset
           \/ CheckBackups \/ RestoreFails \/ UNCHANGED setupVars
           \/ compute' \in Computes \cup {None} /\ UNCHANGED <<active, run, session, disk, saved>>
  BY <1>6, QuietSteps, QuietKeeps
<1> QED
  BY <1>1, <1>2, <1>3, <1>4, <1>5, <1>6 DEF SetupNext, Work

\* What a step of the set-up, the drift manager or the outside does to the
\* set-up.
LEMMA DriftSteps ==
  [Next]_vars =>
    \/ SetupNext
    \/ UNCHANGED setupVars
    \/ compute' \in Computes \cup {None} /\ UNCHANGED <<active, run, session, disk, saved>>
<1>1. SetupStep => SetupNext
  BY DEF SetupStep
<1>2. ComputeChange => compute' \in Computes \cup {None} /\ UNCHANGED <<active, run, session, disk, saved>>
  BY DEF ComputeChange
<1>3. Fire \/ EvalVisible \/ EvalAnswered \/ UNCHANGED vars => UNCHANGED setupVars
  BY DEF Fire, EvalVisible, EvalAnswered, vars
<1> QED
  BY <1>1, <1>2, <1>3 DEF Next

\* In every behaviour of the set-up with the drift manager beside it, folders
\* use interpreters of their own runs, and no old Retry has undone a ready
\* project that is opened by one name only, as its workspace is. (runResolved,
\* buildConflictRecoveryActions.)
THEOREM ReadyStaysAdopted == Spec => []ReadyMeansAdopted
<1>1. Init => SetupInv
  BY SetupInvInit DEF Init
<1>2. SetupInv /\ [Next]_vars => SetupInv'
  BY DriftSteps, SetupInvStep
<1>3. SetupInv => ReadyMeansAdopted
  BY DEF SetupInv
<1> QED
  BY <1>1, <1>2, <1>3, PTL DEF Spec

\* The runs are as many as the bound allows, and a folder is captured for as long
\* as the guard is held.
GuardOK ==
    /\ Current <= MaxRuns
    /\ pc = "idle" => cwd = None
    /\ pc \in {"visible", "compute", "preset", "start", "check", "restore"} => Current < MaxRuns

\* A notification has a backup of the workspace's file, so that a Retry has
\* something to put back until it goes on to its run.
BackupsOK ==
    /\ \A t \in toasts : DOMAIN t.before # {}
    /\ pc \in {"check", "restore"} => todo # {}

LEMMA BackupsStep ==
  ASSUME BackupsOK, [Next]_vars
  PROVE  BackupsOK'
<1>1. CASE UNCHANGED <<run, toasts>> \/ (Release /\ UNCHANGED toasts)
  BY <1>1 DEF BackupsOK, Release, run
<1>2. CASE SwitchProject \/ RestoreFails \/ AdoptFails \/ SaveFails \/ Complete \/ CliFails
  BY <1>1, <1>2 DEF SwitchProject, RestoreFails, AdoptFails, SaveFails, Complete, CliFails, session
<1>3. CASE Setup \/ Visible \/ ResolveCompute \/ PickPreset \/ Start \/ CliReady
  BY <1>1, <1>3 DEF Setup, Visible, ResolveCompute, PickPreset, Start, CliReady, BackupsOK, Goto, session
<1>4. CASE CheckBackups \/ Restore
  BY <1>1, <1>4 DEF CheckBackups, Restore, BackupsOK, Goto, session
<1>5. CASE CliConflict
  <2>1. PICK F \in SUBSET Files(cwd) :
          /\ Root[Real[cwd]] \in F
          /\ toasts' = toasts \cup
               {[run |-> Current, cwd |-> cwd, compute |-> chosen,
                 before |-> [f \in F |-> content[f]]]}
    BY <1>5 DEF CliConflict
  <2>2. \A t \in toasts' : DOMAIN t.before # {}
    BY <2>1 DEF BackupsOK
  <2> QED
    BY <1>5, <2>2 DEF CliConflict, Release, BackupsOK
<1>6. CASE \E t \in toasts : Retry(t)
  BY <1>6 DEF Retry, BackupsOK, run
<1>7. CASE \/ UNCHANGED setupVars
           \/ compute' \in Computes \cup {None} /\ UNCHANGED <<active, run, session, disk, saved>>
  BY <1>1, <1>7 DEF setupVars, session
<1> QED
  BY <1>2, <1>3, <1>4, <1>5, <1>6, <1>7, DriftSteps DEF SetupNext, Work

\* The project's own file first, the workspace's last: one of them can be next.
LEMMA SomeFileIsNext ==
  ASSUME SetupInv, BackupsOK, pc \in {"check", "restore"}
  PROVE  \E f \in todo : Root[f] = f => todo = {f}
<1>1. Undoing /\ todo # {}
  BY DEF BackupsOK, Undoing
<1>2. todo \subseteq Files(undo.cwd)
  BY <1>1 DEF SetupInv, UndoOK, NotesOK, NoteOK, Live
<1>3. CASE Real[undo.cwd] \in todo /\ Root[Real[undo.cwd]] # Real[undo.cwd]
  BY <1>3
<1>4. CASE Real[undo.cwd] \notin todo \/ Root[Real[undo.cwd]] = Real[undo.cwd]
  <2>1. todo = {Root[Real[undo.cwd]]}
    BY <1>1, <1>2, <1>4 DEF Files
  <2> QED BY <2>1
<1> QED
  BY <1>3, <1>4

LEMMA GuardStep ==
  ASSUME SetupInv, GuardOK, [Next]_vars
  PROVE  GuardOK'
<1>0. MaxRuns \in Nat /\ Current \in Nat /\ runFolders \in Seq(Folders)
  BY ConstantsAssumption DEF SetupInv, TypeOK, Current
<1>1. CASE UNCHANGED <<run, runFolders>> \/ (Release /\ UNCHANGED runFolders)
  BY <1>0, <1>1 DEF GuardOK, Release, run, Current
<1>2. CASE SwitchProject \/ CheckBackups \/ RestoreFails
  BY <1>0, <1>1, <1>2 DEF SwitchProject, CheckBackups, RestoreFails, GuardOK, Goto, Current, session
<1>3. CASE Setup \/ Visible \/ ResolveCompute \/ PickPreset
  BY <1>0, <1>1, <1>3 DEF Setup, Visible, ResolveCompute, PickPreset, GuardOK, Goto, Current, session
<1>4. CASE Start
  <2>1. cwd \in Folders /\ pc = "start" /\ pc' = "cli"
    BY <1>4 DEF Start, Goto, SetupInv, RunsOK
  <2>2. Current' = Current + 1
    BY <1>0, <1>4, <2>1 DEF Start, Current
  <2> QED BY <1>0, <2>1, <2>2 DEF GuardOK
<1>5. CASE CliFails \/ CliConflict \/ CliReady
  BY <1>0, <1>1, <1>5 DEF CliFails, CliConflict, CliReady, GuardOK, Goto, Current, session
<1>6. CASE AdoptFails \/ SaveFails \/ Complete
  BY <1>1, <1>6 DEF AdoptFails, SaveFails, Complete
<1>7. CASE \E t \in toasts : Retry(t)
  BY <1>0, <1>1, <1>7 DEF Retry, GuardOK, Current
<1>8. CASE Restore
  BY <1>0, <1>8 DEF Restore, GuardOK, Current, session
<1>9. CASE \/ UNCHANGED setupVars
           \/ compute' \in Computes \cup {None} /\ UNCHANGED <<active, run, session, disk, saved>>
  BY <1>1, <1>9 DEF setupVars, session
<1> QED
  BY <1>2, <1>3, <1>4, <1>5, <1>6, <1>7, <1>8, <1>9, DriftSteps DEF SetupNext, Work

\* For all folders, computes and bounds: every run of the CLI is reported once
\* when it ends and not before, and a Retry stands for a run that has failed, in
\* its folder, with backups of the files it puts back, one of which can always be
\* next. (runResolved, runGuarded, buildConflictRecoveryActions.)
THEOREM EveryRunIsReported == Spec => []PythonSetupInv
<1>1. Init => SetupInv /\ GuardOK /\ BackupsOK
  BY SetupInvInit, ConstantsAssumption DEF Init, SetupInit, GuardOK, BackupsOK, Current
<1>2. SetupInv /\ GuardOK /\ BackupsOK /\ [Next]_vars => SetupInv' /\ GuardOK' /\ BackupsOK'
  BY DriftSteps, SetupInvStep, GuardStep, BackupsStep
<1>3. SetupInv /\ GuardOK /\ BackupsOK => PythonSetupInv
  <2> SUFFICES ASSUME SetupInv, GuardOK, BackupsOK PROVE PythonSetupInv
    OBVIOUS
  <2>1. TypeOK /\ RunsOK /\ NotesOK /\ UndoOK
    BY DEF SetupInv
  <2>2. cwd = None <=> pc = "idle"
    BY <2>1, NoneAssumption DEF RunsOK, GuardOK
  <2>3. \A t \in toasts : outcome[t.run] = "failed" /\ runFolders[t.run] = t.cwd
    BY <2>1 DEF NotesOK, NoteOK, Live
  <2>4. todo # {} => todo \subseteq DOMAIN undo.before /\ cwd = undo.cwd
    BY <2>1 DEF UndoOK
  <2>5. pc \in {"check", "restore"} => \E f \in todo : Root[f] = f => todo = {f}
    BY SomeFileIsNext
  <2> QED
    BY <2>1, <2>2, <2>3, <2>4, <2>5 DEF PythonSetupInv, RunsOK, GuardOK
<1> QED
  BY <1>1, <1>2, <1>3, PTL DEF Spec

\* A Retry that goes ahead takes back what its own conflict wrote and nothing
\* else, as long as the paths it compares are real. (buildConflictRecoveryActions.)
THEOREM RetryIsItsOwn == Spec => RetryUndoesOnlyItsRun
<1>1. Init => SetupInv
  BY SetupInvInit DEF Init
<1>2. SetupInv /\ [Next]_vars => SetupInv'
  BY DriftSteps, SetupInvStep
<1> DEFINE Own == \A f \in Folders : content'[f] < content[f] =>
                    /\ undo # NoToast
                    /\ (Scope(undo.cwd) = Real[Scope(undo.cwd)] => content[f] = undo.run)
<1>3. SetupInv /\ [Next]_vars => [Own]_setupVars
  <2> SUFFICES ASSUME SetupInv, [Next]_vars PROVE Own
    OBVIOUS
  <2>0. TypeOK /\ RunsOK /\ UndoOK
    BY DEF SetupInv
  <2>1. content \in [Folders -> 0 .. Current] /\ Current \in Nat
    BY <2>0, Recorded DEF TypeOK
  <2>2. CASE content' = content
    BY <2>1, <2>2
  <2>3. CASE Writes
    BY <2>1, <2>3 DEF Writes
  <2>4. CASE Restore
    <3>1. Undoing
      BY <2>4 DEF Restore, Undoing
    <3>2. /\ undo \in Toasts /\ todo \subseteq Folders
          /\ RealScope(undo.cwd) => \A f \in todo : content[f] = undo.run
      BY <2>0, <3>1 DEF UndoOK, TypeOK
    <3>3. undo # NoToast
      BY <2>1, <3>2, ToastsAre, ToastFields DEF NoToast
    <3>4. PICK f \in todo : content' = [content EXCEPT ![f] = undo.before[f]]
      BY <2>4 DEF Restore
    <3>5. \A g \in Folders : content'[g] < content[g] => g = f
      BY <2>1, <3>2, <3>4
    <3> QED
      BY <3>2, <3>3, <3>5 DEF RealScope
  <2>5. content' = content \/ Writes \/ Restore
    BY DriftSteps DEF SetupNext, Work, SwitchProject, Setup, Visible, ResolveCompute,
       PickPreset, Start, CliFails, CliConflict, CliReady, AdoptFails, SaveFails, Complete,
       CheckBackups, RestoreFails, Retry, setupVars, disk
  <2> QED
    BY <2>2, <2>3, <2>4, <2>5
<1>4. RetryUndoesOnlyItsRun <=> [][Own]_setupVars
  BY DEF RetryUndoesOnlyItsRun
<1> HIDE DEF Own
<1> QED
  BY <1>1, <1>2, <1>3, <1>4, PTL DEF Spec

=============================================================================
