---------------------------- MODULE PythonDrift ----------------------------
(***************************************************************************)
(* Whether the environment that was set up last still fits the compute     *)
(* that is attached: python-setup/controllers/PythonSetupDriftManager.ts,  *)
(* composed with the set-up (PythonSetup) as extension.ts wires the two.   *)
(*                                                                         *)
(* A trigger starts a debounce timer, or replaces the pending one; when it *)
(* fires, an evaluation begins and supersedes the one in flight. A         *)
(* superseded evaluation has no effect any more and is not kept. The       *)
(* environment key of a compute is the compute itself.                     *)
(***************************************************************************)
EXTENDS PythonSetup

CONSTANT Bounds   \* bounds: runs of the CLI and evaluations, together

Triggers == {"workspaceOpen", "setupCompleted", "computeChange"}

ASSUME NoneIsNoTrigger == None \notin Triggers

VARIABLES
    drifted,    \* what the row shows
    last,       \* the compute that was evaluated last
    timer,      \* the trigger of the pending debounce timer
    eval,       \* the evaluation in flight
    checks,     \* evaluations so far
    bound,      \* those of Bounds that hold
    judged,     \* history: the baseline drifted was decided on
    excused     \* history: the last evaluation did not decide

driftVars == <<drifted, last, timer, eval, judged, excused>>
vars == <<setupVars, driftVars, checks, bound>>

Idle == [pc |-> "idle"]

Init ==
    /\ SetupInit
    /\ bound \in Bounds /\ checks = 0
    /\ bound.checks = 0 => saved = None
    /\ drifted = FALSE /\ last = None
    /\ timer = "workspaceOpen" /\ eval = Idle
    /\ judged = None /\ excused = FALSE

------------------------------------------------------------------------------
(* Triggers. *)

\* A set-up that ends well moves the baseline and asks for an evaluation.
SetupStep ==
    /\ SetupNext
    /\ pc = "idle" /\ pc' # "idle" => Current < bound.runs
    /\ timer' = IF saved' # saved THEN "setupCompleted" ELSE timer
    /\ UNCHANGED <<drifted, last, eval, judged, excused, checks, bound>>

\* The cluster, serverless or its version is switched, or only the state of
\* the cluster or of the connection changes.
ComputeChange ==
    /\ checks < bound.checks
    /\ compute' \in Computes \cup {None}
    /\ timer' = "computeChange"
    /\ UNCHANGED <<active, run, session, disk, saved>>
    /\ UNCHANGED <<drifted, last, eval, judged, excused, checks, bound>>

------------------------------------------------------------------------------
(* evaluate() *)

Fire ==
    /\ timer # None /\ checks < bound.checks
    /\ eval' = [pc |-> "visible", trigger |-> timer]
    /\ timer' = None /\ checks' = checks + 1
    /\ UNCHANGED <<setupVars, drifted, last, judged, excused, bound>>

Undecided == excused' = TRUE /\ UNCHANGED <<drifted, judged>>

\* The row is hidden.
Hidden == /\ drifted' = FALSE /\ judged' = None /\ excused' = TRUE
          /\ UNCHANGED last

\* Nothing was ever set up, or nothing comparable is attached.
Nothing == /\ saved = None \/ compute = None
           /\ last' = IF saved = None THEN last ELSE None
           /\ judged' = IF saved = None THEN None ELSE judged
           /\ drifted' = FALSE /\ excused' = FALSE

\* The compute is the one that was evaluated last: only its state changed. If
\* the baseline moved since, an evaluation is lost here.
Skip == /\ eval.trigger = "computeChange" /\ compute = last
        /\ excused' = (judged = None \/ judged # saved.env)
        /\ UNCHANGED <<drifted, last, judged>>

\* isVisible() answered or threw.
EvalVisible ==
    /\ eval.pc = "visible"
    /\ \/ Undecided /\ UNCHANGED last /\ eval' = Idle
       \/ Hidden /\ eval' = Idle
       \/ Nothing /\ eval' = Idle
       \/ saved # None /\ compute # None /\ Skip /\ eval' = Idle
       \/ /\ saved # None /\ compute # None
          /\ ~(eval.trigger = "computeChange" /\ compute = last)
          /\ eval' = [pc |-> "dry", trigger |-> eval.trigger,
                      descriptor |-> compute, persisted |-> saved.env]
          /\ UNCHANGED <<drifted, last, judged, excused>>
    /\ UNCHANGED <<setupVars, timer, checks, bound>>

\* Mutant of Unknown: the compute is taken for evaluated all the same.
UnknownLatches == Undecided /\ last' = eval.descriptor

\* The dry run failed or was cancelled: the flag stays, and the next change
\* tries again.
Unknown == Undecided /\ UNCHANGED last

\* The compute or the baseline moved during the dry run, with a trigger pending.
Moved == compute # eval.descriptor \/ saved.env # eval.persisted

Decided == /\ last' = eval.descriptor
           /\ drifted' = (eval.persisted # eval.descriptor)
           /\ judged' = eval.persisted /\ excused' = FALSE

EvalAnswered ==
    /\ eval.pc = "dry"
    /\ \/ Unknown
       \/ Moved /\ UNCHANGED <<drifted, last, judged, excused>>
       \/ ~Moved /\ Decided
    /\ eval' = Idle
    /\ UNCHANGED <<setupVars, timer, checks, bound>>

Next == SetupStep \/ ComputeChange \/ Fire \/ EvalVisible \/ EvalAnswered

Spec == Init /\ [][Next]_vars

------------------------------------------------------------------------------
(* Properties. *)

Quiet == timer = None /\ eval = Idle

\* Once no timer is pending and no evaluation in flight, the row tells the
\* truth about the compute that is attached and the environment that was set
\* up last, in whatever order switches, set-ups, timers and answers came;
\* unless the last evaluation could not decide, was hidden, or was skipped as a
\* mere change of state although the baseline had moved. A result that was
\* dropped always leaves a trigger behind. (evaluate, check.)
DriftIsCurrent ==
    Quiet /\ ~excused /\ saved # None /\ compute # None =>
        drifted = (saved.env # compute)
============================================================================
