----------------------------- MODULE RemoteRun -----------------------------
(***************************************************************************)
(* Running the open file remotely: run/DatabricksDebugAdapter.ts with      *)
(* DatabricksRuntime.ts, sdk-extensions/ExecutionContext.ts and Command.ts *)
(* for a file that runs on the cluster, run/DatabricksWorkflowDebugAdapter *)
(* .ts with WorkflowRunner.ts and sdk-extensions/WorkflowRun.ts for one    *)
(* that runs as a workflow.                                                *)
(*                                                                         *)
(* One debug session. It waits for the connection, uploads the bundle,     *)
(* gets an execution context on the cluster, submits the program and polls *)
(* it. The user's stop cancels a token: listeners on it act at once, the   *)
(* session itself looks at it at a few places. VS Code sends the same      *)
(* request once the session has told it that it is terminated.             *)
(*                                                                         *)
(* Every call that is awaited may fail. What is shown is left out, as is   *)
(* who else uses the cluster.                                              *)
(***************************************************************************)

VARIABLES
    kind,       \* "file" or "workflow"
    connected,  \* the connection manager is CONNECTED
    pc,         \* where the session is
    state,      \* the runtime's state
    token,      \* the stop was requested
    listening,  \* a listener of cancellable() is on the token
    stopper,    \* the listener that destroys the context
    context,    \* the execution context on the cluster
    command,    \* the command, or the workflow's run
    terminated, \* VS Code was told that the session is over
    early,      \* history: stopped before the session had a context
    lost        \* history: a call that was to end something has failed

session == <<pc, state, listening, stopper>>
remote == <<context, command>>
history == <<early, lost>>
vars == <<kind, connected, session, token, remote, terminated, history>>

File == kind = "file"

Init ==
    /\ kind \in {"file", "workflow"}
    /\ connected \in BOOLEAN
    /\ pc = "launch" /\ state = "STOPPED"
    /\ token = FALSE /\ listening = FALSE /\ stopper = "none"
    /\ context = "none" /\ command = "none"
    /\ terminated = FALSE /\ early = FALSE /\ lost = FALSE

------------------------------------------------------------------------------
(* The start of a session. *)

\* From one await to the next.
Step(from, to) ==
    /\ pc = from /\ pc' = to
    /\ UNCHANGED <<kind, connected, token, stopper, history>>

Goto(from, to) == Step(from, to) /\ UNCHANGED <<state, listening, remote, terminated>>

\* An error, or the end of start(): VS Code is told, whatever the reason.
End(from) ==
    /\ Step(from, "ended")
    /\ terminated' = TRUE
    /\ UNCHANGED <<state, listening, remote>>

\* configurationDone in time, ...
Configured ==
    /\ Step("launch", IF connected THEN "mode" ELSE "connecting")
    /\ listening' = (File /\ ~connected)
    /\ UNCHANGED <<state, remote, terminated>>

\* ... or not: the launch request is rejected.
Unconfigured == Goto("launch", "rejected")

Connected == connected /\ Goto("connecting", "mode")

\* cancellable() gives up waiting; a workflow would go on.
ConnectingStopped ==
    /\ File /\ token
    /\ Step("connecting", "mode")
    /\ state' = "CANCELED" /\ terminated' = TRUE
    /\ UNCHANGED <<listening, remote>>

\* The target is for development and there is somewhere to upload to; a
\* workflow also looks for its compute now.
Upload ==
    /\ Step("mode", "syncing")
    /\ state' = IF File THEN "SYNCING" ELSE state
    /\ UNCHANGED <<listening, remote, terminated>>

Refused == End("mode")

\* The bundle is uploaded. A file needs a context on a cluster that runs, ...
Create ==
    /\ File
    /\ Step("syncing", "creating")
    /\ state' = "CREATE_CONTEXT" /\ listening' = TRUE
    /\ context' = "creating"
    /\ UNCHANGED <<command, terminated>>

\* ... a workflow goes on unless it was stopped.
Prepare == ~File /\ ~token /\ Goto("syncing", "submitting")

\* The upload fails, there is no cluster or it does not run, or a workflow
\* was stopped.
NotUploaded == End("syncing")

------------------------------------------------------------------------------
(* The execution context of a file. *)

\* Mutant of Created: only the end of start() destroys the context.
CreatedUnarmed ==
    /\ pc = "creating" /\ ~token
    /\ pc' = "compiling" /\ state' = "EXECUTING"
    /\ context' = "open"
    /\ UNCHANGED <<kind, connected, token, stopper, listening, command, terminated,
                   history>>

Created ==
    /\ pc = "creating" /\ ~token
    /\ pc' = "compiling" /\ state' = "EXECUTING"
    /\ context' = "open" /\ stopper' = "armed"
    /\ UNCHANGED <<kind, connected, token, listening, command, terminated, history>>

\* The request fails, or its answer does.
NotCreated ==
    /\ pc = "creating" /\ ~token /\ pc' = "ended"
    /\ context' \in {"none", "open"} /\ lost' = (context' = "open")
    /\ terminated' = TRUE
    /\ UNCHANGED <<kind, connected, token, state, listening, stopper, command, early>>

\* Mutant of CreatingStopped: the session goes on without a context.
CreatingGoesOn ==
    /\ token
    /\ Step("creating", "compiling")
    /\ state' = "EXECUTING" /\ context' = "open"
    /\ UNCHANGED <<listening, command, terminated>>

\* The race of cancellable() is lost by the context, which nobody has then.
CreatingStopped ==
    /\ token
    /\ Step("creating", "ended")
    /\ state' = "CANCELED" /\ terminated' = TRUE
    /\ UNCHANGED <<listening, remote>>

StrayOpens ==
    /\ context = "creating" /\ pc = "ended"
    /\ context' = "open"
    /\ UNCHANGED <<kind, connected, session, token, command, terminated, history>>

\* The context is gone, and what runs in it.
Destroy ==
    /\ context' = "destroyed"
    /\ command' = IF command = "none" THEN command ELSE "finished"

\* The listener's call of destroy() returns, ...
StopperDestroys ==
    /\ stopper = "destroying" /\ stopper' = "done"
    /\ Destroy
    /\ UNCHANGED <<kind, connected, pc, state, listening, token, terminated, history>>

\* ... or is rejected, which nobody sees.
StopperFails ==
    /\ stopper = "destroying" /\ stopper' = "done"
    /\ lost' = TRUE
    /\ UNCHANGED <<kind, connected, pc, state, listening, token, remote, terminated,
                   early>>

------------------------------------------------------------------------------
(* The program. *)

\* compileCommandString; a bad variable's name is an error, after which an
\* empty program is run.
Compile ==
    /\ Step("compiling", "submitting")
    /\ terminated' \in {terminated, TRUE}
    /\ UNCHANGED <<state, listening, remote>>

NotCompiled == End("compiling")

Reachable == File => context = "open"

Submit ==
    /\ Reachable
    /\ Step("submitting", "polling")
    /\ command' = "running"
    /\ UNCHANGED <<state, listening, context, terminated>>

\* The request fails, or its answer does.
NotSubmitted ==
    /\ pc = "submitting" /\ pc' = "ended"
    /\ command' \in IF Reachable THEN {"none", "running"} ELSE {"none"}
    /\ lost' = (lost \/ (~File /\ command' = "running"))
    /\ terminated' = TRUE
    /\ UNCHANGED <<kind, connected, token, state, listening, stopper, context, early>>

\* The status of a file's command is asked for, the token read after it.
Poll ==
    /\ File /\ Reachable
    /\ Goto("polling", IF command = "finished" THEN "output" ELSE "polled")

Polled == Goto("polled", IF token THEN "cancelling" ELSE "polling")

\* Mutant of Wait: the token is not read.
WaitOn == ~File /\ command = "finished" /\ Goto("polling", "output")

\* A workflow's token is read before its state is updated, and may be
\* cancelled in between.
Wait ==
    /\ ~File
    /\ \/ token /\ Goto("polling", "cancelling")
       \/ command = "finished" /\ Goto("polling", "output")

\* Asking for the status, the cancellation or its status fails.
NotFollowed ==
    /\ pc \in {"polling", "cancelling", "cancelled"} /\ pc' = "ended"
    /\ lost' = (lost \/ ~File)
    /\ terminated' = TRUE
    /\ UNCHANGED <<kind, connected, token, state, listening, stopper, remote, early>>

\* The cancellation is accepted. A file waits for its effect.
Cancelled ==
    /\ Reachable
    /\ Step("cancelling", IF File THEN "cancelled" ELSE "output")
    /\ command' = IF command = "running" THEN "stopping" ELSE command
    /\ UNCHANGED <<state, listening, context, terminated>>

CancelDone == command = "finished" /\ Goto("cancelled", "output")

\* The result is shown. A file's session then destroys its context.
Finish ==
    /\ File
    /\ Step("output", "destroying")
    /\ state' = "FINISHED"
    /\ UNCHANGED <<listening, remote, terminated>>

\* A workflow's session is over; a file's result may be malformed.
Shown == End("output")

Destroyed ==
    /\ Step("destroying", "ended")
    /\ Destroy
    /\ terminated' = TRUE
    /\ UNCHANGED <<state, listening>>

NotDestroyed == End("destroying")

------------------------------------------------------------------------------
(* The world. *)

Connect == /\ ~connected /\ connected' = TRUE
           /\ UNCHANGED <<kind, session, token, remote, terminated, history>>

\* disconnectRequest, and for a workflow also the end of its panel.
Disconnect ==
    /\ ~token /\ token' = TRUE
    /\ early' = (File /\ context \in {"none", "creating"})
    /\ state' = IF listening THEN "CANCELED" ELSE state
    /\ stopper' = IF stopper = "armed" THEN "destroying" ELSE stopper
    /\ terminated' = (terminated \/ (File /\ state # "FINISHED"))
    /\ UNCHANGED <<kind, connected, pc, listening, remote, lost>>

\* The program ends by itself, or as it was asked to.
Ends == /\ command \in {"running", "stopping"} /\ command' = "finished"
        /\ UNCHANGED <<kind, connected, session, token, context, terminated, history>>

Progress ==
    \/ Configured \/ Connected \/ ConnectingStopped \/ Upload \/ Create \/ Prepare
    \/ Created \/ CreatingStopped \/ Compile \/ Submit
    \/ Poll \/ Polled \/ Wait \/ Cancelled \/ CancelDone \/ Finish \/ Destroyed
    \/ (~File /\ Shown) \/ (~File /\ token /\ NotUploaded)

Failing == \/ Unconfigured \/ Refused \/ NotUploaded \/ NotCreated \/ NotCompiled
           \/ NotSubmitted \/ NotFollowed \/ (File /\ Shown) \/ NotDestroyed

Stopper == StopperDestroys \/ StopperFails

Next == Progress \/ Failing \/ Stopper \/ StrayOpens \/ Connect \/ Disconnect \/ Ends

\* Calls return, if only with an error once their context is destroyed, a
\* cancelled command ends, and VS Code disconnects from a session that is
\* terminated. Neither the connection, a program that was not cancelled nor
\* the user has to do anything, and no other call has to fail.
Fairness ==
    /\ WF_vars(Progress \/ (context = "destroyed" /\ Failing))
    /\ WF_vars(Stopper)
    /\ WF_vars(command = "stopping" /\ Ends)
    /\ WF_vars(terminated /\ Disconnect)

Spec == Init /\ [][Next]_vars /\ Fairness

------------------------------------------------------------------------------
(* Properties. *)

TypeOK ==
    /\ kind \in {"file", "workflow"}
    /\ pc \in {"launch", "rejected", "connecting", "mode", "syncing", "creating",
               "compiling", "submitting", "polling", "polled", "cancelling",
               "cancelled", "output", "destroying", "ended"}
    /\ state \in {"STOPPED", "SYNCING", "CREATE_CONTEXT", "EXECUTING", "CANCELED",
                  "FINISHED"}
    /\ {connected, token, listening, terminated, early, lost} \subseteq BOOLEAN
    /\ stopper \in {"none", "armed", "destroying", "done"}
    /\ context \in {"none", "creating", "open", "destroyed"}
    /\ command \in {"none", "running", "stopping", "finished"}

\* A session that the user stopped before it had a context never submits the
\* program, although each stage it still passes sets the state anew; what
\* runs of a file runs in a context the session can destroy; and whoever
\* leaves start() has told VS Code. (start and cancellable of DatabricksRuntime.)
RemoteRunInv ==
    /\ TypeOK
    /\ early => command = "none" /\ state # "EXECUTING"
    /\ File /\ command \in {"running", "stopping"} =>
         context = "open" /\ (stopper \in {"armed", "destroying"} \/ lost)
    /\ File /\ stopper = "none" /\ context = "open" => early \/ lost
    /\ pc = "ended" => terminated
    /\ state = "FINISHED" => command = "finished" \/ context = "destroyed"
    /\ stopper = "armed" => ~token
    /\ state = "CANCELED" => token

\* After the stop the session comes to its end and nothing of it runs any
\* more, unless a call to the workspace failed that was to see to it. Only a
\* workflow's session that waits for a connection goes on waiting.
\* (disconnect, the listeners of start, Command.response, WorkflowRun.wait.)
StopEndsTheRun ==
    token ~> [](/\ command \in {"none", "finished"} \/ lost
                /\ \/ pc \in {"ended", "rejected"}
                   \/ ~File /\ pc = "connecting")

\* Whatever goes wrong, once VS Code knows that the session is over its
\* context is destroyed, even when start() did not get there: VS Code's own
\* disconnect sees to it. Only one that was still asked for when the user
\* stopped is left behind. (start of DatabricksRuntime, disconnectRequest.)
ContextIsDestroyed ==
    terminated ~> (context \in {"none", "destroyed"} \/ early \/ lost)
============================================================================
