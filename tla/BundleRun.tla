----------------------------- MODULE BundleRun -----------------------------
(***************************************************************************)
(* Running one resource of a bundle: bundle/run/BundleRunStatusManager.ts, *)
(* BundleRunTerminalManager.ts, CustomOutputTerminal.ts and the statuses   *)
(* JobRunStatus.ts and PipelineRunStatus.ts.                               *)
(*                                                                         *)
(* A run spawns the CLI in a terminal that is kept for the next run of the *)
(* resource on the same target. The status object of the run reads the id  *)
(* of the remote run out of what the terminal shows, follows the remote    *)
(* run by polling and is asked to cancel it when the CLI was killed. So a  *)
(* run has four actors: the call of run(), the CLI process, the poller and *)
(* the remote run; they meet in runState, in the terminal and in the       *)
(* cancellation token that is kept under the terminal's name.              *)
(*                                                                         *)
(* A call is written as its stretches between two awaits. Progress data,   *)
(* events and what the terminal shows besides the id are left out.         *)
(***************************************************************************)
EXTENDS Naturals, FiniteSets

CONSTANTS
    N,         \* calls of deployAndRun for the resource
    Targets,   \* bundle targets; with the resource they name a terminal
    MaxActs    \* bound: what the user does besides running the resource

ASSUME ConstantsAssumption == N \in Nat /\ MaxActs \in Nat /\ Targets # {}

\* The calls, in the order they are made.
Runs == 1 .. N
Nothing == 0

VARIABLES
    kind,       \* the resource's type
    target,     \* the selected target
    shown,      \* runStatuses.get(resource): the run the tree shows
    pc,         \* where each call of run() is
    name,       \* the target whose terminal the call took
    terminals,  \* terminalDetails: a target's terminal, named by its creator
    shut,       \* terminals the user closed: not in window.terminals
    isClosed,   \* terminals whose pty.isClosed is set
    process,    \* pty._process of each terminal
    pty,        \* the terminal a call holds
    proc,       \* the CLI process of each call
    token,      \* cancellationTokenSources: the call whose token is kept
    runState, runId, poll,   \* the status object of each call
    stop,       \* where cancel() of a status is, once it asks the workspace
    remote,     \* the remote run that the call's CLI asked for
    acts,       \* what the user did besides
    asked,      \* history: calls the user asked to stop
    entangled   \* history: calls that met another one on their terminal

status == <<shown, runState, runId, poll>>
term == <<terminals, shut, isClosed, process, pty, token, name>>
history == <<acts, asked, entangled>>
vars == <<kind, target, pc, status, stop, term, proc, remote, history>>

RunStates == {"unknown", "running", "completed", "error", "timeout",
              "cancelling", "cancelled"}
Final == {"completed", "error", "timeout", "cancelled"}
Alive == {"running", "killed", "failed"}
Going == {"quiet", "active", "stopping"}

Init ==
    /\ kind \in {"jobs", "pipelines"}
    /\ target = CHOOSE t \in Targets : TRUE
    /\ shown = Nothing
    /\ pc = [r \in Runs |-> "idle"]
    /\ name \in [Runs -> {target}]
    /\ terminals = [t \in Targets |-> Nothing]
    /\ shut = {} /\ isClosed = {}
    /\ process = [p \in Runs |-> Nothing]
    /\ pty = [r \in Runs |-> Nothing]
    /\ proc = [r \in Runs |-> "none"]
    /\ token = [t \in Targets |-> Nothing]
    /\ runState = [r \in Runs |-> "none"]
    /\ runId = [r \in Runs |-> Nothing]
    /\ poll = [r \in Runs |-> "off"]
    /\ stop = [r \in Runs |-> "ask"]
    /\ remote = [r \in Runs |-> "none"]
    /\ acts = 0 /\ asked = {} /\ entangled = {}

------------------------------------------------------------------------------
(* The terminal and its process. *)

\* close(): marks the terminal and kills the process it knows of. proc and
\* known are the processes after what the step did to them before.
CloseTerminal(p, proc0, known) ==
    /\ isClosed' = isClosed \cup {p}
    /\ proc' = [q \in Runs |-> IF known[p] = q /\ proc0[q] = "running"
                               THEN "killed" ELSE proc0[q]]

\* Mutant of CancelToken: the token is cancelled but stays in the map.
CancelTokenKeeps(t, proc0, known) ==
    /\ UNCHANGED token
    /\ IF token[t] = Nothing
       THEN proc' = proc0 /\ UNCHANGED isClosed
       ELSE CloseTerminal(pty[token[t]], proc0, known)

\* The token kept under the name of t is cancelled, which closes the terminal
\* of the call it belongs to, and removed.
CancelToken(t, proc0, known) ==
    /\ token' = [token EXCEPT ![t] = Nothing]
    /\ IF token[t] = Nothing
       THEN proc' = proc0 /\ UNCHANGED isClosed
       ELSE CloseTerminal(pty[token[t]], proc0, known)

\* cancel() of a status asks the workspace only for a run it follows.
Follows(r) == runId[r] # Nothing /\ runState[r] = "running"

\* The end of run() in BundleRunStatusManager for the calls in W: nothing to
\* do, or cancel(), after which a failed call still shows the error.
Leave(W, outcome) ==
    /\ runState' = [r \in Runs |->
         IF r \notin W \/ outcome = "ok" THEN runState[r]
         ELSE IF Follows(r) THEN "cancelling"
         ELSE IF outcome = "cancelled" THEN "cancelled" ELSE "error"]
    /\ pc' = [r \in Runs |->
         IF r \notin W THEN pc[r]
         ELSE IF outcome = "ok" \/ ~Follows(r) THEN "done"
         ELSE IF outcome = "cancelled" THEN "cancelling" ELSE "failing"]

Waiting(p) == {r \in Runs : pc[r] = "waiting" /\ pty[r] = p}

Holding(p) == {r \in Runs : pc[r] \in {"command", "waiting"} /\ pty[r] = p}

\* Calls that a new one on the terminal of t meets.
Busy(t) == {r \in Runs : /\ name[r] = t
                         /\ pc[r] \in {"command", "waiting"} \/ proc[r] \in Alive}

\* The handler of the process' close event: everyone who waits on the
\* terminal goes on, whoever's process it was.
OnClose(r, code) ==
    LET p == pty[r]
        known == [process EXCEPT ![p] = Nothing]
        outcome == IF p \in isClosed THEN "cancelled"
                   ELSE IF code = 0 THEN "ok" ELSE "failed"
        gone == [proc EXCEPT ![r] = "gone"]
    IN  /\ process' = known
        /\ Leave(Waiting(p), outcome)
        /\ IF Waiting(p) = {}
           THEN proc' = gone /\ UNCHANGED <<token, isClosed>>
           ELSE CancelToken(name[r], gone, known)
        /\ UNCHANGED <<kind, stop, target, shown, runId, poll, terminals, shut, pty,
                       name, remote, history>>

\* The CLI succeeds when the remote run has ended, dies of the signal, or
\* fails; the close event of a failure is held back for two seconds.
Exit(r) ==
    \/ /\ proc[r] = "running" /\ remote[r] = "ended"
       /\ OnClose(r, 0)
    \/ proc[r] = "killed" /\ OnClose(r, 1)
    \/ proc[r] = "failed" /\ OnClose(r, 1)

Fail(r) ==
    /\ proc[r] \in {"running", "killed"}
    /\ proc' = [proc EXCEPT ![r] = "failed"]
    /\ UNCHANGED <<kind, stop, target, pc, status, term, remote, history>>

------------------------------------------------------------------------------
(* The calls. *)

\* deployAndRunFromInput, and the tree's command that is offered on the same
\* condition: the run shown last is not in progress. Then the bundle deploys.
Request(r) ==
    /\ pc[r] = "idle"
    /\ \A q \in 1 .. (r - 1) : pc[q] # "idle"
    /\ shown # Nothing => runState[shown] \notin {"unknown", "running"}
    /\ pc' = [pc EXCEPT ![r] = "deploying"]
    /\ UNCHANGED <<kind, stop, target, status, term, proc, remote, history>>

\* The deployment fails, or the target, the credentials or the resource is
\* missing: nothing is shown for the call.
NotDeployed(r) ==
    /\ pc[r] = "deploying"
    /\ pc' = [pc EXCEPT ![r] = "done"]
    /\ UNCHANGED <<kind, stop, target, status, term, proc, remote, history>>

\* run(): a new status, and the terminal of the target, made anew when the
\* user has closed it. A process in it refuses the call, whose finally then
\* cancels the token that is kept under the name; its own token takes the
\* place of the one before otherwise.
Run(r) ==
    LET t == target
        p == IF terminals[t] \in {Nothing} \cup shut THEN r ELSE terminals[t]
    IN  /\ pc[r] = "deploying"
        /\ shown' = r
        /\ name' = [name EXCEPT ![r] = t]
        /\ terminals' = [terminals EXCEPT ![t] = p]
        /\ entangled' = entangled \cup
             (IF Busy(t) = {} THEN {} ELSE Busy(t) \cup {r})
        /\ pty' = [pty EXCEPT ![r] = p]
        /\ IF process[p] # Nothing
           THEN /\ CancelToken(t, proc, process)
                /\ runState' = [runState EXCEPT ![r] = "error"]
                /\ pc' = [pc EXCEPT ![r] = "done"]
           ELSE /\ token' = [token EXCEPT ![t] = r]
                /\ runState' = [runState EXCEPT ![r] = "unknown"]
                /\ pc' = [pc EXCEPT ![r] = "command"]
                /\ UNCHANGED <<isClosed, proc>>
        /\ UNCHANGED <<kind, stop, target, runId, poll, shut, process, remote,
                       acts, asked>>

\* Mutant of Spawn: the terminal stays closed from the run before.
SpawnClosed(r) ==
    /\ pc[r] = "command"
    /\ process' = [process EXCEPT ![pty[r]] = r]
    /\ proc' = [proc EXCEPT ![r] = "running"]
    /\ pc' = [pc EXCEPT ![r] = "waiting"]
    /\ UNCHANGED <<kind, stop, target, status, terminals, shut, isClosed, pty,
                   token, name, remote, history>>

\* getRunCommand answers: the process is spawned, and the terminal forgets
\* that it was closed.
Spawn(r) ==
    /\ pc[r] = "command"
    /\ isClosed' = isClosed \ {pty[r]}
    /\ process' = [process EXCEPT ![pty[r]] = r]
    /\ proc' = [proc EXCEPT ![r] = "running"]
    /\ pc' = [pc EXCEPT ![r] = "waiting"]
    /\ UNCHANGED <<kind, stop, target, status, terminals, shut, pty, token, name,
                   remote, history>>

\* getRunCommand throws: no login, no target, no CLI.
NoCommand(r) ==
    /\ pc[r] = "command"
    /\ CancelToken(name[r], proc, process)
    /\ Leave({r}, "failed")
    /\ UNCHANGED <<kind, stop, target, shown, runId, poll, terminals, shut, process,
                   pty, name, remote, history>>

Acts == acts < MaxActs /\ acts' = acts + 1

\* The user cancels the run of the selected target, ...
Cancel ==
    /\ Acts
    /\ token[target] # Nothing
    /\ CancelToken(target, proc, process)
    /\ asked' = asked \cup Holding(pty[token[target]])
    /\ UNCHANGED <<kind, stop, target, pc, status, terminals, shut, process, pty,
                   name, remote, entangled>>

\* ... or closes the terminal.
UserCloses(p) ==
    /\ Acts
    /\ \E t \in Targets : terminals[t] = p
    /\ p \in Runs \ shut
    /\ shut' = shut \cup {p}
    /\ CloseTerminal(p, proc, process)
    /\ asked' = asked \cup Holding(p)
    /\ UNCHANGED <<kind, stop, target, pc, status, terminals, process, pty, token,
                   name, remote, entangled>>

ChangeTarget ==
    /\ Acts
    /\ \E t \in Targets \ {target} : target' = t
    /\ shown' = Nothing
    /\ UNCHANGED <<kind, stop, pc, runState, runId, poll, term, proc, remote,
                   asked, entangled>>

------------------------------------------------------------------------------
(* The remote run. A pipeline has one update at a time. *)

RemoteStarts(r) ==
    /\ proc[r] = "running" /\ remote[r] = "none"
    /\ kind = "pipelines" => \A q \in Runs : remote[q] \notin Going
    /\ remote' = [remote EXCEPT ![r] = "quiet"]
    /\ UNCHANGED <<kind, stop, target, pc, status, term, proc, history>>

RemoteEnds(r) ==
    /\ remote[r] \in Going
    /\ remote' = [remote EXCEPT ![r] = "ended"]
    /\ UNCHANGED <<kind, stop, target, pc, status, term, proc, history>>

\* The CLI prints the URL; parseId of every call that listens to the terminal
\* takes the id, unless it has one or has given up.
ParseId(r) ==
    LET Takes == {q \in Waiting(pty[r]) :
                    runId[q] = Nothing /\ runState[q] = "unknown"}
    IN  /\ proc[r] = "running" /\ remote[r] = "quiet"
        /\ remote' = [remote EXCEPT ![r] = "active"]
        /\ runId' = [q \in Runs |-> IF q \in Takes THEN r ELSE runId[q]]
        /\ poll' = [q \in Runs |-> IF q \notin Takes THEN poll[q]
                       ELSE IF kind = "jobs" THEN "client" ELSE "wait"]
        /\ runState' = [q \in Runs |-> IF q \in Takes /\ kind = "pipelines"
                                       THEN "running" ELSE runState[q]]
        /\ UNCHANGED <<kind, stop, target, shown, pc, term, proc, history>>

------------------------------------------------------------------------------
(* The status object: its timer, its poller and cancel(). *)

SetState(r, s, p) ==
    /\ runState' = [runState EXCEPT ![r] = s]
    /\ poll' = [poll EXCEPT ![r] = p]
    /\ UNCHANGED <<kind, stop, target, shown, pc, runId, term, proc, remote, history>>

\* Sixty seconds without an id.
Timeout(r) == runState[r] = "unknown" /\ SetState(r, "timeout", poll[r])

\* A job's poller has to wait for the client, and goes on whatever the state
\* has become; without a client it never begins.
Client(r) == poll[r] = "client" /\ SetState(r, "running", "wait")
NoClient(r) == poll[r] = "client" /\ SetState(r, runState[r], "off")

\* A pipeline's poller looks at the state before each request.
PollAsks(r) ==
    /\ poll[r] = "wait" /\ kind = "pipelines"
    /\ SetState(r, runState[r],
                IF runState[r] = "running" THEN "asked" ELSE "off")

Asked == IF kind = "jobs" THEN "wait" ELSE "asked"

PollAnswered(r) ==
    /\ poll[r] = Asked
    /\ IF remote[runId[r]] = "ended" THEN SetState(r, "completed", "off")
                                     ELSE SetState(r, runState[r], "wait")

\* Mutant of PollFails: the error leaves the poller and nobody sets the state.
PollFailsSilently(r) == poll[r] = Asked /\ SetState(r, runState[r], "off")

\* A job's poller gives up at the first error, a pipeline's after 48 hours.
PollFails(r) == poll[r] = Asked /\ SetState(r, "error", "off")

Stopping(r) == pc[r] \in {"cancelling", "failing"}

CancelStep(r, from, to, stopped) ==
    /\ Stopping(r) /\ stop[r] = from
    /\ stop' = [stop EXCEPT ![r] = to]
    /\ remote' = [q \in Runs |-> IF q \in stopped \cap {p \in Runs : remote[p] \in Going}
                                 THEN "stopping" ELSE remote[q]]
    /\ UNCHANGED <<kind, target, pc, status, term, proc, history>>

\* cancelRun for a job; for a pipeline first a look whether the update is
\* still running, ...
CancelAsks(r) ==
    IF kind = "jobs" THEN CancelStep(r, "ask", "wait", {runId[r]})
    ELSE CancelStep(r, "ask",
            IF remote[runId[r]] \in Going THEN "stop" ELSE "fetch", {})

\* ... since what stops is the pipeline, with whatever update it has by now.
CancelStops(r) == CancelStep(r, "stop", "wait", Runs)

\* Mutant of Stopped: the answer to cancelRun or stop is not waited for.
StoppedAtOnce(r) == stop[r] \in {"fetch", "wait"}

Stopped(r) ==
    CASE stop[r] = "fetch" -> TRUE
      [] stop[r] = "wait" /\ kind = "jobs" -> remote[runId[r]] = "ended"
      [] stop[r] = "wait" -> \A q \in Runs : remote[q] \notin Going
      [] OTHER -> FALSE

\* cancel() returns to run(), which in its catch shows the error ...
Left(r, s) ==
    /\ Stopping(r)
    /\ runState' = [runState EXCEPT ![r] = s]
    /\ pc' = [pc EXCEPT ![r] = "done"]
    /\ stop' = [stop EXCEPT ![r] = "ask"]
    /\ UNCHANGED <<kind, target, shown, runId, poll, term, proc, remote, history>>

CancelReturns(r) ==
    Stopped(r) /\ Left(r, IF pc[r] = "failing" THEN "error" ELSE "cancelled")

\* ... and which calls it once more from there when it throws: to no effect,
\* as the state is no longer running.
CancelThrows(r) == Left(r, "error")

------------------------------------------------------------------------------

Process(r) == Exit(r) \/ Fail(r)
Call(r) == \/ Request(r) \/ NotDeployed(r) \/ Run(r) \/ Spawn(r) \/ NoCommand(r)
User == Cancel \/ (\E p \in Runs : UserCloses(p)) \/ ChangeTarget
Remote(r) == RemoteStarts(r) \/ RemoteEnds(r) \/ ParseId(r)
Poller(r) == \/ Client(r) \/ NoClient(r)
             \/ PollAsks(r) \/ PollAnswered(r) \/ PollFails(r)
Canceller(r) == \/ CancelAsks(r) \/ CancelStops(r)
                \/ CancelReturns(r) \/ CancelThrows(r)

Next ==
    \/ User
    \/ \E r \in Runs : \/ Call(r) \/ Process(r) \/ Remote(r)
                       \/ Timeout(r) \/ Poller(r) \/ Canceller(r)

Spec == Init /\ [][Next]_vars

------------------------------------------------------------------------------
(* Properties. *)

TypeOK ==
    /\ kind \in {"jobs", "pipelines"} /\ target \in Targets
    /\ shown \in Runs \cup {Nothing}
    /\ pc \in [Runs -> {"idle", "deploying", "command", "waiting",
                        "cancelling", "failing", "done"}]
    /\ name \in [Runs -> Targets]
    /\ terminals \in [Targets -> Runs \cup {Nothing}]
    /\ process \in [Runs -> Runs \cup {Nothing}]
    /\ pty \in [Runs -> Runs \cup {Nothing}]
    /\ proc \in [Runs -> {"none", "gone"} \cup Alive]
    /\ token \in [Targets -> Runs \cup {Nothing}]
    /\ runState \in [Runs -> RunStates \cup {"none"}]
    /\ runId \in [Runs -> Runs \cup {Nothing}]
    /\ poll \in [Runs -> {"off", "client", "wait", "asked"}]
    /\ acts \in 0 .. MaxActs
    /\ stop \in [Runs -> {"ask", "stop", "wait", "fetch"}]
    /\ remote \in [Runs -> {"none", "ended"} \cup Going]
    /\ {shut, isClosed, asked, entangled} \subseteq SUBSET Runs

\* A call that waits has a process of its own whose close event will release
\* it; the process a terminal knows of is alive and was spawned in it; a kept
\* token belongs to a call of its target that has not returned, so that
\* cancelling it never hits a run that is over.
BundleRunInv ==
    /\ TypeOK
    /\ \A r \in Runs :
         /\ pc[r] = "waiting" => proc[r] \in Alive
         /\ pc[r] \in {"command", "waiting"} => pty[r] \in Runs
         /\ proc[r] \in Alive => pty[r] \in Runs
         /\ poll[r] # "off" => runId[r] # Nothing
         /\ runId[r] # Nothing => remote[runId[r]] # "none"
         /\ Stopping(r) => runId[r] # Nothing
         /\ process[r] # Nothing =>
                pty[process[r]] = r /\ proc[process[r]] \in Alive
    /\ \A t \in Targets : token[t] # Nothing =>
         name[token[t]] = t /\ pc[token[t]] \in {"command", "waiting"}

\* A run that never met another run of the resource in its terminal is only
\* stopped when the user asks for it, shows "cancelled" for no other reason
\* and follows the remote run its own CLI started. (run, cancel and the
\* finally of BundleRunTerminalManager, isClosed of CustomOutputTerminal.)
RunsAreIndependent ==
    \A r \in Runs \ entangled :
        /\ \/ proc[r] = "killed" \/ pc[r] = "cancelling"
           \/ runState[r] = "cancelled"
           => r \in asked
        /\ runId[r] \in {r, Nothing}

\* When the workspace was asked to cancel the remote run a status follows,
\* the status turns "cancelled" only after that remote run has ended, and it
\* never shows "completed" for one that has not, whatever else was stopped or
\* started on the pipeline meanwhile.
CancelReachesRemote ==
    [][\A r \in Runs :
         \/ pc[r] = "cancelling" /\ runState'[r] = "cancelled"
         \/ runState[r] # "completed" /\ runState'[r] = "completed"
         => remote'[runId[r]] = "ended"]_vars

\* The call is over, and its status does not keep the resource from being run.
Settled(r) == /\ pc[r] \in {"idle", "done"}
              /\ runState[r] \in Final \cup {"none"}

\* Who can go on without the user and without a failure.
CanGo(r) ==
    \/ pc[r] \in {"deploying", "command"}
    \/ proc[r] \in {"killed", "failed"}
    \/ proc[r] = "running" /\ remote[r] = "ended"
    \/ proc[r] = "running" /\ remote[r] = "none" /\ \A q \in Runs : remote[q] \notin Going
    \/ remote[r] \in Going
    \/ runState[r] = "unknown"
    \/ poll[r] # "off"
    \/ Stopping(r) /\ (stop[r] \in {"ask", "stop"} \/ Stopped(r))

\* Nobody hangs: as long as a call of run() has not returned or a status is
\* still in progress, and so keeps the resource from being run again, some
\* call, process, timer, poller or remote run can go on, whatever was cancelled
\* or has failed. (BundleRunStatus.ts, its two subclasses and the managers.)
NobodyHangs == (\A r \in Runs : Settled(r)) \/ (\E r \in Runs : CanGo(r))
============================================================================
