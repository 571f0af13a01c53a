------------------------------ MODULE CodeSync ------------------------------
(***************************************************************************)
(* One `databricks bundle sync` task: CodeSynchronizer, the terminal       *)
(* CustomSyncTerminal of cli/SyncTasks.ts, DatabricksCliSyncParser, and    *)
(* the child process they watch.  The handlers of the process's events     *)
(* are suspended in the reader-writer lock of the terminal: a data event   *)
(* is a reader, the close event the writer.  VS Code's task system and the *)
(* CLI process are external.                                               *)
(***************************************************************************)
EXTENDS RWLock

CONSTANT CloseEvent     \* the process's one close event

ASSUME CloseEventAssumption == Writers = {CloseEvent}

DisabledStates == {"FILES_IN_REPOS_DISABLED", "FILES_IN_WORKSPACE_DISABLED"}
SyncState == {"IN_PROGRESS", "WATCHING_FOR_CHANGES", "STOPPED", "ERROR"} \cup DisabledStates

\* What the lines of a data chunk amount to: the last start or complete event
\* before the first line that matches an error, and that error.
ParserEvents == {"none", "IN_PROGRESS", "WATCHING_FOR_CHANGES"}
LineErrors == {"none", "ERROR"} \cup DisabledStates
Chunk == [stream : {"stdout"}, event : ParserEvents, error : LineErrors]
         \cup [stream : {"stderr"}, event : {"none"}, error : LineErrors]

VARIABLES
  _state,                \* CodeSynchronizer._state
  _reason,               \* whether CodeSynchronizer._reason is set
  currentTaskExecution,  \* whether CodeSynchronizer knows the running task
  task,                  \* VS Code's view of the task
  terminating,           \* VS Code was asked to end the terminal
  terminalExits,         \* closeEmitter has fired
  terminal,              \* the pseudoterminal: "none", "opened", "closed"
  state,                 \* CustomSyncTerminal.state
  parserState,           \* DatabricksCliSyncParser.state
  proc,                  \* the child process: "none", "running", "exited"
  killed,                \* syncProcess.kill() was called
  code,                  \* exit code passed to the close event
  received,              \* the data events that have occurred
  lastError              \* history: the error in the chunk processed last

syncVars == <<terminalExits, _state, _reason, currentTaskExecution, task, terminating, terminal,
              state, parserState, proc, killed, code, received, lastError>>
vars == <<rwVars, syncVars>>

TypeOK ==
  /\ _state \in SyncState /\ state \in SyncState
  /\ parserState \in {"STOPPED", "IN_PROGRESS", "WATCHING_FOR_CHANGES"}
  /\ {_reason, currentTaskExecution, terminating, terminalExits, killed} \subseteq BOOLEAN
  /\ task \in {"none", "requested", "started", "ended"}
  /\ terminal \in {"none", "opened", "closed"}
  /\ proc \in {"none", "running", "exited"}
  /\ code \in {"none", "zero", "nonzero"}
  /\ received \subseteq Readers
  /\ lastError \in LineErrors

Init ==
  /\ RWInit
  /\ _state = "STOPPED" /\ state = "STOPPED" /\ parserState = "STOPPED"
  /\ _reason = FALSE /\ currentTaskExecution = FALSE /\ terminating = FALSE /\ terminalExits = FALSE
  /\ task = "none" /\ terminal = "none"
  /\ proc = "none" /\ killed = FALSE /\ code = "none"
  /\ received = {}
  /\ lastError = "none"

\* Mutant: the terminal does not remember that files are disabled.
IgnoredAnyDisabled(s, reason) ==
  \/ state = "STOPPED" /\ s = "ERROR" /\ ~reason
  \/ state = s

\* Mutant: an error without a reason is never reported.
IgnoredErrors(s, reason) ==
  \/ state \in DisabledStates /\ s \in {"ERROR", "STOPPED"}
  \/ s = "ERROR" /\ ~reason
  \/ state = s

\* The transitions the terminal drops, with or without a reason.
Ignored(s, reason) ==
  \/ state \in DisabledStates /\ s \in {"ERROR", "STOPPED"}
  \/ state = "STOPPED" /\ s = "ERROR" /\ ~reason
  \/ state = s

\* CodeSynchronizer.stop(): the known task, if any, is terminated.
Stop == terminating' = (terminating \/ currentTaskExecution)

\* Mutant: a reason is recorded and never cleared.
syncStateCallbackKeepsReason(s, reason) ==
  IF Ignored(s, reason)
    THEN UNCHANGED <<state, _state, _reason, terminating>>
    ELSE /\ state' = s
         /\ _state' = s
         /\ _reason' = (_reason \/ reason)
         /\ IF s \in {"ERROR"} \cup DisabledStates THEN Stop ELSE UNCHANGED terminating

\* The terminal's filter, then the callback of CodeSynchronizer.start, which
\* stops the task on an error.
syncStateCallback(s, reason) ==
  IF Ignored(s, reason)
    THEN UNCHANGED <<state, _state, _reason, terminating>>
    ELSE /\ state' = s
         /\ _state' = s
         /\ _reason' = reason
         /\ IF s \in {"ERROR"} \cup DisabledStates THEN Stop ELSE UNCHANGED terminating

-----------------------------------------------------------------------------
\* CodeSynchronizer.start: the task is handed to VS Code.
start ==
  /\ task = "none"
  /\ _state' = "IN_PROGRESS"
  /\ task' = "requested"
  /\ UNCHANGED <<terminalExits, rwVars, _reason, currentTaskExecution, terminating, terminal, state,
                 parserState, proc, killed, code, received, lastError>>

\* tasks.onDidStartTask: may come before or after open().
onDidStartTask ==
  /\ task = "requested"
  /\ task' = "started"
  /\ currentTaskExecution' = TRUE
  /\ UNCHANGED <<terminalExits, rwVars, _state, _reason, terminating, terminal, state, parserState,
                 proc, killed, code, received, lastError>>

\* tasks.onDidEndTask, once the terminal has closed or closes itself.
onDidEndTask ==
  /\ task = "started" /\ (terminal = "closed" \/ terminalExits)
  /\ task' = "ended"
  /\ currentTaskExecution' = FALSE
  /\ UNCHANGED <<terminalExits, rwVars, _state, _reason, terminating, terminal, state, parserState,
                 proc, killed, code, received, lastError>>

\* CodeSynchronizer.stop() by command, on a change of the connection or of the
\* sync destination, or on dispose.
stop ==
  /\ ~terminating
  /\ Stop
  /\ UNCHANGED <<terminalExits, rwVars, _state, _reason, currentTaskExecution, task, terminal, state,
                 parserState, proc, killed, code, received, lastError>>

\* CustomSyncTerminal.open: the process is spawned, or the options of the lazy
\* terminal throw, which disposes all sync terminals.
open ==
  /\ task \in {"requested", "started"} /\ terminal = "none"
  /\ terminal' = "opened"
  /\ state' = "IN_PROGRESS" /\ _state' = "IN_PROGRESS" /\ _reason' = FALSE
  /\ \/ proc' = "running" /\ UNCHANGED terminating
     \/ terminating' = TRUE /\ UNCHANGED proc
  /\ UNCHANGED <<terminalExits, rwVars, currentTaskExecution, task, parserState, killed, code, received, lastError>>

\* Mutant: the process is left running when its terminal closes.
closeLeavesProcess ==
  /\ terminal = "opened"
  /\ terminal' = "closed"
  /\ syncStateCallback("STOPPED", FALSE)
  /\ UNCHANGED <<terminalExits, rwVars, currentTaskExecution, task, parserState, proc, killed,
                 code, received, lastError>>

\* CustomSyncTerminal.close, called by VS Code when the task is terminated or
\* the user closes the terminal.
close ==
  /\ terminal = "opened"
  /\ terminal' = "closed"
  /\ killed' = (proc = "running")
  /\ syncStateCallback("STOPPED", FALSE)
  /\ UNCHANGED <<terminalExits, rwVars, currentTaskExecution, task, parserState, proc, code, received, lastError>>

\* A data event: the process writes until it has exited, also after kill().
dataEvent(c) ==
  /\ proc = "running" /\ c \notin received
  /\ readerEntry(c)
  /\ received' = received \cup {c}
  /\ UNCHANGED <<terminalExits, _state, _reason, currentTaskExecution, task, terminating, terminal,
                 state, parserState, proc, killed, code, lastError>>

\* The rest of the handler after readerEntry: processStdout or processStderr on
\* the text of the chunk, and the call of readerExit.
processData(c) ==
  /\ readerExit(c)
  /\ \E ch \in Chunk :
       /\ parserState' = IF ch.event = "none" THEN parserState ELSE ch.event
       /\ lastError' = ch.error
       /\ CASE ch.error # "none" -> syncStateCallback(ch.error, ch.error = "ERROR")
            [] ch.error = "none" /\ ch.stream = "stdout" -> syncStateCallback(parserState', FALSE)
            [] OTHER -> UNCHANGED <<state, _state, _reason, terminating>>
  /\ UNCHANGED <<terminalExits, currentTaskExecution, task, terminal, proc, killed, code, received>>

\* The process exits and Node, having delivered all data events, emits close.
closeEvent ==
  /\ proc = "running"
  /\ proc' = "exited"
  /\ code' \in (IF killed THEN {"nonzero"} ELSE {"zero", "nonzero"})
  /\ writerEntry(CloseEvent)
  /\ UNCHANGED <<terminalExits, _state, _reason, currentTaskExecution, task, terminating, terminal,
                 state, parserState, killed, received, lastError>>

\* The rest of the close handler; firing closeEmitter ends the terminal (VS Code may or may not call close()).
processClose ==
  /\ writerExit(CloseEvent)
  /\ IF code = "nonzero"
       THEN syncStateCallback("ERROR", FALSE) /\ terminalExits' = TRUE
       ELSE UNCHANGED <<state, _state, _reason, terminating, terminalExits>>
  /\ UNCHANGED <<currentTaskExecution, task, terminal, parserState, proc, killed, code, received, lastError>>

\* The continuations inside the lock.
lockStep ==
  /\ \/ \E c \in Readers : ReaderStep(c)
     \/ WriterStep(CloseEvent)
  /\ UNCHANGED syncVars

SyncNext ==
  \/ start \/ stop \/ onDidStartTask \/ onDidEndTask \/ open \/ close
  \/ \E c \in Readers : dataEvent(c) \/ processData(c)
  \/ closeEvent \/ processClose \/ lockStep

SyncSpec == Init /\ [][SyncNext]_vars

\* Promises that are settled are resumed; a killed process exits and Node
\* reports it; VS Code closes a terminal it was asked to end.  Nothing obliges
\* the user or a healthy process to act.
SyncFairSpec ==
  /\ SyncSpec
  /\ WF_vars(lockStep) /\ WF_vars(processClose) /\ WF_vars(closeEvent /\ killed)
  /\ WF_vars(close /\ terminating)
  /\ \A c \in Readers : WF_vars(processData(c))

-----------------------------------------------------------------------------
\* The close handler runs after the handlers of all data events, as the comment
\* over the lock in startSyncProcess promises, so an exit code never hides an
\* error the process has printed.
DataBeforeClose == pc[CloseEvent] = "writing" => \A c \in Readers : pc[c] = "idle"

\* Once the last thing the process said is that files in repos or in the
\* workspace are disabled, the terminal and the synchronizer report that, and
\* neither close() nor the exit code turns it into STOPPED or ERROR.
KnownFailureIsKept ==
  lastError \in DisabledStates => state = lastError /\ _state = state

\* The synchronizer reports the state of its terminal from open() on, the process
\* only exists under an opened terminal, and a reason goes with ERROR only.
SyncInv ==
  /\ TypeOK
  /\ terminal # "none" => _state = state
  /\ proc # "none" => terminal # "none"
  /\ _reason => _state = "ERROR"
  /\ pc[CloseEvent] # "idle" => proc = "exited"
  /\ \A c \in Readers : pc[c] # "idle" => c \in received

isRunning == _state \in {"IN_PROGRESS", "WATCHING_FOR_CHANGES"}

\* When the process fails, the view stops showing a running sync, and for good.
FailedExitIsReported == code = "nonzero" ~> [](~isRunning)

\* Terminating a task that the synchronizer knows of ends its process, even when
\* the request comes before the terminal is opened or while data is handled.
StopEndsProcess == terminating ~> [](proc # "running")

\* A task whose terminal was stopped is not reported as failed because of the
\* exit code of the killed process (the comment on the terminal's filter).
StoppedNeverError ==
  [][killed /\ _state' = "ERROR" /\ ~_reason' => _state = "ERROR"]_vars

=============================================================================
