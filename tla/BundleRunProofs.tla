-------------------------- MODULE BundleRunProofs --------------------------
(***************************************************************************)
(* Runs of a bundle resource, for any number of calls, targets and         *)
(* interventions of the user. A terminal is named by the call that made    *)
(* it, so two calls on one terminal are of one target; that and the calls' *)
(* order make BundleRunInv inductive. That nobody hangs needs, besides,    *)
(* that each status in progress has a poller or a cancel() that ends it.   *)
(***************************************************************************)
EXTENDS BundleRun, TLAPS

\* A terminal belongs to the target of the call that made it.
Terminals ==
    /\ \A r \in Runs : pty[r] # Nothing =>
         pty[pty[r]] = pty[r] /\ name[pty[r]] = name[r]
    /\ \A t \in Targets : terminals[t] # Nothing =>
         pty[terminals[t]] = terminals[t] /\ name[terminals[t]] = t

\* A call has nothing before run() takes a terminal.
Fresh == \A r \in Runs : pc[r] \in {"idle", "deploying"} =>
                            pty[r] = Nothing /\ proc[r] = "none"

RunInv == BundleRunInv /\ Terminals /\ Fresh

InTerminal(r) == pc[r] \in {"command", "waiting"} \/ proc[r] \in Alive

\* Calls that were in a terminal of one target at one time have met, and one
\* that has met nobody is there as long as its process is.
Met ==
    /\ \A q, r \in Runs :
         q # r /\ name[q] = name[r] /\ InTerminal(q) /\ InTerminal(r)
           => {q, r} \subseteq entangled
    /\ \A r \in Runs \ entangled :
         /\ proc[r] \in Alive => pc[r] = "waiting"
         /\ pc[r] = "waiting" /\ pty[r] \in isClosed => r \in asked

\* What cancel() of a status knows of the remote run when it asked.
CancelInv == \A r \in Runs :
    /\ stop[r] = "fetch" => runId[r] # Nothing /\ remote[runId[r]] = "ended"
    /\ pc[r] = "cancelling" => runState[r] # "cancelled"

------------------------------------------------------------------------------
(* What the operators of the terminal change. *)

ProcStates == {"none", "gone", "running", "killed", "failed"}

LEMMA NoCallIsNothing == Nothing \notin Runs
  BY ConstantsAssumption DEF Nothing, Runs

LEMMA CloseTerminalEffect ==
  ASSUME NEW p \in Runs, NEW proc0 \in [Runs -> ProcStates], NEW known,
         isClosed \subseteq Runs, CloseTerminal(p, proc0, known)
  PROVE  /\ isClosed' = isClosed \cup {p} /\ isClosed' \subseteq Runs
         /\ proc' \in [Runs -> ProcStates]
         /\ \A q \in Runs : /\ proc'[q] \in Alive <=> proc0[q] \in Alive
                            /\ proc'[q] = "none" <=> proc0[q] = "none"
                            /\ \/ proc'[q] = proc0[q]
                               \/ known[p] = q /\ proc0[q] = "running" /\ proc'[q] = "killed"
  BY DEF CloseTerminal, ProcStates, Alive

\* The token's call has a terminal; only that one is closed.
LEMMA CancelTokenEffect ==
  ASSUME NEW t \in Targets, NEW proc0 \in [Runs -> ProcStates], NEW known,
         token \in [Targets -> Runs \cup {Nothing}], isClosed \subseteq Runs,
         token[t] # Nothing => pty[token[t]] \in Runs,
         CancelToken(t, proc0, known)
  PROVE  /\ token' = [token EXCEPT ![t] = Nothing]
         /\ token' \in [Targets -> Runs \cup {Nothing}] /\ isClosed' \subseteq Runs
         /\ proc' \in [Runs -> ProcStates]
         /\ \A q \in Runs : /\ proc'[q] \in Alive <=> proc0[q] \in Alive
                            /\ proc'[q] = "none" <=> proc0[q] = "none"
                            /\ \/ proc'[q] = proc0[q]
                               \/ /\ token[t] # Nothing /\ known[pty[token[t]]] = q
                                  /\ proc0[q] = "running" /\ proc'[q] = "killed"
         /\ \A p \in isClosed' : p \in isClosed \/ (token[t] # Nothing /\ p = pty[token[t]])
  <1>1. token' = [token EXCEPT ![t] = Nothing] /\ token' \in [Targets -> Runs \cup {Nothing}]
    BY DEF CancelToken
  <1>2. CASE token[t] = Nothing
    BY <1>1, <1>2 DEF CancelToken
  <1>3. CASE token[t] # Nothing
    <2>1. CloseTerminal(pty[token[t]], proc0, known)
      BY <1>3 DEF CancelToken
    <2> QED BY <1>1, <1>3, <2>1, CloseTerminalEffect
  <1> QED BY <1>2, <1>3

PcStates == {"idle", "deploying", "command", "waiting", "cancelling", "failing", "done"}

LEMMA LeaveEffect ==
  ASSUME NEW W, NEW outcome \in {"ok", "cancelled", "failed"}, Leave(W, outcome),
         pc \in [Runs -> PcStates], runState \in [Runs -> RunStates \cup {"none"}]
  PROVE  /\ pc' \in [Runs -> PcStates] /\ runState' \in [Runs -> RunStates \cup {"none"}]
         /\ \A r \in Runs \ W : pc'[r] = pc[r] /\ runState'[r] = runState[r]
         /\ \A r \in Runs \cap W :
              /\ pc'[r] \in {"done", "cancelling", "failing"}
              /\ pc'[r] # "done" => runId[r] # Nothing /\ runState'[r] = "cancelling"
              /\ pc'[r] = "cancelling" => outcome = "cancelled"
              /\ runState'[r] = "cancelled" => outcome = "cancelled" \/ runState[r] = "cancelled"
              /\ runState'[r] = "completed" => runState[r] = "completed"
  BY DEF Leave, Follows, PcStates, RunStates

------------------------------------------------------------------------------
(* The calls, their terminals and their processes. *)

PollStates == {"off", "client", "wait", "asked"}
StopStates == {"ask", "stop", "wait", "fetch"}
RemoteStates == {"none", "ended", "quiet", "active", "stopping"}

\* The type invariant, piece by piece.
LEMMA RunTypes ==
  TypeOK <=>
    /\ kind \in {"jobs", "pipelines"} /\ target \in Targets
    /\ shown \in Runs \cup {Nothing}
    /\ pc \in [Runs -> PcStates] /\ name \in [Runs -> Targets]
    /\ terminals \in [Targets -> Runs \cup {Nothing}]
    /\ process \in [Runs -> Runs \cup {Nothing}]
    /\ pty \in [Runs -> Runs \cup {Nothing}]
    /\ proc \in [Runs -> ProcStates]
    /\ token \in [Targets -> Runs \cup {Nothing}]
    /\ runState \in [Runs -> RunStates \cup {"none"}]
    /\ runId \in [Runs -> Runs \cup {Nothing}]
    /\ poll \in [Runs -> PollStates] /\ stop \in [Runs -> StopStates]
    /\ acts \in 0 .. MaxActs
    /\ remote \in [Runs -> RemoteStates]
    /\ shut \subseteq Runs /\ isClosed \subseteq Runs
    /\ asked \subseteq Runs /\ entangled \subseteq Runs
  <1>1. {"none", "gone"} \cup Alive = ProcStates /\ {"none", "ended"} \cup Going = RemoteStates
    BY DEF Alive, Going, ProcStates, RemoteStates
  <1> QED BY <1>1 DEF TypeOK, PcStates, PollStates, StopStates

\* A kept token belongs to a call of its target that has not returned.
Tokens == \A t \in Targets : token[t] # Nothing =>
            name[token[t]] = t /\ pc[token[t]] \in {"command", "waiting"}

\* What a call knows of its terminal, its process and its remote run.
CallInv == \A r \in Runs :
    /\ pc[r] = "waiting" => proc[r] \in Alive
    /\ pc[r] \in {"command", "waiting"} => pty[r] \in Runs
    /\ proc[r] \in Alive => pty[r] \in Runs
    /\ poll[r] # "off" => runId[r] # Nothing
    /\ runId[r] # Nothing => remote[runId[r]] # "none"
    /\ Stopping(r) => runId[r] # Nothing
    /\ process[r] # Nothing => pty[process[r]] = r /\ proc[process[r]] \in Alive

LEMMA RunParts == RunInv <=> TypeOK /\ CallInv /\ Tokens /\ Terminals /\ Fresh
  BY DEF RunInv, BundleRunInv, CallInv, Tokens

\* Two calls in one terminal are of one target.
LEMMA SameTerminal ==
  ASSUME RunInv, NEW q \in Runs, NEW r \in Runs, pty[q] # Nothing, pty[q] = pty[r]
  PROVE  name[q] = name[r]
  BY DEF RunInv, Terminals

\* A kept token can be cancelled.
LEMMA TokenHasTerminal ==
  ASSUME RunInv, NEW t \in Targets, token[t] # Nothing
  PROVE  /\ token[t] \in Runs /\ name[token[t]] = t
         /\ pc[token[t]] \in {"command", "waiting"}
         /\ pty[token[t]] \in Runs
  BY RunParts, RunTypes DEF Tokens, CallInv

\* Steps of a status object.
LEMMA SetStateKeeps ==
  ASSUME RunInv, NEW r \in Runs, NEW s \in RunStates \cup {"none"}, NEW p \in PollStates,
         p # "off" => poll[r] # "off", SetState(r, s, p)
  PROVE  RunInv'
  <1>1. TypeOK /\ CallInv /\ Tokens /\ Terminals /\ Fresh
    BY RunParts
  <1>2. /\ runState' = [runState EXCEPT ![r] = s] /\ poll' = [poll EXCEPT ![r] = p]
        /\ UNCHANGED <<kind, stop, target, shown, pc, runId, term, proc, remote, history>>
    BY DEF SetState
  <1>3. TypeOK'
    BY <1>1, <1>2, RunTypes DEF TypeOK, PollStates, term, history
  <1>4. \A q \in Runs : poll'[q] # "off" => poll[q] # "off"
    BY <1>1, <1>2, RunTypes
  <1>5. CallInv' /\ Tokens' /\ Terminals' /\ Fresh'
    BY <1>1, <1>2, <1>4 DEF CallInv, Stopping, Tokens, Terminals, Fresh, term
  <1> QED BY <1>3, <1>5, RunParts DEF RunInv, BundleRunInv, CallInv, Tokens

\* Steps of the remote runs, and of a cancellation that waits for them.
LEMMA RemoteKeeps ==
  ASSUME RunInv, remote' \in [Runs -> RemoteStates], stop' \in [Runs -> StopStates],
         \A q \in Runs : remote'[q] = "none" => remote[q] = "none",
         UNCHANGED <<kind, target, pc, status, term, proc, history>>
  PROVE  RunInv'
  <1>1. TypeOK /\ CallInv /\ Tokens /\ Terminals /\ Fresh
    BY RunParts
  <1>2. TypeOK'
    BY <1>1, RunTypes DEF TypeOK, RemoteStates, Going, StopStates, status, term, history
  <1>3. \A q \in Runs : runId[q] \in Runs \cup {Nothing}
    BY <1>1, RunTypes
  <1>4. CallInv' /\ Tokens' /\ Terminals' /\ Fresh'
    BY <1>1, <1>3 DEF CallInv, Stopping, Tokens, Terminals, Fresh, status, term
  <1> QED BY <1>2, <1>4 DEF RunInv, BundleRunInv, CallInv, Tokens

\* A call goes on outside a terminal, or its process fails.
LEMMA CallMoves ==
  ASSUME RunInv, NEW r \in Runs, Request(r) \/ NotDeployed(r) \/ Fail(r) \/ \E s \in {"error", "cancelled"} : Left(r, s)
  PROVE  RunInv'
  <1>1. TypeOK /\ CallInv /\ Tokens /\ Terminals /\ Fresh
    BY RunParts
  <1>2. TypeOK'
    BY <1>1, RunTypes
       DEF Request, NotDeployed, Fail, Left, TypeOK, Alive, RunStates, status, term, history
  <1>3. /\ \/ pc[r] \in {"idle", "deploying", "cancelling", "failing"} /\ pc' \in [Runs -> PcStates]
              /\ pc'[r] \notin {"command", "waiting", "cancelling", "failing"}
              /\ (pc'[r] \in {"idle", "deploying"} => pc[r] \in {"idle", "deploying"})
              /\ proc' = proc
           \/ pc' = pc
        /\ \A q \in Runs : pc'[q] # pc[q] => q = r
        /\ \A q \in Runs : /\ proc'[q] \in Alive <=> proc[q] \in Alive
                           /\ proc'[q] = "none" <=> proc[q] = "none"
        /\ UNCHANGED <<runId, poll, term, remote>>
    BY <1>1, <1>2, RunTypes DEF Request, NotDeployed, Fail, Left, Stopping, PcStates, Alive, ProcStates, status
  <1>4. CallInv' /\ Tokens' /\ Terminals' /\ Fresh'
    BY <1>1, <1>3, RunTypes DEF CallInv, Stopping, Tokens, Terminals, Fresh, term
  <1> QED BY <1>2, <1>4 DEF RunInv, BundleRunInv, CallInv, Tokens

\* The id of a remote run is read.
LEMMA ParseIdKeeps ==
  ASSUME RunInv, NEW r \in Runs, ParseId(r)
  PROVE  RunInv'
  <1>1. TypeOK /\ CallInv /\ Tokens /\ Terminals /\ Fresh
    BY RunParts
  <1>2. TypeOK'
    BY <1>1, RunTypes DEF ParseId, TypeOK, Going, RunStates, term, history
  <1>3. /\ \A q \in Runs : remote'[q] = "none" => remote[q] = "none"
        /\ \A q \in Runs : runId'[q] = r \/ (runId'[q] = runId[q] /\ poll'[q] = poll[q])
        /\ remote'[r] # "none" /\ r # Nothing
        /\ UNCHANGED <<pc, term, proc>>
    BY <1>1, RunTypes, NoCallIsNothing DEF ParseId
  <1>4. \A q \in Runs : runId[q] \in Runs \cup {Nothing}
    BY <1>1, RunTypes
  <1>5. CallInv' /\ Tokens' /\ Terminals' /\ Fresh'
    BY <1>1, <1>3, <1>4 DEF CallInv, Stopping, Tokens, Terminals, Fresh, term
  <1> QED BY <1>2, <1>5 DEF RunInv, BundleRunInv, CallInv, Tokens

\* A call takes a terminal, its own or the one that is there.
LEMMA RunKeeps ==
  ASSUME RunInv, NEW r \in Runs, Run(r)
  PROVE  RunInv'
  <1> DEFINE p == IF terminals[target] \in {Nothing} \cup shut THEN r ELSE terminals[target]
  <1>0. TypeOK /\ CallInv /\ Tokens /\ Terminals /\ Fresh /\ target \in Targets
    BY RunParts, RunTypes
  <1>1. /\ pc[r] = "deploying" /\ pty[r] = Nothing /\ proc[r] = "none" /\ p \in Runs
        /\ p = r \/ (p = terminals[target] /\ p # r /\ pty[p] = p /\ name[p] = target)
    BY <1>0, RunTypes, NoCallIsNothing DEF Run, Fresh, Terminals
  <1> HIDE DEF p
  <1>2. /\ shown' = r /\ name' = [name EXCEPT ![r] = target]
        /\ terminals' = [terminals EXCEPT ![target] = p] /\ pty' = [pty EXCEPT ![r] = p]
        /\ entangled' = entangled \cup (IF Busy(target) = {} THEN {} ELSE Busy(target) \cup {r})
        /\ UNCHANGED <<kind, stop, target, runId, poll, shut, process, remote, acts, asked>>
    BY DEF Run, p
  <1>3. entangled' \subseteq Runs
    BY <1>0, <1>2, RunTypes DEF Busy
  <1>4. /\ pc' \in [Runs -> PcStates] /\ runState' \in [Runs -> RunStates \cup {"none"}]
        /\ proc' \in [Runs -> ProcStates] /\ isClosed' \subseteq Runs
        /\ token' \in [Targets -> Runs \cup {Nothing}]
        /\ pc'[r] \in {"command", "done"} /\ \A q \in Runs : q # r => pc'[q] = pc[q]
        /\ \A q \in Runs : /\ proc'[q] \in Alive <=> proc[q] \in Alive
                           /\ proc'[q] = "none" <=> proc[q] = "none"
        /\ \A t \in Targets : \/ token'[t] = token[t] /\ t # target
                              \/ token'[t] = Nothing
                              \/ token'[t] = r /\ t = target /\ pc'[r] = "command"
    <2>1. CASE process[p] # Nothing
      <3>1. /\ CancelToken(target, proc, process)
            /\ runState' = [runState EXCEPT ![r] = "error"] /\ pc' = [pc EXCEPT ![r] = "done"]
        BY <2>1 DEF Run, p
      <3>2. /\ token' = [token EXCEPT ![target] = Nothing]
            /\ token' \in [Targets -> Runs \cup {Nothing}] /\ isClosed' \subseteq Runs
            /\ proc' \in [Runs -> ProcStates]
            /\ \A q \in Runs : /\ proc'[q] \in Alive <=> proc[q] \in Alive
                               /\ proc'[q] = "none" <=> proc[q] = "none"
        <4>1. /\ token \in [Targets -> Runs \cup {Nothing}] /\ isClosed \subseteq Runs
              /\ proc \in [Runs -> ProcStates] /\ target \in Targets
              /\ token[target] # Nothing => pty[token[target]] \in Runs
          BY <1>0, RunTypes, TokenHasTerminal
        <4> QED BY <3>1, <4>1, CancelTokenEffect
      <3> QED BY <1>0, <3>1, <3>2, RunTypes DEF PcStates, RunStates
    <2>2. CASE process[p] = Nothing
      <3>1. /\ token' = [token EXCEPT ![target] = r]
            /\ runState' = [runState EXCEPT ![r] = "unknown"] /\ pc' = [pc EXCEPT ![r] = "command"]
            /\ UNCHANGED <<isClosed, proc>>
        BY <2>2 DEF Run, p
      <3> QED BY <1>0, <3>1, RunTypes DEF PcStates, RunStates
    <2> QED BY <2>1, <2>2
  <1>5. TypeOK'
    <2>1. /\ name' \in [Runs -> Targets] /\ terminals' \in [Targets -> Runs \cup {Nothing}]
          /\ pty' \in [Runs -> Runs \cup {Nothing}] /\ shown' \in Runs \cup {Nothing}
      BY <1>0, <1>1, <1>2, RunTypes
    <2>2. /\ kind' \in {"jobs", "pipelines"} /\ target' \in Targets /\ shut' \subseteq Runs
          /\ process' \in [Runs -> Runs \cup {Nothing}] /\ runId' \in [Runs -> Runs \cup {Nothing}]
          /\ poll' \in [Runs -> PollStates] /\ stop' \in [Runs -> StopStates]
          /\ remote' \in [Runs -> RemoteStates] /\ acts' \in 0 .. MaxActs /\ asked' \subseteq Runs
      BY <1>0, <1>2, RunTypes
    <2>3. {"none", "gone"} \cup Alive = ProcStates /\ {"none", "ended"} \cup Going = RemoteStates
      BY DEF Alive, Going, ProcStates, RemoteStates
    <2> QED BY <1>3, <1>4, <2>1, <2>2, <2>3 DEF TypeOK, PcStates, PollStates, StopStates
  <1>6. /\ pty'[r] = p /\ name'[r] = target /\ r # Nothing
        /\ \A q \in Runs : q # r => pty'[q] = pty[q] /\ name'[q] = name[q]
        /\ \A q \in Runs : pty[q] # Nothing => pty[q] # r
    BY <1>0, <1>1, <1>2, RunTypes, NoCallIsNothing DEF Terminals
  <1>7. Terminals'
    <2>1. pty'[p] = p /\ name'[p] = target
      BY <1>1, <1>6
    <2>2. ASSUME NEW q \in Runs, pty'[q] # Nothing
          PROVE  pty'[pty'[q]] = pty'[q] /\ name'[pty'[q]] = name'[q]
      BY <1>0, <1>1, <1>6, <2>1, <2>2, RunTypes DEF Terminals
    <2>3. ASSUME NEW t \in Targets, terminals'[t] # Nothing
          PROVE  pty'[terminals'[t]] = terminals'[t] /\ name'[terminals'[t]] = t
      <3>1. CASE t = target
        BY <1>0, <1>2, <2>1, <3>1, RunTypes
      <3>2. CASE t # target
        <4>1. /\ terminals'[t] = terminals[t] /\ terminals[t] \in Runs
              /\ pty[terminals[t]] = terminals[t] /\ name[terminals[t]] = t
          BY <1>0, <1>2, <2>3, <3>2, RunTypes DEF Terminals
        <4> QED BY <1>1, <1>6, <4>1, NoCallIsNothing
      <3> QED BY <3>1, <3>2
    <2> QED BY <2>2, <2>3 DEF Terminals
  <1>8. CallInv'
    <2>1. \A q \in Runs : process[q] \in Runs \cup {Nothing} /\ process[q] # r
      BY <1>0, <1>1, <1>6, RunTypes DEF CallInv, Alive
    <2> QED BY <1>0, <1>1, <1>2, <1>4, <1>6, <2>1, RunTypes DEF CallInv, Stopping, Alive
  <1>9. Fresh' /\ Tokens'
    BY <1>0, <1>1, <1>4, <1>6, RunTypes DEF Fresh, Tokens
  <1> QED BY <1>5, <1>7, <1>8, <1>9 DEF RunInv, BundleRunInv, CallInv, Tokens

\* The process is spawned in the terminal of the call.
LEMMA SpawnKeeps ==
  ASSUME RunInv, NEW r \in Runs, Spawn(r)
  PROVE  RunInv'
  <1>0. TypeOK /\ CallInv /\ Tokens /\ Terminals /\ Fresh
    BY RunParts
  <1>1. /\ pc[r] = "command" /\ pty[r] \in Runs
        /\ isClosed' = isClosed \ {pty[r]}
        /\ process' = [process EXCEPT ![pty[r]] = r]
        /\ proc' = [proc EXCEPT ![r] = "running"] /\ pc' = [pc EXCEPT ![r] = "waiting"]
        /\ UNCHANGED <<kind, stop, target, status, terminals, shut, pty, token, name, remote, history>>
    BY <1>0 DEF Spawn, CallInv
  <1>2. TypeOK'
    BY <1>0, <1>1, RunTypes DEF TypeOK, Alive, status, history
  <1>3. CallInv' /\ Tokens' /\ Terminals' /\ Fresh'
    BY <1>0, <1>1, RunTypes DEF CallInv, Stopping, Alive, Tokens, Terminals, Fresh, status
  <1> QED BY <1>2, <1>3 DEF RunInv, BundleRunInv, CallInv, Tokens

\* The calls in W leave run(): the token of their target goes, and, where one
\* ended, the process of r.
Leaving(t, W, r, outcome, proc0, known) ==
    /\ Leave(W, outcome)
    /\ \A q \in W : pc[q] \in {"command", "waiting"} /\ name[q] = t
    /\ \/ proc0 = proc
       \/ /\ proc0 = [proc EXCEPT ![r] = "gone"] /\ proc[r] \in Alive
          /\ pc[r] = "waiting" => r \in W
          /\ \A q \in Runs : process'[q] # r
    /\ IF W = {} THEN proc' = proc0 /\ UNCHANGED <<token, isClosed>>
                 ELSE CancelToken(t, proc0, known)
    /\ process' \in [Runs -> Runs \cup {Nothing}]
    /\ \A q \in Runs : process'[q] \in {process[q], Nothing}
    /\ UNCHANGED <<kind, stop, target, shown, runId, poll, terminals, shut, pty, name, remote, history>>

LEMMA LeavingKeeps ==
  ASSUME RunInv, NEW t \in Targets, NEW W \in SUBSET Runs, NEW r \in Runs,
         NEW outcome \in {"ok", "cancelled", "failed"},
         NEW proc0 \in [Runs -> ProcStates], NEW known,
         Leaving(t, W, r, outcome, proc0, known)
  PROVE  RunInv'
  <1>0. TypeOK /\ CallInv /\ Tokens /\ Terminals /\ Fresh
    BY RunParts
  <1> USE DEF Leaving
  <1>1. /\ pc' \in [Runs -> PcStates] /\ runState' \in [Runs -> RunStates \cup {"none"}]
        /\ \A q \in Runs \ W : pc'[q] = pc[q] /\ runState'[q] = runState[q]
        /\ \A q \in Runs \cap W : /\ pc'[q] \in {"done", "cancelling", "failing"}
                                  /\ pc'[q] # "done" => runId[q] # Nothing
    BY <1>0, RunTypes, LeaveEffect
  <1>2. /\ token' \in [Targets -> Runs \cup {Nothing}] /\ isClosed' \subseteq Runs
        /\ proc' \in [Runs -> ProcStates]
        /\ \A q \in Runs : /\ proc'[q] \in Alive <=> proc0[q] \in Alive
                           /\ proc'[q] = "none" <=> proc0[q] = "none"
        /\ \A s \in Targets : token'[s] \in {token[s], Nothing}
        /\ W # {} => token'[t] = Nothing
    <2>1. CASE W = {}
      BY <1>0, <2>1, RunTypes
    <2>2. CASE W # {}
      <3>1. /\ token' = [token EXCEPT ![t] = Nothing]
            /\ token' \in [Targets -> Runs \cup {Nothing}] /\ isClosed' \subseteq Runs
            /\ proc' \in [Runs -> ProcStates]
            /\ \A q \in Runs : /\ proc'[q] \in Alive <=> proc0[q] \in Alive
                               /\ proc'[q] = "none" <=> proc0[q] = "none"
        <4>1. /\ token \in [Targets -> Runs \cup {Nothing}] /\ isClosed \subseteq Runs
              /\ token[t] # Nothing => pty[token[t]] \in Runs
          BY <1>0, RunTypes, TokenHasTerminal
        <4>2. CancelToken(t, proc0, known)
          BY <2>2
        <4> QED BY <4>1, <4>2, CancelTokenEffect
      <3> QED BY <1>0, <2>2, <3>1, RunTypes
    <2> QED BY <2>1, <2>2
  <1>3. TypeOK'
    BY <1>0, <1>1, <1>2, RunTypes DEF TypeOK, PcStates, ProcStates, Alive, history
  <1>4. \A q \in Runs : /\ proc'[q] \in Alive => proc[q] \in Alive
                        /\ proc'[q] = "none" <=> proc[q] = "none"
                        /\ proc[q] \in Alive => proc'[q] \in Alive \/ (q = r /\ proc0 # proc)
    BY <1>0, <1>2, RunTypes DEF Alive
  <1>5. CallInv'
    BY <1>0, <1>1, <1>4, RunTypes DEF CallInv, Stopping
  <1>6. Tokens'
    BY <1>0, <1>1, <1>2, RunTypes DEF Tokens
  <1>7. Terminals' /\ Fresh'
    BY <1>0, <1>1, <1>4 DEF Terminals, Fresh
  <1> QED BY <1>3, <1>5, <1>6, <1>7 DEF RunInv, BundleRunInv, CallInv, Tokens

\* A close event and a missing command are such steps.
Known(r) == [process EXCEPT ![pty[r]] = Nothing]
Gone(r) == [proc EXCEPT ![r] = "gone"]
Outcome(r, code) == IF pty[r] \in isClosed THEN "cancelled" ELSE IF code = 0 THEN "ok" ELSE "failed"

LEMMA ExitIsLeaving ==
  ASSUME RunInv, NEW r \in Runs, NEW code, OnClose(r, code), proc[r] \in Alive
  PROVE  /\ Leaving(name[r], Waiting(pty[r]), r, Outcome(r, code), Gone(r), Known(r))
         /\ name[r] \in Targets /\ Waiting(pty[r]) \in SUBSET Runs /\ Gone(r) \in [Runs -> ProcStates]
         /\ Outcome(r, code) \in {"ok", "cancelled", "failed"} /\ Gone(r) # proc
         /\ \A q \in Runs : Known(r)[q] \in {process[q], Nothing}
         /\ Outcome(r, code) = "cancelled" => pty[r] \in isClosed
         /\ pc[r] = "waiting" => r \in Waiting(pty[r])
  <1>0. TypeOK /\ CallInv
    BY RunParts
  <1>1. /\ process' = Known(r) /\ Leave(Waiting(pty[r]), Outcome(r, code))
        /\ IF Waiting(pty[r]) = {} THEN proc' = Gone(r) /\ UNCHANGED <<token, isClosed>>
           ELSE CancelToken(name[r], Gone(r), Known(r))
        /\ UNCHANGED <<kind, stop, target, shown, runId, poll, terminals, shut, pty, name, remote, history>>
    BY DEF OnClose, Known, Gone, Outcome
  <1>2. /\ pty[r] \in Runs /\ name[r] \in Targets /\ Waiting(pty[r]) \in SUBSET Runs
        /\ Gone(r) \in [Runs -> ProcStates] /\ Gone(r)[r] = "gone" /\ proc[r] # "gone"
    BY <1>0, RunTypes DEF CallInv, Waiting, ProcStates, Alive, Gone
  <1>3. /\ Outcome(r, code) \in {"ok", "cancelled", "failed"}
        /\ Outcome(r, code) = "cancelled" => pty[r] \in isClosed
    BY DEF Outcome
  <1>4. \A q \in Waiting(pty[r]) : pc[q] \in {"command", "waiting"} /\ name[q] = name[r]
    <2>1. ASSUME NEW q \in Waiting(pty[r]) PROVE pc[q] \in {"command", "waiting"} /\ name[q] = name[r]
      <3>1. q \in Runs /\ pc[q] = "waiting" /\ pty[q] = pty[r] /\ pty[q] # Nothing
        BY <1>2, NoCallIsNothing DEF Waiting
      <3>2. name[q] = name[r]
        BY <3>1, SameTerminal
      <3> QED BY <3>1, <3>2
    <2> QED BY <2>1
  <1>5. /\ process' \in [Runs -> Runs \cup {Nothing}]
        /\ \A q \in Runs : process'[q] \in {process[q], Nothing} /\ process'[q] # r
        /\ \A q \in Runs : Known(r)[q] \in {process[q], Nothing}
    BY <1>0, <1>1, <1>2, RunTypes, NoCallIsNothing DEF CallInv, Known
  <1>6. pc[r] = "waiting" => r \in Waiting(pty[r])
    BY DEF Waiting
  <1>7. Leaving(name[r], Waiting(pty[r]), r, Outcome(r, code), Gone(r), Known(r))
    BY <1>1, <1>4, <1>5, <1>6 DEF Leaving, Gone
  <1> QED BY <1>2, <1>3, <1>5, <1>6, <1>7

LEMMA NoCommandIsLeaving ==
  ASSUME RunInv, NEW r \in Runs, NoCommand(r)
  PROVE  /\ Leaving(name[r], {r}, r, "failed", proc, process)
         /\ name[r] \in Targets /\ proc \in [Runs -> ProcStates] /\ pc[r] = "command"
  <1>1. TypeOK
    BY RunParts
  <1>2. /\ pc[r] = "command" /\ CancelToken(name[r], proc, process) /\ Leave({r}, "failed")
        /\ UNCHANGED <<kind, stop, target, shown, runId, poll, terminals, shut, process, pty, name,
                       remote, history>>
    BY DEF NoCommand
  <1>3. /\ name[r] \in Targets /\ proc \in [Runs -> ProcStates] /\ {r} # {}
        /\ process' \in [Runs -> Runs \cup {Nothing}]
        /\ \A q \in Runs : process'[q] = process[q]
    BY <1>1, <1>2, RunTypes
  <1> QED BY <1>2, <1>3 DEF Leaving

LEMMA TerminalLeft ==
  ASSUME RunInv, NEW r \in Runs, Exit(r) \/ NoCommand(r)
  PROVE  RunInv'
  <1>1. ASSUME NEW code, OnClose(r, code), proc[r] \in Alive PROVE RunInv'
    BY <1>1, ExitIsLeaving, LeavingKeeps
  <1>2. ASSUME NoCommand(r) PROVE RunInv'
    BY <1>2, NoCommandIsLeaving, LeavingKeeps
  <1> QED BY <1>1, <1>2 DEF Exit, Alive

\* The user closes a terminal, directly or by cancelling, or changes the target.
LEMMA UserKeeps ==
  ASSUME RunInv, User
  PROVE  RunInv'
  <1>0. TypeOK /\ CallInv /\ Tokens /\ Terminals /\ Fresh
    BY RunParts
  <1>1. /\ acts' \in 0 .. MaxActs /\ target' \in Targets /\ shown' \in Runs \cup {Nothing}
        /\ shut' \subseteq Runs /\ asked' \subseteq Runs
        /\ UNCHANGED <<kind, stop, pc, runState, runId, poll, terminals, process, pty, name, remote, entangled>>
    <2>1. acts' \in 0 .. MaxActs
      BY <1>0, RunTypes, ConstantsAssumption DEF User, Cancel, UserCloses, ChangeTarget, Acts
    <2> QED BY <1>0, <2>1, RunTypes DEF User, Cancel, UserCloses, ChangeTarget, Holding, status, term
  <1>2. /\ token' \in [Targets -> Runs \cup {Nothing}] /\ isClosed' \subseteq Runs
        /\ proc' \in [Runs -> ProcStates]
        /\ \A q \in Runs : /\ proc'[q] \in Alive <=> proc[q] \in Alive
                           /\ proc'[q] = "none" <=> proc[q] = "none"
        /\ \A t \in Targets : token'[t] \in {token[t], Nothing}
    <2>1. CASE Cancel
      <3>1. CancelToken(target, proc, process)
        BY <2>1 DEF Cancel
      <3>2. /\ token' = [token EXCEPT ![target] = Nothing]
            /\ token' \in [Targets -> Runs \cup {Nothing}] /\ isClosed' \subseteq Runs
            /\ proc' \in [Runs -> ProcStates]
            /\ \A q \in Runs : /\ proc'[q] \in Alive <=> proc[q] \in Alive
                               /\ proc'[q] = "none" <=> proc[q] = "none"
        BY <1>0, <3>1, RunTypes, TokenHasTerminal, CancelTokenEffect
      <3> QED BY <1>0, <3>2, RunTypes
    <2>2. ASSUME NEW p \in Runs, UserCloses(p)
          PROVE  /\ token' = token /\ isClosed' \subseteq Runs /\ proc' \in [Runs -> ProcStates]
                 /\ \A q \in Runs : /\ proc'[q] \in Alive <=> proc[q] \in Alive
                                    /\ proc'[q] = "none" <=> proc[q] = "none"
      <3>1. CloseTerminal(p, proc, process) /\ token' = token
        BY <2>2 DEF UserCloses
      <3> QED BY <1>0, <3>1, RunTypes, CloseTerminalEffect
    <2>3. CASE ChangeTarget
      BY <1>0, <2>3, RunTypes DEF ChangeTarget, term
    <2> QED BY <1>0, <2>1, <2>2, <2>3, RunTypes DEF User
  <1>3. TypeOK'
    <2>1. {"none", "gone"} \cup Alive = ProcStates
      BY DEF Alive, ProcStates
    <2> QED BY <1>0, <1>1, <1>2, <2>1 DEF TypeOK
  <1>4. CallInv' /\ Tokens' /\ Terminals' /\ Fresh'
    BY <1>0, <1>1, <1>2, RunTypes DEF CallInv, Stopping, Tokens, Terminals, Fresh
  <1> QED BY <1>3, <1>4 DEF RunInv, BundleRunInv, CallInv, Tokens

LEMMA RunInitial == Init => RunInv
  <1> SUFFICES ASSUME Init PROVE RunInv
    OBVIOUS
  <1>1. target \in Targets
    BY ConstantsAssumption DEF Init
  <1>2. TypeOK
    BY <1>1, ConstantsAssumption DEF Init, TypeOK, Runs
  <1>3. CallInv /\ Tokens /\ Terminals /\ Fresh
    BY <1>1 DEF Init, CallInv, Stopping, Alive, Tokens, Terminals, Fresh
  <1> QED BY <1>2, <1>3, RunParts

\* Which operators the steps are made of.
LEMMA StepKinds ==
  ASSUME TypeOK, NEW r \in Runs
  PROVE  /\ Timeout(r) \/ Poller(r) =>
              \E s \in RunStates \cup {"none"}, p \in PollStates :
                 (p # "off" => poll[r] # "off") /\ SetState(r, s, p)
         /\ RemoteStarts(r) \/ RemoteEnds(r) \/ CancelAsks(r) \/ CancelStops(r) =>
              /\ remote' \in [Runs -> RemoteStates] /\ stop' \in [Runs -> StopStates]
              /\ \A q \in Runs : remote'[q] = "none" => remote[q] = "none"
              /\ UNCHANGED <<kind, target, pc, status, term, proc, history>>
         /\ CancelReturns(r) \/ CancelThrows(r) => \E s \in {"error", "cancelled"} : Left(r, s)
  <1>1. ASSUME Timeout(r) \/ Poller(r)
        PROVE  \E s \in RunStates \cup {"none"}, p \in PollStates :
                 (p # "off" => poll[r] # "off") /\ SetState(r, s, p)
    <2>1. /\ runState[r] \in RunStates \cup {"none"} /\ poll[r] \in PollStates
          /\ {"timeout", "running", "completed", "error"} \subseteq RunStates
          /\ PollStates = {"off", "client", "wait", "asked"}
      BY RunTypes DEF RunStates, PollStates
    <2>2. CASE Timeout(r) \/ Client(r) \/ NoClient(r) \/ PollFails(r)
      BY <2>1, <2>2 DEF Timeout, Client, NoClient, PollFails
    <2>3. CASE PollAsks(r) \/ PollAnswered(r)
      <3>1. Asked # "off"
        BY DEF Asked
      <3> QED BY <2>1, <2>3, <3>1 DEF PollAsks, PollAnswered
    <2> QED BY <1>1, <2>2, <2>3 DEF Poller
  <1>2. ASSUME RemoteStarts(r) \/ RemoteEnds(r) \/ CancelAsks(r) \/ CancelStops(r)
        PROVE  /\ remote' \in [Runs -> RemoteStates] /\ stop' \in [Runs -> StopStates]
               /\ \A q \in Runs : remote'[q] = "none" => remote[q] = "none"
               /\ UNCHANGED <<kind, target, pc, status, term, proc, history>>
    BY <1>2, RunTypes
       DEF RemoteStarts, RemoteEnds, CancelAsks, CancelStops, CancelStep, Going, RemoteStates, StopStates
  <1>3. ASSUME CancelReturns(r) \/ CancelThrows(r) PROVE \E s \in {"error", "cancelled"} : Left(r, s)
    BY <1>3 DEF CancelReturns, CancelThrows
  <1> QED BY <1>1, <1>2, <1>3

LEMMA RunStep == RunInv /\ [Next]_vars => RunInv'
  <1> SUFFICES ASSUME RunInv, [Next]_vars PROVE RunInv'
    OBVIOUS
  <1>1. CASE UNCHANGED vars
    BY <1>1 DEF vars, status, term, history, RunInv, BundleRunInv, TypeOK, Stopping, Terminals, Fresh
  <1>2. ASSUME NEW r \in Runs, Call(r) PROVE RunInv'
    BY <1>2, CallMoves, RunKeeps, SpawnKeeps, TerminalLeft DEF Call
  <1>3. ASSUME NEW r \in Runs, Timeout(r) \/ Poller(r) PROVE RunInv'
    BY <1>3, StepKinds, SetStateKeeps, RunParts
  <1>4. ASSUME NEW r \in Runs, Process(r) PROVE RunInv'
    BY <1>4, CallMoves, TerminalLeft DEF Process
  <1>5. ASSUME NEW r \in Runs, Remote(r) PROVE RunInv'
    BY <1>5, StepKinds, RemoteKeeps, ParseIdKeeps, RunParts DEF Remote
  <1>6. ASSUME NEW r \in Runs, Canceller(r) PROVE RunInv'
    BY <1>6, StepKinds, RemoteKeeps, CallMoves, RunParts DEF Canceller
  <1> QED BY <1>1, <1>2, <1>3, <1>4, <1>5, <1>6, UserKeeps DEF Next

\* For any number of calls, targets and interventions: a call that waits has a
\* process whose close event will release it, a terminal knows of a live process
\* of its own only, and cancelling a kept token never hits a run that is over.
\* (run of BundleRunTerminalManager, spawn and close of CustomOutputTerminal.)
THEOREM RunsInvariant == Spec => []BundleRunInv
  <1>1. RunInv => BundleRunInv
    BY DEF RunInv
  <1> QED BY <1>1, RunInitial, RunStep, PTL DEF Spec

------------------------------------------------------------------------------
(* Calls that never met another one. *)

Independent == Met /\ RunsAreIndependent

\* In the terminal of an untouched call there is nobody else.
LEMMA Alone ==
  ASSUME Met, NEW q \in Runs, NEW r \in Runs \ entangled,
         InTerminal(q), InTerminal(r), name[q] = name[r]
  PROVE  q = r
  BY DEF Met

\* A token that closes the terminal of an untouched call is that call's own.
LEMMA TokenOfAlone ==
  ASSUME RunInv, Met, NEW r \in Runs \ entangled, NEW t \in Targets, token[t] # Nothing,
         process[pty[token[t]]] = r \/ (pc[r] = "waiting" /\ pty[r] = pty[token[t]])
  PROVE  token[t] = r
  <1>1. /\ token[t] \in Runs /\ pc[token[t]] \in {"command", "waiting"}
        /\ pty[token[t]] \in Runs
    BY TokenHasTerminal
  <1>2. CallInv /\ r # Nothing
    BY RunParts, NoCallIsNothing
  <1>3. pty[r] = pty[token[t]] /\ InTerminal(r)
    BY <1>1, <1>2 DEF CallInv, InTerminal
  <1>4. InTerminal(token[t]) /\ pty[r] # Nothing
    BY <1>1, <1>3, NoCallIsNothing DEF InTerminal
  <1>5. name[token[t]] = name[r]
    BY <1>1, <1>3, <1>4, SameTerminal
  <1> QED BY <1>1, <1>3, <1>4, <1>5, Alone

\* Steps that spawn, kill and close nothing.
LEMMA QuietKeepsIndependent ==
  ASSUME Independent, UNCHANGED <<name, pty, isClosed, asked, entangled>>,
         \A q \in Runs :
           /\ pc'[q] \in {"command", "waiting", "cancelling"} => pc'[q] = pc[q]
           /\ pc[q] = "waiting" => pc'[q] = "waiting"
           /\ proc'[q] \in Alive => proc[q] \in Alive
           /\ proc'[q] = "killed" => proc[q] = "killed"
           /\ runState'[q] = "cancelled" => runState[q] = "cancelled" \/ pc[q] = "cancelling"
           /\ runId'[q] = runId[q] \/ runId'[q] = q \/ q \in entangled
  PROVE  Independent'
  <1>1. \A q \in Runs : InTerminal(q)' => InTerminal(q)
    BY DEF InTerminal
  <1>2. Met'
    BY <1>1 DEF Independent, Met
  <1>3. RunsAreIndependent'
    BY DEF Independent, RunsAreIndependent
  <1> QED BY <1>2, <1>3 DEF Independent

\* The steps of statuses, remote runs and cancellations, and of calls outside
\* a terminal.
LEMMA OthersKeepIndependent ==
  ASSUME RunInv, Independent, NEW r \in Runs,
         \/ Timeout(r) \/ Poller(r) \/ Canceller(r) \/ Remote(r)
         \/ Request(r) \/ NotDeployed(r) \/ Fail(r) \/ ChangeTarget
  PROVE  Independent'
  <1>0. TypeOK /\ CallInv
    BY RunParts
  <1>1. CASE Timeout(r) \/ Poller(r)
    <2>1. /\ UNCHANGED <<pc, runId, term, proc, history>>
          /\ \A q \in Runs : runState'[q] = "cancelled" => runState[q] = "cancelled"
      BY <1>0, <1>1, RunTypes
         DEF Timeout, Poller, Client, NoClient, PollAsks, PollAnswered, PollFails, SetState
    <2> QED BY <2>1, QuietKeepsIndependent DEF term, history
  <1>2. CASE RemoteStarts(r) \/ RemoteEnds(r) \/ CancelAsks(r) \/ CancelStops(r) \/ ChangeTarget
    <2>1. UNCHANGED <<pc, runState, runId, term, proc, asked, entangled>>
      BY <1>2 DEF RemoteStarts, RemoteEnds, CancelAsks, CancelStops, CancelStep, ChangeTarget,
                  status, history
    <2> QED BY <2>1, QuietKeepsIndependent DEF term
  <1>3. CASE CancelReturns(r) \/ CancelThrows(r)
    <2>1. PICK s \in {"error", "cancelled"} : Left(r, s) /\ (s = "cancelled" => pc[r] # "failing")
      BY <1>3 DEF CancelReturns, CancelThrows
    <2>2. /\ UNCHANGED <<runId, term, proc, history>>
          /\ pc[r] \in {"cancelling", "failing"} /\ pc' = [pc EXCEPT ![r] = "done"]
          /\ runState' = [runState EXCEPT ![r] = s]
      BY <2>1 DEF Left, Stopping
    <2> QED BY <1>0, <2>1, <2>2, RunTypes, QuietKeepsIndependent DEF term, history
  <1>4. CASE Request(r) \/ NotDeployed(r) \/ Fail(r)
    <2>1. /\ UNCHANGED <<runState, runId, term, history>>
          /\ \/ pc[r] \in {"idle", "deploying"} /\ proc' = proc
                /\ \E s \in {"deploying", "done"} : pc' = [pc EXCEPT ![r] = s]
             \/ proc[r] \in {"running", "killed"} /\ proc' = [proc EXCEPT ![r] = "failed"] /\ pc' = pc
      BY <1>4 DEF Request, NotDeployed, Fail, status
    <2> QED BY <1>0, <2>1, RunTypes, QuietKeepsIndependent DEF term, history, Alive
  <1>5. CASE ParseId(r)
    <2>1. /\ UNCHANGED <<pc, term, proc, history>> /\ proc[r] = "running"
          /\ \A q \in Runs : /\ runState'[q] = "cancelled" => runState[q] = "cancelled"
                             /\ runId'[q] = runId[q] \/ (runId'[q] = r /\ q \in Waiting(pty[r]))
      BY <1>0, <1>5, RunTypes DEF ParseId
    <2>2. ASSUME NEW q \in Runs \ entangled, q \in Waiting(pty[r]) PROVE q = r
      <3>1. pty[q] = pty[r] /\ pty[q] # Nothing /\ InTerminal(q) /\ InTerminal(r)
        BY <1>0, <2>1, <2>2, NoCallIsNothing DEF Waiting, CallInv, InTerminal, Alive
      <3> QED BY <3>1, SameTerminal, Alone DEF Independent
    <2> QED BY <2>1, <2>2, QuietKeepsIndependent DEF term, history
  <1> QED BY <1>1, <1>2, <1>3, <1>4, <1>5 DEF Canceller, Remote

\* Calls leave one terminal, on which r was.
LEMMA LeavingKeepsIndependent ==
  ASSUME RunInv, Independent, NEW r \in Runs, NEW W \in SUBSET Runs,
         NEW outcome \in {"ok", "cancelled", "failed"},
         NEW proc0 \in [Runs -> ProcStates], NEW known, NEW t \in Targets,
         Leaving(t, W, r, outcome, proc0, known), t = name[r], InTerminal(r),
         \A q \in Runs : known[q] \in {process[q], Nothing},
         outcome = "cancelled" => pty[r] \in isClosed,
         pc[r] = "waiting" => r \in W,
         proc0 = proc => pc[r] = "command" /\ outcome = "failed"
  PROVE  Independent'
  <1>0. /\ TypeOK /\ CallInv /\ Met /\ RunsAreIndependent /\ Leave(W, outcome)
        /\ UNCHANGED <<name, pty, runId, asked, entangled>>
    BY RunParts DEF Leaving, Independent, history
  <1>1. /\ \A q \in Runs \ W : pc'[q] = pc[q] /\ runState'[q] = runState[q]
        /\ \A q \in Runs \cap W :
             /\ pc'[q] \in {"done", "cancelling", "failing"}
             /\ pc'[q] = "cancelling" => outcome = "cancelled"
             /\ runState'[q] = "cancelled" => outcome = "cancelled" \/ runState[q] = "cancelled"
    BY <1>0, RunTypes, LeaveEffect
  <1>2. /\ \A q \in Runs : /\ proc'[q] \in Alive => proc[q] \in Alive
                           /\ q = r => proc'[q] \notin Alive \/ proc0 = proc
                           /\ \/ proc'[q] = proc0[q]
                              \/ /\ token[t] # Nothing /\ known[pty[token[t]]] = q
                                 /\ proc0[q] = "running"
        /\ \A p \in isClosed' : p \in isClosed \/ (token[t] # Nothing /\ p = pty[token[t]])
    <2>1. /\ \A q \in Runs : /\ proc'[q] \in Alive <=> proc0[q] \in Alive
                             /\ \/ proc'[q] = proc0[q]
                                \/ /\ token[t] # Nothing /\ known[pty[token[t]]] = q
                                   /\ proc0[q] = "running"
          /\ \A p \in isClosed' : p \in isClosed \/ (token[t] # Nothing /\ p = pty[token[t]])
      <3>1. CASE W = {}
        BY <3>1 DEF Leaving
      <3>2. CASE W # {}
        <4>1. CancelToken(t, proc0, known)
          BY <3>2 DEF Leaving
        <4>2. token \in [Targets -> Runs \cup {Nothing}] /\ isClosed \subseteq Runs
          BY <1>0, RunTypes
        <4>3. token[t] # Nothing => pty[token[t]] \in Runs
          BY TokenHasTerminal
        <4> QED BY <4>1, <4>2, <4>3, CancelTokenEffect
      <3> QED BY <3>1, <3>2
    <2>2. /\ \A q \in Runs : proc0[q] \in Alive => proc[q] \in Alive
          /\ proc0[r] \notin Alive \/ proc0 = proc
      BY <1>0, RunTypes DEF Leaving, Alive
    <2> QED BY <2>1, <2>2
  <1>3. ASSUME NEW q \in Runs \ entangled, name[q] = t, InTerminal(q) PROVE q = r
    BY <1>0, <1>3, Alone
  <1>4. ASSUME NEW q \in Runs \ entangled, q \in W PROVE q = r
    BY <1>3, <1>4 DEF Leaving, InTerminal
  \* the token of the terminal of an untouched call
  <1>5. ASSUME NEW q \in Runs \ entangled, token[t] = q PROVE q = r
    <2>1. name[q] = t /\ InTerminal(q)
      BY <1>5, TokenHasTerminal, NoCallIsNothing DEF InTerminal
    <2> QED BY <1>3, <2>1
  <1>6. ASSUME NEW q \in Runs \ entangled, proc'[q] = "killed" PROVE proc[q] = "killed"
    <2>1. CASE proc'[q] = proc0[q]
      BY <1>0, <1>6, <2>1, RunTypes DEF Leaving
    <2>2. CASE /\ token[t] # Nothing /\ known[pty[token[t]]] = q /\ proc0[q] = "running"
      <3>1. pty[token[t]] \in Runs /\ q # Nothing
        BY <2>2, TokenHasTerminal, NoCallIsNothing
      <3>2. process[pty[token[t]]] = q
        BY <2>2, <3>1
      <3>3. token[t] = q
        BY <1>0, <2>2, <3>2, TokenOfAlone
      <3>4. q = r
        BY <1>5, <3>3
      <3>5. proc0 = proc /\ pc[q] = "command" /\ proc[q] \in Alive
        BY <1>0, <2>2, <3>4, RunTypes DEF Leaving, Alive
      <3> QED BY <1>0, <3>5 DEF Met
    <2> QED BY <1>2, <2>1, <2>2
  <1>7. ASSUME NEW q \in Runs \ entangled, pc'[q] = "waiting", pty[q] \in isClosed' PROVE q \in asked
    <2>1. q \notin W /\ pc[q] = "waiting"
      BY <1>1, <1>7
    <2>2. CASE pty[q] \in isClosed
      BY <1>0, <2>1, <2>2 DEF Met
    <2>3. CASE token[t] # Nothing /\ pty[q] = pty[token[t]]
      BY <1>0, <1>5, <2>1, <2>3, TokenOfAlone
    <2> QED BY <1>2, <1>7, <2>2, <2>3
  <1>8. ASSUME NEW q \in Runs \ entangled, proc'[q] \in Alive PROVE pc'[q] = "waiting"
    <2>1. proc[q] \in Alive /\ pc[q] = "waiting"
      BY <1>0, <1>2, <1>8 DEF Met
    <2>2. q \notin W
      BY <1>2, <1>4, <1>8, <2>1
    <2> QED BY <1>1, <2>1, <2>2
  <1>9. ASSUME NEW q \in Runs \ entangled,
               pc'[q] = "cancelling" \/ runState'[q] = "cancelled"
        PROVE  q \in asked
    <2>1. CASE q \in W /\ outcome = "cancelled"
      <3>1. q = r /\ pc[r] = "waiting"
        <4>1. q = r
          BY <1>4, <2>1
        <4>2. pc[r] \in {"command", "waiting"} /\ proc0 # proc
          BY <2>1, <4>1 DEF Leaving
        <4>3. proc[r] \in Alive
          BY <4>2 DEF Leaving
        <4> QED BY <1>0, <4>1, <4>3 DEF Met
      <3> QED BY <1>0, <2>1, <3>1 DEF Met
    <2>2. CASE ~(q \in W /\ outcome = "cancelled")
      BY <1>0, <1>1, <1>9, <2>2 DEF RunsAreIndependent
    <2> QED BY <2>1, <2>2
  <1>10. \A q \in Runs : InTerminal(q)' => InTerminal(q)
    BY <1>1, <1>2 DEF InTerminal
  <1>11. Met'
    BY <1>0, <1>7, <1>8, <1>10 DEF Met
  <1>12. RunsAreIndependent'
    BY <1>0, <1>6, <1>9 DEF RunsAreIndependent
  <1> QED BY <1>11, <1>12 DEF Independent

LEMMA TerminalLeftIndependent ==
  ASSUME RunInv, Independent, NEW r \in Runs, Exit(r) \/ NoCommand(r)
  PROVE  Independent'
  <1>1. ASSUME NEW code, OnClose(r, code), proc[r] \in Alive PROVE Independent'
    <2>1. InTerminal(r)
      BY <1>1 DEF InTerminal
    <2>2. PICK W \in SUBSET Runs, outcome \in {"ok", "cancelled", "failed"},
               proc0 \in [Runs -> ProcStates], known \in {Known(r)}, t \in Targets :
            /\ Leaving(t, W, r, outcome, proc0, known) /\ t = name[r] /\ proc0 # proc
            /\ \A q \in Runs : known[q] \in {process[q], Nothing}
            /\ outcome = "cancelled" => pty[r] \in isClosed
            /\ pc[r] = "waiting" => r \in W
      BY <1>1, ExitIsLeaving
    <2> QED BY <2>1, <2>2, LeavingKeepsIndependent
  <1>2. ASSUME NoCommand(r) PROVE Independent'
    <2>1. InTerminal(r)
      BY <1>2, NoCommandIsLeaving DEF InTerminal
    <2> QED BY <1>2, <2>1, NoCommandIsLeaving, LeavingKeepsIndependent
  <1> QED BY <1>1, <1>2 DEF Exit, Alive

\* The terminal is open again for the process of the call.
LEMMA SpawnKeepsIndependent ==
  ASSUME RunInv, Independent, NEW r \in Runs, Spawn(r)
  PROVE  Independent'
  <1>0. TypeOK /\ CallInv /\ Met /\ RunsAreIndependent
    BY RunParts DEF Independent
  <1>1. /\ pc[r] = "command" /\ isClosed' = isClosed \ {pty[r]}
        /\ proc' = [proc EXCEPT ![r] = "running"] /\ pc' = [pc EXCEPT ![r] = "waiting"]
        /\ UNCHANGED <<runState, runId, pty, name, asked, entangled>>
    BY DEF Spawn, status, history
  <1>2. /\ pc'[r] = "waiting" /\ proc'[r] = "running" /\ pty'[r] \notin isClosed'
        /\ \A q \in Runs : q # r => pc'[q] = pc[q] /\ proc'[q] = proc[q]
    BY <1>0, <1>1, RunTypes
  <1>3. \A q \in Runs : InTerminal(q)' => InTerminal(q)
    BY <1>1, <1>2 DEF InTerminal
  <1>4. Met'
    BY <1>0, <1>1, <1>2, <1>3 DEF Met
  <1>5. RunsAreIndependent'
    BY <1>0, <1>1, <1>2 DEF RunsAreIndependent
  <1> QED BY <1>4, <1>5 DEF Independent

\* A call comes to a terminal: whoever is there has met it.
LEMMA RunKeepsIndependent ==
  ASSUME RunInv, Independent, NEW r \in Runs, Run(r)
  PROVE  Independent'
  <1>0. /\ TypeOK /\ CallInv /\ Fresh /\ Met /\ RunsAreIndependent
        /\ target \in Targets /\ process \in [Runs -> Runs \cup {Nothing}]
    BY RunParts, RunTypes DEF Independent
  <1>1. /\ pc[r] = "deploying" /\ proc[r] = "none" /\ pty[r] = Nothing /\ ~InTerminal(r)
        /\ name' = [name EXCEPT ![r] = target]
        /\ entangled' = entangled \cup (IF Busy(target) = {} THEN {} ELSE Busy(target) \cup {r})
        /\ UNCHANGED <<runId, process, asked>>
    BY <1>0 DEF Run, Fresh, InTerminal, Alive
  <1>2. \A q \in Runs : q \in Busy(target) <=> name[q] = target /\ InTerminal(q)
    BY DEF Busy, InTerminal
  <1>3. /\ name'[r] = target /\ pc'[r] \in {"command", "done"}
        /\ runState'[r] \in {"unknown", "error"}
        /\ \A q \in Runs : q # r => /\ name'[q] = name[q] /\ pty'[q] = pty[q]
                                    /\ pc'[q] = pc[q] /\ runState'[q] = runState[q]
    BY <1>0, <1>1, RunTypes DEF Run
  <1>4. /\ \A q \in Runs : /\ proc'[q] \in Alive <=> proc[q] \in Alive
                           /\ proc'[q] = "none" <=> proc[q] = "none"
                           /\ \/ proc'[q] = proc[q]
                              \/ token[target] # Nothing /\ process[pty[token[target]]] = q
        /\ \A p \in isClosed' : p \in isClosed \/ (token[target] # Nothing /\ p = pty[token[target]])
    <2>1. CASE CancelToken(target, proc, process)
      <3>1. /\ token \in [Targets -> Runs \cup {Nothing}] /\ isClosed \subseteq Runs
            /\ proc \in [Runs -> ProcStates]
            /\ token[target] # Nothing => pty[token[target]] \in Runs
        BY <1>0, RunTypes, TokenHasTerminal
      <3> QED BY <1>0, <2>1, <3>1, CancelTokenEffect
    <2>2. CASE UNCHANGED <<isClosed, proc>>
      BY <2>2
    <2> QED BY <2>1, <2>2 DEF Run
  <1>5. ASSUME NEW q \in Runs \ entangled', q # r, InTerminal(q) PROVE name[q] # target
    BY <1>1, <1>2, <1>5
  <1>6. ASSUME NEW q \in Runs \ entangled', token[target] = q PROVE FALSE
    <2>1. name[q] = target /\ InTerminal(q)
      BY <1>0, <1>6, TokenHasTerminal, NoCallIsNothing DEF InTerminal
    <2>2. q # r
      BY <1>1, <2>1
    <2> QED BY <1>5, <2>1, <2>2
  <1>7. ASSUME NEW q \in Runs \ entangled', q # r
        PROVE  /\ proc'[q] = proc[q]
               /\ pc[q] = "waiting" /\ pty[q] \in isClosed' => pty[q] \in isClosed
    <2>1. q \in Runs \ entangled
      BY <1>1
    <2>2. ~(/\ token[target] # Nothing
            /\ process[pty[token[target]]] = q \/ (pc[q] = "waiting" /\ pty[q] = pty[token[target]]))
      BY <1>0, <1>6, <2>1, TokenOfAlone
    <2> QED BY <1>4, <2>2
  <1>8. \A q \in Runs : q # r => (InTerminal(q)' <=> InTerminal(q))
    BY <1>3, <1>4 DEF InTerminal
  <1>9. proc'[r] = "none" /\ \A q \in Runs \ entangled' : q \in Runs \ entangled
    BY <1>1, <1>4
  <1>10. Met'
    <2>1. ASSUME NEW q \in Runs, NEW s \in Runs, q # s, name'[q] = name'[s],
                 InTerminal(q)', InTerminal(s)'
          PROVE  {q, s} \subseteq entangled'
      <3>1. CASE q # r /\ s # r
        <4>1. {q, s} \subseteq entangled
          BY <1>0, <1>3, <1>8, <2>1, <3>1 DEF Met
        <4> QED BY <1>1, <4>1
      <3>2. CASE q = r \/ s = r
        <4>1. \E u \in {q, s} : u \in Busy(target) /\ {q, s} = {u, r}
          BY <1>2, <1>3, <1>8, <2>1, <3>2
        <4> QED BY <1>1, <4>1
      <3> QED BY <3>1, <3>2
    <2>2. ASSUME NEW q \in Runs \ entangled'
          PROVE  /\ proc'[q] \in Alive => pc'[q] = "waiting"
                 /\ pc'[q] = "waiting" /\ pty'[q] \in isClosed' => q \in asked'
      <3>1. CASE q = r
        BY <1>3, <1>9, <3>1 DEF Alive
      <3>2. CASE q # r
        BY <1>0, <1>1, <1>3, <1>7, <1>9, <3>2 DEF Met
      <3> QED BY <3>1, <3>2
    <2> QED BY <2>1, <2>2 DEF Met
  <1>11. RunsAreIndependent'
    BY <1>0, <1>1, <1>3, <1>7, <1>9 DEF RunsAreIndependent
  <1> QED BY <1>10, <1>11 DEF Independent

\* What the user stops he has asked to stop.
LEMMA UserKeepsIndependent ==
  ASSUME RunInv, Independent, Cancel \/ \E p \in Runs : UserCloses(p)
  PROVE  Independent'
  <1>0. TypeOK /\ CallInv /\ Met /\ RunsAreIndependent /\ target \in Targets
    BY RunParts, RunTypes DEF Independent
  <1>1. PICK p \in Runs :
          /\ \/ Cancel /\ token[target] # Nothing /\ p = pty[token[target]]
             \/ UserCloses(p)
          /\ CloseTerminal(p, proc, process) /\ asked' = asked \cup Holding(p)
    <2>1. CASE Cancel
      <3>1. /\ token[target] # Nothing /\ CancelToken(target, proc, process)
            /\ asked' = asked \cup Holding(pty[token[target]])
        BY <2>1 DEF Cancel
      <3>2. pty[token[target]] \in Runs /\ CloseTerminal(pty[token[target]], proc, process)
        BY <1>0, <3>1, TokenHasTerminal DEF CancelToken
      <3> QED BY <2>1, <3>1, <3>2
    <2>2. ASSUME NEW p \in Runs, UserCloses(p)
          PROVE  CloseTerminal(p, proc, process) /\ asked' = asked \cup Holding(p)
      BY <2>2 DEF UserCloses
    <2> QED BY <2>1, <2>2
  <1>2. UNCHANGED <<pc, runState, runId, pty, name, entangled>>
    BY <1>1 DEF Cancel, UserCloses, status
  <1>3. /\ isClosed' = isClosed \cup {p}
        /\ \A q \in Runs : /\ proc'[q] \in Alive <=> proc[q] \in Alive
                           /\ \/ proc'[q] = proc[q]
                              \/ process[p] = q /\ proc[q] = "running"
    BY <1>0, <1>1, RunTypes, CloseTerminalEffect
  <1>4. ASSUME NEW q \in Runs \ entangled, process[p] = q /\ proc[q] = "running" PROVE q \in asked'
    <2>1. pty[q] = p /\ pc[q] = "waiting"
      BY <1>0, <1>4, NoCallIsNothing DEF CallInv, Met, Alive
    <2> QED BY <1>1, <2>1 DEF Holding
  <1>5. \A q \in Runs : pc[q] = "waiting" /\ pty[q] = p => q \in asked'
    BY <1>1 DEF Holding
  <1>6. \A q \in Runs : q \in asked => q \in asked'
    BY <1>1
  <1>7. Met'
    BY <1>0, <1>2, <1>3, <1>5, <1>6 DEF Met, InTerminal
  <1>8. RunsAreIndependent'
    BY <1>0, <1>2, <1>3, <1>4, <1>6 DEF RunsAreIndependent
  <1> QED BY <1>7, <1>8 DEF Independent

LEMMA IndependentStep == RunInv /\ Independent /\ [Next]_vars => Independent'
  <1> SUFFICES ASSUME RunInv, Independent, [Next]_vars PROVE Independent'
    OBVIOUS
  <1>1. CASE UNCHANGED vars
    BY <1>1 DEF vars, status, term, history, Independent, Met, InTerminal, RunsAreIndependent
  <1>2. CASE User
    <2>1. CASE ChangeTarget
      <3>1. UNCHANGED <<pc, runState, runId, term, proc, asked, entangled>>
        BY <2>1 DEF ChangeTarget
      <3> QED BY <3>1, QuietKeepsIndependent DEF term
    <2> QED BY <1>2, <2>1, UserKeepsIndependent DEF User
  <1>3. ASSUME NEW r \in Runs, Call(r) \/ Process(r) PROVE Independent'
    BY <1>3, OthersKeepIndependent, RunKeepsIndependent, SpawnKeepsIndependent,
       TerminalLeftIndependent DEF Call, Process
  <1>4. ASSUME NEW r \in Runs, Remote(r) \/ Timeout(r) \/ Poller(r) \/ Canceller(r) PROVE Independent'
    BY <1>4, OthersKeepIndependent
  <1> QED BY <1>1, <1>2, <1>3, <1>4 DEF Next

LEMMA IndependentInitial == Init => Independent
  BY NoCallIsNothing DEF Init, Independent, Met, InTerminal, Alive, RunsAreIndependent

\* Any number of calls: one that met no other in its terminal is only stopped by
\* the user, and follows the remote run of its own CLI. (The terminals and tokens
\* kept under a name in BundleRunTerminalManager.)
THEOREM UntouchedRunsAreIndependent == Spec => []RunsAreIndependent
  <1>1. Independent => RunsAreIndependent
    BY DEF Independent
  <1> QED BY <1>1, RunInitial, RunStep, IndependentInitial, IndependentStep, PTL DEF Spec

------------------------------------------------------------------------------
(* Cancelling the remote run. *)

\* A remote run that has ended stays so, and a status follows one for good.
LEMMA EndedForGood ==
  ASSUME RunInv, Next, NEW q \in Runs
  PROVE  /\ remote[q] = "ended" => remote'[q] = "ended"
         /\ runId[q] # Nothing => runId'[q] = runId[q]
  <1>0. TypeOK
    BY RunParts
  <1>1. ASSUME NEW r \in Runs, Timeout(r) \/ Poller(r) PROVE UNCHANGED <<remote, runId>>
    BY <1>1 DEF Timeout, Poller, Client, NoClient, PollAsks, PollAnswered, PollFails, SetState
  <1>2. ASSUME NEW r \in Runs, Call(r) \/ Process(r) PROVE UNCHANGED <<remote, runId>>
    BY <1>2 DEF Call, Process, Request, NotDeployed, Run, Spawn, NoCommand, Exit, OnClose, Fail, status
  <1>3. CASE User
    BY <1>3 DEF User, Cancel, UserCloses, ChangeTarget, status
  <1>4. ASSUME NEW r \in Runs, Canceller(r) \/ RemoteStarts(r) \/ RemoteEnds(r)
        PROVE  runId' = runId /\ (remote[q] = "ended" => remote'[q] = "ended")
    BY <1>0, <1>4, RunTypes DEF Canceller, CancelAsks, CancelStops, CancelReturns, CancelThrows, Left,
       CancelStep, RemoteStarts, RemoteEnds, Going, status
  <1>5. ASSUME NEW r \in Runs, ParseId(r)
        PROVE  /\ remote[q] = "ended" => remote'[q] = "ended"
               /\ runId[q] # Nothing => runId'[q] = runId[q]
    BY <1>0, <1>5, RunTypes DEF ParseId
  <1> QED BY <1>1, <1>2, <1>3, <1>4, <1>5 DEF Next, Remote

\* How a status comes to show that its run was cancelled or is completed, and
\* how cancel() comes to look at a pipeline's update that is over.
LEMMA StatusSteps ==
  ASSUME RunInv, Next, NEW q \in Runs
  PROVE  /\ pc'[q] = "cancelling" /\ runState'[q] = "cancelled" =>
              pc[q] = "cancelling" /\ runState[q] = "cancelled"
         /\ pc[q] = "cancelling" /\ runState'[q] = "cancelled" =>
              runState[q] = "cancelled" \/ CancelReturns(q)
         /\ runState'[q] = "completed" =>
              runState[q] = "completed" \/ (runId[q] # Nothing /\ remote[runId[q]] = "ended")
         /\ stop'[q] = "fetch" =>
              stop[q] = "fetch" \/ (Stopping(q) /\ remote[runId[q]] \notin Going)
  <1>0. TypeOK /\ CallInv
    BY RunParts
  <1> DEFINE Goal == /\ pc'[q] = "cancelling" /\ runState'[q] = "cancelled" =>
                          pc[q] = "cancelling" /\ runState[q] = "cancelled"
                     /\ pc[q] = "cancelling" /\ runState'[q] = "cancelled" =>
                          runState[q] = "cancelled" \/ CancelReturns(q)
                     /\ runState'[q] = "completed" =>
                          runState[q] = "completed" \/ (runId[q] # Nothing /\ remote[runId[q]] = "ended")
                     /\ stop'[q] = "fetch" =>
                          stop[q] = "fetch" \/ (Stopping(q) /\ remote[runId[q]] \notin Going)
  <1>1. ASSUME NEW r \in Runs, Timeout(r) \/ Poller(r) PROVE Goal
    <2>1. Asked # "off"
      BY DEF Asked
    <2>2. /\ UNCHANGED <<pc, stop>>
          /\ runState'[q] = "cancelled" => runState[q] = "cancelled"
          /\ runState'[q] = "completed" =>
               runState[q] = "completed" \/ (runId[q] # Nothing /\ remote[runId[q]] = "ended")
      BY <1>0, <1>1, <2>1, RunTypes
         DEF CallInv, Timeout, Poller, Client, NoClient, PollAsks, PollAnswered, PollFails, SetState
    <2> QED BY <2>2
  <1>2. ASSUME NEW r \in Runs, Request(r) \/ NotDeployed(r) \/ Spawn(r) \/ Fail(r) PROVE Goal
    BY <1>0, <1>2, RunTypes DEF Request, NotDeployed, Spawn, Fail, status
  <1>3. ASSUME NEW r \in Runs, Run(r) PROVE Goal
    <2>1. /\ stop' = stop /\ pc[r] = "deploying" /\ pc'[r] \in {"command", "done"}
          /\ runState'[r] \in {"error", "unknown"}
          /\ q # r => pc'[q] = pc[q] /\ runState'[q] = runState[q]
      BY <1>0, <1>3, RunTypes DEF Run
    <2> QED BY <2>1
  <1>4. ASSUME NEW r \in Runs, Exit(r) \/ NoCommand(r) PROVE Goal
    <2>1. PICK W \in SUBSET Runs, outcome \in {"ok", "cancelled", "failed"} :
             Leave(W, outcome) /\ (\A s \in W : pc[s] \in {"command", "waiting"}) /\ stop' = stop
      <3>1. ASSUME NEW code, OnClose(r, code)
            PROVE  /\ Leave(Waiting(pty[r]), Outcome(r, code)) /\ stop' = stop
                   /\ \A s \in Waiting(pty[r]) : pc[s] = "waiting"
                   /\ Waiting(pty[r]) \in SUBSET Runs
                   /\ Outcome(r, code) \in {"ok", "cancelled", "failed"}
        BY <3>1 DEF OnClose, Outcome, Waiting
      <3>2. ASSUME NoCommand(r)
            PROVE  Leave({r}, "failed") /\ stop' = stop /\ pc[r] = "command"
        BY <3>2 DEF NoCommand
      <3> QED BY <1>4, <3>1, <3>2 DEF Exit
    <2>2. /\ q \notin W => pc'[q] = pc[q] /\ runState'[q] = runState[q]
          /\ q \in W => /\ pc[q] # "cancelling"
                        /\ pc'[q] = "cancelling" => runState'[q] = "cancelling"
                        /\ runState'[q] = "completed" => runState[q] = "completed"
      BY <1>0, <2>1, RunTypes, LeaveEffect
    <2> QED BY <2>1, <2>2
  <1>5. CASE User
    BY <1>0, <1>5 DEF User, Cancel, UserCloses, ChangeTarget, status
  <1>6. ASSUME NEW r \in Runs, Remote(r) PROVE Goal
    <2>1. /\ UNCHANGED <<pc, stop>>
          /\ runState'[q] \in {"cancelled", "completed"} => runState'[q] = runState[q]
      BY <1>0, <1>6, RunTypes DEF Remote, RemoteStarts, RemoteEnds, ParseId, status
    <2> QED BY <2>1
  <1>7. ASSUME NEW r \in Runs, CancelAsks(r) \/ CancelStops(r) PROVE Goal
    <2>1. UNCHANGED <<pc, runState>> /\ (stop'[q] = "fetch" =>
            stop[q] = "fetch" \/ (Stopping(q) /\ remote[runId[q]] \notin Going))
      BY <1>0, <1>7, RunTypes DEF CancelAsks, CancelStops, CancelStep, status
    <2> QED BY <2>1
  <1>8. ASSUME NEW r \in Runs, CancelReturns(r) \/ CancelThrows(r) PROVE Goal
    <2>1. /\ pc' = [pc EXCEPT ![r] = "done"] /\ stop' = [stop EXCEPT ![r] = "ask"]
          /\ \/ CancelReturns(r) /\ \E s \in {"error", "cancelled"} : runState' = [runState EXCEPT ![r] = s]
             \/ runState' = [runState EXCEPT ![r] = "error"]
      BY <1>8 DEF CancelReturns, CancelThrows, Left
    <2> QED BY <1>0, <2>1, RunTypes
  <1> QED BY <1>1, <1>2, <1>3, <1>4, <1>5, <1>6, <1>7, <1>8 DEF Next, Call, Process, Canceller

\* The remote run a status follows is over when cancel() returns from asking.
LEMMA CancelReturnsLate ==
  ASSUME RunInv, CancelInv, NEW q \in Runs, CancelReturns(q)
  PROVE  runId[q] \in Runs /\ remote[runId[q]] = "ended"
  <1>1. /\ Stopping(q) /\ Stopped(q) /\ runId[q] \in Runs /\ remote[runId[q]] # "none"
        /\ remote[runId[q]] \in RemoteStates
    BY RunParts, RunTypes DEF CancelReturns, Left, CallInv
  <1>2. remote[runId[q]] \in Going \/ remote[runId[q]] = "ended"
    BY <1>1 DEF RemoteStates, Going
  <1> QED BY <1>1, <1>2 DEF CancelInv, Stopped

LEMMA CancelInvStep == RunInv /\ CancelInv /\ [Next]_vars => CancelInv'
  <1> SUFFICES ASSUME RunInv, CancelInv, [Next]_vars PROVE CancelInv'
    OBVIOUS
  <1>1. CASE UNCHANGED vars
    BY <1>1 DEF vars, status, CancelInv
  <1>2. ASSUME Next, NEW q \in Runs
        PROVE  /\ stop'[q] = "fetch" => runId'[q] # Nothing /\ remote'[runId'[q]] = "ended"
               /\ pc'[q] = "cancelling" => runState'[q] # "cancelled"
    <2>1. ASSUME stop'[q] = "fetch" PROVE runId[q] # Nothing /\ remote[runId[q]] = "ended"
      <3>1. CASE stop[q] = "fetch"
        BY <3>1 DEF CancelInv
      <3>2. CASE Stopping(q) /\ remote[runId[q]] \notin Going
        <4>1. /\ runId[q] # Nothing /\ remote[runId[q]] # "none"
              /\ remote[runId[q]] \in RemoteStates
          BY <3>2, RunParts, RunTypes DEF CallInv
        <4> QED BY <3>2, <4>1 DEF RemoteStates, Going
      <3> QED BY <1>2, <2>1, <3>1, <3>2, StatusSteps
    <2>2. runId[q] \in Runs \cup {Nothing}
      BY RunParts, RunTypes
    <2>3. stop'[q] = "fetch" => runId'[q] # Nothing /\ remote'[runId'[q]] = "ended"
      BY <1>2, <2>1, <2>2, EndedForGood
    <2> QED BY <1>2, <2>3, StatusSteps DEF CancelInv
  <1> QED BY <1>1, <1>2 DEF CancelInv

LEMMA CancelInvInitial == Init => CancelInv
  BY DEF Init, CancelInv

\* For any calls and targets: a status that asked the workspace to cancel shows
\* "cancelled", and any status "completed", only once the remote run it follows
\* has ended. (cancel and the pollers of JobRunStatus and PipelineRunStatus.)
THEOREM CancelWaitsForRemote == Spec => CancelReachesRemote
  <1>1. ASSUME RunInv, CancelInv, [Next]_vars
        PROVE  [\A r \in Runs :
                  \/ pc[r] = "cancelling" /\ runState'[r] = "cancelled"
                  \/ runState[r] # "completed" /\ runState'[r] = "completed"
                  => remote'[runId[r]] = "ended"]_vars
    <2>1. ASSUME Next, NEW r \in Runs,
                 \/ pc[r] = "cancelling" /\ runState'[r] = "cancelled"
                 \/ runState[r] # "completed" /\ runState'[r] = "completed"
          PROVE  remote'[runId[r]] = "ended"
      <3>1. runId[r] \in Runs \cup {Nothing}
        BY <1>1, RunParts, RunTypes
      <3>2. runId[r] # Nothing /\ remote[runId[r]] = "ended"
        BY <1>1, <2>1, StatusSteps, CancelReturnsLate, NoCallIsNothing DEF CancelInv
      <3> QED BY <1>1, <2>1, <3>1, <3>2, EndedForGood
    <2> QED BY <1>1, <2>1
  <1> QED BY <1>1, RunInitial, RunStep, CancelInvInitial, CancelInvStep, PTL
       DEF Spec, CancelReachesRemote

------------------------------------------------------------------------------
(* Nobody hangs. *)

\* A status in progress has somebody who ends it.
Attended == \A r \in Runs :
    /\ runState[r] = "running" => poll[r] \in {"wait", "asked"}
    /\ runState[r] = "cancelling" => Stopping(r)

\* A poller or the timer sets the state of one call.
LEMMA SetStateAttends ==
  ASSUME RunInv, Attended, NEW r \in Runs, Timeout(r) \/ Poller(r)
  PROVE  Attended'
  <1>0. runState \in [Runs -> RunStates \cup {"none"}] /\ poll \in [Runs -> PollStates]
    BY RunParts, RunTypes
  <1>1. ASSUME NEW s, NEW p, SetState(r, s, p), s = "running" => p \in {"wait", "asked"},
               s = "cancelling" => runState[r] = "cancelling"
        PROVE  Attended'
    BY <1>0, <1>1 DEF SetState, Attended, Stopping
  <1>2. CASE Timeout(r) \/ Client(r) \/ PollFails(r)
    BY <1>1, <1>2 DEF Timeout, Client, PollFails
  <1>3. CASE NoClient(r)
    <2>1. runState[r] # "running"
      BY <1>3 DEF Attended, NoClient
    <2> QED BY <1>1, <1>3, <2>1 DEF NoClient
  <1>4. CASE PollAsks(r)
    <2>1. CASE runState[r] = "running"
      BY <1>1, <1>4, <2>1 DEF PollAsks
    <2>2. CASE runState[r] # "running"
      BY <1>1, <1>4, <2>2 DEF PollAsks
    <2> QED BY <2>1, <2>2
  <1>5. CASE PollAnswered(r)
    <2>1. SetState(r, "completed", "off") \/ SetState(r, runState[r], "wait")
      BY <1>5 DEF PollAnswered
    <2> QED BY <1>1, <2>1
  <1> QED BY <1>2, <1>3, <1>4, <1>5, <1>0 DEF Poller

\* The calls that leave their terminal do not leave a status behind that nobody
\* ends: whoever is shown as cancelling is.
LEMMA LeaveAttends ==
  ASSUME RunInv, Attended, NEW W, NEW outcome, Leave(W, outcome), poll' = poll,
         \A r \in W \cap Runs : ~Stopping(r)
  PROVE  Attended'
  <1>1. ASSUME NEW r \in Runs
        PROVE  /\ runState'[r] = "running" => poll'[r] \in {"wait", "asked"}
               /\ runState'[r] = "cancelling" => pc'[r] \in {"cancelling", "failing"}
    <2>1. CASE r \notin W
      BY <2>1 DEF Leave, Attended, Stopping
    <2>2. CASE r \in W /\ outcome = "ok"
      BY <2>2 DEF Leave, Attended
    <2>3. CASE r \in W /\ outcome # "ok"
      BY <2>3 DEF Leave
    <2> QED BY <2>1, <2>2, <2>3
  <1> QED BY <1>1 DEF Attended, Stopping

LEMMA AttendedStep == RunInv /\ Attended /\ [Next]_vars => Attended'
  <1> SUFFICES ASSUME RunInv, Attended, [Next]_vars PROVE Attended'
    OBVIOUS
  <1>0. /\ runState \in [Runs -> RunStates \cup {"none"}] /\ poll \in [Runs -> PollStates]
        /\ pc \in [Runs -> PcStates] /\ runId \in [Runs -> Runs \cup {Nothing}]
    BY RunParts, RunTypes
  <1>1. ASSUME runState' = runState, poll' = poll,
               \A r \in Runs : Stopping(r) => pc'[r] = pc[r]
        PROVE  Attended'
    BY <1>1 DEF Attended, Stopping
  <1>2. CASE UNCHANGED vars
    BY <1>1, <1>2 DEF vars, status
  <1>3. CASE User
    BY <1>1, <1>3 DEF User, Cancel, UserCloses, ChangeTarget, status
  <1>4. ASSUME NEW r \in Runs, Call(r) PROVE Attended'
    <2>1. CASE Request(r) \/ NotDeployed(r) \/ Spawn(r)
      BY <1>0, <1>1, <2>1 DEF Request, NotDeployed, Spawn, status, Stopping
    <2>2. CASE Run(r)
      <3>1. PICK s \in {"error", "unknown"}, to \in {"done", "command"} :
              runState' = [runState EXCEPT ![r] = s] /\ pc' = [pc EXCEPT ![r] = to]
        BY <2>2 DEF Run
      <3>2. pc[r] = "deploying" /\ poll' = poll
        BY <2>2 DEF Run
      <3> QED BY <1>0, <3>1, <3>2 DEF Attended, Stopping
    <2>3. CASE NoCommand(r)
      <3>1. Leave({r}, "failed") /\ poll' = poll /\ ~Stopping(r)
        BY <2>3 DEF NoCommand, Stopping
      <3> QED BY <3>1, LeaveAttends
    <2> QED BY <1>4, <2>1, <2>2, <2>3 DEF Call
  <1>5. ASSUME NEW r \in Runs, Process(r) PROVE Attended'
    <2>1. CASE Fail(r)
      BY <1>1, <2>1 DEF Fail, status
    <2>2. CASE Exit(r)
      <3>1. PICK code : OnClose(r, code)
        BY <2>2 DEF Exit
      <3>2. PICK outcome : Leave(Waiting(pty[r]), outcome) /\ poll' = poll
        BY <3>1 DEF OnClose
      <3>3. \A q \in Waiting(pty[r]) \cap Runs : ~Stopping(q)
        BY DEF Waiting, Stopping
      <3> QED BY <3>2, <3>3, LeaveAttends
    <2> QED BY <1>5, <2>1, <2>2 DEF Process
  <1>6. ASSUME NEW r \in Runs, Remote(r) PROVE Attended'
    <2>1. CASE RemoteStarts(r) \/ RemoteEnds(r)
      BY <1>1, <2>1 DEF RemoteStarts, RemoteEnds, status
    <2>2. CASE ParseId(r)
      <3> DEFINE Takes == {q \in Waiting(pty[r]) : runId[q] = Nothing /\ runState[q] = "unknown"}
      <3>1. /\ poll' = [q \in Runs |-> IF q \notin Takes THEN poll[q]
                                       ELSE IF kind = "jobs" THEN "client" ELSE "wait"]
            /\ runState' = [q \in Runs |-> IF q \in Takes /\ kind = "pipelines"
                                           THEN "running" ELSE runState[q]]
            /\ pc' = pc
        BY <2>2 DEF ParseId
      <3>2. \A q \in Takes : runState[q] = "unknown"
        OBVIOUS
      <3>3. kind \in {"jobs", "pipelines"}
        BY RunParts, RunTypes
      <3> HIDE DEF Takes
      <3> QED BY <3>1, <3>2, <3>3 DEF Attended, Stopping
    <2> QED BY <1>6, <2>1, <2>2 DEF Remote
  <1>7. ASSUME NEW r \in Runs, Canceller(r) PROVE Attended'
    <2>1. CASE CancelAsks(r) \/ CancelStops(r)
      BY <1>1, <2>1 DEF CancelAsks, CancelStops, CancelStep, status
    <2>2. ASSUME NEW s \in {"error", "cancelled"}, Left(r, s) PROVE Attended'
      BY <1>0, <2>2 DEF Left, Attended, Stopping
    <2> QED BY <1>7, <2>1, <2>2 DEF Canceller, CancelReturns, CancelThrows
  <1> QED BY <1>2, <1>3, <1>4, <1>5, <1>6, <1>7, SetStateAttends DEF Next

\* If no remote run is going, whoever has not settled waits for a process, a
\* poller, its timer or an answer that is there.
LEMMA SomebodyGoes == RunInv /\ Attended => NobodyHangs
  <1> SUFFICES ASSUME RunInv, Attended, NEW r \in Runs, ~Settled(r),
                      \A q \in Runs : remote[q] \notin Going
               PROVE  CanGo(r)
    BY DEF NobodyHangs, CanGo
  <1>0. /\ kind \in {"jobs", "pipelines"} /\ pc[r] \in PcStates /\ proc[r] \in ProcStates
        /\ runState[r] \in RunStates \cup {"none"} /\ stop[r] \in StopStates
        /\ runId[r] \in Runs \cup {Nothing} /\ \A q \in Runs : remote[q] \in RemoteStates
    BY RunParts, RunTypes
  <1>1. CASE pc[r] = "waiting"
    <2>1. proc[r] \in {"running", "killed", "failed"}
      BY <1>1, RunParts DEF CallInv, Alive
    <2>2. remote[r] \in {"none", "ended"}
      BY <1>0 DEF RemoteStates, Going
    <2> QED BY <2>1, <2>2 DEF CanGo
  <1>2. CASE Stopping(r)
    <2>1. runId[r] \in Runs /\ remote[runId[r]] # "none"
      BY <1>0, <1>2, RunParts DEF CallInv
    <2>2. remote[runId[r]] = "ended"
      BY <1>0, <2>1 DEF RemoteStates, Going
    <2>3. CASE stop[r] \in {"ask", "stop"}
      BY <1>2, <2>3 DEF CanGo
    <2>4. CASE stop[r] = "fetch"
      BY <1>2, <2>4 DEF CanGo, Stopped
    <2>5. CASE stop[r] = "wait"
      BY <1>0, <1>2, <2>2, <2>5 DEF CanGo, Stopped
    <2> QED BY <1>0, <2>3, <2>4, <2>5 DEF StopStates
  <1>3. CASE pc[r] \in {"idle", "done"}
    <2>1. runState[r] \in {"unknown", "running", "cancelling"}
      BY <1>0, <1>3 DEF Settled, RunStates, Final
    <2>2. runState[r] # "cancelling"
      BY <1>3 DEF Attended, Stopping
    <2> QED BY <2>1, <2>2 DEF Attended, CanGo
  <1>4. CASE pc[r] \in {"deploying", "command"}
    BY <1>4 DEF CanGo
  <1> QED BY <1>0, <1>1, <1>2, <1>3, <1>4 DEF PcStates, Stopping

\* For any number of calls, targets and interventions: no call waits for an event
\* that cannot come any more, and no status is left in progress with nobody to end
\* it. (The managers, BundleRunStatus.ts, JobRunStatus.ts, PipelineRunStatus.ts.)
THEOREM NobodyEverHangs == Spec => []NobodyHangs
  <1>1. Init => Attended
    BY DEF Init, Attended
  <1> QED BY <1>1, RunInitial, RunStep, AttendedStep, SomebodyGoes, PTL DEF Spec

=============================================================================
