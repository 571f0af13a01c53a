--------------------------- MODULE ClusterManager ---------------------------
(***************************************************************************)
(* The cluster the user is attached to: cluster/ClusterManager.ts and the  *)
(* start and stop of sdk-extensions/Cluster.ts.                            *)
(*                                                                         *)
(* A manager polls the cluster on an interval. start() and stop() suspend  *)
(* the interval, cancel the call before them, follow the cluster until it  *)
(* is up or down and put a new interval in place. Nothing serialises them: *)
(* they interleave with one another, with answers to polls that are still  *)
(* under way and with dispose(), which ConnectionManager calls when        *)
(* another cluster is selected.                                            *)
(*                                                                         *)
(* A call is written as its stretches between two awaits. The cluster      *)
(* itself is the workspace's and changes by its own steps. Its states      *)
(* UNKNOWN, RESTARTING and RESIZING, and the notifications of onChange and *)
(* onProgress, are left out.                                               *)
(***************************************************************************)
EXTENDS Integers, FiniteSets

CONSTANTS
    Starts,      \* the calls of start()
    Stops,       \* the calls of stop()
    Ctor,        \* names the interval the constructor puts in place
    Nothing,     \* no timer, no call, no answer
    Polls,       \* interval refreshes that can be under way at once
    MaxChanges   \* bound: changes of the cluster that come from elsewhere

Calls == Starts \cup Stops

ASSUME CallsAssumption ==
    /\ Starts \cap Stops = {}
    /\ Ctor \notin Calls /\ Nothing \notin Calls /\ Ctor # Nothing
    /\ MaxChanges \in Nat

States == {"TERMINATED", "PENDING", "RUNNING", "TERMINATING", "ERROR"}
Down == {"TERMINATED", "ERROR"}

ASSUME StatesAssumption == Nothing \notin States \cup {"sent"}

VARIABLES
    remote,        \* the cluster's state in the workspace
    details,       \* cluster.state, the last answer that was stored
    timers,        \* the live intervals, each named by the call that set it
    refreshTimer,  \* the field: the interval clearInterval() would clear
    token,         \* the call whose token cancellationTokenSource holds
    cancelled,     \* the calls whose token is cancelled
    disposed,      \* dispose() was called
    pc,            \* where each call is
    reply,         \* what each call's request has been answered, unread yet
    poll,          \* the same for the refreshes of the intervals
    changes,       \* changes from elsewhere so far
    entangled      \* history: the calls that met another call or dispose()

vars == <<remote, details, timers, refreshTimer, token, cancelled, disposed,
          pc, reply, poll, changes, entangled>>

timerVars == <<timers, refreshTimer, token, cancelled, disposed, entangled>>

Init ==
    /\ remote \in States
    /\ details = remote
    /\ timers = {Ctor} /\ refreshTimer = Ctor
    /\ token = Nothing /\ cancelled = {} /\ disposed = FALSE
    /\ pc = [c \in Calls |-> "idle"]
    /\ reply = [c \in Calls |-> Nothing]
    /\ poll = [p \in Polls |-> Nothing]
    /\ changes = 0 /\ entangled = {}

Over == {"idle", "done", "failed"}
InFlight == {c \in Calls : pc[c] \notin Over}

-----------------------------------------------------------------------------
(* The cluster in the workspace. *)

\* A start or a stop goes on by itself; a cluster that starts may fail.
RemoteSettles ==
    /\ \/ remote = "PENDING" /\ remote' \in {"RUNNING", "TERMINATED", "ERROR"}
       \/ remote = "TERMINATING" /\ remote' = "TERMINATED"
    /\ UNCHANGED <<details, timerVars, pc, reply, poll, changes>>

\* Somebody else starts or stops it, or it stops for being idle.
ChangedElsewhere ==
    /\ changes < MaxChanges
    /\ \/ remote \in Down /\ remote' = "PENDING"
       \/ remote = "RUNNING" /\ remote' = "TERMINATING"
    /\ changes' = changes + 1
    /\ UNCHANGED <<details, timerVars, pc, reply, poll>>

-----------------------------------------------------------------------------
(* The interval. A refresh that takes longer than the interval does not keep *)
(* the next one from being sent, and clearing the interval does not recall   *)
(* the refreshes it has sent.                                                *)

Tick(p) ==
    /\ timers # {} /\ poll[p] = Nothing
    /\ poll' = [poll EXCEPT ![p] = "sent"]
    /\ UNCHANGED <<remote, details, timerVars, pc, reply, changes>>

ServeTick(p) ==
    /\ poll[p] = "sent"
    /\ poll' = [poll EXCEPT ![p] = remote]
    /\ UNCHANGED <<remote, details, timerVars, pc, reply, changes>>

TickAnswered(p) ==
    /\ poll[p] \in States
    /\ details' = poll[p]
    /\ poll' = [poll EXCEPT ![p] = Nothing]
    /\ UNCHANGED <<remote, timerVars, pc, reply, changes>>

\* The error is logged; the interval goes on. (That the request fails before
\* the workspace has looked at the cluster makes no difference.)
TickFails(p) ==
    /\ poll[p] \in States
    /\ poll' = [poll EXCEPT ![p] = Nothing]
    /\ UNCHANGED <<remote, details, timerVars, pc, reply, changes>>

-----------------------------------------------------------------------------
(* The manager's bookkeeping around a call. *)

\* clearInterval()
ClearInterval ==
    /\ timers' = timers \ {refreshTimer}
    /\ refreshTimer' = Nothing

\* cancellationTokenSource?.cancel()
CancelToken == cancelled' = cancelled \cup ({token} \ {Nothing})

\* Mutant of Begin: setInterval() without clearInterval() at the beginning of a call.
BeginKeepsInterval(c, first) ==
    /\ pc[c] = "idle"
    /\ CancelToken
    /\ token' = c
    /\ pc' = [pc EXCEPT ![c] = first]
    /\ entangled' = entangled \cup InFlight
                    \cup (IF InFlight # {} \/ disposed THEN {c} ELSE {})
    /\ UNCHANGED <<remote, details, timers, refreshTimer, disposed, reply, poll, changes>>

\* Mutant of Begin: The call before is not cancelled.
BeginWithoutCancel(c, first) ==
    /\ pc[c] = "idle"
    /\ ClearInterval
    /\ token' = c
    /\ pc' = [pc EXCEPT ![c] = first]
    /\ entangled' = entangled \cup InFlight
                    \cup (IF InFlight # {} \/ disposed THEN {c} ELSE {})
    /\ UNCHANGED <<remote, details, cancelled, disposed, reply, poll, changes>>

\* The synchronous beginning of start() and stop().
Begin(c, first) ==
    /\ pc[c] = "idle"
    /\ ClearInterval
    /\ CancelToken
    /\ token' = c
    /\ pc' = [pc EXCEPT ![c] = first]
    /\ entangled' = entangled \cup InFlight
                    \cup (IF InFlight # {} \/ disposed THEN {c} ELSE {})
    /\ UNCHANGED <<remote, details, disposed, reply, poll, changes>>

\* The end of start() and stop(): the setInterval() after cluster.start()
\* or cluster.stop() has returned.
SetInterval(c) ==
    /\ timers' = timers \cup {c}
    /\ refreshTimer' = c
    /\ pc' = [pc EXCEPT ![c] = "done"]
    /\ UNCHANGED <<token, cancelled, disposed, entangled>>

\* A request or a retry fails, or the time of a retry runs out: the error
\* leaves start() or stop() before its setInterval().
Fails(c) ==
    /\ c \in InFlight
    /\ pc' = [pc EXCEPT ![c] = "failed"]
    /\ reply' = [reply EXCEPT ![c] = Nothing]
    /\ UNCHANGED <<remote, details, timerVars, poll, changes>>

Dispose ==
    /\ ~disposed
    /\ disposed' = TRUE
    /\ CancelToken
    /\ ClearInterval
    /\ entangled' = entangled \cup InFlight
    /\ UNCHANGED <<remote, details, token, pc, reply, poll, changes>>

-----------------------------------------------------------------------------
(* Cluster.start() and Cluster.stop(). *)

AwaitingState == {"refresh", "terminating", "polling", "stopping"}

\* The workspace answers the refresh a call waits for.
Serve(c) ==
    /\ pc[c] \in AwaitingState /\ reply[c] = Nothing
    /\ reply' = [reply EXCEPT ![c] = remote]
    /\ UNCHANGED <<remote, details, timerVars, pc, poll, changes>>

\* The answer is stored, and the call is left to decide on it.
Stored(c) ==
    /\ reply[c] # Nothing
    /\ details' = reply[c]
    /\ reply' = [reply EXCEPT ![c] = Nothing]

\* Mutant of Refreshed: The early return of a start() that finds the cluster RUNNING goes past
\* setInterval().
RefreshedReturnsEarly(c) ==
    /\ pc[c] = "refresh" /\ Stored(c)
    /\ pc' = [pc EXCEPT ![c] =
                  CASE details' = "RUNNING" -> "done"
                    [] details' \in Down -> "callStart"
                    [] details' = "TERMINATING" -> "waitTerminated"
                    [] details' = "PENDING" -> "retry"]
    /\ UNCHANGED <<remote, timerVars, poll, changes>>

\* start() refreshes first and looks at what it finds.
Refreshed(c) ==
    /\ pc[c] = "refresh" /\ Stored(c)
    /\ \/ details' = "RUNNING" /\ SetInterval(c)
       \/ /\ details' # "RUNNING"
          /\ pc' = [pc EXCEPT ![c] =
                        CASE details' \in Down -> "callStart"
                          [] details' = "TERMINATING" -> "waitTerminated"
                          [] details' = "PENDING" -> "retry"]
          /\ UNCHANGED timerVars
    /\ UNCHANGED <<remote, poll, changes>>

\* One round of the wait for a cluster that is TERMINATING; a cancelled call
\* leaves the wait, and goes on to start the cluster.
TerminatingRound(c) ==
    /\ pc[c] = "waitTerminated"
    /\ pc' = [pc EXCEPT ![c] = IF c \in cancelled THEN "callStart"
                                                  ELSE "terminating"]
    /\ UNCHANGED <<remote, details, timerVars, reply, poll, changes>>

TerminatingAnswered(c) ==
    /\ pc[c] = "terminating" /\ Stored(c)
    /\ pc' = [pc EXCEPT ![c] = IF details' = "TERMINATING"
                               THEN "waitTerminated" ELSE "callStart"]
    /\ UNCHANGED <<remote, timerVars, poll, changes>>

\* clusterApi.start(): the workspace refuses it (Fails) unless the cluster is
\* down.
CallStart(c) ==
    /\ pc[c] = "callStart" /\ remote \in Down
    /\ remote' = "PENDING"
    /\ pc' = [pc EXCEPT ![c] = "retry"]
    /\ UNCHANGED <<details, timerVars, reply, poll, changes>>

\* Mutant of RetryRound: The round does not look at the token.
RetryRoundIgnoresToken(c) ==
    /\ pc[c] = "retry"
    /\ pc' = [pc EXCEPT ![c] = "polling"]
    /\ UNCHANGED <<remote, details, timerVars, reply, poll, changes>>

\* One round of the wait for RUNNING; a cancelled call returns.
RetryRound(c) ==
    /\ pc[c] = "retry"
    /\ IF c \in cancelled
       THEN SetInterval(c)
       ELSE pc' = [pc EXCEPT ![c] = "polling"] /\ UNCHANGED timerVars
    /\ UNCHANGED <<remote, details, reply, poll, changes>>

\* Mutant of RetryAnswered: A cluster that does not run yet counts as started.
RetryAnsweredOnce(c) ==
    /\ pc[c] = "polling" /\ Stored(c)
    /\ \/ details' \notin Down /\ SetInterval(c)
       \/ /\ details' \in Down
          /\ pc' = [pc EXCEPT ![c] = "failed"]
          /\ UNCHANGED timerVars
    /\ UNCHANGED <<remote, poll, changes>>

RetryAnswered(c) ==
    /\ pc[c] = "polling" /\ Stored(c)
    /\ \/ details' = "RUNNING" /\ SetInterval(c)
       \/ /\ details' # "RUNNING"
          /\ pc' = [pc EXCEPT ![c] = IF details' \in Down THEN "failed"
                                                          ELSE "retry"]
          /\ UNCHANGED timerVars
    /\ UNCHANGED <<remote, poll, changes>>

\* clusterApi.delete(): stops the cluster, whatever it was doing.
CallDelete(c) ==
    /\ pc[c] = "callDelete"
    /\ remote' = IF remote \in {"PENDING", "RUNNING"} THEN "TERMINATING"
                                                      ELSE remote
    /\ pc' = [pc EXCEPT ![c] = "stopping"]
    /\ UNCHANGED <<details, timerVars, reply, poll, changes>>

\* The waiter of clusterApi.delete() polls until the cluster is TERMINATED;
\* it throws when the cluster is in ERROR.
StopAnswered(c) ==
    /\ pc[c] = "stopping" /\ Stored(c)
    /\ \/ details' = "TERMINATED" /\ SetInterval(c)
       \/ /\ details' # "TERMINATED"
          /\ pc' = [pc EXCEPT ![c] = IF details' = "ERROR" THEN "failed"
                                                           ELSE "stopping"]
          /\ UNCHANGED timerVars
    /\ UNCHANGED <<remote, poll, changes>>

-----------------------------------------------------------------------------
Start(c) == c \in Starts /\ Begin(c, "refresh")
Stop(c) == c \in Stops /\ Begin(c, "callDelete")

\* What a call does by itself once the workspace answers.
Proceeds(c) ==
    \/ Serve(c) \/ Refreshed(c)
    \/ TerminatingRound(c) \/ TerminatingAnswered(c)
    \/ RetryRound(c) \/ RetryAnswered(c)
    \/ StopAnswered(c)

Next ==
    \/ RemoteSettles
    \/ ChangedElsewhere
    \/ Dispose
    \/ \E c \in Calls : \/ Start(c) \/ Stop(c) \/ Fails(c)
                        \/ CallStart(c) \/ CallDelete(c) \/ Proceeds(c)
    \/ \E p \in Polls : Tick(p) \/ ServeTick(p) \/ TickAnswered(p) \/ TickFails(p)

\* A call's code runs when what it awaits has come, requests end in an answer
\* or an error, and an interval fires again and again; of the refreshes that
\* are sent again and again, some are answered.
Fairness ==
    /\ \A c \in Calls : /\ WF_vars(Proceeds(c))
                        /\ WF_vars(CallDelete(c))
                        /\ WF_vars((CallStart(c) \/ Fails(c)) /\ pc[c] = "callStart")
    /\ \A p \in Polls : /\ WF_vars(Tick(p)) /\ WF_vars(ServeTick(p))
                        /\ SF_vars(TickAnswered(p))

Spec == Init /\ [][Next]_vars /\ Fairness

-----------------------------------------------------------------------------
(* Properties. *)

TypeOK ==
    /\ remote \in States /\ details \in States
    /\ timers \subseteq Calls \cup {Ctor}
    /\ refreshTimer \in Calls \cup {Ctor, Nothing}
    /\ token \in Calls \cup {Nothing}
    /\ cancelled \subseteq Calls /\ disposed \in BOOLEAN
    /\ pc \in [Calls -> Over \cup AwaitingState \cup
                        {"waitTerminated", "callStart", "retry", "callDelete"}]
    /\ reply \in [Calls -> States \cup {Nothing}]
    /\ poll \in [Polls -> States \cup {Nothing, "sent"}]
    /\ changes \in 0..MaxChanges
    /\ entangled \subseteq Calls

\* The field never names an interval that is gone: what clearInterval() clears
\* is live, or there is nothing to clear.
FieldIsLive == refreshTimer = Nothing \/ refreshTimer \in timers

\* Of all the calls under way, at most the last one still counts: every other
\* one has been told to stop.
OneUncancelled == InFlight \ cancelled \subseteq {token}

\* A call that meets another one under way, or dispose(), is marked.
EntangledIsMarked ==
    /\ \A c, d \in InFlight : c # d => c \in entangled
    /\ disposed => InFlight \subseteq entangled

\* While a call is under way, an interval that the field names was set by
\* another call that this one overlapped.
FieldWhileInFlight == InFlight # {} => refreshTimer \in entangled \cup {Nothing}

\* A start() never stops the cluster, a stop() never starts it.
KindsMatch ==
    /\ \A c \in Starts : pc[c] \notin {"callDelete", "stopping"}
    /\ \A c \in Stops : pc[c] \in Over \cup {"callDelete", "stopping"}

\* The manager's fields, whatever start(), stop(), dispose() and the interval do
\* to one another: the named parts above.
ClusterInv == /\ TypeOK /\ FieldIsLive /\ OneUncancelled
              /\ EntangledIsMarked /\ FieldWhileInFlight /\ KindsMatch

\* The one interval a manager should have: the one its field names while it is in
\* use, none after dispose(). Every other live interval, which nobody will ever
\* clear, was set by a call that overlapped another call or outlived dispose().
Expected == IF disposed THEN {} ELSE {refreshTimer}

OnlyEntangledTimersLeak == timers \ Expected \subseteq entangled

\* A start() that returns without having been cancelled leaves the cluster
\* RUNNING as far as the extension knows (the return of Cluster.start).
StartReturnsRunning ==
    [][\A c \in Starts :
          pc[c] # "done" /\ pc'[c] = "done" /\ c \notin cancelled
              => details' = "RUNNING"]_vars

\* A start() that is cancelled, by stop(), by another start() or by dispose(),
\* ends, even if the cluster stays PENDING or TERMINATING for ever.
CancelledStartEnds ==
    \A c \in Starts : c \in cancelled ~> c \notin InFlight

\* Once the last call has returned and the manager is in use, the extension
\* comes to show the state the cluster has, and keeps showing it: no return
\* leaves the manager without an interval, and no late answer wins for good.
LastCallReturned == token = Nothing \/ pc[token] = "done"

FollowsTheCluster ==
    \A s \in States :
        <>[](LastCallReturned /\ ~disposed /\ remote = s) => <>[](details = s)

=============================================================================
