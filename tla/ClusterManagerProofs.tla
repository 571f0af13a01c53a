------------------------ MODULE ClusterManagerProofs ------------------------
(***************************************************************************)
(* ClusterInv together with OnlyEntangledTimersLeak is inductive, for any  *)
(* number of calls and of refreshes under way. The steps fall into four    *)
(* kinds, and only three of them touch the manager's timer and tokens: the *)
(* beginning of a call, its setInterval() and dispose(). One lemma for     *)
(* each kind shows that the parts about timers are kept; the type and the  *)
(* kind of a call's steps are shown action by action.                      *)
(***************************************************************************)
EXTENDS ClusterManager, TLAPS

TimerParts == /\ FieldIsLive /\ OneUncancelled /\ EntangledIsMarked
              /\ FieldWhileInFlight /\ OnlyEntangledTimersLeak

ManagerInv == ClusterInv /\ OnlyEntangledTimersLeak

\* Every step that leaves the manager's fields alone and begins no call.
LEMMA QuietKeepsTimers ==
  ASSUME TimerParts, UNCHANGED timerVars, InFlight' \subseteq InFlight
  PROVE  TimerParts'
  BY DEF TimerParts, FieldIsLive, OneUncancelled, EntangledIsMarked, FieldWhileInFlight,
         OnlyEntangledTimersLeak, Expected, timerVars

\* The beginning of start() and of stop().
LEMMA BeginKeepsTimers ==
  ASSUME TypeOK, TimerParts, NEW c \in Calls, NEW first, first \notin Over, Begin(c, first)
  PROVE  TimerParts'
  <1>1. InFlight' = InFlight \cup {c}
    BY DEF TypeOK, Begin, InFlight
  <1>2. /\ timers' = timers \ {refreshTimer} /\ refreshTimer' = Nothing
        /\ cancelled' = cancelled \cup ({token} \ {Nothing}) /\ token' = c
        /\ disposed' = disposed
        /\ entangled' = entangled \cup InFlight
                        \cup (IF InFlight # {} \/ disposed THEN {c} ELSE {})
    BY DEF Begin, ClearInterval, CancelToken
  <1>3. FieldIsLive' /\ FieldWhileInFlight'
    BY <1>2 DEF FieldIsLive, FieldWhileInFlight
  <1>4. OneUncancelled'
    <2>1. Nothing \notin InFlight
      BY CallsAssumption DEF InFlight
    <2> QED BY <2>1, <1>1, <1>2 DEF TimerParts, OneUncancelled
  <1>5. EntangledIsMarked'
    BY <1>1, <1>2 DEF TimerParts, EntangledIsMarked
  <1>6. OnlyEntangledTimersLeak'
    BY <1>2 DEF TimerParts, OnlyEntangledTimersLeak, Expected
  <1> QED BY <1>3, <1>4, <1>5, <1>6 DEF TimerParts

\* The return of start() and of stop().
LEMMA SetIntervalKeepsTimers ==
  ASSUME TypeOK, TimerParts, NEW c \in InFlight, SetInterval(c)
  PROVE  TimerParts'
  <1>1. InFlight' = InFlight \ {c}
    BY DEF TypeOK, SetInterval, InFlight, Over
  <1>2. /\ timers' = timers \cup {c} /\ refreshTimer' = c
        /\ UNCHANGED <<token, cancelled, disposed, entangled>>
    BY DEF SetInterval
  <1>3. FieldIsLive' /\ OneUncancelled' /\ EntangledIsMarked'
    BY <1>1, <1>2 DEF TimerParts, FieldIsLive, OneUncancelled, EntangledIsMarked
  <1>4. FieldWhileInFlight'
    BY <1>1, <1>2 DEF TimerParts, FieldWhileInFlight, EntangledIsMarked
  <1>5. OnlyEntangledTimersLeak'
    <2>1. CASE disposed
      BY <2>1, <1>2 DEF TimerParts, OnlyEntangledTimersLeak, Expected, EntangledIsMarked
    <2>2. CASE ~disposed
      <3>1. timers \ {refreshTimer} \subseteq entangled
        BY <2>2 DEF TimerParts, OnlyEntangledTimersLeak, Expected
      <3>2. refreshTimer \in entangled \cup {Nothing}
        BY DEF TimerParts, FieldWhileInFlight
      <3>3. Nothing \notin timers
        BY CallsAssumption DEF TypeOK
      <3> QED BY <3>1, <3>2, <3>3, <2>2, <1>2 DEF OnlyEntangledTimersLeak, Expected
    <2> QED BY <2>1, <2>2
  <1> QED BY <1>3, <1>4, <1>5 DEF TimerParts

LEMMA DisposeKeepsTimers ==
  ASSUME TypeOK, TimerParts, Dispose
  PROVE  TimerParts'
  <1>1. InFlight' = InFlight
    BY DEF Dispose, InFlight
  <1>2. /\ ~disposed /\ disposed' = TRUE
        /\ timers' = timers \ {refreshTimer} /\ refreshTimer' = Nothing
        /\ cancelled' = cancelled \cup ({token} \ {Nothing}) /\ token' = token
        /\ entangled' = entangled \cup InFlight
    BY DEF Dispose, ClearInterval, CancelToken
  <1>3. FieldIsLive' /\ FieldWhileInFlight' /\ OneUncancelled' /\ EntangledIsMarked'
    BY <1>1, <1>2 DEF TimerParts, FieldIsLive, FieldWhileInFlight, OneUncancelled, EntangledIsMarked
  <1>4. OnlyEntangledTimersLeak'
    BY <1>2 DEF TimerParts, OnlyEntangledTimersLeak, Expected
  <1> QED BY <1>3, <1>4 DEF TimerParts

LEMMA InitEstablishesInv ==
  Init => ManagerInv
  <1> SUFFICES ASSUME Init PROVE ManagerInv
    OBVIOUS
  <1>1. InFlight = {}
    BY DEF Init, InFlight, Over
  <1>2. TypeOK
    <2>1. /\ pc \in [Calls -> Over] /\ reply \in [Calls -> {Nothing}]
          /\ poll \in [Polls -> {Nothing}]
      BY DEF Init, Over
    <2>2. /\ pc \in [Calls -> Over \cup AwaitingState \cup
                        {"waitTerminated", "callStart", "retry", "callDelete"}]
          /\ reply \in [Calls -> States \cup {Nothing}]
          /\ poll \in [Polls -> States \cup {Nothing, "sent"}]
      BY <2>1
    <2>3. 0 \in 0..MaxChanges
      BY CallsAssumption
    <2> QED BY <2>2, <2>3 DEF Init, TypeOK
  <1>3. TimerParts
    <2>1. OnlyEntangledTimersLeak
      <3>1. ~disposed /\ timers = {Ctor} /\ refreshTimer = Ctor
        BY DEF Init
      <3> QED BY <3>1 DEF OnlyEntangledTimersLeak, Expected
    <2> QED BY <1>1, <2>1 DEF Init, TimerParts, FieldIsLive, OneUncancelled,
                              EntangledIsMarked, FieldWhileInFlight
  <1>4. KindsMatch
    BY DEF Init, KindsMatch, Over, Calls
  <1> QED BY <1>2, <1>3, <1>4 DEF ManagerInv, ClusterInv, TimerParts

-----------------------------------------------------------------------------
(* The steps, one by one. *)

\* Begin of a call of either kind: the type and the kind of its first step.
LEMMA BeginStep ==
  ASSUME ManagerInv, NEW c \in Calls, Start(c) \/ Stop(c)
  PROVE  ManagerInv'
  <1>1. PICK first \in {"refresh", "callDelete"} :
            Begin(c, first) /\ (c \in Starts <=> first = "refresh") /\ (c \in Stops <=> first = "callDelete")
    BY CallsAssumption DEF Start, Stop, Calls
  <1>2. first \notin Over
    BY <1>1 DEF Over
  <1>3. TimerParts'
    BY <1>1, <1>2, BeginKeepsTimers DEF ManagerInv, ClusterInv, TimerParts
  <1>4. pc' = [pc EXCEPT ![c] = first] /\ pc \in [Calls -> Over \cup AwaitingState \cup
                        {"waitTerminated", "callStart", "retry", "callDelete"}]
    BY <1>1 DEF Begin, ManagerInv, ClusterInv, TypeOK
  <1>5. TypeOK'
    <2>1. /\ remote' = remote /\ details' = details /\ disposed' = disposed /\ reply' = reply
          /\ poll' = poll /\ changes' = changes
          /\ timers' \subseteq timers /\ refreshTimer' = Nothing
          /\ cancelled' \subseteq cancelled \cup ({token} \ {Nothing}) /\ token' = c
          /\ entangled' \subseteq entangled \cup InFlight \cup {c}
      BY <1>1 DEF Begin, ClearInterval, CancelToken
    <2>2. pc' \in [Calls -> Over \cup AwaitingState \cup
                        {"waitTerminated", "callStart", "retry", "callDelete"}]
      BY <1>1, <1>4 DEF AwaitingState
    <2> QED BY <2>1, <2>2 DEF TypeOK, ManagerInv, ClusterInv, InFlight
  <1>6. KindsMatch'
    BY <1>1, <1>4 DEF KindsMatch, ManagerInv, ClusterInv, Over, Calls
  <1> QED BY <1>3, <1>5, <1>6 DEF ManagerInv, ClusterInv, TimerParts

\* What a quiet step has to show beyond its type.
LEMMA QuietStep ==
  ASSUME ManagerInv, UNCHANGED timerVars, TypeOK', KindsMatch', InFlight' \subseteq InFlight
  PROVE  ManagerInv'
  BY QuietKeepsTimers DEF ManagerInv, ClusterInv, TimerParts

\* What a returning call has to show beyond its type.
LEMMA ReturnStep ==
  ASSUME ManagerInv, NEW c \in InFlight, SetInterval(c), TypeOK', KindsMatch'
  PROVE  ManagerInv'
  BY SetIntervalKeepsTimers DEF ManagerInv, ClusterInv, TimerParts

\* The cluster changes by itself.
LEMMA RemoteStep ==
  ASSUME ManagerInv, RemoteSettles \/ ChangedElsewhere
  PROVE  ManagerInv'
  <1>1. UNCHANGED timerVars /\ UNCHANGED <<details, pc, reply, poll>>
    BY DEF RemoteSettles, ChangedElsewhere
  <1>2. remote' \in States /\ changes' \in 0..MaxChanges
    BY CallsAssumption DEF RemoteSettles, ChangedElsewhere, States, ManagerInv, ClusterInv, TypeOK
  <1>3. TypeOK'
    BY <1>1, <1>2 DEF TypeOK, timerVars, ManagerInv, ClusterInv
  <1>4. KindsMatch' /\ InFlight' = InFlight
    BY <1>1 DEF KindsMatch, InFlight, ManagerInv, ClusterInv
  <1> QED BY <1>1, <1>3, <1>4, QuietStep

\* The refreshes of the intervals.
LEMMA PollStep ==
  ASSUME ManagerInv, NEW p \in Polls, Tick(p) \/ ServeTick(p) \/ TickAnswered(p) \/ TickFails(p)
  PROVE  ManagerInv'
  <1>1. UNCHANGED timerVars /\ UNCHANGED <<remote, pc, reply, changes>>
    BY DEF Tick, ServeTick, TickAnswered, TickFails
  <1>2. details' \in States /\ poll' \in [Polls -> States \cup {Nothing, "sent"}]
    BY DEF Tick, ServeTick, TickAnswered, TickFails, ManagerInv, ClusterInv, TypeOK
  <1>3. TypeOK'
    BY <1>1, <1>2 DEF TypeOK, timerVars, ManagerInv, ClusterInv
  <1>4. KindsMatch' /\ InFlight' = InFlight
    BY <1>1 DEF KindsMatch, InFlight, ManagerInv, ClusterInv
  <1> QED BY <1>1, <1>3, <1>4, QuietStep

LEMMA DisposeStep ==
  ASSUME ManagerInv, Dispose
  PROVE  ManagerInv'
  <1>1. TimerParts'
    BY DisposeKeepsTimers DEF ManagerInv, ClusterInv, TimerParts
  <1>2. TypeOK'
    BY DEF TypeOK, Dispose, ClearInterval, CancelToken, InFlight, ManagerInv, ClusterInv
  <1>3. KindsMatch'
    BY DEF Dispose, KindsMatch, ManagerInv, ClusterInv
  <1> QED BY <1>1, <1>2, <1>3 DEF ManagerInv, ClusterInv, TimerParts

\* A step of one call that is under way: it stays, returns, or fails.
LEMMA CallStep ==
  ASSUME ManagerInv, NEW c \in Calls, Fails(c) \/ CallStart(c) \/ CallDelete(c) \/ Proceeds(c)
  PROVE  ManagerInv'
  <1> DEFINE Steps == Over \cup AwaitingState \cup
                        {"waitTerminated", "callStart", "retry", "callDelete"}
             Next1(v) == /\ v \in Steps \ {"idle"}
                         /\ c \in Starts => v \notin {"callDelete", "stopping"}
                         /\ c \in Stops => v \in Over \cup {"callDelete", "stopping"}
  <1> USE DEF ManagerInv, ClusterInv
  <1>1. /\ c \in InFlight
        /\ \E v \in Steps : Next1(v) /\ pc' = [pc EXCEPT ![c] = v]
        /\ UNCHANGED <<poll, changes>>
        /\ remote' \in States /\ details' \in States
        /\ reply' \in [Calls -> States \cup {Nothing}]
        /\ UNCHANGED timerVars \/ SetInterval(c)
    <2>0. /\ pc \in [Calls -> Steps] /\ reply \in [Calls -> States \cup {Nothing}]
          /\ remote \in States /\ details \in States
          /\ c \in Starts => pc[c] \notin {"callDelete", "stopping"}
          /\ c \in Stops => pc[c] \in Over \cup {"callDelete", "stopping"}
      BY DEF TypeOK, KindsMatch
    <2>00. ASSUME Stored(c) PROVE details' \in States /\ reply' \in [Calls -> States \cup {Nothing}]
      BY <2>00, <2>0 DEF Stored
    <2>1. CASE Fails(c)
      BY <2>1, <2>0 DEF Fails, InFlight, Over
    <2>2. CASE CallStart(c)
      BY <2>2, <2>0 DEF CallStart, InFlight, Over, States
    <2>3. CASE CallDelete(c)
      BY <2>3, <2>0 DEF CallDelete, InFlight, Over, States, AwaitingState
    <2>4. CASE Serve(c)
      <3>1. pc' = [pc EXCEPT ![c] = pc[c]]
        BY <2>4, <2>0 DEF Serve
      <3> QED BY <2>4, <2>0, <3>1 DEF Serve, InFlight, Over, AwaitingState
    <2>5. CASE Refreshed(c)
      BY <2>5, <2>0, <2>00 DEF Refreshed, SetInterval, InFlight, Over, AwaitingState, States, Down
    <2>6. CASE TerminatingRound(c)
      BY <2>6, <2>0 DEF TerminatingRound, InFlight, Over, AwaitingState
    <2>7. CASE TerminatingAnswered(c)
      BY <2>7, <2>0, <2>00 DEF TerminatingAnswered, InFlight, Over, AwaitingState
    <2>8. CASE RetryRound(c)
      BY <2>8, <2>0 DEF RetryRound, SetInterval, InFlight, Over, AwaitingState
    <2>9. CASE RetryAnswered(c)
      BY <2>9, <2>0, <2>00 DEF RetryAnswered, SetInterval, InFlight, Over, AwaitingState
    <2>10. CASE StopAnswered(c)
      BY <2>10, <2>0, <2>00 DEF StopAnswered, SetInterval, InFlight, Over, AwaitingState
    <2> QED BY <2>1, <2>2, <2>3, <2>4, <2>5, <2>6, <2>7, <2>8, <2>9, <2>10 DEF Proceeds
  <1>2. PICK v \in Steps : Next1(v) /\ pc' = [pc EXCEPT ![c] = v]
    BY <1>1
  <1>3. /\ pc \in [Calls -> Steps] /\ pc' \in [Calls -> Steps]
        /\ \A d \in Calls : pc'[d] = IF d = c THEN v ELSE pc[d]
    BY <1>2 DEF TypeOK
  <1>4. KindsMatch'
    BY <1>2, <1>3 DEF KindsMatch, Calls
  <1>5. InFlight' \subseteq InFlight
    BY <1>1, <1>3 DEF InFlight
  <1>6. TypeOK'
    BY <1>1, <1>3 DEF TypeOK, timerVars, SetInterval
  <1>7. CASE UNCHANGED timerVars
    BY <1>7, <1>4, <1>5, <1>6, QuietStep
  <1>8. CASE SetInterval(c)
    BY <1>8, <1>1, <1>4, <1>6, ReturnStep
  <1> QED BY <1>1, <1>7, <1>8

-----------------------------------------------------------------------------
LEMMA ManagerInvHolds == Spec => []ManagerInv
  <1>1. ManagerInv /\ [Next]_vars => ManagerInv'
    <2> SUFFICES ASSUME ManagerInv, [Next]_vars PROVE ManagerInv'
      OBVIOUS
    <2>1. CASE UNCHANGED vars
      BY <2>1 DEF vars, timerVars, ManagerInv, ClusterInv, TypeOK, FieldIsLive, OneUncancelled,
                  EntangledIsMarked, FieldWhileInFlight, KindsMatch, InFlight,
                  OnlyEntangledTimersLeak, Expected
    <2>2. CASE Next
      BY <2>2, BeginStep, CallStep, PollStep, DisposeStep, RemoteStep DEF Next
    <2> QED BY <2>1, <2>2
  <1> QED BY <1>1, InitEstablishesInv, PTL DEF Spec

\* The fields of the manager agree, whatever calls, refreshes and dispose() do:
\* the interval its field names is live, and of the calls under way at most
\* the last one has not been cancelled.
THEOREM ManagerFieldsAgree == Spec => []ClusterInv
  <1>1. ManagerInv => ClusterInv
    BY DEF ManagerInv
  <1> QED BY <1>1, ManagerInvHolds, PTL

\* A live interval that clearInterval() does not know of was set by a call that
\* overlapped another one or dispose(): one call at a time never leaks any.
THEOREM OnlyOverlapLeaksTimers == Spec => []OnlyEntangledTimersLeak
  <1>1. ManagerInv => OnlyEntangledTimersLeak
    BY DEF ManagerInv
  <1> QED BY <1>1, ManagerInvHolds, PTL

\* A start() that returns without having been cancelled has seen the cluster
\* RUNNING, whatever other calls, late refreshes and the workspace do.
THEOREM StartReturnsOnlyRunning == Spec => StartReturnsRunning
  <1> DEFINE Return(c) == pc[c] # "done" /\ pc'[c] = "done" /\ c \notin cancelled
                              => details' = "RUNNING"
  <1>1. ASSUME ManagerInv, [Next]_vars, NEW c \in Starts PROVE Return(c)
    <2> SUFFICES ASSUME pc[c] # "done", pc'[c] = "done", c \notin cancelled
                 PROVE  details' = "RUNNING"
      OBVIOUS
    <2>1. /\ c \in Calls /\ pc[c] # "stopping"
          /\ pc \in [Calls -> Over \cup AwaitingState \cup
                        {"waitTerminated", "callStart", "retry", "callDelete"}]
      BY <1>1 DEF ManagerInv, ClusterInv, TypeOK, KindsMatch, Calls
    <2>2. pc' # pc
      OBVIOUS
    <2>3. PICK d \in Calls : \/ Start(d) \/ Stop(d) \/ Fails(d)
                             \/ CallStart(d) \/ CallDelete(d) \/ Proceeds(d)
      BY <1>1, <2>2 DEF Next, vars, RemoteSettles, ChangedElsewhere, Dispose, Tick, ServeTick,
                        TickAnswered, TickFails
    <2>4. Refreshed(d) \/ RetryRound(d) \/ RetryAnswered(d) \/ StopAnswered(d)
      BY <2>1, <2>2, <2>3 DEF Start, Stop, Begin, Fails, CallStart, CallDelete, Proceeds, Serve,
                              TerminatingRound, TerminatingAnswered
    <2>5. d = c
      BY <2>1, <2>4 DEF Refreshed, RetryRound, RetryAnswered, StopAnswered, SetInterval
    <2>6. CASE Refreshed(c)
      <3>1. details' \in States
        BY <1>1, <2>1, <2>6 DEF Refreshed, Stored, ManagerInv, ClusterInv, TypeOK
      <3> QED BY <1>1, <2>1, <2>6, <3>1 DEF Refreshed, States, Down
    <2>7. CASE RetryRound(c)
      BY <2>1, <2>7 DEF RetryRound
    <2>8. CASE RetryAnswered(c)
      BY <2>1, <2>8 DEF RetryAnswered
    <2>9. CASE StopAnswered(c)
      BY <2>1, <2>9 DEF StopAnswered
    <2> QED BY <2>4, <2>5, <2>6, <2>7, <2>8, <2>9
  <1>2. ManagerInv /\ [Next]_vars => [\A c \in Starts : Return(c)]_vars
    BY <1>1
  <1> QED BY <1>2, ManagerInvHolds, PTL DEF Spec, StartReturnsRunning
=============================================================================
