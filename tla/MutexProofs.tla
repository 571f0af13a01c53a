---------------------------- MODULE MutexProofs -----------------------------
(***************************************************************************)
(* Mutual exclusion and the refinement of the first-come first-served lock *)
(* for any set of callers.  Inv is inductive: mutual exclusion alone is    *)
(* not, because signal() resolves a waiter without looking at _locked, so  *)
(* the proof needs that waitQueue holds suspended callers only, each once, *)
(* and that the flag is set while there is one.                            *)
(***************************************************************************)
EXTENDS Mutex, SequenceTheorems, TLAPS

\* The mutex invariant holds initially: nobody is in a call.
LEMMA InitInv == Init => Inv
  <1> SUFFICES ASSUME Init PROVE Inv
    OBVIOUS
  <1>1. waitQueue \in Seq(Procs) /\ Len(waitQueue) = 0 /\ 1..Len(waitQueue) = {}
    BY DEF Init
  <1>2. TypeOK /\ MutualExclusion /\ LockedIffHeld
    BY <1>1 DEF Init, TypeOK, MutualExclusion, LockedIffHeld, Holding
  <1>3. QueueIsTheWaiters
    BY <1>1 DEF Init, QueueIsTheWaiters
  <1> QED BY <1>2, <1>3 DEF Inv

\* wait() keeps the invariant: it takes a free lock or queues the caller once.
LEMMA WaitInv == ASSUME Inv, NEW p \in Procs, wait(p) PROVE Inv'
  <1> USE DEF Inv, TypeOK, MutualExclusion, LockedIffHeld, QueueIsTheWaiters, Holding
  <1>1. CASE _locked
    <2>1. /\ waitQueue' = Append(waitQueue, p)
          /\ pc' = [pc EXCEPT ![p] = "waiting"]
          /\ _locked' = _locked
          /\ pc[p] = "idle"
      BY <1>1 DEF wait
    <2>2. /\ waitQueue' \in Seq(Procs)
          /\ Len(waitQueue') = Len(waitQueue) + 1
          /\ \A i \in 1..Len(waitQueue) : waitQueue'[i] = waitQueue[i]
          /\ waitQueue'[Len(waitQueue) + 1] = p
      BY <2>1
    <2>3. TypeOK' /\ MutualExclusion' /\ LockedIffHeld'
      BY <1>1, <2>1, <2>2
    <2>4. \A i \in 1..Len(waitQueue) : waitQueue[i] # p
      BY <2>1
    <2>5. QueueIsTheWaiters'
      <3>1. \A q \in Procs : pc'[q] = "waiting" <=> \E i \in 1..Len(waitQueue') : waitQueue'[i] = q
        BY <2>1, <2>2
      <3>2. \A i, j \in 1..Len(waitQueue') : waitQueue'[i] = waitQueue'[j] => i = j
        <4> SUFFICES ASSUME NEW i \in 1..Len(waitQueue'), NEW j \in 1..Len(waitQueue'),
                            waitQueue'[i] = waitQueue'[j]
                     PROVE  i = j
          OBVIOUS
        <4>1. CASE i \in 1..Len(waitQueue) /\ j \in 1..Len(waitQueue)
          <5>1. waitQueue[i] = waitQueue[j]
            BY <2>2, <4>1
          <5> QED BY <4>1, <5>1
        <4>2. CASE i = Len(waitQueue) + 1 \/ j = Len(waitQueue) + 1
          BY <2>2, <2>4, <4>2
        <4> QED BY <2>2, <4>1, <4>2
      <3> QED BY <1>1, <2>1, <3>1, <3>2
    <2> QED BY <2>3, <2>5
  <1>2. CASE ~_locked
    <2>1. /\ waitQueue' = waitQueue
          /\ pc' = [pc EXCEPT ![p] = "resolved"]
          /\ _locked' = TRUE
          /\ pc[p] = "idle"
      BY <1>2 DEF wait
    <2>2. TypeOK' /\ MutualExclusion' /\ LockedIffHeld'
      BY <1>2, <2>1
    <2>3. QueueIsTheWaiters'
      BY <1>2, <2>1
    <2> QED BY <2>2, <2>3
  <1> QED BY <1>1, <1>2

\* Starting the function passed to synchronise() keeps the invariant.
LEMMA CallFnInv == ASSUME Inv, NEW p \in Procs, callFn(p) PROVE Inv'
  BY DEF Inv, TypeOK, MutualExclusion, LockedIffHeld, QueueIsTheWaiters, Holding, callFn

\* signal() keeps the invariant: the lock goes to the first waiter or is freed.
LEMMA SignalInv == ASSUME Inv, NEW p \in Procs, signal(p) PROVE Inv'
  <1> USE DEF Inv, TypeOK, MutualExclusion, LockedIffHeld, QueueIsTheWaiters, Holding
  <1>1. CASE waitQueue # << >>
    <2> DEFINE h == Head(waitQueue)
    <2>1. /\ waitQueue' = Tail(waitQueue)
          /\ pc' = [pc EXCEPT ![p] = "idle", ![h] = "resolved"]
          /\ _locked' = _locked
          /\ pc[p] = "critical"
      BY <1>1 DEF signal
    <2>2. /\ h = waitQueue[1] /\ h \in Procs
          /\ waitQueue' \in Seq(Procs)
          /\ Len(waitQueue') = Len(waitQueue) - 1
          /\ \A i \in 1..Len(waitQueue') : waitQueue'[i] = waitQueue[i+1]
          /\ Len(waitQueue) \in Nat /\ Len(waitQueue) > 0
      BY <1>1, <2>1
    <2>3. pc[h] = "waiting" /\ h # p /\ _locked
      BY <1>1, <2>1, <2>2
    <2>4. TypeOK' /\ MutualExclusion' /\ LockedIffHeld'
      BY <2>1, <2>2, <2>3
    <2>5. QueueIsTheWaiters'
      <3>1. ASSUME NEW q \in Procs, pc'[q] = "waiting"
            PROVE  \E i \in 1..Len(waitQueue') : waitQueue'[i] = q
        <4>1. pc[q] = "waiting" /\ q # h
          BY <2>1, <2>2, <3>1
        <4>2. PICK i \in 1..Len(waitQueue) : waitQueue[i] = q
          BY <4>1
        <4>3. i - 1 \in 1..Len(waitQueue') /\ waitQueue'[i - 1] = q
          BY <2>2, <4>1, <4>2
        <4> QED BY <4>3
      <3>2. ASSUME NEW q \in Procs, NEW i \in 1..Len(waitQueue'), waitQueue'[i] = q
            PROVE  pc'[q] = "waiting"
        <4>1. i + 1 \in 1..Len(waitQueue) /\ waitQueue[i+1] = q /\ i + 1 # 1
          BY <2>2, <3>2
        <4>2. pc[q] = "waiting" /\ q # h
          BY <2>2, <4>1
        <4> QED BY <2>1, <4>2
      <3>3. \A i, j \in 1..Len(waitQueue') : waitQueue'[i] = waitQueue'[j] => i = j
        <4> SUFFICES ASSUME NEW i \in 1..Len(waitQueue'), NEW j \in 1..Len(waitQueue'),
                            waitQueue'[i] = waitQueue'[j]
                     PROVE  i = j
          OBVIOUS
        <4>1. /\ i + 1 \in 1..Len(waitQueue) /\ j + 1 \in 1..Len(waitQueue)
              /\ waitQueue[i+1] = waitQueue[j+1]
          BY <2>2
        <4>2. i + 1 = j + 1
          BY <4>1
        <4> QED BY <4>2
      <3> QED BY <2>1, <2>3, <3>1, <3>2, <3>3
    <2> QED BY <2>4, <2>5
  <1>2. CASE waitQueue = << >>
    <2>1. /\ waitQueue' = << >>
          /\ pc' = [pc EXCEPT ![p] = "idle"]
          /\ _locked' = FALSE
          /\ pc[p] = "critical"
      BY <1>2 DEF signal
    <2>2. Len(waitQueue) = 0 /\ 1..Len(waitQueue) = {}
      BY <1>2
    <2>3. TypeOK' /\ \A q \in Procs : pc'[q] \notin {"resolved", "critical"}
      <3>1. \A q \in Procs : q # p => pc[q] \notin {"resolved", "critical"}
        BY <2>1
      <3>2. \A q \in Procs : pc'[q] \notin {"resolved", "critical"}
        BY <2>1, <3>1
      <3>3. << >> \in Seq(Procs)
        OBVIOUS
      <3>4. TypeOK'
        BY <2>1, <3>3
      <3> QED BY <3>2, <3>4
    <2>4. \A q \in Procs : pc'[q] # "waiting"
      BY <2>1, <2>2
    <2>5. QueueIsTheWaiters'
      BY <1>2, <2>1, <2>2, <2>4
    <2>6. MutualExclusion' /\ LockedIffHeld'
      BY <2>1, <2>3
    <2> QED BY <2>3, <2>5, <2>6
  <1> QED BY <1>1, <1>2

\* The invariant is preserved by every step of every caller.
LEMMA NextInv == Inv /\ [Next]_vars => Inv'
  <1> SUFFICES ASSUME Inv, [Next]_vars PROVE Inv'
    OBVIOUS
  <1>1. CASE UNCHANGED vars
    BY <1>1 DEF vars, Inv, TypeOK, MutualExclusion, LockedIffHeld, QueueIsTheWaiters, Holding
  <1>2. ASSUME NEW p \in Procs, wait(p) \/ callFn(p) \/ signal(p) PROVE Inv'
    BY <1>2, WaitInv, CallFnInv, SignalInv
  <1> QED BY <1>1, <1>2 DEF Next

\* The inductive invariant of the mutex holds in every reachable state.
THEOREM MutexInv == Spec => []Inv
  BY InitInv, NextInv, PTL DEF Spec

\* At most one caller at a time is past `await this.wait()` of Mutex.ts, for any
\* set of callers.
THEOREM MutexExcludes == Spec => []MutualExclusion
  <1>1. Inv => MutualExclusion
    BY DEF Inv
  <1> QED BY <1>1, MutexInv, PTL

-----------------------------------------------------------------------------
\* The holder stands first in the line of the abstract lock.
HolderFirst ==
  \A p \in Procs : Holding(p) => _locked /\ LineOf = <<p>> \o waitQueue

\* The callers past the await are the head of the line.
LEMMA LineOfHolder == Inv => HolderFirst
  <1> SUFFICES ASSUME Inv, NEW p \in Procs, Holding(p)
               PROVE  _locked /\ LineOf = <<p>> \o waitQueue
    BY DEF HolderFirst
  <1>1. _locked
    BY DEF Inv, LockedIffHeld
  <1>2. \A q \in Procs : Holding(q) => q = p
    BY DEF Inv, MutualExclusion
  <1>3. (CHOOSE q \in Procs : Holding(q)) = p
    BY <1>2
  <1> QED BY <1>1, <1>3 DEF LineOf

\* The same in the state after a step.
LEMMA LineOfHolderNext == Inv' => HolderFirst'
  BY LineOfHolder, PTL

\* A free mutex is an empty line.
LEMMA LineOfFree == Inv /\ ~_locked => LineOf = << >> /\ waitQueue = << >>
  BY DEF Inv, QueueIsTheWaiters, LineOf

\* A call of wait() joins the line, whether it takes the lock or queues.
LEMMA WaitJoins == ASSUME Inv, Inv', NEW p \in Procs, wait(p) PROVE FL!Join(p)
  <1> DEFINE in == {q \in Procs : pc[q] = "critical"}
  <1>1. pc \in [Procs -> {"idle", "waiting", "resolved", "critical"}] /\ waitQueue \in Seq(Procs)
    BY DEF Inv, TypeOK
  <1>2. in' = in
    BY <1>1 DEF wait
  <1>3. \A i \in 1..Len(waitQueue) : waitQueue[i] # p
    BY DEF Inv, QueueIsTheWaiters, wait
  <1>4. CASE _locked
    <2>1. PICK h \in Procs : Holding(h)
      BY <1>4 DEF Inv, LockedIffHeld
    <2>2. h # p /\ Holding(h)'
      BY <1>1, <1>4, <2>1 DEF wait, Holding
    <2>3. LineOf = <<h>> \o waitQueue
      BY <2>1, LineOfHolder DEF HolderFirst
    <2>4. HolderFirst'
      BY LineOfHolderNext
    <2>5. LineOf' = <<h>> \o waitQueue'
      BY <2>2, <2>4 DEF HolderFirst
    <2>6. waitQueue' = Append(waitQueue, p)
      BY <1>4 DEF wait
    <2>7. LineOf' = Append(LineOf, p)
      BY <1>1, <2>3, <2>5, <2>6
    <2>8. \A i \in 1..Len(LineOf) : LineOf[i] # p
      BY <1>1, <1>3, <2>2, <2>3
    <2> QED BY <1>2, <2>7, <2>8 DEF FL!Join, FL!Wait
  <1>5. CASE ~_locked
    <2>1. LineOf = << >> /\ waitQueue = << >>
      BY <1>5, LineOfFree
    <2>2. Holding(p)' /\ waitQueue' = << >>
      BY <1>1, <1>5, <2>1 DEF wait, Holding
    <2>3. HolderFirst'
      BY LineOfHolderNext
    <2>4. LineOf' = <<p>> \o << >>
      BY <2>2, <2>3 DEF HolderFirst
    <2>5. LineOf' = Append(LineOf, p)
      BY <2>1, <2>4
    <2>6. \A i \in 1..Len(LineOf) : LineOf[i] # p
      BY <2>1
    <2> QED BY <1>2, <2>5, <2>6 DEF FL!Join, FL!Wait
  <1> QED BY <1>4, <1>5

\* The continuation after the await enters as the head of the line.
LEMMA CallFnEnters == ASSUME Inv, Inv', NEW p \in Procs, callFn(p) PROVE FL!Enter(p)
  <1>1. pc \in [Procs -> {"idle", "waiting", "resolved", "critical"}] /\ waitQueue \in Seq(Procs)
    BY DEF Inv, TypeOK
  <1>2. Holding(p) /\ Holding(p)' /\ waitQueue' = waitQueue
    BY <1>1 DEF callFn, Holding
  <1>3. LineOf = <<p>> \o waitQueue
    BY <1>2, LineOfHolder DEF HolderFirst
  <1>4. HolderFirst'
    BY LineOfHolderNext
  <1>5. LineOf' = LineOf
    BY <1>2, <1>3, <1>4 DEF HolderFirst
  <1>6. LineOf # << >> /\ Head(LineOf) = p
    BY <1>1, <1>3
  <1>7. {q \in Procs : pc[q] = "critical"} = {} /\ {q \in Procs : pc'[q] = "critical"} = {p}
    BY <1>1 DEF callFn, Inv, MutualExclusion, Holding
  <1> QED BY <1>5, <1>6, <1>7 DEF FL!Enter, FL!Holds

\* signal() leaves the line: the next in the line becomes its head.
LEMMA SignalLeaves == ASSUME Inv, Inv', NEW p \in Procs, signal(p) PROVE FL!Leave(p)
  <1>1. pc \in [Procs -> {"idle", "waiting", "resolved", "critical"}] /\ waitQueue \in Seq(Procs)
    BY DEF Inv, TypeOK
  <1>2. Holding(p) /\ pc[p] = "critical"
    BY DEF signal, Holding
  <1>3. LineOf = <<p>> \o waitQueue
    BY <1>2, LineOfHolder DEF HolderFirst
  <1>4. LineOf # << >> /\ Head(LineOf) = p /\ Tail(LineOf) = waitQueue
    BY <1>1, <1>3
  <1>5. \A q \in Procs : q # p => pc[q] # "critical"
    BY <1>2 DEF Inv, MutualExclusion, Holding
  <1>6. CASE waitQueue # << >>
    <2>0. PICK h \in Procs : h = Head(waitQueue)
      BY <1>1, <1>6
    <2>1. waitQueue' = Tail(waitQueue) /\ pc' = [pc EXCEPT ![p] = "idle", ![h] = "resolved"]
      BY <1>1, <1>6, <2>0 DEF signal
    <2>2. Holding(h)'
      BY <1>1, <2>1 DEF Holding
    <2>3. HolderFirst'
      BY LineOfHolderNext
    <2>4. LineOf' = <<h>> \o Tail(waitQueue)
      BY <2>1, <2>2, <2>3 DEF HolderFirst
    <2>5. <<h>> \o Tail(waitQueue) = waitQueue
      BY <1>1, <1>6, <2>0
    <2>6. {q \in Procs : pc'[q] = "critical"} = {}
      BY <1>1, <1>5, <2>1
    <2> QED BY <1>2, <1>4, <2>4, <2>5, <2>6 DEF FL!Leave, FL!Holds, FL!Signal
  <1>7. CASE waitQueue = << >>
    <2>1. _locked' = FALSE /\ pc' = [pc EXCEPT ![p] = "idle"]
      BY <1>7 DEF signal
    <2>2. LineOf' = << >>
      BY <2>1 DEF LineOf
    <2>3. {q \in Procs : pc'[q] = "critical"} = {}
      BY <1>1, <1>5, <2>1
    <2> QED BY <1>2, <1>4, <1>7, <2>2, <2>3 DEF FL!Leave, FL!Holds, FL!Signal
  <1> QED BY <1>6, <1>7

\* Mutex implements the first-come first-served lock FifoLock, for any set of
\* callers: wait, the continuation after it and signal are its three steps.
THEOREM MutexRefinesFifoLock == Spec => ImplementsFifoLock
  <1>1. Init => FL!Init
    BY DEF Init, FL!Init, FL!Free, LineOf
  <1>2. Inv /\ Inv' /\ [Next]_vars => [FL!Next]_FL!vars
    <2> SUFFICES ASSUME Inv, Inv', [Next]_vars PROVE [FL!Next]_FL!vars
      OBVIOUS
    <2>1. CASE UNCHANGED vars
      BY <2>1 DEF vars, FL!vars, LineOf, Holding
    <2>2. ASSUME NEW p \in Procs, wait(p) \/ callFn(p) \/ signal(p) PROVE FL!Next
      BY <2>2, WaitJoins, CallFnEnters, SignalLeaves DEF FL!Next
    <2> QED BY <2>1, <2>2 DEF Next
  <1> QED BY <1>1, <1>2, MutexInv, PTL DEF Spec, ImplementsFifoLock, FL!Spec

=============================================================================
