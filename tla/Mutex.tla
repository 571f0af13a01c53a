-------------------------------- MODULE Mutex --------------------------------
(***************************************************************************)
(* The class Mutex of locking/Mutex.ts.  The class does not record who     *)
(* holds it: `_locked` stays true when signal() hands the lock to the      *)
(* first waiter, whose continuation runs in a later microtask.  pc[p] is   *)
(* the place of caller p in synchronise(fn):                               *)
(*   "idle"      not in a call                                             *)
(*   "waiting"   its resolve function is in waitQueue                      *)
(*   "resolved"  the promise of wait() is settled, the code after the      *)
(*               await has not run yet                                     *)
(*   "critical"  fn() is running                                           *)
(***************************************************************************)
EXTENDS Sequences, Naturals

CONSTANT Procs

VARIABLES _locked, waitQueue, pc

vars == <<_locked, waitQueue, pc>>

TypeOK ==
  /\ _locked \in BOOLEAN
  /\ waitQueue \in Seq(Procs)
  /\ pc \in [Procs -> {"idle", "waiting", "resolved", "critical"}]

Init ==
  /\ _locked = FALSE
  /\ waitQueue = << >>
  /\ pc = [p \in Procs |-> "idle"]

\* Mutant of wait: the free lock is taken without setting _locked.
waitLeavesFlag(p) ==
  /\ pc[p] = "idle"
  /\ IF _locked
       THEN /\ waitQueue' = Append(waitQueue, p)
            /\ pc' = [pc EXCEPT ![p] = "waiting"]
       ELSE /\ pc' = [pc EXCEPT ![p] = "resolved"]
            /\ UNCHANGED waitQueue
  /\ UNCHANGED _locked

\* synchronise(fn) up to its first await: wait() takes the lock or queues.
wait(p) ==
  /\ pc[p] = "idle"
  /\ IF _locked
       THEN /\ waitQueue' = Append(waitQueue, p)
            /\ pc' = [pc EXCEPT ![p] = "waiting"]
            /\ UNCHANGED _locked
       ELSE /\ _locked' = TRUE
            /\ pc' = [pc EXCEPT ![p] = "resolved"]
            /\ UNCHANGED waitQueue

\* The continuation after `await this.wait()`: fn is called.
callFn(p) ==
  /\ pc[p] = "resolved"
  /\ pc' = [pc EXCEPT ![p] = "critical"]
  /\ UNCHANGED <<_locked, waitQueue>>

\* Mutant of signal: the flag is cleared also when the lock is handed on.
signalClearsFlag(p) ==
  /\ pc[p] = "critical"
  /\ _locked' = FALSE
  /\ waitQueue' = IF waitQueue # << >> THEN Tail(waitQueue) ELSE waitQueue
  /\ pc' = [q \in Procs |-> IF q = p THEN "idle"
                           ELSE IF waitQueue # << >> /\ q = waitQueue[1] THEN "resolved"
                           ELSE pc[q]]

\* Mutant of signal: the first waiter is shifted off the queue and not resolved.
signalForgetsWaiter(p) ==
  /\ pc[p] = "critical"
  /\ pc' = [pc EXCEPT ![p] = "idle"]
  /\ waitQueue' = IF waitQueue # << >> THEN Tail(waitQueue) ELSE waitQueue
  /\ _locked' = (waitQueue # << >>)

\* Mutant of signal: the last waiter is popped instead of the first.
signalPopsLast(p) ==
  /\ pc[p] = "critical"
  /\ IF waitQueue # << >>
       THEN /\ waitQueue' = SubSeq(waitQueue, 1, Len(waitQueue) - 1)
            /\ pc' = [pc EXCEPT ![p] = "idle", ![waitQueue[Len(waitQueue)]] = "resolved"]
            /\ UNCHANGED _locked
       ELSE /\ _locked' = FALSE
            /\ pc' = [pc EXCEPT ![p] = "idle"]
            /\ UNCHANGED waitQueue

\* fn has returned or thrown and the finally block runs signal().
signal(p) ==
  /\ pc[p] = "critical"
  /\ IF waitQueue # << >>
       THEN /\ waitQueue' = Tail(waitQueue)
            /\ pc' = [pc EXCEPT ![p] = "idle", ![Head(waitQueue)] = "resolved"]
            /\ UNCHANGED _locked
       ELSE /\ _locked' = FALSE
            /\ pc' = [pc EXCEPT ![p] = "idle"]
            /\ UNCHANGED waitQueue

Next == \E p \in Procs : wait(p) \/ callFn(p) \/ signal(p)

Spec == Init /\ [][Next]_vars

\* A settled promise runs its continuation, and the functions the extension
\* passes to synchronise settle.
FairSpec == Spec /\ \A p \in Procs : WF_vars(callFn(p)) /\ WF_vars(signal(p))

-----------------------------------------------------------------------------
Holding(p) == pc[p] \in {"resolved", "critical"}

\* No two callers are past `await this.wait()` at once, although _locked names
\* no owner and is not reset when the lock changes hands.
MutualExclusion == \A p, q \in Procs : Holding(p) /\ Holding(q) => p = q

\* No wakeup is lost: the flag is set exactly while some caller holds the lock,
\* so a caller can only sit in waitQueue while another will call signal().
LockedIffHeld == _locked <=> \E p \in Procs : Holding(p)

\* waitQueue holds the resolve function of every suspended caller once.
QueueIsTheWaiters ==
  /\ \A p \in Procs : pc[p] = "waiting" <=> \E i \in 1..Len(waitQueue) : waitQueue[i] = p
  /\ \A i, j \in 1..Len(waitQueue) : waitQueue[i] = waitQueue[j] => i = j
  /\ waitQueue # << >> => _locked

\* The inductive invariant behind the safety theorems.
Inv == TypeOK /\ MutualExclusion /\ LockedIffHeld /\ QueueIsTheWaiters

\* Every caller of synchronise gets to run its function.
WaitersAreServed == \A p \in Procs : pc[p] = "waiting" ~> pc[p] = "critical"

-----------------------------------------------------------------------------
\* The line of FifoLock: the holder, if there is one, before the waiters.
LineOf ==
  IF _locked THEN <<CHOOSE p \in Procs : Holding(p)>> \o waitQueue ELSE << >>

\* The class implements the lock the rest of the code relies on.
FL == INSTANCE FifoLock WITH line <- LineOf, inside <- {p \in Procs : pc[p] = "critical"}

\* Mutex implements a first-come first-served lock.
ImplementsFifoLock == FL!Spec

=============================================================================
