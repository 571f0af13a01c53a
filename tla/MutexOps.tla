------------------------------ MODULE MutexOps ------------------------------
(***************************************************************************)
(* The mutex of locking/Mutex.ts as the other modules use it: a line of    *)
(* the callers that hold or await it, the holder first.  Module Mutex      *)
(* models the class itself (the _locked flag, the array of resolve         *)
(* functions, the continuations) and is shown to implement this view.      *)
(***************************************************************************)
EXTENDS Sequences

Free == << >>

Wait(m, p) == Append(m, p)

Signal(m) == Tail(m)

Locked(m) == m # << >>

Holds(m, p) == m # << >> /\ Head(m) = p

=============================================================================
