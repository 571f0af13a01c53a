------------------------------ MODULE FifoLock ------------------------------
(***************************************************************************)
(* What a Mutex promises its callers: they are served one at a time, in    *)
(* the order in which they asked.                                          *)
(***************************************************************************)
EXTENDS MutexOps, Naturals

CONSTANT Procs

VARIABLES
  line,     \* the callers that hold or await the lock, the holder first
  inside    \* the callers that run the function passed to synchronise

vars == <<line, inside>>

Init == line = Free /\ inside = {}

Join(p) ==
  /\ \A i \in 1..Len(line) : line[i] # p
  /\ line' = Wait(line, p)
  /\ UNCHANGED inside

Enter(p) ==
  /\ Holds(line, p)
  /\ inside = {}
  /\ inside' = {p}
  /\ UNCHANGED line

Leave(p) ==
  /\ Holds(line, p)
  /\ p \in inside
  /\ line' = Signal(line)
  /\ inside' = {}

Next == \E p \in Procs : Join(p) \/ Enter(p) \/ Leave(p)

Spec == Init /\ [][Next]_vars

=============================================================================
