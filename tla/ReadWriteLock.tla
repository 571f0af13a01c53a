--------------------------- MODULE ReadWriteLock ----------------------------
(***************************************************************************)
(* What an RWLock promises its callers.  A writer is alone.  Calls are let *)
(* in in the order in which they come, with one exception: readers may go  *)
(* in front of waiting writers as long as other readers are inside.  So no *)
(* call ever overtakes a reader, and no writer overtakes anybody.          *)
(***************************************************************************)
CONSTANTS Readers, Writers

VARIABLES
  waiting,  \* the calls that have come and are not let in yet
  before,   \* those of them that came before a call
  inside    \* the calls between their entry and their exit

vars == <<waiting, before, inside>>

Init ==
  /\ waiting = {}
  /\ before = [p \in Readers \cup Writers |-> {}]
  /\ inside = {}

Come(p) ==
  /\ p \notin waiting \cup inside
  /\ waiting' = waiting \cup {p}
  /\ before' = [before EXCEPT ![p] = waiting]
  /\ UNCHANGED inside

LetIn(p) ==
  /\ p \in waiting
  /\ waiting' = waiting \ {p}
  /\ before' = [q \in Readers \cup Writers |-> IF q = p THEN {} ELSE before[q] \ {p}]
  /\ inside' = inside \cup {p}

LetReaderIn(r) ==
  /\ inside \cap Writers = {}
  /\ before[r] \subseteq Writers
  /\ inside = {} => before[r] = {}
  /\ LetIn(r)

LetWriterIn(w) ==
  /\ inside = {}
  /\ before[w] = {}
  /\ LetIn(w)

Leave(p) ==
  /\ p \in inside
  /\ inside' = inside \ {p}
  /\ UNCHANGED <<waiting, before>>

Next ==
  \/ \E p \in Readers \cup Writers : Come(p) \/ Leave(p)
  \/ \E r \in Readers : LetReaderIn(r)
  \/ \E w \in Writers : LetWriterIn(w)

Spec == Init /\ [][Next]_vars

=============================================================================
