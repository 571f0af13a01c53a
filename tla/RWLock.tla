------------------------------- MODULE RWLock -------------------------------
(***************************************************************************)
(* The class RWLock of locking/RWLock.ts: two mutexes and a count of the   *)
(* readers.  Code between two awaits runs without interruption, so each    *)
(* action is one such stretch of a method.  writerMutex is taken by the    *)
(* first reader and released by the last one, which may be another: the    *)
(* first reader stays the head of its line on behalf of all.               *)
(* pc[p] is the await at which the call of p is suspended:                 *)
(*   "re1"  readerEntry, readerMutex.wait()      "re2"  writerMutex.wait() *)
(*   "rx1"  readerExit, readerMutex.wait()                                 *)
(*   "we1"  writerEntry, readerMutex.wait()      "we2"  writerMutex.wait() *)
(* and "idle", "reading", "writing" are the places outside the methods.    *)
(***************************************************************************)
EXTENDS MutexOps, Naturals, FiniteSets

CONSTANTS Readers, Writers

ASSUME RolesAssumption == Readers \cap Writers = {} /\ IsFiniteSet(Readers)

VARIABLES readerMutex, writerMutex, readerCount, pc

rwVars == <<readerMutex, writerMutex, readerCount, pc>>

RWTypeOK ==
  /\ readerMutex \in Seq(Readers \cup Writers)
  /\ writerMutex \in Seq(Readers \cup Writers)
  /\ readerCount \in Nat
  /\ pc \in [Readers \cup Writers ->
              {"idle", "re1", "re2", "reading", "rx1", "we1", "we2", "writing"}]
  /\ \A r \in Readers : pc[r] \in {"idle", "re1", "re2", "reading", "rx1"}
  /\ \A w \in Writers : pc[w] \in {"idle", "we1", "we2", "writing"}

RWInit ==
  /\ readerMutex = Free
  /\ writerMutex = Free
  /\ readerCount = 0
  /\ pc = [p \in Readers \cup Writers |-> "idle"]

At(p, from, to) == pc[p] = from /\ pc' = [pc EXCEPT ![p] = to]

\* readerEntry(): queue for readerMutex.
readerEntry(r) ==
  /\ At(r, "idle", "re1")
  /\ readerMutex' = Wait(readerMutex, r)
  /\ UNCHANGED <<writerMutex, readerCount>>

\* readerMutex is held: the first reader queues for writerMutex and keeps
\* readerMutex meanwhile, so that later readers queue behind it.
countReader(r) ==
  /\ pc[r] = "re1" /\ Holds(readerMutex, r)
  /\ readerCount' = readerCount + 1
  /\ IF readerCount' = 1
       THEN /\ pc' = [pc EXCEPT ![r] = "re2"]
            /\ writerMutex' = Wait(writerMutex, r)
            /\ UNCHANGED readerMutex
       ELSE /\ pc' = [pc EXCEPT ![r] = "reading"]
            /\ readerMutex' = Signal(readerMutex)
            /\ UNCHANGED writerMutex

\* The first reader has got writerMutex and lets the other readers in.
admitReaders(r) ==
  /\ Holds(writerMutex, r)
  /\ At(r, "re2", "reading")
  /\ readerMutex' = Signal(readerMutex)
  /\ UNCHANGED <<writerMutex, readerCount>>

\* readerExit(): queue for readerMutex.
readerExit(r) ==
  /\ At(r, "reading", "rx1")
  /\ readerMutex' = Wait(readerMutex, r)
  /\ UNCHANGED <<writerMutex, readerCount>>

\* Mutant: whoever leaves releases writerMutex.
uncountReaderSignals(r) ==
  /\ Holds(readerMutex, r)
  /\ At(r, "rx1", "idle")
  /\ readerCount' = readerCount - 1
  /\ writerMutex' = IF Locked(writerMutex) THEN Signal(writerMutex) ELSE writerMutex
  /\ readerMutex' = Signal(readerMutex)

\* readerMutex is held: the last reader releases writerMutex.
uncountReader(r) ==
  /\ Holds(readerMutex, r)
  /\ At(r, "rx1", "idle")
  /\ readerCount' = readerCount - 1
  /\ writerMutex' = IF readerCount' = 0 THEN Signal(writerMutex) ELSE writerMutex
  /\ readerMutex' = Signal(readerMutex)

\* Mutant: a writer does not pass through readerMutex first.
writerEntryDirect(w) ==
  /\ At(w, "idle", "we2")
  /\ writerMutex' = Wait(writerMutex, w)
  /\ UNCHANGED <<readerMutex, readerCount>>

\* writerEntry(): queue for readerMutex.
writerEntry(w) ==
  /\ At(w, "idle", "we1")
  /\ readerMutex' = Wait(readerMutex, w)
  /\ UNCHANGED <<writerMutex, readerCount>>

\* readerMutex is released at once: a writer only waits for the readers that
\* came before it to be counted.
queueWriter(w) ==
  /\ Holds(readerMutex, w)
  /\ At(w, "we1", "we2")
  /\ readerMutex' = Signal(readerMutex)
  /\ writerMutex' = Wait(writerMutex, w)
  /\ UNCHANGED readerCount

startWriting(w) ==
  /\ Holds(writerMutex, w)
  /\ At(w, "we2", "writing")
  /\ UNCHANGED <<readerMutex, writerMutex, readerCount>>

writerExit(w) ==
  /\ At(w, "writing", "idle")
  /\ writerMutex' = Signal(writerMutex)
  /\ UNCHANGED <<readerMutex, readerCount>>

\* The continuations inside the methods; each is resumed by a mutex.
ReaderStep(r) == countReader(r) \/ admitReaders(r) \/ uncountReader(r)
WriterStep(w) == queueWriter(w) \/ startWriting(w)

Next ==
  \/ \E r \in Readers : readerEntry(r) \/ ReaderStep(r) \/ readerExit(r)
  \/ \E w \in Writers : writerEntry(w) \/ WriterStep(w) \/ writerExit(w)

Spec == RWInit /\ [][Next]_rwVars

-----------------------------------------------------------------------------
\* A writer is alone: no reader and no other writer is between entry and exit.
Exclusion ==
  \A w \in Writers : pc[w] = "writing" =>
     \A p \in Readers \cup Writers : p # w => pc[p] \notin {"reading", "rx1", "writing"}

\* The readers that count: those between the increment and the decrement.
Counted == {r \in Readers : pc[r] \in {"re2", "reading", "rx1"}}

InLine(m, p) == \E i \in 1..Len(m) : m[i] = p
NoRepeat(m) == \A i, j \in 1..Len(m) : m[i] = m[j] => i = j

\* Each mutex is queued on by exactly the calls that are suspended at one of
\* its waits or hold it, and the one reader in the line of writerMutex stands
\* for all counted readers.
LinesOK ==
  /\ NoRepeat(readerMutex) /\ NoRepeat(writerMutex)
  /\ \A p \in Readers \cup Writers :
        InLine(readerMutex, p) <=> pc[p] \in {"re1", "re2", "rx1", "we1"}
  /\ \A w \in Writers : InLine(writerMutex, w) <=> pc[w] \in {"we2", "writing"}
  /\ \A w \in Writers : pc[w] = "writing" => Holds(writerMutex, w)
  /\ \A r \in Readers : pc[r] = "re2" =>
        Holds(readerMutex, r) /\ InLine(writerMutex, r) /\ Counted = {r}
  /\ \A r, s \in Readers : InLine(writerMutex, r) /\ InLine(writerMutex, s) => r = s
  /\ (\E r \in Readers : InLine(writerMutex, r)) <=> Counted # {}
  /\ (\E r \in Readers : pc[r] \in {"reading", "rx1"}) => Head(writerMutex) \in Readers

\* The count is the number of readers in, at each point where another call can
\* observe it; it is what decides who takes and who releases writerMutex.
RWInv ==
  /\ RWTypeOK
  /\ LinesOK
  /\ Exclusion
  /\ readerCount = Cardinality(Counted)

-----------------------------------------------------------------------------
(* What the lock promises, in terms of its two lines. *)

EntryStates == {"re1", "re2", "we1", "we2"}
Waiting == {p \in Readers \cup Writers : pc[p] \in EntryStates}
Inside == {p \in Readers \cup Writers : pc[p] \in {"reading", "rx1", "writing"}}

Ahead(m, p, q) == \E i, j \in 1..Len(m) : i < j /\ m[i] = p /\ m[j] = q

\* p came before q: it waits for writerMutex and q does not yet, or they wait
\* for the same mutex and p is ahead.
Precedes(p, q) ==
  LET atWriterMutex(c) == pc[c] \in {"re2", "we2"} IN
  \/ atWriterMutex(p) /\ ~atWriterMutex(q)
  \/ atWriterMutex(p) /\ atWriterMutex(q) /\ Ahead(writerMutex, p, q)
  \/ ~atWriterMutex(p) /\ ~atWriterMutex(q) /\ Ahead(readerMutex, p, q)

Before == [q \in Readers \cup Writers |->
             {p \in Waiting : q \in Waiting /\ Precedes(p, q)}]

RWL == INSTANCE ReadWriteLock WITH waiting <- Waiting, before <- Before, inside <- Inside

\* Two mutexes and a count make a lock that lets calls in as they come, except
\* that readers overtake writers while readers are inside (RWLock.test.ts,
\* "should allow writer only after all readers are done processing").
ImplementsReadWriteLock == RWL!Spec

=============================================================================
