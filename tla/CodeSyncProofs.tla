--------------------------- MODULE CodeSyncProofs ---------------------------
(***************************************************************************)
(* The reader-writer lock, and one sync task over it, for any number of    *)
(* data events. RWInv is inductive as it stands, and it is enough to show  *)
(* that the two mutexes and the count implement ReadWriteLock. The close   *)
(* handler comes after the data only because of the order in the line of   *)
(* readerMutex, which the invariant of the task adds.                      *)
(***************************************************************************)
EXTENDS CodeSync, SequenceTheorems, FiniteSetTheorems, TLAPS

Procs == Readers \cup Writers

-----------------------------------------------------------------------------
(* Lines: what a call that joins at the end, or leaves at the head, changes. *)

LEMMA LineJoin ==
  ASSUME NEW S, NEW m \in Seq(S), NEW p \in S
  PROVE  /\ Wait(m, p) \in Seq(S) /\ Wait(m, p) # << >>
         /\ Len(Wait(m, p)) = Len(m) + 1 /\ Len(m) \in Nat
         /\ \A i \in 1..Len(m) : Wait(m, p)[i] = m[i]
         /\ Wait(m, p)[Len(m) + 1] = p
         /\ Head(Wait(m, p)) = IF m = << >> THEN p ELSE Head(m)
  BY HeadTailAppend, AppendProperties, LenProperties DEF Wait

LEMMA JoinMembers ==
  ASSUME NEW S, NEW m \in Seq(S), NEW p \in S, NEW w, w = Wait(m, p)
  PROVE  /\ \A q : InLine(w, q) <=> InLine(m, q) \/ q = p
         /\ NoRepeat(m) /\ ~InLine(m, p) => NoRepeat(w)
         /\ \A q : Holds(m, q) => Holds(w, q)
         /\ m = << >> => Holds(w, p)
         /\ w \in Seq(S)
  <1>0. /\ Len(w) = Len(m) + 1 /\ Len(m) \in Nat
        /\ \A i \in 1..Len(m) : w[i] = m[i]
        /\ w[Len(m) + 1] = p
    BY AppendProperties, LenProperties DEF Wait
  <1>1. ASSUME NEW q PROVE InLine(w, q) <=> InLine(m, q) \/ q = p
    <2>1. ASSUME NEW i \in 1..Len(w), w[i] = q PROVE InLine(m, q) \/ q = p
      <3>1. i \in 1..Len(m) \/ i = Len(m) + 1
        BY <1>0
      <3> QED BY <1>0, <2>1, <3>1 DEF InLine
    <2>2. ASSUME NEW i \in 1..Len(m), m[i] = q PROVE InLine(w, q)
      <3>1. i \in 1..Len(w)
        BY <1>0
      <3> QED BY <1>0, <2>2, <3>1 DEF InLine
    <2>3. InLine(w, p)
      <3>1. Len(m) + 1 \in 1..Len(w)
        BY <1>0
      <3> QED BY <1>0, <3>1 DEF InLine
    <2> QED BY <2>1, <2>2, <2>3 DEF InLine
  <1>2. ASSUME NoRepeat(m), ~InLine(m, p) PROVE NoRepeat(w)
    <2>1. ASSUME NEW i \in 1..Len(w), NEW k \in 1..Len(w), w[i] = w[k] PROVE i = k
      <3>1. (i \in 1..Len(m) \/ i = Len(m) + 1) /\ (k \in 1..Len(m) \/ k = Len(m) + 1)
        BY <1>0
      <3> QED BY <1>0, <1>2, <2>1, <3>1 DEF InLine, NoRepeat
    <2> QED BY <2>1 DEF NoRepeat
  <1>3. /\ \A q : Holds(m, q) => Holds(w, q)
        /\ m = << >> => Holds(w, p)
        /\ w \in Seq(S)
    BY HeadTailAppend, AppendProperties DEF Wait, Holds
  <1> QED BY <1>1, <1>2, <1>3

LEMMA LineLeave ==
  ASSUME NEW S, NEW m \in Seq(S), m # << >>
  PROVE  /\ Signal(m) \in Seq(S)
         /\ Len(m) \in Nat /\ Len(m) > 0 /\ Len(Signal(m)) = Len(m) - 1
         /\ \A i \in 1..Len(m) - 1 : Signal(m)[i] = m[i + 1]
         /\ Head(m) = m[1] /\ Head(m) \in S
  BY HeadTailProperties, LenProperties DEF Signal

LEMMA LeaveMembers ==
  ASSUME NEW S, NEW m \in Seq(S), m # << >>, NoRepeat(m), NEW w, w = Signal(m)
  PROVE  /\ \A q : InLine(w, q) <=> InLine(m, q) /\ q # Head(m)
         /\ NoRepeat(w)
         /\ InLine(m, Head(m))
  <1>0. /\ Len(m) \in Nat /\ Len(m) > 0 /\ Len(w) = Len(m) - 1
        /\ \A i \in 1..Len(m) - 1 : w[i] = m[i + 1]
        /\ Head(m) = m[1]
    BY LineLeave
  <1>1. ASSUME NEW q PROVE InLine(w, q) <=> InLine(m, q) /\ q # Head(m)
    <2>1. ASSUME NEW i \in 1..Len(w), w[i] = q PROVE InLine(m, q) /\ q # Head(m)
      <3>1. i + 1 \in 1..Len(m) /\ 1 \in 1..Len(m) /\ i + 1 # 1 /\ m[i + 1] = q
        BY <1>0, <2>1
      <3> QED BY <1>0, <3>1 DEF InLine, NoRepeat
    <2>2. ASSUME NEW i \in 1..Len(m), m[i] = q, q # Head(m) PROVE InLine(w, q)
      <3>1. i - 1 \in 1..Len(w) /\ w[i - 1] = m[i]
        BY <1>0, <2>2
      <3> QED BY <2>2, <3>1 DEF InLine
    <2> QED BY <2>1, <2>2 DEF InLine
  <1>2. NoRepeat(w)
    <2>1. ASSUME NEW i \in 1..Len(w), NEW k \in 1..Len(w), w[i] = w[k] PROVE i = k
      <3>1. /\ i + 1 \in 1..Len(m) /\ k + 1 \in 1..Len(m)
            /\ m[i + 1] = m[k + 1]
        BY <1>0, <2>1
      <3>2. i + 1 = k + 1
        BY <3>1 DEF NoRepeat
      <3> QED BY <3>2
    <2> QED BY <2>1 DEF NoRepeat
  <1>3. 1 \in 1..Len(m)
    BY <1>0
  <1> QED BY <1>0, <1>1, <1>2, <1>3 DEF InLine

LEMMA MemberOfLine ==
  ASSUME NEW S, NEW m \in Seq(S), NEW q, InLine(m, q)
  PROVE  m # << >>
  BY EmptySeq DEF InLine

-----------------------------------------------------------------------------
(* The reader-writer lock. *)

RStates == {"idle", "re1", "re2", "reading", "rx1"}
WStates == {"idle", "we1", "we2", "writing"}

LEMMA TypeParts ==
  ASSUME RWTypeOK
  PROVE  /\ readerMutex \in Seq(Procs) /\ writerMutex \in Seq(Procs) /\ readerCount \in Nat
         /\ pc \in [Procs -> RStates \cup WStates]
         /\ \A r \in Readers : pc[r] \in RStates
         /\ \A w \in Writers : pc[w] \in WStates
  BY DEF RWTypeOK, Procs, RStates, WStates

\* A step of p types well when the lines stay lines of calls.
LEMMA TypeStep ==
  ASSUME RWTypeOK, NEW p \in Procs, NEW to,
         \/ p \in Readers /\ to \in RStates
         \/ p \in Writers /\ to \in WStates,
         pc' = [pc EXCEPT ![p] = to],
         readerMutex' \in Seq(Procs), writerMutex' \in Seq(Procs), readerCount' \in Nat
  PROVE  /\ RWTypeOK'
         /\ pc'[p] = to
         /\ \A q \in Procs : q # p => pc'[q] = pc[q]
         /\ p \in Readers => p \notin Writers
  BY RolesAssumption DEF RWTypeOK, Procs, RStates, WStates

\* A call queues for readerMutex.
Joins(p, from, to) ==
  /\ pc[p] = from /\ pc' = [pc EXCEPT ![p] = to]
  /\ readerMutex' = Wait(readerMutex, p)
  /\ UNCHANGED <<writerMutex, readerCount>>

LEMMA JoinKeepsRW ==
  ASSUME RWInv, NEW p \in Procs, NEW from, NEW to, Joins(p, from, to),
         \/ p \in Readers /\ <<from, to>> \in {<<"idle", "re1">>, <<"reading", "rx1">>}
         \/ p \in Writers /\ <<from, to>> = <<"idle", "we1">>
  PROVE  RWInv'
  <1>1. /\ RWTypeOK /\ LinesOK /\ Exclusion
        /\ readerMutex \in Seq(Procs) /\ NoRepeat(readerMutex)
    BY TypeParts DEF RWInv, LinesOK
  <1>2. /\ RWTypeOK' /\ pc'[p] = to /\ (\A q \in Procs : q # p => pc'[q] = pc[q])
        /\ p \in Readers => p \notin Writers
    BY <1>1, TypeStep, TypeParts, LineJoin DEF Joins, RStates, WStates
  <1>3. ~InLine(readerMutex, p)
    BY <1>1, <1>2 DEF LinesOK, Joins, Procs
  <1>4. /\ \A q : InLine(readerMutex', q) <=> InLine(readerMutex, q) \/ q = p
        /\ NoRepeat(readerMutex')
        /\ \A q : Holds(readerMutex, q) => Holds(readerMutex', q)
    BY <1>1, <1>3, JoinMembers DEF Joins
  <1>5. Counted' = Counted
    BY <1>2 DEF Counted, Joins, Procs
  <1>6. ASSUME NEW q \in Procs
        PROVE  /\ pc'[q] = "writing" <=> pc[q] = "writing"
               /\ pc'[q] = "we2" <=> pc[q] = "we2"
               /\ pc'[q] = "re2" <=> pc[q] = "re2"
               /\ pc'[q] \in {"reading", "rx1"} <=> pc[q] \in {"reading", "rx1"}
               /\ pc'[q] \in {"re1", "re2", "rx1", "we1"} <=>
                    (q = p \/ pc[q] \in {"re1", "re2", "rx1", "we1"})
    BY <1>2 DEF Joins
  <1>7. LinesOK'
    BY <1>1, <1>2, <1>4, <1>5, <1>6 DEF LinesOK, Joins, Procs
  <1>8. Exclusion'
    BY <1>1, <1>2, <1>6 DEF Exclusion, Procs
  <1> QED BY <1>2, <1>5, <1>7, <1>8 DEF RWInv, Joins

LEMMA CountedSet ==
  ASSUME RWInv
  PROVE  /\ IsFiniteSet(Counted) /\ readerCount \in Nat /\ readerCount = Cardinality(Counted)
         /\ readerCount = 0 <=> Counted = {}
         /\ \A r \in Readers : /\ Cardinality(Counted \cup {r}) =
                                    IF r \in Counted THEN readerCount ELSE readerCount + 1
                               /\ Cardinality(Counted \ {r}) =
                                    IF r \in Counted THEN readerCount - 1 ELSE readerCount
  <1>1. IsFiniteSet(Counted)
    BY RolesAssumption, FS_Subset DEF Counted
  <1> QED BY <1>1, FS_EmptySet, FS_AddElement, FS_RemoveElement, FS_CardinalityType DEF RWInv, RWTypeOK

\* The parts of RWInv as facts about the calls.
LEMMA RWParts ==
  ASSUME RWInv
  PROVE  /\ RWTypeOK /\ LinesOK /\ Exclusion
         /\ readerMutex \in Seq(Procs) /\ writerMutex \in Seq(Procs)
         /\ NoRepeat(readerMutex) /\ NoRepeat(writerMutex)
  BY TypeParts DEF RWInv, LinesOK

\* The first reader is counted and queues for writerMutex.
LEMMA FirstReader ==
  ASSUME RWInv, NEW r \in Readers, countReader(r), readerCount' = 1
  PROVE  RWInv'
  <1>0. /\ RWTypeOK /\ LinesOK /\ Exclusion
        /\ readerMutex \in Seq(Procs) /\ writerMutex \in Seq(Procs)
        /\ NoRepeat(readerMutex) /\ NoRepeat(writerMutex) /\ r \in Procs
    BY RWParts DEF Procs
  <1>1. /\ pc[r] = "re1" /\ Holds(readerMutex, r) /\ readerCount' = readerCount + 1
        /\ readerCount' \in Nat
        /\ pc' = [pc EXCEPT ![r] = "re2"]
        /\ writerMutex' = Wait(writerMutex, r) /\ readerMutex' = readerMutex
    BY CountedSet DEF countReader
  <1>2. Counted = {}
    BY <1>1, CountedSet
  <1>3. \A s \in Readers : ~InLine(writerMutex, s) /\ pc[s] \notin {"re2", "reading", "rx1"}
    BY <1>0, <1>2 DEF LinesOK, Counted
  <1>4. /\ \A q : InLine(writerMutex', q) <=> (InLine(writerMutex, q) \/ q = r)
        /\ NoRepeat(writerMutex')
        /\ \A q : Holds(writerMutex, q) => Holds(writerMutex', q)
        /\ writerMutex' \in Seq(Procs)
    BY <1>0, <1>1, <1>3, JoinMembers
  <1>5. /\ RWTypeOK' /\ pc'[r] = "re2" /\ (\A q \in Procs : q # r => pc'[q] = pc[q])
        /\ r \notin Writers
    BY <1>0, <1>1, <1>4, TypeStep, TypeParts, CountedSet DEF RStates
  <1>6. Counted' = {r}
    BY <1>3, <1>5 DEF Counted, Procs
  <1>7. LinesOK'
    BY <1>0, <1>1, <1>3, <1>4, <1>5, <1>6 DEF LinesOK, Procs
  <1>8. Exclusion'
    BY <1>0, <1>5 DEF Exclusion, Procs
  <1>9. readerCount' = Cardinality(Counted')
    BY <1>6, FS_Singleton
  <1> QED BY <1>5, <1>7, <1>8, <1>9 DEF RWInv

\* A later reader is counted and lets the next call in.
LEMMA LaterReader ==
  ASSUME RWInv, NEW r \in Readers, countReader(r), readerCount' # 1
  PROVE  RWInv'
  <1>0. /\ RWTypeOK /\ LinesOK /\ Exclusion
        /\ readerMutex \in Seq(Procs) /\ writerMutex \in Seq(Procs)
        /\ NoRepeat(readerMutex) /\ NoRepeat(writerMutex) /\ r \in Procs
    BY RWParts DEF Procs
  <1>1. /\ pc[r] = "re1" /\ Holds(readerMutex, r) /\ readerCount' = readerCount + 1
        /\ readerCount' \in Nat
        /\ pc' = [pc EXCEPT ![r] = "reading"]
        /\ readerMutex' = Signal(readerMutex) /\ writerMutex' = writerMutex
    BY CountedSet DEF countReader
  <1>2. Counted # {}
    BY <1>1, CountedSet
  <1>3. \A s \in Readers : pc[s] # "re2"
    BY <1>0, <1>1 DEF LinesOK, Holds
  <1>4. Head(writerMutex) \in Readers
    BY <1>0, <1>2, <1>3 DEF LinesOK, Counted
  <1>5. /\ \A q : InLine(readerMutex', q) <=> (InLine(readerMutex, q) /\ q # r)
        /\ NoRepeat(readerMutex')
        /\ readerMutex' \in Seq(Procs)
    BY <1>0, <1>1, LeaveMembers, LineLeave DEF Holds
  <1>6. /\ RWTypeOK' /\ pc'[r] = "reading" /\ (\A q \in Procs : q # r => pc'[q] = pc[q])
        /\ r \notin Writers
    BY <1>0, <1>1, <1>5, TypeStep, TypeParts, CountedSet DEF RStates
  <1>7. Counted' = Counted \cup {r} /\ r \notin Counted
    BY <1>1, <1>6 DEF Counted, Procs
  <1>8. \A w \in Writers : pc[w] # "writing"
    BY <1>0, <1>4, RolesAssumption DEF LinesOK, Holds
  <1>9. LinesOK'
    BY <1>0, <1>1, <1>2, <1>3, <1>4, <1>5, <1>6, <1>7, <1>8 DEF LinesOK, Procs
  <1>10. Exclusion'
    BY <1>6, <1>8 DEF Exclusion, Procs
  <1>11. readerCount' = Cardinality(Counted')
    BY <1>1, <1>7, CountedSet
  <1> QED BY <1>6, <1>9, <1>10, <1>11 DEF RWInv

\* The first reader has writerMutex and lets the next call in.
LEMMA AdmitKeepsRW ==
  ASSUME RWInv, NEW r \in Readers, admitReaders(r)
  PROVE  RWInv'
  <1>0. /\ RWTypeOK /\ LinesOK /\ Exclusion
        /\ readerMutex \in Seq(Procs) /\ writerMutex \in Seq(Procs)
        /\ NoRepeat(readerMutex) /\ NoRepeat(writerMutex) /\ r \in Procs
    BY RWParts DEF Procs
  <1>1. /\ pc[r] = "re2" /\ Holds(writerMutex, r) /\ readerCount' = readerCount
        /\ pc' = [pc EXCEPT ![r] = "reading"]
        /\ readerMutex' = Signal(readerMutex) /\ writerMutex' = writerMutex
    BY DEF admitReaders, At
  <1>2. Holds(readerMutex, r) /\ Counted = {r}
    BY <1>0, <1>1 DEF LinesOK
  <1>3. Head(writerMutex) \in Readers
    BY <1>1 DEF Holds
  <1>4. \A s \in Readers : pc[s] = "re2" => s = r
    BY <1>2 DEF Counted
  <1>5. /\ \A q : InLine(readerMutex', q) <=> (InLine(readerMutex, q) /\ q # r)
        /\ NoRepeat(readerMutex')
        /\ readerMutex' \in Seq(Procs)
    BY <1>0, <1>1, <1>2, LeaveMembers, LineLeave DEF Holds
  <1>6. /\ RWTypeOK' /\ pc'[r] = "reading" /\ (\A q \in Procs : q # r => pc'[q] = pc[q])
        /\ r \notin Writers
    BY <1>0, <1>1, <1>5, TypeStep, TypeParts DEF RStates
  <1>7. Counted' = Counted
    BY <1>1, <1>6 DEF Counted, Procs
  <1>8. \A w \in Writers : pc[w] # "writing"
    BY <1>0, <1>3, RolesAssumption DEF LinesOK, Holds
  <1>9. LinesOK'
    BY <1>0, <1>1, <1>2, <1>3, <1>4, <1>5, <1>6, <1>7, <1>8 DEF LinesOK, Procs
  <1>10. Exclusion'
    BY <1>6, <1>8 DEF Exclusion, Procs
  <1> QED BY <1>1, <1>6, <1>7, <1>9, <1>10, CountedSet DEF RWInv

\* A reader leaves; the last one lets the next call have writerMutex.
LEMMA UncountKeepsRW ==
  ASSUME RWInv, NEW r \in Readers, uncountReader(r)
  PROVE  RWInv'
  <1>0. /\ RWTypeOK /\ LinesOK /\ Exclusion
        /\ readerMutex \in Seq(Procs) /\ writerMutex \in Seq(Procs)
        /\ NoRepeat(readerMutex) /\ NoRepeat(writerMutex) /\ r \in Procs
    BY RWParts DEF Procs
  <1>1. /\ pc[r] = "rx1" /\ Holds(readerMutex, r) /\ readerCount' = readerCount - 1
        /\ pc' = [pc EXCEPT ![r] = "idle"]
        /\ readerMutex' = Signal(readerMutex)
        /\ writerMutex' = IF readerCount' = 0 THEN Signal(writerMutex) ELSE writerMutex
    BY DEF uncountReader, At
  <1>2. /\ r \in Counted /\ readerCount' \in Nat
        /\ readerCount' = Cardinality(Counted \ {r})
        /\ readerCount' = 0 <=> Counted \ {r} = {}
    <2>1. r \in Counted /\ Counted # {}
      BY <1>1 DEF Counted
    <2>2. IsFiniteSet(Counted \ {r})
      BY CountedSet, FS_RemoveElement
    <2> QED BY <1>1, <2>1, <2>2, CountedSet, FS_EmptySet
  <1>3. \A s \in Readers : pc[s] # "re2"
    BY <1>0, <1>1 DEF LinesOK, Holds
  <1>4. /\ Head(writerMutex) \in Readers /\ InLine(writerMutex, Head(writerMutex))
        /\ writerMutex # << >>
    <2>1. Head(writerMutex) \in Readers /\ \E s \in Readers : InLine(writerMutex, s)
      BY <1>0, <1>1, <1>2 DEF LinesOK
    <2>2. writerMutex # << >>
      BY <1>0, <2>1, MemberOfLine
    <2> QED BY <1>0, <2>1, <2>2, LeaveMembers
  <1>5. /\ \A q : InLine(readerMutex', q) <=> (InLine(readerMutex, q) /\ q # r)
        /\ NoRepeat(readerMutex')
        /\ readerMutex' \in Seq(Procs)
    BY <1>0, <1>1, LeaveMembers, LineLeave DEF Holds
  <1>6. /\ NoRepeat(writerMutex') /\ writerMutex' \in Seq(Procs)
        /\ \A w \in Writers : InLine(writerMutex', w) <=> InLine(writerMutex, w)
    BY <1>0, <1>1, <1>4, LeaveMembers, LineLeave, RolesAssumption
  <1>7. /\ RWTypeOK' /\ pc'[r] = "idle" /\ (\A q \in Procs : q # r => pc'[q] = pc[q])
        /\ r \notin Writers
    BY <1>0, <1>1, <1>2, <1>5, <1>6, TypeStep, TypeParts DEF RStates
  <1>8. Counted' = Counted \ {r}
    BY <1>1, <1>7 DEF Counted, Procs
  <1>9. \A w \in Writers : pc[w] # "writing"
    BY <1>0, <1>4, RolesAssumption DEF LinesOK, Holds
  <1>10. /\ \A s, t \in Readers : InLine(writerMutex', s) /\ InLine(writerMutex', t) => s = t
         /\ (\E s \in Readers : InLine(writerMutex', s)) <=> Counted' # {}
         /\ (\E s \in Readers : pc'[s] \in {"reading", "rx1"}) => Head(writerMutex') \in Readers
    <2>1. CASE readerCount' = 0
      <3>1. \A s \in Readers : ~InLine(writerMutex', s)
        BY <1>0, <1>1, <1>4, <2>1, LeaveMembers DEF LinesOK
      <3>2. Counted' = {} /\ \A s \in Readers : pc'[s] \notin {"reading", "rx1"}
        BY <1>2, <1>8, <2>1 DEF Counted
      <3> QED BY <3>1, <3>2
    <2>2. CASE readerCount' # 0
      BY <1>0, <1>1, <1>2, <1>4, <1>8, <2>2 DEF LinesOK
    <2> QED BY <2>1, <2>2
  <1>11. LinesOK'
    BY <1>0, <1>1, <1>3, <1>5, <1>6, <1>7, <1>9, <1>10 DEF LinesOK, Procs
  <1>12. Exclusion'
    BY <1>7, <1>9 DEF Exclusion, Procs
  <1> QED BY <1>2, <1>7, <1>8, <1>11, <1>12 DEF RWInv

\* A writer passes from one line to the other.
LEMMA QueueKeepsRW ==
  ASSUME RWInv, NEW w \in Writers, queueWriter(w)
  PROVE  RWInv'
  <1>0. /\ RWTypeOK /\ LinesOK /\ Exclusion
        /\ readerMutex \in Seq(Procs) /\ writerMutex \in Seq(Procs)
        /\ NoRepeat(readerMutex) /\ NoRepeat(writerMutex) /\ w \in Procs
    BY RWParts DEF Procs
  <1>1. /\ pc[w] = "we1" /\ Holds(readerMutex, w) /\ readerCount' = readerCount
        /\ pc' = [pc EXCEPT ![w] = "we2"]
        /\ readerMutex' = Signal(readerMutex) /\ writerMutex' = Wait(writerMutex, w)
    BY DEF queueWriter, At
  <1>2. \A s \in Readers : pc[s] # "re2"
    BY <1>0, <1>1, RolesAssumption DEF LinesOK, Holds
  <1>3. ~InLine(writerMutex, w)
    BY <1>0, <1>1 DEF LinesOK
  <1>4. /\ \A q : InLine(readerMutex', q) <=> (InLine(readerMutex, q) /\ q # w)
        /\ NoRepeat(readerMutex')
        /\ readerMutex' \in Seq(Procs)
    BY <1>0, <1>1, LeaveMembers, LineLeave DEF Holds
  <1>5. /\ \A q : InLine(writerMutex', q) <=> (InLine(writerMutex, q) \/ q = w)
        /\ NoRepeat(writerMutex')
        /\ \A q : Holds(writerMutex, q) => Holds(writerMutex', q)
        /\ writerMutex' \in Seq(Procs)
    BY <1>0, <1>1, <1>3, JoinMembers
  <1>6. /\ RWTypeOK' /\ pc'[w] = "we2" /\ (\A q \in Procs : q # w => pc'[q] = pc[q])
        /\ w \notin Readers
    BY <1>0, <1>1, <1>4, <1>5, TypeStep, TypeParts DEF WStates
  <1>7. Counted' = Counted
    BY <1>6 DEF Counted, Procs
  <1>8. ASSUME NEW s \in Readers, pc'[s] \in {"reading", "rx1"} PROVE Head(writerMutex') \in Readers
    <2>1. pc[s] \in {"reading", "rx1"}
      BY <1>6, <1>8 DEF Procs
    <2>2. Head(writerMutex) \in Readers /\ \E t \in Readers : InLine(writerMutex, t)
      BY <1>0, <2>1 DEF LinesOK, Counted
    <2>3. Holds(writerMutex, Head(writerMutex))
      BY <1>0, <2>2, MemberOfLine DEF Holds
    <2> QED BY <1>5, <2>2, <2>3 DEF Holds
  <1>9. LinesOK'
    BY <1>0, <1>1, <1>2, <1>4, <1>5, <1>6, <1>7, <1>8 DEF LinesOK, Procs
  <1>10. Exclusion'
    BY <1>0, <1>6 DEF Exclusion, Procs
  <1> QED BY <1>1, <1>6, <1>7, <1>9, <1>10 DEF RWInv

\* A writer has writerMutex: no reader is in, for the head of the line would
\* be a reader.
LEMMA StartKeepsRW ==
  ASSUME RWInv, NEW w \in Writers, startWriting(w)
  PROVE  RWInv'
  <1>0. /\ RWTypeOK /\ LinesOK /\ Exclusion
        /\ readerMutex \in Seq(Procs) /\ writerMutex \in Seq(Procs) /\ w \in Procs
    BY RWParts DEF Procs
  <1>1. /\ pc[w] = "we2" /\ Holds(writerMutex, w)
        /\ pc' = [pc EXCEPT ![w] = "writing"]
        /\ UNCHANGED <<readerMutex, writerMutex, readerCount>>
    BY DEF startWriting, At
  <1>2. /\ RWTypeOK' /\ pc'[w] = "writing" /\ (\A q \in Procs : q # w => pc'[q] = pc[q])
        /\ w \notin Readers
    BY <1>0, <1>1, TypeStep, TypeParts DEF WStates
  <1>3. Counted' = Counted
    BY <1>2 DEF Counted, Procs
  <1>4. \A s \in Readers : pc[s] \notin {"reading", "rx1"}
    BY <1>0, <1>1, <1>2 DEF LinesOK, Holds
  <1>5. \A v \in Writers : v # w => pc[v] # "writing"
    BY <1>0, <1>1 DEF LinesOK, Holds
  <1>6. LinesOK'
    BY <1>0, <1>1, <1>2, <1>3 DEF LinesOK, Procs
  <1>7. Exclusion'
    BY <1>2, <1>4, <1>5 DEF Exclusion, Procs, RWTypeOK
  <1> QED BY <1>1, <1>2, <1>3, <1>6, <1>7 DEF RWInv

\* A writer lets the next call have writerMutex.
LEMMA ExitKeepsRW ==
  ASSUME RWInv, NEW w \in Writers, writerExit(w)
  PROVE  RWInv'
  <1>0. /\ RWTypeOK /\ LinesOK /\ Exclusion
        /\ readerMutex \in Seq(Procs) /\ writerMutex \in Seq(Procs)
        /\ NoRepeat(writerMutex) /\ w \in Procs
    BY RWParts DEF Procs
  <1>1. /\ pc[w] = "writing" /\ Holds(writerMutex, w)
        /\ pc' = [pc EXCEPT ![w] = "idle"]
        /\ writerMutex' = Signal(writerMutex)
        /\ UNCHANGED <<readerMutex, readerCount>>
    BY <1>0 DEF writerExit, At, LinesOK
  <1>2. /\ \A q : InLine(writerMutex', q) <=> (InLine(writerMutex, q) /\ q # w)
        /\ NoRepeat(writerMutex') /\ writerMutex' \in Seq(Procs)
    BY <1>0, <1>1, LeaveMembers, LineLeave DEF Holds
  <1>3. /\ RWTypeOK' /\ pc'[w] = "idle" /\ (\A q \in Procs : q # w => pc'[q] = pc[q])
        /\ w \notin Readers
    BY <1>0, <1>1, <1>2, TypeStep, TypeParts DEF WStates
  <1>4. Counted' = Counted
    BY <1>3 DEF Counted, Procs
  <1>5. \A q \in Procs : q # w => pc[q] \notin {"reading", "rx1", "writing"}
    BY <1>0, <1>1 DEF Exclusion, Procs
  <1>6. LinesOK'
    BY <1>0, <1>1, <1>2, <1>3, <1>4, <1>5 DEF LinesOK, Procs
  <1>7. Exclusion'
    BY <1>3, <1>5 DEF Exclusion, Procs
  <1> QED BY <1>1, <1>3, <1>4, <1>6, <1>7 DEF RWInv

\* Every step of the lock keeps the invariant.
LEMMA RWStep == RWInv /\ [Next]_rwVars => RWInv'
  <1> SUFFICES ASSUME RWInv, [Next]_rwVars PROVE RWInv'
    OBVIOUS
  <1>1. ASSUME NEW r \in Readers, readerEntry(r) \/ ReaderStep(r) \/ readerExit(r) PROVE RWInv'
    <2>1. CASE readerEntry(r)
      BY <2>1, JoinKeepsRW DEF readerEntry, At, Joins, Procs
    <2>2. CASE readerExit(r)
      BY <2>2, JoinKeepsRW DEF readerExit, At, Joins, Procs
    <2>3. CASE ReaderStep(r)
      BY <2>3, FirstReader, LaterReader, AdmitKeepsRW, UncountKeepsRW DEF ReaderStep
    <2> QED BY <1>1, <2>1, <2>2, <2>3
  <1>2. ASSUME NEW w \in Writers, writerEntry(w) \/ WriterStep(w) \/ writerExit(w) PROVE RWInv'
    <2>1. CASE writerEntry(w)
      BY <2>1, JoinKeepsRW DEF writerEntry, At, Joins, Procs
    <2> QED BY <1>2, <2>1, QueueKeepsRW, StartKeepsRW, ExitKeepsRW DEF WriterStep
  <1>3. CASE UNCHANGED rwVars
    BY <1>3 DEF rwVars, RWInv, RWTypeOK, LinesOK, Exclusion, Counted, Holds
  <1> QED BY <1>1, <1>2, <1>3 DEF Next

LEMMA RWInitial == RWInit => RWInv
  <1> SUFFICES ASSUME RWInit PROVE RWInv
    OBVIOUS
  <1>1. /\ readerMutex = << >> /\ writerMutex = << >> /\ readerCount = 0
        /\ pc \in [Procs -> {"idle"}] /\ \A q \in Procs : pc[q] = "idle"
    BY DEF RWInit, Free, Procs
  <1>2. /\ \A q : ~InLine(readerMutex, q) /\ ~InLine(writerMutex, q)
        /\ NoRepeat(readerMutex) /\ NoRepeat(writerMutex)
    BY <1>1 DEF InLine, NoRepeat
  <1>3. Counted = {}
    BY <1>1 DEF Counted, Procs
  <1>4. RWTypeOK
    BY <1>1 DEF RWTypeOK, Procs
  <1>5. LinesOK /\ Exclusion
    BY <1>1, <1>2, <1>3 DEF LinesOK, Exclusion, Procs
  <1> QED BY <1>1, <1>3, <1>4, <1>5, FS_EmptySet DEF RWInv

\* For any readers and writers, in whatever order they come: the line of each
\* mutex holds the calls suspended at it once each, one reader stands in the line
\* of writerMutex for all that are counted, and a writer is alone. (The four
\* methods of RWLock.ts.)
THEOREM LockInvariant == Spec => []RWInv
  <1> QED BY RWInitial, RWStep, PTL DEF Spec

-----------------------------------------------------------------------------
(* The lock as its callers see it: who is ahead of whom in a line, and what *)
(* a step changes of it.                                                    *)

LEMMA AheadJoin ==
  ASSUME NEW S, NEW m \in Seq(S), NEW x \in S, ~InLine(m, x), NEW w, w = Wait(m, x)
  PROVE  \A p, q : Ahead(w, p, q) <=> Ahead(m, p, q) \/ (InLine(m, p) /\ q = x)
  <1>0. /\ Len(w) = Len(m) + 1 /\ Len(m) \in Nat
        /\ \A i \in 1..Len(m) : w[i] = m[i]
        /\ w[Len(m) + 1] = x
    BY AppendProperties, LenProperties DEF Wait
  <1>1. ASSUME NEW p, NEW q, Ahead(w, p, q) PROVE Ahead(m, p, q) \/ (InLine(m, p) /\ q = x)
    <2>1. PICK i, j \in 1..Len(w) : i < j /\ w[i] = p /\ w[j] = q
      BY <1>1 DEF Ahead
    <2>2. i \in 1..Len(m) /\ m[i] = p
      BY <1>0, <2>1
    <2>3. CASE j = Len(m) + 1
      BY <1>0, <2>1, <2>2, <2>3 DEF InLine
    <2>4. CASE j # Len(m) + 1
      <3>1. j \in 1..Len(m) /\ m[j] = q
        BY <1>0, <2>1, <2>4
      <3> QED BY <2>1, <2>2, <3>1 DEF Ahead
    <2> QED BY <2>3, <2>4
  <1>2. ASSUME NEW p, NEW q, Ahead(m, p, q) PROVE Ahead(w, p, q)
    <2>1. PICK i, j \in 1..Len(m) : i < j /\ m[i] = p /\ m[j] = q
      BY <1>2 DEF Ahead
    <2>2. i \in 1..Len(w) /\ j \in 1..Len(w) /\ w[i] = p /\ w[j] = q
      BY <1>0, <2>1
    <2> QED BY <2>1, <2>2 DEF Ahead
  <1>3. ASSUME NEW p, InLine(m, p) PROVE Ahead(w, p, x)
    <2>1. PICK i \in 1..Len(m) : m[i] = p
      BY <1>3 DEF InLine
    <2>2. /\ i \in 1..Len(w) /\ Len(m) + 1 \in 1..Len(w) /\ i < Len(m) + 1
          /\ w[i] = p /\ w[Len(m) + 1] = x
      BY <1>0, <2>1
    <2> QED BY <2>2 DEF Ahead
  <1> QED BY <1>1, <1>2, <1>3

LEMMA AheadLeave ==
  ASSUME NEW S, NEW m \in Seq(S), m # << >>, NoRepeat(m), NEW w, w = Signal(m)
  PROVE  /\ \A p, q : Ahead(w, p, q) <=> Ahead(m, p, q) /\ p # Head(m)
         /\ \A p : ~Ahead(m, p, Head(m))
  <1>0. /\ Len(m) \in Nat /\ Len(m) > 0 /\ Len(w) = Len(m) - 1
        /\ \A i \in 1..Len(m) - 1 : w[i] = m[i + 1]
        /\ Head(m) = m[1] /\ 1 \in 1..Len(m)
    BY LineLeave
  <1>1. ASSUME NEW p, NEW q, Ahead(w, p, q) PROVE Ahead(m, p, q) /\ p # Head(m)
    <2>1. PICK i, j \in 1..Len(w) : i < j /\ w[i] = p /\ w[j] = q
      BY <1>1 DEF Ahead
    <2>2. /\ i + 1 \in 1..Len(m) /\ j + 1 \in 1..Len(m) /\ i + 1 < j + 1 /\ i + 1 # 1
          /\ m[i + 1] = p /\ m[j + 1] = q
      BY <1>0, <2>1
    <2> QED BY <1>0, <2>2 DEF Ahead, NoRepeat
  <1>2. ASSUME NEW p, NEW q, Ahead(m, p, q), p # Head(m) PROVE Ahead(w, p, q)
    <2>1. PICK i, j \in 1..Len(m) : i < j /\ m[i] = p /\ m[j] = q
      BY <1>2 DEF Ahead
    <2>2. /\ i - 1 \in 1..Len(w) /\ j - 1 \in 1..Len(w) /\ i - 1 < j - 1
          /\ w[i - 1] = m[(i - 1) + 1] /\ w[j - 1] = m[(j - 1) + 1]
          /\ (i - 1) + 1 = i /\ (j - 1) + 1 = j
      <3>1. i # 1
        BY <1>0, <1>2, <2>1
      <3> QED BY <1>0, <2>1, <3>1
    <2> QED BY <2>1, <2>2 DEF Ahead
  <1>3. ASSUME NEW p, Ahead(m, p, Head(m)) PROVE FALSE
    <2>1. PICK i, j \in 1..Len(m) : i < j /\ m[i] = p /\ m[j] = Head(m)
      BY <1>3 DEF Ahead
    <2> QED BY <1>0, <2>1 DEF NoRepeat
  <1> QED BY <1>1, <1>2, <1>3

LEMMA HeadIsAhead ==
  ASSUME NEW S, NEW m \in Seq(S), NEW q, InLine(m, q), q # Head(m)
  PROVE  Ahead(m, Head(m), q)
  <1>1. PICK i \in 1..Len(m) : m[i] = q
    BY DEF InLine
  <1>2. m # << >> /\ Len(m) \in Nat /\ Head(m) = m[1]
    BY MemberOfLine, LineLeave
  <1>3. 1 \in 1..Len(m) /\ 1 < i
    BY <1>1, <1>2
  <1> QED BY <1>1, <1>2, <1>3 DEF Ahead

\* What a step does to the order of those who wait.
SameOrder(S) == \A p, q \in S : Precedes(p, q)' <=> Precedes(p, q)

LEMMA OrderKept ==
  ASSUME Waiting' = Waiting, SameOrder(Waiting)
  PROVE  Before' = Before
  BY DEF Before, SameOrder

LEMMA OrderLetIn ==
  ASSUME NEW x \in Waiting, Waiting' = Waiting \ {x}, SameOrder(Waiting \ {x})
  PROVE  Before' = [q \in Readers \cup Writers |-> IF q = x THEN {} ELSE Before[q] \ {x}]
  <1>1. ASSUME NEW q \in Readers \cup Writers
        PROVE  {p \in Waiting' : q \in Waiting' /\ Precedes(p, q)'} =
                 IF q = x THEN {} ELSE Before[q] \ {x}
    BY DEF Before, SameOrder
  <1> QED BY <1>1 DEF Before

LEMMA OrderCome ==
  ASSUME NEW x \in Procs \ Waiting, Waiting' = Waiting \cup {x}, SameOrder(Waiting),
         \A p \in Waiting : Precedes(p, x)' /\ ~Precedes(x, p)',
         ~Precedes(x, x)'
  PROVE  Before' = [Before EXCEPT ![x] = Waiting]
  <1>1. ASSUME NEW q \in Procs
        PROVE  {p \in Waiting' : q \in Waiting' /\ Precedes(p, q)'} =
                 IF q = x THEN Waiting ELSE Before[q]
    BY DEF Before, SameOrder, Procs
  <1> QED BY <1>1 DEF Before, Procs

\* The places of the calls after a step of p.
LEMMA PlacesStep ==
  ASSUME RWInv, NEW p \in Procs, NEW to, pc' = [pc EXCEPT ![p] = to]
  PROVE  /\ pc'[p] = to /\ \A q \in Procs : q # p => pc'[q] = pc[q]
         /\ Waiting \subseteq Procs /\ Inside \subseteq Procs /\ Waiting \cap Inside = {}
         /\ p \in Waiting <=> pc[p] \in EntryStates
         /\ p \in Inside <=> pc[p] \in {"reading", "rx1", "writing"}
         /\ Waiting' = IF to \in EntryStates THEN Waiting \cup {p} ELSE Waiting \ {p}
         /\ Inside' = IF to \in {"reading", "rx1", "writing"} THEN Inside \cup {p} ELSE Inside \ {p}
  <1>1. pc \in [Procs -> RStates \cup WStates]
    BY RWParts, TypeParts
  <1>2. pc'[p] = to /\ \A q \in Procs : q # p => pc'[q] = pc[q]
    BY <1>1
  <1> QED BY <1>1, <1>2 DEF Waiting, Inside, Procs, EntryStates

LEMMA EntryComes ==
  ASSUME RWInv, NEW p \in Procs, Joins(p, "idle", "re1") \/ Joins(p, "idle", "we1")
  PROVE  RWL!Come(p)
  <1>0. /\ LinesOK /\ readerMutex \in Seq(Procs) /\ NoRepeat(readerMutex)
        /\ pc[p] = "idle" /\ readerMutex' = Wait(readerMutex, p) /\ writerMutex' = writerMutex
    BY RWParts DEF Joins
  <1>1. PICK to \in {"re1", "we1"} : pc' = [pc EXCEPT ![p] = to]
    BY DEF Joins
  <1>2. /\ pc'[p] = to /\ \A q \in Procs : q # p => pc'[q] = pc[q]
        /\ Waiting \subseteq Procs /\ p \notin Waiting \cup Inside
        /\ Waiting' = Waiting \cup {p} /\ Inside' = Inside
    <2>1. /\ pc'[p] = to /\ \A q \in Procs : q # p => pc'[q] = pc[q]
          /\ Waiting \subseteq Procs /\ p \notin Waiting /\ p \notin Inside
      BY <1>0, <1>1, PlacesStep DEF EntryStates
    <2>2. Waiting' = Waiting \cup {p} /\ Inside' = Inside \ {p}
      BY <1>1, PlacesStep DEF EntryStates
    <2> QED BY <2>1, <2>2
  <1>3. /\ ~InLine(readerMutex, p)
        /\ \A q \in Waiting : pc[q] \in {"re1", "we1"} => InLine(readerMutex, q)
    BY <1>0, <1>2 DEF LinesOK, Procs
  <1>4. \A q, s : Ahead(readerMutex', q, s) <=>
                    Ahead(readerMutex, q, s) \/ (InLine(readerMutex, q) /\ s = p)
    BY <1>0, <1>3, AheadJoin
  <1>5. \A q : ~Ahead(readerMutex, p, q)
    BY <1>3 DEF Ahead, InLine
  <1>6. SameOrder(Waiting)
    BY <1>0, <1>2, <1>4 DEF SameOrder, Precedes
  <1>7. \A q \in Waiting : Precedes(q, p)' /\ ~Precedes(p, q)'
    BY <1>0, <1>1, <1>2, <1>3, <1>4, <1>5 DEF Precedes, Waiting, EntryStates
  <1>8. ~Precedes(p, p)'
    BY <1>0, <1>1, <1>2, <1>3, <1>4, <1>5 DEF Precedes
  <1>9. Before' = [Before EXCEPT ![p] = Waiting]
    BY <1>2, <1>6, <1>7, <1>8, OrderCome
  <1> QED BY <1>2, <1>9 DEF RWL!Come

\* The first reader goes from one line to the other, and so does a writer: it
\* keeps its place.
LEMMA CrossingKeepsOrder ==
  ASSUME RWInv, NEW p \in Procs,
         \/ p \in Readers /\ countReader(p) /\ readerCount' = 1
         \/ p \in Writers /\ queueWriter(p)
  PROVE  UNCHANGED RWL!vars
  <1>0. /\ LinesOK /\ NoRepeat(readerMutex) /\ readerMutex \in Seq(Procs)
        /\ writerMutex \in Seq(Procs) /\ RWTypeOK
    BY RWParts
  <1>1. /\ pc[p] \in {"re1", "we1"} /\ Holds(readerMutex, p)
        /\ writerMutex' = Wait(writerMutex, p)
        /\ readerMutex' \in {readerMutex, Signal(readerMutex)}
    BY DEF countReader, queueWriter, At
  <1>2. PICK to \in {"re2", "we2"} : pc' = [pc EXCEPT ![p] = to]
    BY DEF countReader, queueWriter, At
  <1>3. /\ pc'[p] = to /\ \A q \in Procs : q # p => pc'[q] = pc[q]
        /\ Waiting \subseteq Procs /\ p \in Waiting
        /\ Waiting' = Waiting /\ Inside' = Inside
    <2>1. /\ pc'[p] = to /\ \A q \in Procs : q # p => pc'[q] = pc[q]
          /\ Waiting \subseteq Procs /\ p \in Waiting /\ p \notin Inside
      BY <1>1, <1>2, PlacesStep DEF EntryStates
    <2>2. Waiting' = Waiting \cup {p} /\ Inside' = Inside \ {p}
      BY <1>2, PlacesStep DEF EntryStates
    <2> QED BY <2>1, <2>2
  <1>4. /\ \A q \in Readers : pc[q] \in RStates /\ (pc[q] = "re2" => Holds(readerMutex, q))
        /\ \A q \in Writers : pc[q] \in WStates /\ (pc[q] = "we2" => InLine(writerMutex, q))
        /\ \A q \in Procs : pc[q] \in {"re1", "we1"} => InLine(readerMutex, q)
    BY <1>0, TypeParts DEF LinesOK, Procs
  <1>5. \A q \in Waiting :
           pc[q] \in {"re1", "we1"} \/ (pc[q] = "we2" /\ InLine(writerMutex, q))
    BY <1>1, <1>4 DEF Holds, Waiting, EntryStates, RStates, WStates, Procs
  <1>6. ~InLine(writerMutex, p)
    <2>1. CASE p \in Writers
      BY <1>0, <1>1, <2>1 DEF LinesOK
    <2>2. CASE p \in Readers
      <3>1. readerCount' = 1 /\ readerCount' = readerCount + 1
        BY <2>2, RolesAssumption DEF countReader
      <3>2. Counted = {}
        BY <3>1, CountedSet
      <3> QED BY <1>0, <2>2, <3>2 DEF LinesOK
    <2> QED BY <2>1, <2>2 DEF Procs
  <1>7. /\ \A q, s : Ahead(writerMutex', q, s) <=>
                       Ahead(writerMutex, q, s) \/ (InLine(writerMutex, q) /\ s = p)
        /\ \A q : ~Ahead(writerMutex, p, q)
    <2>1. \A q : ~Ahead(writerMutex, p, q)
      BY <1>6 DEF Ahead, InLine
    <2> QED BY <1>0, <1>1, <1>6, <2>1, AheadJoin
  <1>8. /\ \A q, s : q # p => (Ahead(readerMutex', q, s) <=> Ahead(readerMutex, q, s))
        /\ \A q : ~Ahead(readerMutex, q, p)
    BY <1>0, <1>1, AheadLeave DEF Holds
  <1>9. \A q \in Waiting : pc[q] \in {"re1", "we1"} /\ q # p => Ahead(readerMutex, p, q)
    BY <1>0, <1>1, <1>4, HeadIsAhead DEF Holds, Waiting, Procs
  <1>10. ASSUME NEW q \in Waiting, NEW s \in Waiting
         PROVE  Precedes(q, s)' <=> Precedes(q, s)
    BY <1>1, <1>2, <1>3, <1>5, <1>6, <1>7, <1>8, <1>9 DEF Precedes
  <1> QED BY <1>3, <1>10, OrderKept DEF SameOrder, RWL!vars

\* Who waits for writerMutex or is about to, seen from a reader that holds
\* readerMutex.
LEMMA NoFirstReader ==
  ASSUME RWInv, NEW r \in Readers, Holds(readerMutex, r), pc[r] # "re2"
  PROVE  /\ \A q \in Procs : pc[q] # "re2"
         /\ \A q \in Counted : pc[q] \in {"reading", "rx1"}
  <1>1. LinesOK /\ RWTypeOK
    BY RWParts
  <1>2. \A q \in Readers : pc[q] # "re2"
    BY <1>1 DEF LinesOK, Holds
  <1> QED BY <1>1, <1>2, TypeParts DEF Counted, Procs, WStates

\* A later reader is let in, maybe in front of writers.
LEMMA LaterReaderIn ==
  ASSUME RWInv, NEW r \in Readers, countReader(r), readerCount' # 1
  PROVE  RWL!LetReaderIn(r)
  <1>0. /\ LinesOK /\ NoRepeat(readerMutex) /\ readerMutex \in Seq(Procs)
        /\ Exclusion /\ RWTypeOK /\ r \in Procs
    BY RWParts DEF Procs
  <1>1. /\ pc[r] = "re1" /\ Holds(readerMutex, r) /\ readerCount' = readerCount + 1
        /\ writerMutex' = writerMutex /\ readerMutex' = Signal(readerMutex)
        /\ pc' = [pc EXCEPT ![r] = "reading"]
    BY DEF countReader
  <1>2. /\ pc'[r] = "reading" /\ \A q \in Procs : q # r => pc'[q] = pc[q]
        /\ r \in Waiting /\ Waiting \subseteq Procs
        /\ Waiting' = Waiting \ {r} /\ Inside' = Inside \cup {r}
    BY <1>0, <1>1, PlacesStep DEF EntryStates
  <1>3. /\ \A q, s : Ahead(readerMutex', q, s) <=> Ahead(readerMutex, q, s) /\ q # r
        /\ \A q : ~Ahead(readerMutex, q, r)
    <2>1. readerMutex # << >> /\ Head(readerMutex) = r
      BY <1>1 DEF Holds
    <2>2. \A q, s : Ahead(readerMutex', q, s) <=> Ahead(readerMutex, q, s) /\ q # r
      BY <1>0, <1>1, <2>1, AheadLeave
    <2>3. \A q : ~Ahead(readerMutex, q, Head(readerMutex))
      BY <1>0, <2>1, AheadLeave
    <2> QED BY <2>1, <2>2, <2>3
  <1>4. SameOrder(Waiting \ {r})
    BY <1>1, <1>2, <1>3 DEF SameOrder, Precedes
  <1>5. RWL!LetIn(r)
    BY <1>2, <1>4, OrderLetIn DEF RWL!LetIn
  <1>6. PICK s \in Counted : pc[s] \in {"reading", "rx1"}
    <2>1. Counted # {}
      BY <1>1, CountedSet
    <2> QED BY <1>1, <2>1, NoFirstReader
  <1>7. s \in Inside /\ Inside \cap Writers = {}
    <2>1. s \in Readers /\ s \in Procs /\ s \in Inside
      BY <1>6 DEF Counted, Procs, Inside
    <2>2. ASSUME NEW w \in Writers PROVE pc[w] \notin {"reading", "rx1", "writing"}
      BY <1>0, <1>6, <2>1, RolesAssumption, TypeParts DEF Exclusion, Procs, WStates
    <2> QED BY <2>1, <2>2 DEF Inside
  <1>8. Before[r] \subseteq Writers
    <2>1. ASSUME NEW q \in Waiting, Precedes(q, r) PROVE q \in Writers
      <3>1. pc[q] = "we2"
        BY <1>1, <1>2, <1>3, <2>1, NoFirstReader DEF Precedes
      <3> QED BY <1>0, <1>2, <3>1, TypeParts DEF Procs, RStates
    <2> QED BY <1>0, <2>1 DEF Before, Procs
  <1> QED BY <1>5, <1>7, <1>8 DEF RWL!LetReaderIn

\* The first reader is let in; it has waited for everybody before it.
LEMMA FirstReaderIn ==
  ASSUME RWInv, NEW r \in Readers, admitReaders(r)
  PROVE  RWL!LetReaderIn(r)
  <1>0. /\ LinesOK /\ NoRepeat(readerMutex) /\ readerMutex \in Seq(Procs)
        /\ NoRepeat(writerMutex) /\ writerMutex \in Seq(Procs)
        /\ RWTypeOK /\ r \in Procs
    BY RWParts DEF Procs
  <1>1. /\ pc[r] = "re2" /\ Holds(writerMutex, r) /\ Holds(readerMutex, r)
        /\ writerMutex' = writerMutex /\ readerMutex' = Signal(readerMutex)
        /\ pc' = [pc EXCEPT ![r] = "reading"]
    BY <1>0 DEF admitReaders, At, LinesOK
  <1>2. /\ pc'[r] = "reading" /\ \A q \in Procs : q # r => pc'[q] = pc[q]
        /\ r \in Waiting /\ Waiting \subseteq Procs
        /\ Waiting' = Waiting \ {r} /\ Inside' = Inside \cup {r}
    BY <1>0, <1>1, PlacesStep DEF EntryStates
  <1>3. /\ \A q, s : Ahead(readerMutex', q, s) <=> Ahead(readerMutex, q, s) /\ q # r
        /\ \A q : ~Ahead(writerMutex, q, r)
    <2>1. /\ readerMutex # << >> /\ Head(readerMutex) = r
          /\ writerMutex # << >> /\ Head(writerMutex) = r
      BY <1>1 DEF Holds
    <2>2. \A q, s : Ahead(readerMutex', q, s) <=> Ahead(readerMutex, q, s) /\ q # r
      BY <1>0, <1>1, <2>1, AheadLeave
    <2>3. \A q : ~Ahead(writerMutex, q, r)
      <3>1. \A q : ~Ahead(writerMutex, q, Head(writerMutex))
        BY <1>0, <2>1, AheadLeave
      <3> QED BY <2>1, <3>1
    <2> QED BY <2>2, <2>3
  <1>4. SameOrder(Waiting \ {r})
    BY <1>1, <1>2, <1>3 DEF SameOrder, Precedes
  <1>5. RWL!LetIn(r)
    BY <1>2, <1>4, OrderLetIn DEF RWL!LetIn
  <1>6. Inside \cap Writers = {}
    <2>1. ASSUME NEW w \in Writers PROVE pc[w] \notin {"reading", "rx1", "writing"}
      BY <1>0, <1>1, RolesAssumption, TypeParts DEF LinesOK, Holds, WStates
    <2> QED BY <2>1 DEF Inside
  <1>7. Before[r] = {}
    <2>1. \A q \in Waiting : ~Precedes(q, r)
      BY <1>1, <1>3 DEF Precedes
    <2> QED BY <1>0, <2>1 DEF Before, Procs
  <1> QED BY <1>5, <1>6, <1>7 DEF RWL!LetReaderIn

LEMMA WriterIn ==
  ASSUME RWInv, NEW w \in Writers, startWriting(w)
  PROVE  RWL!LetWriterIn(w)
  <1>0. /\ LinesOK /\ NoRepeat(writerMutex) /\ writerMutex \in Seq(Procs)
        /\ RWTypeOK /\ w \in Procs
    BY RWParts DEF Procs
  <1>1. /\ pc[w] = "we2" /\ Holds(writerMutex, w)
        /\ writerMutex' = writerMutex /\ readerMutex' = readerMutex
        /\ pc' = [pc EXCEPT ![w] = "writing"]
    BY DEF startWriting, At
  <1>2. /\ pc'[w] = "writing" /\ \A q \in Procs : q # w => pc'[q] = pc[q]
        /\ w \in Waiting /\ Waiting \subseteq Procs
        /\ Waiting' = Waiting \ {w} /\ Inside' = Inside \cup {w}
    BY <1>0, <1>1, PlacesStep DEF EntryStates
  <1>3. \A q : ~Ahead(writerMutex, q, w)
    BY <1>0, <1>1, AheadLeave DEF Holds
  <1>4. SameOrder(Waiting \ {w})
    BY <1>1, <1>2 DEF SameOrder, Precedes
  <1>5. RWL!LetIn(w)
    BY <1>2, <1>4, OrderLetIn DEF RWL!LetIn
  <1>6. Inside = {}
    <2>1. ASSUME NEW q \in Procs PROVE pc[q] \notin {"reading", "rx1", "writing"}
      <3>1. CASE q \in Writers
        BY <1>0, <1>1, <3>1, TypeParts DEF LinesOK, Holds, WStates
      <3>2. CASE q \in Readers
        BY <1>0, <1>1, <3>2, RolesAssumption, TypeParts DEF LinesOK, Holds, RStates
      <3> QED BY <3>1, <3>2 DEF Procs
    <2> QED BY <2>1 DEF Inside, Procs
  <1>7. Before[w] = {}
    <2>1. \A q \in Waiting : ~Precedes(q, w)
      BY <1>1, <1>3 DEF Precedes
    <2> QED BY <1>0, <2>1 DEF Before, Procs
  <1> QED BY <1>5, <1>6, <1>7 DEF RWL!LetWriterIn

\* A reader that asks to leave is inside until it is counted out.
LEMMA ExitQueues ==
  ASSUME RWInv, NEW r \in Readers, readerExit(r)
  PROVE  UNCHANGED RWL!vars
  <1>0. /\ LinesOK /\ readerMutex \in Seq(Procs) /\ r \in Procs
    BY RWParts DEF Procs
  <1>1. /\ pc[r] = "reading" /\ pc' = [pc EXCEPT ![r] = "rx1"]
        /\ readerMutex' = Wait(readerMutex, r) /\ writerMutex' = writerMutex
    BY DEF readerExit, At
  <1>2. /\ pc'[r] = "rx1" /\ \A q \in Procs : q # r => pc'[q] = pc[q]
        /\ r \notin Waiting /\ Waiting \subseteq Procs
        /\ Waiting' = Waiting /\ Inside' = Inside
    <2>1. /\ pc'[r] = "rx1" /\ \A q \in Procs : q # r => pc'[q] = pc[q]
          /\ Waiting \subseteq Procs /\ r \notin Waiting /\ r \in Inside
      BY <1>0, <1>1, PlacesStep DEF EntryStates
    <2>2. Waiting' = Waiting \ {r} /\ Inside' = Inside \cup {r}
      BY <1>0, <1>1, PlacesStep DEF EntryStates
    <2> QED BY <2>1, <2>2
  <1>3. ~InLine(readerMutex, r)
    BY <1>0, <1>1 DEF LinesOK, Procs
  <1>4. \A q, s : Ahead(readerMutex', q, s) <=>
                    Ahead(readerMutex, q, s) \/ (InLine(readerMutex, q) /\ s = r)
    BY <1>0, <1>1, <1>3, AheadJoin
  <1>5. SameOrder(Waiting)
    BY <1>1, <1>2, <1>4 DEF SameOrder, Precedes
  <1> QED BY <1>2, <1>5, OrderKept DEF RWL!vars

LEMMA ReaderLeaves ==
  ASSUME RWInv, NEW r \in Readers, uncountReader(r)
  PROVE  RWL!Leave(r)
  <1>0. /\ LinesOK /\ NoRepeat(readerMutex) /\ readerMutex \in Seq(Procs)
        /\ NoRepeat(writerMutex) /\ writerMutex \in Seq(Procs) /\ r \in Procs
    BY RWParts DEF Procs
  <1>1. /\ pc[r] = "rx1" /\ Holds(readerMutex, r) /\ pc' = [pc EXCEPT ![r] = "idle"]
        /\ readerMutex' = Signal(readerMutex)
        /\ writerMutex' \in {writerMutex, Signal(writerMutex)}
    BY DEF uncountReader, At
  <1>2. /\ pc'[r] = "idle" /\ \A q \in Procs : q # r => pc'[q] = pc[q]
        /\ r \notin Waiting /\ r \in Inside /\ Waiting \subseteq Procs
        /\ Waiting' = Waiting /\ Inside' = Inside \ {r}
    <2>1. /\ pc'[r] = "idle" /\ \A q \in Procs : q # r => pc'[q] = pc[q]
          /\ Waiting \subseteq Procs /\ r \notin Waiting /\ r \in Inside
      BY <1>0, <1>1, PlacesStep DEF EntryStates
    <2>2. Waiting' = Waiting \ {r} /\ Inside' = Inside \ {r}
      BY <1>0, <1>1, PlacesStep DEF EntryStates
    <2> QED BY <2>1, <2>2
  <1>3. \A q, s : Ahead(readerMutex', q, s) <=> Ahead(readerMutex, q, s) /\ q # r
    BY <1>0, <1>1, AheadLeave DEF Holds
  <1>4. /\ writerMutex # << >> /\ Head(writerMutex) \in Readers
        /\ pc[Head(writerMutex)] \notin {"re2", "we2"}
    <2>1. Head(writerMutex) \in Readers /\ writerMutex # << >>
      <3>1. PICK s \in Readers : InLine(writerMutex, s)
        BY <1>0, <1>1 DEF LinesOK, Counted
      <3> QED BY <1>0, <1>1, <3>1, MemberOfLine DEF LinesOK
    <2> QED BY <1>0, <1>1, <2>1, NoFirstReader, RWParts, TypeParts DEF RStates, Procs
  <1>5. \A q, s : q # Head(writerMutex) =>
           (Ahead(writerMutex', q, s) <=> Ahead(writerMutex, q, s))
    BY <1>0, <1>1, <1>4, AheadLeave
  <1>6. SameOrder(Waiting)
    BY <1>1, <1>2, <1>3, <1>4, <1>5 DEF SameOrder, Precedes
  <1> QED BY <1>2, <1>6, OrderKept DEF RWL!Leave

LEMMA WriterLeaves ==
  ASSUME RWInv, NEW w \in Writers, writerExit(w)
  PROVE  RWL!Leave(w)
  <1>0. /\ LinesOK /\ NoRepeat(writerMutex) /\ writerMutex \in Seq(Procs) /\ w \in Procs
    BY RWParts DEF Procs
  <1>1. /\ pc[w] = "writing" /\ Holds(writerMutex, w) /\ pc' = [pc EXCEPT ![w] = "idle"]
        /\ readerMutex' = readerMutex /\ writerMutex' = Signal(writerMutex)
    BY <1>0 DEF writerExit, At, LinesOK
  <1>2. /\ pc'[w] = "idle" /\ \A q \in Procs : q # w => pc'[q] = pc[q]
        /\ w \notin Waiting /\ w \in Inside /\ Waiting \subseteq Procs
        /\ Waiting' = Waiting /\ Inside' = Inside \ {w}
    <2>1. /\ pc'[w] = "idle" /\ \A q \in Procs : q # w => pc'[q] = pc[q]
          /\ Waiting \subseteq Procs /\ w \notin Waiting /\ w \in Inside
      BY <1>0, <1>1, PlacesStep DEF EntryStates
    <2>2. Waiting' = Waiting \ {w} /\ Inside' = Inside \ {w}
      BY <1>0, <1>1, PlacesStep DEF EntryStates
    <2> QED BY <2>1, <2>2
  <1>3. \A q, s : Ahead(writerMutex', q, s) <=> Ahead(writerMutex, q, s) /\ q # w
    BY <1>0, <1>1, AheadLeave DEF Holds
  <1>4. SameOrder(Waiting)
    BY <1>1, <1>2, <1>3 DEF SameOrder, Precedes
  <1> QED BY <1>2, <1>4, OrderKept DEF RWL!Leave

LEMMA LockStepMaps == RWInv /\ [Next]_rwVars => [RWL!Next]_RWL!vars
  <1> SUFFICES ASSUME RWInv, [Next]_rwVars PROVE [RWL!Next]_RWL!vars
    OBVIOUS
  <1>1. ASSUME NEW r \in Readers, readerEntry(r) \/ ReaderStep(r) \/ readerExit(r)
        PROVE  [RWL!Next]_RWL!vars
    <2>1. CASE readerEntry(r)
      BY <2>1, EntryComes DEF readerEntry, At, Joins, Procs, RWL!Next
    <2>2. CASE readerExit(r)
      BY <2>2, ExitQueues
    <2>3. CASE countReader(r)
      BY <2>3, CrossingKeepsOrder, LaterReaderIn DEF RWL!Next, Procs
    <2>4. CASE admitReaders(r)
      BY <2>4, FirstReaderIn DEF RWL!Next
    <2>5. CASE uncountReader(r)
      BY <2>5, ReaderLeaves DEF RWL!Next
    <2> QED BY <1>1, <2>1, <2>2, <2>3, <2>4, <2>5 DEF ReaderStep
  <1>2. ASSUME NEW w \in Writers, writerEntry(w) \/ WriterStep(w) \/ writerExit(w)
        PROVE  [RWL!Next]_RWL!vars
    <2>1. CASE writerEntry(w)
      BY <2>1, EntryComes DEF writerEntry, At, Joins, Procs, RWL!Next
    <2>2. CASE queueWriter(w)
      BY <2>2, CrossingKeepsOrder DEF Procs
    <2>3. CASE startWriting(w)
      BY <2>3, WriterIn DEF RWL!Next
    <2>4. CASE writerExit(w)
      BY <2>4, WriterLeaves DEF RWL!Next
    <2> QED BY <1>2, <2>1, <2>2, <2>3, <2>4 DEF WriterStep
  <1>3. CASE UNCHANGED rwVars
    BY <1>3 DEF rwVars, RWL!vars, Waiting, Inside, Before, Precedes
  <1> QED BY <1>1, <1>2, <1>3 DEF Next

LEMMA LockInitMaps == RWInit => RWL!Init
  <1> SUFFICES ASSUME RWInit PROVE RWL!Init
    OBVIOUS
  <1>1. \A p \in Procs : pc[p] = "idle"
    BY DEF RWInit, Procs
  <1>2. Waiting = {} /\ Inside = {}
    BY <1>1 DEF Waiting, Inside, EntryStates, Procs
  <1> QED BY <1>2 DEF RWL!Init, Before

\* For any readers and writers: a writer is alone, nobody overtakes a reader, and
\* readers overtake writers only while other readers are inside. Each step of the
\* two mutexes is a step of ReadWriteLock or none. (The four methods of RWLock.ts.)
THEOREM LockIsReadWriteLock == Spec => ImplementsReadWriteLock
  <1> QED BY LockInitMaps, LockStepMaps, LockInvariant, PTL
          DEF Spec, ImplementsReadWriteLock, RWL!Spec

-----------------------------------------------------------------------------
(* The sync task. *)

\* Each step of the task is a step of the lock, or none.
LEMMA SyncMovesLock == SyncNext => [Next]_rwVars
  <1> SUFFICES ASSUME SyncNext PROVE [Next]_rwVars
    OBVIOUS
  <1>1. CASE start \/ stop \/ onDidStartTask \/ onDidEndTask \/ open \/ close
    BY <1>1 DEF start, stop, onDidStartTask, onDidEndTask, open, close, rwVars
  <1>2. ASSUME NEW c \in Readers, dataEvent(c) \/ processData(c) PROVE Next
    BY <1>2 DEF dataEvent, processData, Next
  <1>3. CASE closeEvent \/ processClose
    BY <1>3, CloseEventAssumption DEF closeEvent, processClose, Next
  <1>4. CASE lockStep
    BY <1>4, CloseEventAssumption DEF lockStep, Next
  <1> QED BY <1>1, <1>2, <1>3, <1>4 DEF SyncNext

\* For any number of data events, the lock keeps its invariant in a sync task.
THEOREM SyncLockInvariant == SyncSpec => []RWInv
  <1>1. Init => RWInv
    BY RWInitial DEF Init
  <1>2. RWInv /\ [SyncNext]_vars => RWInv'
    BY SyncMovesLock, RWStep DEF vars, rwVars
  <1> QED BY <1>1, <1>2, PTL DEF SyncSpec

\* The handlers of a sync task, for any number of data events, see a lock that
\* lets them in as ReadWriteLock says: the close event is alone with the state.
THEOREM SyncLockIsReadWriteLock == SyncSpec => ImplementsReadWriteLock
  <1>1. Init => RWL!Init
    BY LockInitMaps DEF Init
  <1>2. RWInv /\ [SyncNext]_vars => [RWL!Next]_RWL!vars
    <2>1. [SyncNext]_vars => [Next]_rwVars
      BY SyncMovesLock DEF vars, rwVars
    <2> QED BY <2>1, LockStepMaps
  <1> QED BY <1>1, <1>2, SyncLockInvariant, PTL
          DEF SyncSpec, ImplementsReadWriteLock, RWL!Spec

-----------------------------------------------------------------------------
(* The order of the close event. *)

\* The calls behind p in a line.
Behind(m, p) == {m[j] : j \in {k \in 1..Len(m) : \E i \in 1..Len(m) : i < k /\ m[i] = p}}

\* Once the process is gone no data event comes any more; those that stood in
\* the line of readerMutex for their entry are in front of the close event.
CloseIsLast ==
  /\ pc[CloseEvent] = "we1" => \A q \in Behind(readerMutex, CloseEvent) : pc[q] = "rx1"
  /\ pc[CloseEvent] \in {"we2", "writing"} =>
       \A c \in Readers : pc[c] \notin {"re1", "re2"}

LEMMA BehindJoin ==
  ASSUME NEW S, NEW m \in Seq(S), NEW p, NEW q \in S, NEW w, w = Wait(m, q)
  PROVE  /\ Behind(w, p) \subseteq Behind(m, p) \cup {q}
         /\ ~InLine(m, p) => Behind(w, p) = {}
  <1>1. /\ Len(w) = Len(m) + 1 /\ Len(m) \in Nat
        /\ \A i \in 1..Len(m) : w[i] = m[i]
        /\ w[Len(m) + 1] = q
    BY AppendProperties, LenProperties DEF Wait
  <1>2. ASSUME NEW i \in 1..Len(w), NEW k \in 1..Len(w), i < k, w[i] = p
        PROVE  /\ w[k] \in Behind(m, p) \cup {q}
               /\ InLine(m, p)
    <2>1. i \in 1..Len(m) /\ (k \in 1..Len(m) \/ k = Len(m) + 1)
      BY <1>1, <1>2
    <2> QED BY <1>1, <1>2, <2>1 DEF Behind, InLine
  <1> QED BY <1>2 DEF Behind

LEMMA BehindLeave ==
  ASSUME NEW S, NEW m \in Seq(S), m # << >>, NEW p, NEW w, w = Signal(m)
  PROVE  /\ Behind(w, p) \subseteq Behind(m, p)
         /\ \A q : Head(m) = p /\ InLine(m, q) => q = p \/ q \in Behind(m, p)
  <1>1. /\ Len(m) \in Nat /\ Len(m) > 0 /\ Len(w) = Len(m) - 1
        /\ \A i \in 1..Len(m) - 1 : w[i] = m[i + 1]
        /\ Head(m) = m[1]
    BY LineLeave
  <1>2. ASSUME NEW i \in 1..Len(w), NEW k \in 1..Len(w), i < k, w[i] = p
        PROVE  w[k] \in Behind(m, p)
    <2>1. /\ i + 1 \in 1..Len(m) /\ k + 1 \in 1..Len(m) /\ i + 1 < k + 1
          /\ m[i + 1] = p /\ m[k + 1] = w[k]
      BY <1>1, <1>2
    <2> QED BY <2>1 DEF Behind
  <1>3. ASSUME NEW k \in 1..Len(m), Head(m) = p PROVE m[k] = p \/ m[k] \in Behind(m, p)
    <2>1. 1 \in 1..Len(m) /\ (k = 1 \/ 1 < k)
      BY <1>1
    <2> QED BY <1>1, <1>3, <2>1 DEF Behind
  <1> QED BY <1>2, <1>3 DEF Behind, InLine

\* What the task adds to SyncInv: how far it has come when something is set.
TaskInv ==
  /\ SyncInv
  /\ KnownFailureIsKept
  /\ _reason => terminal # "none"
  /\ received # {} => proc # "none"
  /\ lastError # "none" => received # {}
  /\ task = "none" => terminal = "none"

LEMMA CloseIsWriter == CloseEvent \in Writers /\ CloseEvent \in Procs /\ CloseEvent \notin Readers
  BY CloseEventAssumption, RolesAssumption DEF Procs

\* What a report to the synchronizer may change.
LEMMA CallbackKeeps ==
  ASSUME TypeOK, terminal # "none", _state = state, _reason => _state = "ERROR",
         NEW s \in SyncState, NEW reason \in BOOLEAN, reason => s = "ERROR",
         syncStateCallback(s, reason)
  PROVE  /\ state' \in SyncState /\ _state' = state' /\ {_reason, terminating}' \subseteq BOOLEAN
         /\ _reason' => _state' = "ERROR"
         /\ s \in DisabledStates => state' = s
         /\ s \in {"STOPPED", "ERROR"} /\ state \in DisabledStates => state' = state
  <1>1. /\ \A d \in DisabledStates : d \in SyncState /\ d \notin {"ERROR", "STOPPED"}
        /\ state \in SyncState /\ _reason \in BOOLEAN /\ terminating \in BOOLEAN
        /\ currentTaskExecution \in BOOLEAN
    BY DEF TypeOK, DisabledStates, SyncState
  <1>2. CASE Ignored(s, reason)
    BY <1>1, <1>2 DEF syncStateCallback, Ignored
  <1>3. CASE ~Ignored(s, reason)
    <2>1. state' = s /\ _state' = s /\ _reason' = reason /\ terminating' \in BOOLEAN
      BY <1>1, <1>3 DEF syncStateCallback, Stop
    <2>2. ~(s \in {"STOPPED", "ERROR"} /\ state \in DisabledStates)
      BY <1>3 DEF Ignored
    <2> QED BY <2>1, <2>2
  <1> QED BY <1>2, <1>3

\* The steps outside the lock.
LEMMA TaskStepKeeps ==
  ASSUME TaskInv, start \/ stop \/ onDidStartTask \/ onDidEndTask \/ open \/ close
  PROVE  TaskInv'
  <1>0. /\ TypeOK /\ KnownFailureIsKept
        /\ terminal # "none" => _state = state
        /\ proc # "none" => terminal # "none"
        /\ _reason => _state = "ERROR" /\ terminal # "none"
        /\ received # {} => proc # "none"
        /\ lastError # "none" => received # {}
        /\ task = "none" => terminal = "none"
        /\ pc[CloseEvent] # "idle" => proc = "exited"
        /\ \A c \in Readers : pc[c] # "idle" => c \in received
    BY DEF TaskInv, SyncInv
  <1>1. terminal = "none" => lastError = "none" /\ proc = "none" /\ received = {} /\ ~_reason
    BY <1>0
  <1>2. "none" \notin DisabledStates /\ {"STOPPED", "ERROR", "IN_PROGRESS"} \subseteq SyncState
    BY DEF DisabledStates, SyncState
  <1>3. CASE start
    BY <1>0, <1>1, <1>2, <1>3 DEF start, TaskInv, SyncInv, TypeOK, KnownFailureIsKept, rwVars
  <1>4. CASE stop \/ onDidStartTask \/ onDidEndTask
    <2>1. TypeOK' /\ (task' = "none" => task = "none")
      BY <1>0, <1>4 DEF stop, Stop, onDidStartTask, onDidEndTask, TypeOK, rwVars
    <2>2. UNCHANGED <<rwVars, _state, _reason, terminal, state, proc, received, lastError>>
      BY <1>4 DEF stop, onDidStartTask, onDidEndTask
    <2> QED BY <1>0, <2>1, <2>2 DEF TaskInv, SyncInv, KnownFailureIsKept, rwVars
  <1>5. CASE open
    BY <1>0, <1>1, <1>2, <1>5 DEF open, TaskInv, SyncInv, TypeOK, KnownFailureIsKept, rwVars
  <1>6. CASE close
    <2>1. /\ syncStateCallback("STOPPED", FALSE) /\ terminal # "none" /\ terminal' = "closed"
          /\ killed' \in BOOLEAN
          /\ UNCHANGED <<terminalExits, rwVars, currentTaskExecution, task, parserState, proc, code,
                         received, lastError>>
      BY <1>6 DEF close
    <2>2. /\ state' \in SyncState /\ _state' = state' /\ {_reason, terminating}' \subseteq BOOLEAN
          /\ _reason' => _state' = "ERROR"
          /\ state \in DisabledStates => state' = state
      BY <1>0, <1>2, <2>1, CallbackKeeps
    <2> QED BY <1>0, <2>1, <2>2 DEF TaskInv, SyncInv, TypeOK, KnownFailureIsKept, rwVars
  <1> QED BY <1>3, <1>4, <1>5, <1>6

\* The events of the process, and the continuations inside the lock.
LEMMA EventKeeps ==
  ASSUME RWInv, TaskInv, closeEvent \/ lockStep \/ \E c \in Readers : dataEvent(c)
  PROVE  TaskInv'
  <1>0. /\ pc \in [Procs -> RStates \cup WStates] /\ TypeOK
        /\ CloseEvent \in Procs /\ CloseEvent \notin Readers /\ \A c \in Readers : c \in Procs
    BY TypeParts, CloseIsWriter DEF RWInv, TaskInv, SyncInv, Procs
  <1>1. CASE closeEvent
    <2>1. \A c \in Readers : pc'[c] = pc[c]
      BY <1>0, <1>1 DEF closeEvent, writerEntry, At
    <2> QED BY <1>0, <1>1, <2>1 DEF closeEvent, TaskInv, SyncInv, TypeOK, KnownFailureIsKept
  <1>2. ASSUME NEW c \in Readers, dataEvent(c) PROVE TaskInv'
    <2>1. pc'[CloseEvent] = pc[CloseEvent] /\ \A d \in Readers : d # c => pc'[d] = pc[d]
      BY <1>0, <1>2 DEF dataEvent, readerEntry, At
    <2> QED BY <1>0, <1>2, <2>1 DEF dataEvent, TaskInv, SyncInv, TypeOK, KnownFailureIsKept
  <1>3. CASE lockStep
    <2>1. /\ UNCHANGED syncVars
          /\ \A c \in Readers : pc'[c] # "idle" => pc[c] # "idle"
          /\ pc'[CloseEvent] # "idle" => pc[CloseEvent] # "idle"
      <3>1. ASSUME NEW r \in Readers, ReaderStep(r)
            PROVE /\ \A c \in Procs : pc'[c] # "idle" => pc[c] # "idle"
        BY <1>0, <3>1 DEF ReaderStep, countReader, admitReaders, uncountReader, At
      <3>2. ASSUME WriterStep(CloseEvent)
            PROVE  \A c \in Procs : pc'[c] # "idle" => pc[c] # "idle"
        BY <1>0, <3>2 DEF WriterStep, queueWriter, startWriting, At
      <3> QED BY <1>0, <1>3, <3>1, <3>2 DEF lockStep
    <2> QED BY <2>1 DEF syncVars, TaskInv, SyncInv, TypeOK, KnownFailureIsKept
  <1> QED BY <1>1, <1>2, <1>3

\* The handlers of the data and of the close event.
LEMMA HandlerKeeps ==
  ASSUME RWInv, TaskInv, processClose \/ \E c \in Readers : processData(c)
  PROVE  TaskInv'
  <1>0. /\ pc \in [Procs -> RStates \cup WStates] /\ TypeOK /\ KnownFailureIsKept
        /\ CloseEvent \in Procs /\ CloseEvent \notin Readers /\ \A c \in Readers : c \in Procs
        /\ terminal # "none" => _state = state
        /\ proc # "none" => terminal # "none"
        /\ _reason => _state = "ERROR" /\ terminal # "none"
        /\ received # {} => proc # "none"
        /\ lastError # "none" => received # {}
        /\ task = "none" => terminal = "none"
        /\ pc[CloseEvent] # "idle" => proc = "exited"
        /\ \A c \in Readers : pc[c] # "idle" => c \in received
    BY TypeParts, CloseIsWriter DEF RWInv, TaskInv, SyncInv, Procs
  <1>1. /\ "none" \notin DisabledStates /\ "ERROR" \in SyncState
        /\ DisabledStates \subseteq SyncState
        /\ {"STOPPED", "IN_PROGRESS", "WATCHING_FOR_CHANGES"} \subseteq SyncState
    BY DEF DisabledStates, SyncState
  <1>2. CASE processClose
    <2>1. /\ pc[CloseEvent] = "writing" /\ pc' = [pc EXCEPT ![CloseEvent] = "idle"]
          /\ UNCHANGED <<currentTaskExecution, task, terminal, parserState, proc, killed, code,
                         received, lastError>>
      BY <1>2 DEF processClose, writerExit, At
    <2>2. /\ terminal # "none" /\ _state = state
          /\ pc'[CloseEvent] = "idle" /\ \A c \in Readers : pc'[c] = pc[c]
      BY <1>0, <2>1
    <2>3. /\ state' \in SyncState /\ _state' = state' /\ {_reason, terminating}' \subseteq BOOLEAN
          /\ terminalExits' \in BOOLEAN
          /\ _reason' => _state' = "ERROR"
          /\ state \in DisabledStates => state' = state
      <3>1. CASE code = "nonzero"
        <4>1. syncStateCallback("ERROR", FALSE) /\ terminalExits' = TRUE
          BY <1>2, <3>1 DEF processClose
        <4> QED BY <1>0, <1>1, <2>2, <4>1, CallbackKeeps
      <3>2. CASE code # "nonzero"
        BY <1>0, <1>2, <2>2, <3>2 DEF processClose, TypeOK
      <3> QED BY <3>1, <3>2
    <2> QED BY <1>0, <2>1, <2>2, <2>3 DEF TaskInv, SyncInv, TypeOK, KnownFailureIsKept
  <1>3. ASSUME NEW c \in Readers, processData(c) PROVE TaskInv'
    <2>1. /\ pc[c] = "reading" /\ pc' = [pc EXCEPT ![c] = "rx1"]
          /\ UNCHANGED <<terminalExits, currentTaskExecution, task, terminal, proc, killed, code, received>>
      BY <1>3 DEF processData, readerExit, At
    <2>2. /\ terminal # "none" /\ _state = state /\ c \in received
          /\ pc'[CloseEvent] = pc[CloseEvent] /\ pc'[c] # "idle"
          /\ \A d \in Readers : d # c => pc'[d] = pc[d]
      BY <1>0, <2>1
    <2>3. PICK ch \in Chunk :
            /\ parserState' = IF ch.event = "none" THEN parserState ELSE ch.event
            /\ lastError' = ch.error
            /\ CASE ch.error # "none" -> syncStateCallback(ch.error, ch.error = "ERROR")
                 [] ch.error = "none" /\ ch.stream = "stdout" -> syncStateCallback(parserState', FALSE)
                 [] OTHER -> UNCHANGED <<state, _state, _reason, terminating>>
      BY <1>3 DEF processData
    <2>4. ch.event \in ParserEvents /\ ch.error \in LineErrors
      BY DEF Chunk, ParserEvents
    <2>5. parserState' \in {"STOPPED", "IN_PROGRESS", "WATCHING_FOR_CHANGES"}
      BY <1>0, <2>3, <2>4 DEF TypeOK, ParserEvents
    <2>6. /\ state' \in SyncState /\ _state' = state' /\ {_reason, terminating}' \subseteq BOOLEAN
          /\ _reason' => _state' = "ERROR"
          /\ ch.error \in DisabledStates => state' = ch.error
      <3>1. CASE ch.error # "none"
        <4>1. syncStateCallback(ch.error, ch.error = "ERROR") /\ ch.error \in SyncState
          BY <1>1, <2>3, <2>4, <3>1 DEF LineErrors
        <4> DEFINE reason == ch.error = "ERROR"
        <4>2. reason \in BOOLEAN /\ (reason => ch.error = "ERROR")
          OBVIOUS
        <4> HIDE DEF reason
        <4>3. syncStateCallback(ch.error, reason)
          BY <4>1 DEF reason
        <4> QED BY <1>0, <2>2, <4>1, <4>2, <4>3, CallbackKeeps
      <3>2. CASE ch.error = "none" /\ ch.stream = "stdout"
        <4>1. syncStateCallback(parserState', FALSE)
          BY <2>3, <3>2
        <4>2. PICK s \in SyncState : s = parserState'
          BY <1>1, <2>5
        <4>3. syncStateCallback(s, FALSE)
          BY <4>1, <4>2
        <4> QED BY <1>0, <1>1, <2>2, <3>2, <4>3, CallbackKeeps
      <3>3. CASE ch.error = "none" /\ ch.stream # "stdout"
        <4>1. UNCHANGED <<state, _state, _reason, terminating>>
          BY <2>3, <3>3
        <4> QED BY <1>0, <1>1, <2>2, <3>3, <4>1 DEF TypeOK
      <3> QED BY <3>1, <3>2, <3>3
    <2> QED BY <1>0, <1>1, <2>1, <2>2, <2>3, <2>4, <2>5, <2>6
         DEF TaskInv, SyncInv, TypeOK, KnownFailureIsKept
  <1> QED BY <1>2, <1>3

LEMMA TaskInitial == Init => TaskInv /\ CloseIsLast
  <1> SUFFICES ASSUME Init PROVE TaskInv /\ CloseIsLast
    OBVIOUS
  <1>1. \A q \in Procs : pc[q] = "idle"
    BY DEF Init, RWInit, Procs
  <1>2. CloseIsLast
    BY <1>1, CloseIsWriter DEF CloseIsLast
  <1>3. "none" \notin DisabledStates /\ "STOPPED" \in SyncState /\ "none" \in LineErrors
    BY DEF DisabledStates, SyncState, LineErrors
  <1>4. TaskInv
    BY <1>1, <1>3, CloseIsWriter
       DEF Init, TaskInv, SyncInv, TypeOK, KnownFailureIsKept, Procs
  <1> QED BY <1>2, <1>4

LEMMA BehindInLine ==
  ASSUME NEW S, NEW m \in Seq(S), NEW p, NEW q \in Behind(m, p)
  PROVE  InLine(m, q) /\ q \in S
  BY ElementOfSeq DEF Behind, InLine

\* The close event keeps its place among the calls of the lock.
LEMMA CloseStep == RWInv /\ TaskInv /\ CloseIsLast /\ [SyncNext]_vars => CloseIsLast'
  <1> SUFFICES ASSUME RWInv, TaskInv, CloseIsLast, [SyncNext]_vars PROVE CloseIsLast'
    OBVIOUS
  <1>0. /\ pc \in [Procs -> RStates \cup WStates] /\ LinesOK
        /\ readerMutex \in Seq(Procs) /\ NoRepeat(readerMutex)
        /\ CloseEvent \in Writers /\ CloseEvent \in Procs /\ CloseEvent \notin Readers
        /\ \A c \in Readers : c \in Procs
        /\ pc[CloseEvent] # "idle" => proc = "exited"
    BY RWParts, TypeParts, CloseIsWriter DEF TaskInv, SyncInv, Procs
  <1>1. \A q \in Behind(readerMutex, CloseEvent) : InLine(readerMutex, q) /\ q \in Procs
    BY <1>0, BehindInLine
  <1>2. CASE UNCHANGED rwVars
    BY <1>2 DEF CloseIsLast, rwVars
  <1>3. ASSUME NEW c \in Readers, dataEvent(c) PROVE CloseIsLast'
    BY <1>0, <1>3 DEF dataEvent, readerEntry, At, CloseIsLast
  <1>4. ASSUME NEW c \in Readers, processData(c) PROVE CloseIsLast'
    <2>1. /\ pc[c] = "reading" /\ pc' = [pc EXCEPT ![c] = "rx1"]
          /\ readerMutex' = Wait(readerMutex, c)
      BY <1>4 DEF processData, readerExit, At
    <2>2. Behind(readerMutex', CloseEvent) \subseteq Behind(readerMutex, CloseEvent) \cup {c}
      BY <1>0, <2>1, BehindJoin
    <2> QED BY <1>0, <1>1, <2>1, <2>2 DEF CloseIsLast
  <1>5. CASE closeEvent
    <2>1. /\ pc[CloseEvent] = "idle" /\ pc'[CloseEvent] = "we1"
          /\ readerMutex' = Wait(readerMutex, CloseEvent)
      BY <1>0, <1>5 DEF closeEvent, writerEntry, At
    <2>2. ~InLine(readerMutex, CloseEvent)
      BY <1>0, <2>1 DEF LinesOK
    <2>3. Behind(readerMutex', CloseEvent) = {}
      BY <1>0, <2>1, <2>2, BehindJoin
    <2> QED BY <2>1, <2>3 DEF CloseIsLast
  <1>6. CASE processClose
    BY <1>0, <1>6 DEF processClose, writerExit, At, CloseIsLast
  <1>7. ASSUME NEW r \in Readers, countReader(r) \/ admitReaders(r) PROVE CloseIsLast'
    <2>1. /\ pc[r] \in {"re1", "re2"} /\ Holds(readerMutex, r)
          /\ pc'[CloseEvent] = pc[CloseEvent]
          /\ \A q \in Procs : q # r => pc'[q] = pc[q]
          /\ readerMutex' \in {readerMutex, Signal(readerMutex)}
      BY <1>0, <1>7 DEF countReader, admitReaders, At, LinesOK
    <2>2. Behind(readerMutex', CloseEvent) \subseteq Behind(readerMutex, CloseEvent)
      BY <1>0, <2>1, BehindLeave DEF Holds
    <2>3. pc[CloseEvent] \notin {"we2", "writing"}
      BY <2>1 DEF CloseIsLast
    <2> QED BY <1>1, <2>1, <2>2, <2>3 DEF CloseIsLast
  <1>8. ASSUME NEW r \in Readers, uncountReader(r) PROVE CloseIsLast'
    <2>1. /\ pc[r] = "rx1" /\ Holds(readerMutex, r)
          /\ pc'[CloseEvent] = pc[CloseEvent] /\ pc'[r] = "idle"
          /\ \A q \in Procs : q # r => pc'[q] = pc[q]
          /\ readerMutex' = Signal(readerMutex)
      BY <1>0, <1>8 DEF uncountReader, At
    <2>2. /\ Behind(readerMutex', CloseEvent) \subseteq Behind(readerMutex, CloseEvent)
          /\ ~InLine(readerMutex', r) /\ readerMutex' \in Seq(Procs)
      BY <1>0, <2>1, BehindLeave, LeaveMembers, LineLeave DEF Holds
    <2>3. r \notin Behind(readerMutex', CloseEvent)
      BY <2>2, BehindInLine
    <2> QED BY <1>0, <1>1, <2>1, <2>2, <2>3 DEF CloseIsLast
  <1>9. CASE queueWriter(CloseEvent)
    <2>1. /\ pc[CloseEvent] = "we1" /\ pc'[CloseEvent] = "we2" /\ Holds(readerMutex, CloseEvent)
          /\ \A q \in Procs : q # CloseEvent => pc'[q] = pc[q]
      BY <1>0, <1>9 DEF queueWriter, At
    <2>2. ASSUME NEW c \in Readers PROVE pc[c] \notin {"re1", "re2"}
      <3>1. ASSUME pc[c] \in {"re1", "re2"} PROVE FALSE
        <4>1. InLine(readerMutex, c) /\ c # CloseEvent
          BY <1>0, <3>1 DEF LinesOK, Procs
        <4>2. c \in Behind(readerMutex, CloseEvent)
          BY <1>0, <2>1, <4>1, BehindLeave DEF Holds
        <4> QED BY <2>1, <3>1, <4>2 DEF CloseIsLast
      <3> QED BY <3>1
    <2> QED BY <1>0, <2>1, <2>2 DEF CloseIsLast
  <1>10. CASE startWriting(CloseEvent)
    BY <1>0, <1>10 DEF startWriting, At, CloseIsLast
  <1>11. CASE lockStep
    BY <1>7, <1>8, <1>9, <1>10, <1>11 DEF lockStep, ReaderStep, WriterStep
  <1>12. CASE start \/ stop \/ onDidStartTask \/ onDidEndTask \/ open \/ close \/ UNCHANGED vars
    BY <1>2, <1>12 DEF start, stop, onDidStartTask, onDidEndTask, open, close, vars
  <1> QED BY <1>3, <1>4, <1>5, <1>6, <1>11, <1>12 DEF SyncNext

LEMMA TaskStep == RWInv /\ TaskInv /\ [SyncNext]_vars => TaskInv'
  <1> SUFFICES ASSUME RWInv, TaskInv, [SyncNext]_vars PROVE TaskInv'
    OBVIOUS
  <1>1. CASE UNCHANGED vars
    BY <1>1 DEF vars, rwVars, syncVars, TaskInv, SyncInv, TypeOK, KnownFailureIsKept
  <1> QED BY <1>1, TaskStepKeeps, EventKeeps, HandlerKeeps DEF SyncNext

\* For any number of data events and whatever they say: the synchronizer shows
\* its terminal's state from open() on, the process only exists under an opened
\* terminal, a reason goes with ERROR only. (SyncTasks.ts, CodeSynchronizer.ts.)
THEOREM SyncTaskInvariant == SyncSpec => []SyncInv
  <1>1. TaskInv => SyncInv
    BY DEF TaskInv
  <1> QED BY <1>1, TaskInitial, TaskStep, SyncLockInvariant, PTL DEF SyncSpec

\* When the last error the process printed is that files are disabled, neither
\* the close of the terminal nor the exit code covers it up. (The filter of
\* CustomSyncTerminal's callback.)
THEOREM KnownFailureKept == SyncSpec => []KnownFailureIsKept
  <1>1. TaskInv => KnownFailureIsKept
    BY DEF TaskInv
  <1> QED BY <1>1, TaskInitial, TaskStep, SyncLockInvariant, PTL DEF SyncSpec

\* However many data events are suspended in the lock when the process closes,
\* all their handlers are done before the close handler runs. (startSyncProcess.)
THEOREM CloseAfterData == SyncSpec => []DataBeforeClose
  <1>1. ASSUME RWInv, CloseIsLast PROVE DataBeforeClose
    <2>1. ASSUME pc[CloseEvent] = "writing", NEW c \in Readers PROVE pc[c] = "idle"
      <3>1. pc[c] \in RStates /\ c # CloseEvent /\ c \in Procs
        BY <1>1, TypeParts, CloseIsWriter DEF RWInv, Procs
      <3>2. pc[c] \notin {"re1", "re2"}
        BY <1>1, <2>1 DEF CloseIsLast
      <3>3. pc[c] \notin {"reading", "rx1"}
        BY <1>1, <2>1, <3>1, CloseIsWriter DEF RWInv, Exclusion, Procs
      <3> QED BY <3>1, <3>2, <3>3 DEF RStates
    <2> QED BY <2>1 DEF DataBeforeClose
  <1> QED BY <1>1, TaskInitial, TaskStep, CloseStep, SyncLockInvariant, PTL DEF SyncSpec

=============================================================================
