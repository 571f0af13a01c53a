------------------------- MODULE CachedValueProofs --------------------------
(***************************************************************************)
(* CacheInv is inductive for any set of callers: the mutex lets one getter *)
(* run at a time, so what a getter has read is never older than what the   *)
(* cache has stored, and an older answer cannot replace a newer one.       *)
(***************************************************************************)
EXTENDS CachedValue, SequenceTheorems, TLAPS

\* What the line of a mutex looks like when the caller at its head leaves it.
LEMMA LeaveLine ==
  ASSUME NEW S, NEW m \in Seq(S), m # << >>
  PROVE  /\ Signal(m) \in Seq(S) /\ Len(Signal(m)) = Len(m) - 1 /\ Len(m) \in Nat /\ Len(m) > 0
         /\ \A i \in 1..Len(m) - 1 : Signal(m)[i] = m[i + 1]
         /\ Head(m) = m[1]
  BY HeadTailProperties DEF Signal

\* The part of the invariant about the mutex: its line and the running getter.
LineInv ==
  /\ \A c \in Callers : pc[c] = "getting" => Holds(mutex, c)
  /\ \A c \in Callers : (\E i \in 1..Len(mutex) : mutex[i] = c) <=> pc[c] \in {"waiting", "getting"}
  /\ \A i, j \in 1..Len(mutex) : mutex[i] = mutex[j] => i = j

\* The part about the versions.
VersionInv ==
  /\ \A c \in Callers : got[c] # Null => pc[c] = "getting" /\ got[c] <= source /\ newest <= got[c]
  /\ observed = _value
  /\ newest <= source /\ invalidatedAt <= source
  /\ _value \in Versions => _value = newest

LEMMA InvParts == CacheInv <=> TypeOK /\ LineInv /\ VersionInv
  BY DEF CacheInv, LineInv, VersionInv

LEMMA ConstantTypes == /\ Versions \subseteq Nat \ {0} /\ 1 \in Versions
                       /\ Null = -1 /\ Empty = 0 /\ Failed = -2 /\ NoResult = -3
  BY BoundsAssumption DEF Versions, Null, Empty, Failed, NoResult

\* A call that joins the line keeps the line's part.
LEMMA JoinKeepsLine ==
  ASSUME TypeOK, LineInv, NEW c \in Callers, pc[c] = "idle",
         pc' = [pc EXCEPT ![c] = "waiting"], mutex' = Wait(mutex, c)
  PROVE  LineInv'
  <1>0. mutex \in Seq(Callers) /\ Len(mutex) \in Nat /\ pc \in [Callers -> {"idle", "waiting", "getting", "returning"}]
    BY DEF TypeOK
  <1>1. /\ Len(mutex') = Len(mutex) + 1
        /\ \A i \in 1..Len(mutex) : mutex'[i] = mutex[i]
        /\ mutex'[Len(mutex) + 1] = c
        /\ mutex # << >> => mutex' # << >> /\ Head(mutex') = Head(mutex)
    <2>1. /\ Len(mutex') = Len(mutex) + 1
          /\ \A i \in 1..Len(mutex) : mutex'[i] = mutex[i]
          /\ mutex'[Len(mutex) + 1] = c
      BY <1>0 DEF Wait
    <2>2. mutex' \in Seq(Callers) /\ mutex' # << >>
      BY <1>0, <2>1 DEF Wait
    <2>3. ASSUME mutex # << >> PROVE Head(mutex') = Head(mutex)
      <3>1. Len(mutex) > 0
        BY <1>0, <2>3, EmptySeq
      <3> QED BY <1>0, <2>1, <2>2, <2>3, <3>1, HeadTailProperties
    <2> QED BY <2>1, <2>2, <2>3
  <1>2. \A i \in 1..Len(mutex) : mutex[i] # c
    BY DEF LineInv
  <1> USE <1>0 DEF LineInv
  <1>3. \A d \in Callers : pc'[d] = "getting" => Holds(mutex', d)
    BY <1>1 DEF Holds
  <1>4. ASSUME NEW d \in Callers
        PROVE (\E i \in 1..Len(mutex') : mutex'[i] = d) <=> pc'[d] \in {"waiting", "getting"}
    <2>1. CASE d = c
      BY <1>1, <2>1
    <2>2. CASE d # c
      <3>1. (\E i \in 1..Len(mutex') : mutex'[i] = d) <=> \E i \in 1..Len(mutex) : mutex[i] = d
        BY <1>1, <2>2
      <3> QED BY <2>2, <3>1
    <2> QED BY <2>1, <2>2
  <1>5. \A i, j \in 1..Len(mutex') : mutex'[i] = mutex'[j] => i = j
    BY <1>1, <1>2
  <1> QED BY <1>3, <1>4, <1>5

\* A call that leaves from the head of the line keeps the line's part.
LEMMA LeaveKeepsLine ==
  ASSUME TypeOK, LineInv, NEW c \in Callers, Holds(mutex, c),
         NEW place \in {"idle", "returning"},
         pc' = [pc EXCEPT ![c] = place], mutex' = Signal(mutex)
  PROVE  LineInv'
  <1>0. mutex \in Seq(Callers) /\ mutex # << >> /\ pc \in [Callers -> {"idle", "waiting", "getting", "returning"}]
    BY DEF TypeOK, Holds
  <1>1. /\ Len(mutex) \in Nat /\ Len(mutex) > 0 /\ Len(mutex') = Len(mutex) - 1
        /\ \A i \in 1..Len(mutex) - 1 : mutex'[i] = mutex[i + 1]
        /\ mutex[1] = c
    BY <1>0, LeaveLine DEF Holds
  <1> USE <1>0 DEF LineInv
  <1>2. \A d \in Callers : pc'[d] # "getting"
    BY DEF Holds
  <1>3. ASSUME NEW d \in Callers
        PROVE (\E i \in 1..Len(mutex') : mutex'[i] = d) <=> pc'[d] \in {"waiting", "getting"}
    <2>1. CASE d = c
      BY <1>1, <2>1
    <2>2. CASE d # c
      <3>1. ASSUME NEW i \in 1..Len(mutex), mutex[i] = d PROVE \E j \in 1..Len(mutex') : mutex'[j] = d
        <4>1. i - 1 \in 1..Len(mutex') /\ mutex'[i - 1] = mutex[i]
          BY <1>1, <2>2, <3>1
        <4> QED BY <3>1, <4>1
      <3>2. ASSUME NEW i \in 1..Len(mutex'), mutex'[i] = d PROVE \E j \in 1..Len(mutex) : mutex[j] = d
        BY <1>1, <3>2
      <3> QED BY <2>2, <3>1, <3>2
    <2> QED BY <2>1, <2>2
  <1>4. \A i, j \in 1..Len(mutex') : mutex'[i] = mutex'[j] => i = j
    BY <1>1
  <1> QED BY <1>2, <1>3, <1>4

\* The invariant holds initially.
LEMMA InitCache == Init => CacheInv
  <1> SUFFICES ASSUME Init PROVE TypeOK /\ LineInv /\ VersionInv
    BY InvParts
  <1>1. mutex \in Seq(Callers) /\ Len(mutex) = 0 /\ 1..Len(mutex) = {}
    BY DEF Init, Free
  <1>2. TypeOK
    BY <1>1, ConstantTypes, BoundsAssumption DEF Init, TypeOK
  <1>3. LineInv
    BY <1>1 DEF Init, LineInv
  <1>4. VersionInv
    BY ConstantTypes DEF Init, VersionInv
  <1> QED BY <1>2, <1>3, <1>4

\* refresh() and value join the line; neither changes what is stored or read.
LEMMA CallKeepsInv ==
  ASSUME CacheInv, NEW c \in Callers, refresh(c) \/ value(c)
  PROVE  CacheInv'
  <1>1. TypeOK /\ LineInv /\ VersionInv
    BY InvParts
  <1>2. /\ pc[c] = "idle" /\ pc' = [pc EXCEPT ![c] = "waiting"] /\ mutex' = Wait(mutex, c)
        /\ UNCHANGED <<_value, got, source, invalidatedAt, observed, newest, resets>>
        /\ _dirty' \in BOOLEAN /\ refreshing' \subseteq Callers /\ alone' \subseteq Callers
        /\ asked' \in [Callers -> 0..MaxVersion]
        /\ result' = [result EXCEPT ![c] = NoResult]
    <2>1. source \in 0..MaxVersion /\ invalidatedAt \in 0..MaxVersion
      BY <1>1 DEF TypeOK, Versions
    <2>2. CASE refresh(c)
      BY <1>1, <2>1, <2>2 DEF refresh, TypeOK
    <2>3. CASE value(c)
      BY <1>1, <2>1, <2>3 DEF value, sharedVars, TypeOK
    <2> QED BY <2>2, <2>3
  <1>3. mutex' \in Seq(Callers)
    BY <1>1, <1>2 DEF TypeOK, Wait
  <1>4. pc' \in [Callers -> {"idle", "waiting", "getting", "returning"}]
        /\ result' \in [Callers -> Versions \cup {Empty, Failed, NoResult}]
    BY <1>1, <1>2 DEF TypeOK
  <1>5. TypeOK'
    BY <1>1, <1>2, <1>3, <1>4 DEF TypeOK, Versions
  <1>6. LineInv'
    BY <1>1, <1>2, JoinKeepsLine
  <1>7. VersionInv'
    BY <1>1, <1>2 DEF VersionInv, TypeOK, Versions
  <1> QED BY <1>5, <1>6, <1>7, InvParts DEF CacheInv, LineInv, VersionInv

\* A getter starts, or reads the source: its caller is the one that holds the mutex.
LEMMA GetterKeepsInv ==
  ASSUME CacheInv, NEW c \in Callers, callGetter(c) \/ readSource(c)
  PROVE  CacheInv'
  <1>1. TypeOK /\ LineInv /\ VersionInv
    BY InvParts
  <1>2. UNCHANGED <<_value, _dirty, mutex, sharedVars, refreshing, asked, alone, result>>
    BY DEF callGetter, readSource
  <1>3. CASE callGetter(c)
    <2>1. pc[c] = "waiting" /\ Holds(mutex, c) /\ pc' = [pc EXCEPT ![c] = "getting"] /\ got' = got
      BY <1>3 DEF callGetter
    <2>2. TypeOK'
      BY <1>1, <1>2, <2>1 DEF TypeOK, sharedVars, Versions
    <2>3. LineInv'
      BY <1>1, <1>2, <2>1 DEF TypeOK, LineInv, Holds
    <2>4. VersionInv'
      BY <1>1, <1>2, <2>1 DEF TypeOK, VersionInv, sharedVars, Versions
    <2> QED BY <2>2, <2>3, <2>4, InvParts DEF CacheInv, LineInv, VersionInv
  <1>4. CASE readSource(c)
    <2>1. pc[c] = "getting" /\ got[c] = Null /\ got' = [got EXCEPT ![c] = source] /\ pc' = pc
      BY <1>4 DEF readSource
    <2>2. TypeOK'
      BY <1>1, <1>2, <2>1 DEF TypeOK, sharedVars, Versions
    <2>3. LineInv'
      BY <1>1, <1>2, <2>1 DEF LineInv, Holds
    <2>4. VersionInv'
      BY <1>1, <1>2, <2>1, ConstantTypes DEF TypeOK, VersionInv, sharedVars, Versions
    <2> QED BY <2>2, <2>3, <2>4, InvParts DEF CacheInv, LineInv, VersionInv
  <1> QED BY <1>3, <1>4

\* A call that leaves the mutex without a new value: a cached one is returned or
\* the getter has thrown.
LEMMA LeaveKeepsInv ==
  ASSUME CacheInv, NEW c \in Callers, returnCached(c) \/ getterThrows(c)
  PROVE  CacheInv'
  <1>1. TypeOK /\ LineInv /\ VersionInv
    BY InvParts
  <1>2. Holds(mutex, c)
    BY <1>1 DEF LineInv, returnCached, getterThrows
  <1>3. PICK place \in {"idle", "returning"}, r \in Versions \cup {Empty, Failed} :
          /\ mutex' = Signal(mutex) /\ pc' = [pc EXCEPT ![c] = place]
          /\ got' = [got EXCEPT ![c] = Null] /\ result' = [result EXCEPT ![c] = r]
          /\ UNCHANGED <<refreshing, asked, alone, _value, sharedVars>> /\ _dirty' \in BOOLEAN
    <2>1. CASE returnCached(c)
      BY <1>1, <2>1 DEF returnCached, Return, TypeOK
    <2>2. CASE getterThrows(c)
      BY <1>1, <2>2 DEF getterThrows, Return, TypeOK
    <2> QED BY <2>1, <2>2
  <1>4. mutex' \in Seq(Callers)
    BY <1>1, <1>2, <1>3, LeaveLine DEF TypeOK, Holds
  <1>5. TypeOK'
    BY <1>1, <1>3, <1>4 DEF TypeOK, sharedVars, Versions
  <1>6. LineInv'
    BY <1>1, <1>2, <1>3, LeaveKeepsLine
  <1>7. VersionInv'
    BY <1>1, <1>2, <1>3 DEF TypeOK, LineInv, VersionInv, Holds, sharedVars, Versions
  <1> QED BY <1>5, <1>6, <1>7, InvParts DEF CacheInv, LineInv, VersionInv

\* The answer of a getter is stored. It is the only getter, so no other caller has
\* read an older version, and nothing newer has been stored since it read its own.
LEMMA StoreKeepsInv ==
  ASSUME CacheInv, NEW c \in Callers, getterResolves(c)
  PROVE  CacheInv' /\ newest <= _value'
  <1>1. TypeOK /\ LineInv /\ VersionInv
    BY InvParts
  <1>2. pc[c] = "getting" /\ got[c] # Null /\ Holds(mutex, c)
    BY <1>1 DEF LineInv, getterResolves
  <1>3. got[c] \in Versions /\ newest <= got[c] /\ got[c] <= source
    BY <1>1, <1>2 DEF TypeOK, VersionInv
  <1>4. PICK place \in {"idle", "returning"} :
          /\ mutex' = Signal(mutex) /\ pc' = [pc EXCEPT ![c] = place]
          /\ got' = [got EXCEPT ![c] = Null] /\ result' = [result EXCEPT ![c] = got[c]]
          /\ _value' = got[c]
          /\ UNCHANGED <<refreshing, asked, alone, source, invalidatedAt, resets>> /\ _dirty' = FALSE
    BY DEF getterResolves, Return, set
  <1>5. observed' = got[c] /\ newest' = got[c]
    BY <1>1, <1>3, ConstantTypes DEF getterResolves, set, TypeOK, VersionInv, Versions
  <1>6. mutex' \in Seq(Callers)
    BY <1>1, <1>2, <1>4, LeaveLine DEF TypeOK, Holds
  <1>7. TypeOK'
    BY <1>1, <1>3, <1>4, <1>5, <1>6 DEF TypeOK, Versions
  <1>8. LineInv'
    BY <1>1, <1>2, <1>4, LeaveKeepsLine
  <1>9. VersionInv'
    <2>1. \A d \in Callers : got'[d] = Null
      BY <1>1, <1>2, <1>4 DEF TypeOK, LineInv, VersionInv, Holds
    <2> QED BY <1>1, <1>3, <1>4, <1>5, <2>1 DEF TypeOK, VersionInv, Versions
  <1> QED BY <1>3, <1>4, <1>7, <1>8, <1>9, InvParts DEF CacheInv, LineInv, VersionInv

\* The end of refresh(), invalidations, resets and changes of the source.
LEMMA OthersKeepInv ==
  ASSUME CacheInv, (\E c \in Callers : refreshReturns(c)) \/ invalidate \/ reset \/ sourceChanges
  PROVE  CacheInv'
  <1>1. TypeOK /\ LineInv /\ VersionInv
    BY InvParts
  <1>2. ASSUME NEW c \in Callers, refreshReturns(c) PROVE TypeOK' /\ LineInv' /\ VersionInv'
    <2>1. pc[c] = "returning" /\ pc' = [pc EXCEPT ![c] = "idle"] /\ _dirty' = FALSE
          /\ UNCHANGED <<_value, mutex, sharedVars, refreshing, got, asked, alone, result>>
      BY <1>2 DEF refreshReturns
    <2>2. TypeOK'
      BY <1>1, <2>1 DEF TypeOK, sharedVars, Versions
    <2>3. /\ pc' \in [Callers -> {"idle", "waiting", "getting", "returning"}]
          /\ \A d \in Callers : pc'[d] \in {"waiting", "getting"} <=> pc[d] \in {"waiting", "getting"}
          /\ \A d \in Callers : pc'[d] = "getting" <=> pc[d] = "getting"
      BY <1>1, <2>1 DEF TypeOK
    <2>4. LineInv'
      BY <1>1, <2>1, <2>3 DEF LineInv, Holds
    <2>5. VersionInv'
      BY <1>1, <2>1, <2>3 DEF VersionInv, sharedVars, Versions
    <2> QED BY <2>2, <2>4, <2>5
  <1>3. CASE invalidate
    <2>1. LineInv'
      BY <1>1, <1>3 DEF invalidate, callVars, LineInv, Holds
    <2>2. TypeOK'
      BY <1>1, <1>3, BoundsAssumption DEF invalidate, callVars, TypeOK, Versions
    <2>3. VersionInv'
      BY <1>1, <1>3 DEF invalidate, callVars, TypeOK, VersionInv, Versions
    <2> QED BY <2>1, <2>2, <2>3 DEF CacheInv, LineInv, VersionInv
  <1>4. CASE reset
    <2>1. LineInv'
      BY <1>1, <1>4 DEF reset, callVars, LineInv, Holds
    <2>2. _value' = Empty /\ observed' = Empty
      BY <1>1, <1>4 DEF reset, set, VersionInv
    <2>3. TypeOK'
      <3>1. resets' \in 0..MaxResets
        BY <1>1, <1>4, BoundsAssumption DEF reset, TypeOK
      <3> QED BY <1>1, <1>4, <2>2, <3>1 DEF reset, callVars, TypeOK
    <2>4. VersionInv'
      BY <1>1, <1>4, <2>2, ConstantTypes DEF reset, callVars, TypeOK, VersionInv
    <2> QED BY <2>1, <2>3, <2>4 DEF CacheInv, LineInv, VersionInv
  <1>5. CASE sourceChanges
    <2>1. LineInv'
      BY <1>1, <1>5 DEF sourceChanges, callVars, LineInv, Holds
    <2>2. source' \in Versions /\ source <= source' /\ source \in Int /\ source' \in Int
      BY <1>1, <1>5, BoundsAssumption DEF sourceChanges, TypeOK, Versions
    <2>3. TypeOK'
      BY <1>1, <1>5, <2>2 DEF sourceChanges, callVars, TypeOK
    <2>4. VersionInv'
      <3>1. /\ \A c \in Callers : got[c] # Null => got[c] \in Int
            /\ newest \in Int /\ invalidatedAt \in Int
        <4>1. \A x \in Versions \cup {Null} : x \in Int
          BY ConstantTypes
        <4>2. \A c \in Callers : got[c] \in Versions \cup {Null}
          BY <1>1 DEF TypeOK
        <4>3. newest \in Versions \cup {Null} /\ invalidatedAt \in Int
          BY <1>1 DEF TypeOK
        <4> QED BY <4>1, <4>2, <4>3
      <3> QED BY <1>1, <1>5, <2>2, <3>1 DEF sourceChanges, callVars, VersionInv
    <2> QED BY <2>1, <2>3, <2>4 DEF CacheInv, LineInv, VersionInv
  <1> QED BY <1>2, <1>3, <1>4, <1>5 DEF CacheInv, LineInv, VersionInv

\* Every step keeps the invariant.
LEMMA StepKeepsInv == CacheInv /\ [Next]_vars => CacheInv'
  <1> SUFFICES ASSUME CacheInv, [Next]_vars PROVE CacheInv'
    OBVIOUS
  <1>1. ASSUME NEW c \in Callers, refresh(c) \/ value(c) \/ Resume(c) \/ getterThrows(c) PROVE CacheInv'
    BY <1>1, CallKeepsInv, GetterKeepsInv, LeaveKeepsInv, StoreKeepsInv, OthersKeepInv DEF Resume
  <1>2. CASE invalidate \/ reset \/ sourceChanges
    BY <1>2, OthersKeepInv
  <1>3. CASE UNCHANGED vars
    BY <1>3 DEF vars, sharedVars, callVars, CacheInv, TypeOK, Holds, Versions
  <1> QED BY <1>1, <1>2, <1>3 DEF Next

\* For any callers and bounds: one getter at a time, its caller holds the mutex,
\* nobody is lost from the line, observers have been told the stored value, and
\* the stored value is the newest one (CachedValue.ts, value and set).
THEOREM CacheInvariant == Spec => []CacheInv
  <1> QED BY InitCache, StepKeepsInv, PTL DEF Spec

\* For any callers and bounds: an older answer never replaces a newer one.
THEOREM CacheNeverGoesBack == Spec => NeverGoesBack
  <1>1. ASSUME CacheInv, [Next]_vars
        PROVE  [\A c \in Callers : getterResolves(c) => _value' = Empty \/ _value' >= newest]_vars
    <2>1. ASSUME NEW c \in Callers, getterResolves(c) PROVE _value' >= newest
      <3>1. newest <= _value'
        BY <1>1, <2>1, StoreKeepsInv
      <3>2. newest \in Int /\ _value' \in Int
        BY <1>1, <2>1, ConstantTypes, StoreKeepsInv, InvParts
           DEF CacheInv, TypeOK, getterResolves, set, Versions
      <3> QED BY <3>1, <3>2
    <2> QED BY <2>1
  <1> QED BY <1>1, CacheInvariant, PTL DEF Spec, NeverGoesBack

-----------------------------------------------------------------------------
\* What a refresh() relies on that began while no other call was running: until
\* its getter is called it is at the head of the line and nobody can clear the
\* flag it has set; and what its getter reads is not older than the call.
FreshInv ==
  /\ \A c \in alone : asked[c] <= source
  /\ \A c \in alone : pc[c] = "waiting" =>
       _dirty /\ Holds(mutex, c) /\ \A d \in Callers : pc[d] \in {"idle", "waiting"}
  /\ \A c \in alone : got[c] # Null => got[c] >= asked[c]
  /\ RefreshAloneIsFresh

\* Numbers that the lemmas below compare.
LEMMA FreshTypes ==
  ASSUME TypeOK
  PROVE  /\ alone \subseteq Callers /\ source \in Int
         /\ \A c \in Callers : asked[c] \in Int /\ got[c] \in Int /\ result[c] \in Int
  <1>1. \A x \in Versions \cup {Null, Empty, Failed, NoResult} : x \in Int
    BY ConstantTypes
  <1>2. \A c \in Callers : asked[c] \in Int
    BY BoundsAssumption DEF TypeOK
  <1> QED BY <1>1, <1>2 DEF TypeOK

\* A call joins the line: behind a refresh that began alone, or as one itself,
\* when the line is empty.
LEMMA CallKeepsFresh ==
  ASSUME CacheInv, FreshInv, NEW c \in Callers, refresh(c) \/ value(c)
  PROVE  FreshInv'
  <1>0. TypeOK /\ LineInv /\ VersionInv
    BY InvParts
  <1>1. /\ pc[c] = "idle" /\ pc' = [pc EXCEPT ![c] = "waiting"] /\ mutex' = Wait(mutex, c)
        /\ result' = [result EXCEPT ![c] = NoResult] /\ got' = got /\ source' = source
    BY DEF refresh, value, sharedVars
  <1>2. \A d \in Callers \ {c} : /\ d \in alone' => d \in alone
                                 /\ asked'[d] = asked[d] /\ pc'[d] = pc[d] /\ result'[d] = result[d]
    BY <1>0, <1>1 DEF refresh, value, TypeOK
  <1>3. _dirty => _dirty'
    BY DEF refresh, value
  <1>4. c \in alone' => /\ refresh(c) /\ asked'[c] = source
                        /\ \A d \in Callers : pc[d] = "idle"
    BY <1>0 DEF refresh, value, TypeOK
  <1>5. /\ mutex # << >> => Head(mutex') = Head(mutex)
        /\ mutex' # << >>
        /\ mutex = << >> => Head(mutex') = c
    BY <1>0, <1>1, HeadTailAppend, AppendProperties DEF Wait, TypeOK
  <1>6. (\A d \in Callers : pc[d] = "idle") => mutex = << >>
    BY <1>0, EmptySeq, ElementOfSeq DEF LineInv, TypeOK
  <1>7. got[c] = Null
    BY <1>0, <1>1 DEF VersionInv
  <1>8. pc' \in [Callers -> {"idle", "waiting", "getting", "returning"}] /\ pc'[c] = "waiting"
        /\ result'[c] = NoResult
    BY <1>0, <1>1 DEF TypeOK
  <1>9. \A d \in alone' : d \in Callers
    BY <1>0 DEF refresh, value, TypeOK
  <1>10. \A d \in alone' : asked'[d] <= source'
    BY <1>0, <1>1, <1>2, <1>4, <1>9, FreshTypes DEF FreshInv
  <1>11. ASSUME NEW d \in alone', pc'[d] = "waiting"
         PROVE  _dirty' /\ Holds(mutex', d) /\ \A e \in Callers : pc'[e] \in {"idle", "waiting"}
    <2>1. CASE d = c
      BY <1>1, <1>2, <1>4, <1>5, <1>6, <1>8, <2>1 DEF Holds, refresh
    <2>2. CASE d # c
      BY <1>1, <1>2, <1>3, <1>5, <1>8, <1>9, <1>11, <2>2 DEF Holds, FreshInv
    <2> QED BY <2>1, <2>2
  <1>12. \A d \in alone' : got'[d] # Null => got'[d] >= asked'[d]
    BY <1>1, <1>2, <1>7, <1>9 DEF FreshInv
  <1>13. RefreshAloneIsFresh'
    BY <1>2, <1>8, <1>9 DEF FreshInv, RefreshAloneIsFresh
  <1> QED BY <1>10, <1>11, <1>12, <1>13 DEF FreshInv

\* A call is resumed. A refresh that began alone finds its flag still set, so it
\* never returns a cached value.
LEMMA ResumeKeepsFresh ==
  ASSUME CacheInv, FreshInv, NEW c \in Callers, Resume(c) \/ getterThrows(c)
  PROVE  FreshInv'
  <1>0. TypeOK /\ LineInv /\ VersionInv
    BY InvParts
  <1>1. UNCHANGED <<source, asked, alone>>
    BY DEF Resume, callGetter, returnCached, readSource, getterResolves, refreshReturns,
           getterThrows, Return, sharedVars
  <1>2. \A d \in Callers \ {c} : pc'[d] = pc[d] /\ got'[d] = got[d] /\ result'[d] = result[d]
    BY <1>0 DEF Resume, callGetter, returnCached, readSource, getterResolves, refreshReturns,
           getterThrows, Return, TypeOK
  <1>3. pc'[c] # "waiting"
    BY <1>0 DEF Resume, callGetter, returnCached, readSource, getterResolves, refreshReturns,
           getterThrows, Return, TypeOK
  <1>4. ASSUME NEW d \in alone, pc[d] = "waiting" PROVE c = d
    <2>1. Holds(mutex, d) /\ pc[c] \in {"idle", "waiting"}
      BY <1>4 DEF FreshInv
    <2>2. Holds(mutex, c)
      BY <2>1 DEF Resume, callGetter, returnCached, readSource, getterResolves, refreshReturns,
                  getterThrows
    <2> QED BY <2>1, <2>2 DEF Holds
  <1>5. got'[c] # Null => got'[c] = source \/ got'[c] = got[c]
    BY <1>0 DEF Resume, callGetter, returnCached, readSource, getterResolves, refreshReturns,
           getterThrows, Return, TypeOK
  <1>6. c \in alone => result'[c] = result[c] \/ result'[c] = Failed \/ (got[c] # Null /\ result'[c] = got[c])
    BY <1>0 DEF Resume, callGetter, returnCached, readSource, getterResolves, refreshReturns,
           getterThrows, Return, TypeOK, FreshInv
  <1>7. \A d \in alone : d \in Callers
    BY <1>0 DEF TypeOK
  <1>8. \A d \in alone' : pc'[d] # "waiting"
    BY <1>1, <1>2, <1>3, <1>4, <1>7
  <1>9. \A d \in alone' : got'[d] # Null => got'[d] >= asked'[d]
    BY <1>0, <1>1, <1>2, <1>5, <1>7, FreshTypes DEF FreshInv
  <1>10. RefreshAloneIsFresh'
    BY <1>0, <1>1, <1>2, <1>6, <1>7 DEF FreshInv, RefreshAloneIsFresh
  <1> QED BY <1>0, <1>1, <1>8, <1>9, <1>10 DEF FreshInv

\* Invalidations, resets and changes of the source.
LEMMA OthersKeepFresh ==
  ASSUME CacheInv, FreshInv, invalidate \/ reset \/ sourceChanges
  PROVE  FreshInv'
  <1>0. TypeOK
    BY InvParts
  <1>1. UNCHANGED <<mutex, callVars>> /\ (_dirty => _dirty') /\ source <= source'
    BY <1>0, FreshTypes DEF invalidate, reset, sourceChanges
  <1>2. source' \in Int
    BY <1>0, FreshTypes DEF invalidate, reset, sourceChanges
  <1> QED BY <1>0, <1>1, <1>2, FreshTypes DEF FreshInv, RefreshAloneIsFresh, callVars, Holds

\* For any callers and bounds: a refresh() that nothing overlaps when it begins
\* returns what the source held then or something newer, whatever calls,
\* invalidations and resets come later (CachedValue.ts, refresh).
THEOREM RefreshAloneReadsAgain == Spec => []RefreshAloneIsFresh
  <1>1. Init => FreshInv
    BY DEF Init, FreshInv, RefreshAloneIsFresh
  <1>2. CacheInv /\ FreshInv /\ [Next]_vars => FreshInv'
    <2> SUFFICES ASSUME CacheInv, FreshInv, [Next]_vars PROVE FreshInv'
      OBVIOUS
    <2>1. CASE UNCHANGED vars
      BY <2>1 DEF vars, sharedVars, callVars, FreshInv, RefreshAloneIsFresh, Holds
    <2> QED BY <2>1, CallKeepsFresh, ResumeKeepsFresh, OthersKeepFresh DEF Next
  <1>3. FreshInv => RefreshAloneIsFresh
    BY DEF FreshInv
  <1> QED BY <1>1, <1>2, <1>3, CacheInvariant, PTL DEF Spec

=============================================================================
