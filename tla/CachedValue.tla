----------------------------- MODULE CachedValue -----------------------------
(***************************************************************************)
(* The class CachedValue of locking/CachedValue.ts, which every model of   *)
(* the configuration and of the bundle keeps its state in.  A value is the *)
(* version of the source (a file, the CLI's answer) that the getter read.  *)
(* A call runs to its next await without interruption; getters are         *)
(* asynchronous, may throw, and read the source at some point of their run.*)
(***************************************************************************)
EXTENDS MutexOps, Integers

CONSTANTS
  Callers,      \* concurrent users of the cache, one call at a time each
  MaxVersion,   \* bound: versions of the source
  MaxResets     \* bound: calls of set({}) by resetCache() and commitTarget()

ASSUME BoundsAssumption == MaxVersion \in Nat \ {0} /\ MaxResets \in Nat

Null == -1
Empty == 0
Failed == -2
NoResult == -3

VARIABLES
  _value, _dirty, mutex,
  source,         \* the version a getter reads now
  invalidatedAt,  \* history: the version at the latest invalidate()
  observed,       \* history: newValue of the last onDidChange event
  newest,         \* history: the newest version ever stored
  resets,
  pc,             \* where each call is suspended
  refreshing,     \* the callers that called refresh()
  got,            \* what the getter of the call has read
  asked,          \* history: the version the call must not fall behind
  alone,          \* history: the refresh began while no other call was running
  result          \* what the last call returned

sharedVars == <<source, invalidatedAt, observed, newest, resets>>
callVars == <<pc, refreshing, got, asked, alone, result>>
vars == <<_value, _dirty, mutex, sharedVars, callVars>>

Versions == 1..MaxVersion

TypeOK ==
  /\ _value \in Versions \cup {Null, Empty}
  /\ _dirty \in BOOLEAN
  /\ mutex \in Seq(Callers)
  /\ source \in Versions
  /\ invalidatedAt \in 0..MaxVersion
  /\ observed \in Versions \cup {Null, Empty}
  /\ newest \in Versions \cup {Null}
  /\ resets \in 0..MaxResets
  /\ pc \in [Callers -> {"idle", "waiting", "getting", "returning"}]
  /\ refreshing \subseteq Callers
  /\ got \in [Callers -> Versions \cup {Null}]
  /\ asked \in [Callers -> 0..MaxVersion]
  /\ alone \subseteq Callers
  /\ result \in [Callers -> Versions \cup {Empty, Failed, NoResult}]

Init ==
  /\ _value = Null /\ _dirty = TRUE /\ mutex = Free
  /\ source = 1 /\ invalidatedAt = 0 /\ observed = Null /\ newest = Null /\ resets = 0
  /\ pc = [c \in Callers |-> "idle"]
  /\ refreshing = {} /\ alone = {}
  /\ got = [c \in Callers |-> Null]
  /\ asked = [c \in Callers |-> 0]
  /\ result = [c \in Callers |-> NoResult]

-----------------------------------------------------------------------------
\* Mutant of set: the value changes and nobody is told.
setSilently(v) ==
  /\ _value' = v
  /\ UNCHANGED observed

\* set(value): observers are told, then the value is replaced, if it differs.
set(v) ==
  /\ observed' = IF v # _value THEN v ELSE observed
  /\ _value' = v

\* Mutant: refresh forgets to invalidate.
refreshCached(c) ==
  /\ pc[c] = "idle"
  /\ pc' = [pc EXCEPT ![c] = "waiting"]
  /\ mutex' = Wait(mutex, c)
  /\ refreshing' = refreshing \cup {c}
  /\ alone' = IF \A d \in Callers : pc[d] = "idle" THEN alone \cup {c} ELSE alone \ {c}
  /\ asked' = [asked EXCEPT ![c] = source]
  /\ result' = [result EXCEPT ![c] = NoResult]
  /\ UNCHANGED <<_value, _dirty, got, source, invalidatedAt, observed, newest, resets>>

\* refresh(): invalidate and ask for the value.
refresh(c) ==
  /\ pc[c] = "idle"
  /\ pc' = [pc EXCEPT ![c] = "waiting"]
  /\ _dirty' = TRUE
  /\ mutex' = Wait(mutex, c)
  /\ refreshing' = refreshing \cup {c}
  /\ alone' = IF \A d \in Callers : pc[d] = "idle" THEN alone \cup {c} ELSE alone \ {c}
  /\ asked' = [asked EXCEPT ![c] = source]
  /\ result' = [result EXCEPT ![c] = NoResult]
  /\ UNCHANGED <<_value, got, source, invalidatedAt, observed, newest, resets>>

\* The getter property value, up to the wait for the mutex.
value(c) ==
  /\ pc[c] = "idle"
  /\ pc' = [pc EXCEPT ![c] = "waiting"]
  /\ mutex' = Wait(mutex, c)
  /\ refreshing' = refreshing \ {c}
  /\ alone' = alone \ {c}
  /\ asked' = [asked EXCEPT ![c] = invalidatedAt]
  /\ result' = [result EXCEPT ![c] = NoResult]
  /\ UNCHANGED <<_value, _dirty, got, sharedVars>>

\* The call of c is over, or refresh() has its own finally block left to run.
Return(c, r) ==
  /\ mutex' = Signal(mutex)
  /\ pc' = [pc EXCEPT ![c] = IF c \in refreshing THEN "returning" ELSE "idle"]
  /\ got' = [got EXCEPT ![c] = Null]
  /\ result' = [result EXCEPT ![c] = r]
  /\ UNCHANGED <<refreshing, asked, alone>>

\* Mutant: the getter runs without waiting for the mutex.
callGetterUnlocked(c) ==
  /\ pc[c] = "waiting"
  /\ _dirty \/ _value = Null
  /\ pc' = [pc EXCEPT ![c] = "getting"]
  /\ UNCHANGED <<_value, _dirty, mutex, sharedVars, refreshing, got, asked, alone, result>>

\* The mutex is held and the value is missing or dirty: the getter is called.
callGetter(c) ==
  /\ pc[c] = "waiting" /\ Holds(mutex, c)
  /\ _dirty \/ _value = Null
  /\ pc' = [pc EXCEPT ![c] = "getting"]
  /\ UNCHANGED <<_value, _dirty, mutex, sharedVars, refreshing, got, asked, alone, result>>

\* The mutex is held and the value is clean: it is returned as it is.
returnCached(c) ==
  /\ pc[c] = "waiting" /\ Holds(mutex, c)
  /\ ~_dirty /\ _value # Null
  /\ Return(c, _value)
  /\ UNCHANGED <<_value, _dirty, sharedVars>>

\* The getter reads the source (external).
readSource(c) ==
  /\ pc[c] = "getting" /\ got[c] = Null
  /\ got' = [got EXCEPT ![c] = source]
  /\ UNCHANGED <<_value, _dirty, mutex, sharedVars, pc, refreshing, asked, alone, result>>

\* The getter resolves: the value is set, the finally block clears _dirty.
getterResolves(c) ==
  /\ pc[c] = "getting" /\ got[c] # Null
  /\ set(got[c])
  /\ newest' = IF got[c] > newest THEN got[c] ELSE newest
  /\ _dirty' = FALSE
  /\ Return(c, got[c])
  /\ UNCHANGED <<source, invalidatedAt, resets>>

\* Mutant: the mutex stays locked when the getter throws.
getterThrowsLocked(c) ==
  /\ pc[c] = "getting"
  /\ _dirty' = FALSE
  /\ pc' = [pc EXCEPT ![c] = "idle"]
  /\ got' = [got EXCEPT ![c] = Null]
  /\ result' = [result EXCEPT ![c] = Failed]
  /\ UNCHANGED <<_value, mutex, sharedVars, refreshing, asked, alone>>

\* The getter throws: the finally block clears _dirty all the same.
getterThrows(c) ==
  /\ pc[c] = "getting"
  /\ _dirty' = FALSE
  /\ Return(c, Failed)
  /\ UNCHANGED <<_value, sharedVars>>

\* The finally block of refresh(), in a later microtask.
refreshReturns(c) ==
  /\ pc[c] = "returning"
  /\ _dirty' = FALSE
  /\ pc' = [pc EXCEPT ![c] = "idle"]
  /\ UNCHANGED <<_value, mutex, sharedVars, refreshing, got, asked, alone, result>>

\* invalidate(), by a watcher.
invalidate ==
  /\ _dirty' = TRUE
  /\ invalidatedAt' = source
  /\ UNCHANGED <<_value, mutex, source, observed, newest, resets, callVars>>

\* set({}), by resetCache() or by commitTarget() on an error; takes no mutex.
reset ==
  /\ resets < MaxResets
  /\ set(Empty)
  /\ resets' = resets + 1
  /\ UNCHANGED <<_dirty, mutex, source, invalidatedAt, newest, callVars>>

\* The source changes (external).
sourceChanges ==
  /\ source < MaxVersion
  /\ source' = source + 1
  /\ UNCHANGED <<_value, _dirty, mutex, invalidatedAt, observed, newest, resets, callVars>>

\* What a suspended call does when it is resumed.
Resume(c) ==
  callGetter(c) \/ returnCached(c) \/ readSource(c) \/ getterResolves(c) \/ refreshReturns(c)

Next ==
  \/ \E c \in Callers : refresh(c) \/ value(c) \/ Resume(c) \/ getterThrows(c)
  \/ invalidate \/ reset \/ sourceChanges

Spec == Init /\ [][Next]_vars

\* Settled promises are resumed and getters settle.
FairSpec == Spec /\ \A c \in Callers : WF_vars(Resume(c))

-----------------------------------------------------------------------------
\* At most one getter runs, its caller holds the mutex, every suspended call is
\* in the line once, and the observers have been told the value that is stored.
CacheInv ==
  /\ TypeOK
  /\ \A c \in Callers : pc[c] = "getting" => Holds(mutex, c)
  /\ \A c \in Callers : (\E i \in 1..Len(mutex) : mutex[i] = c) <=> pc[c] \in {"waiting", "getting"}
  /\ \A i, j \in 1..Len(mutex) : mutex[i] = mutex[j] => i = j
  /\ \A c \in Callers : got[c] # Null => pc[c] = "getting" /\ got[c] <= source /\ newest <= got[c]
  /\ observed = _value
  /\ newest <= source /\ invalidatedAt <= source
  /\ _value \in Versions => _value = newest

\* However calls, invalidations and resets interleave, an older answer of the
\* getter never replaces a newer one.
NeverGoesBack ==
  [][\A c \in Callers : getterResolves(c) => _value' = Empty \/ _value' >= newest]_vars

\* A refresh() that begins while no other call is running returns what the source
\* held when it began or something newer, unless the getter throws.
RefreshAloneIsFresh ==
  \A c \in alone : result[c] \in {Failed, NoResult} \/ result[c] >= asked[c]

\* Every call returns: getters that throw do not block the calls behind them.
CallsReturn == \A c \in Callers : pc[c] = "waiting" ~> pc[c] = "idle"

\* A read that follows an invalidate(), or a refresh(), sees the source as it was
\* at the invalidation or later (CachedValue.test.ts, "should use getter if dirty").
DirtyIsReread ==
  \A c \in Callers : result[c] \in {Failed, NoResult} \/ result[c] >= asked[c]

=============================================================================
