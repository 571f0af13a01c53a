-------------------------- MODULE ConnectionProofs --------------------------
(***************************************************************************)
(* Signing in, for any set of targets and hosts and any number of target   *)
(* changes, sign-ins and logouts.  What ConnectionInv says is inductive    *)
(* once the two mutexes are known to be lines without repetition.  That    *)
(* the connection is the target's needs more: the order of configsMutex,   *)
(* in which a logout and a target change forget the auth provider before   *)
(* any later sign-in hands one out.                                        *)
(***************************************************************************)
EXTENDS Connection, SequenceTheorems, TLAPS

-----------------------------------------------------------------------------
\* The line of a mutex.

InLine(m, p) == \E i \in 1 .. Len(m) : m[i] = p
NoRepeat(m) == \A i, j \in 1 .. Len(m) : m[i] = m[j] => i = j
Ahead(m, p, q) == \E i, j \in 1 .. Len(m) : i < j /\ m[i] = p /\ m[j] = q

\* m is the line of the members of S, each of them once.
LineOf(m, S) == /\ m \in Seq(Procs) /\ NoRepeat(m)
                /\ \A p \in Procs : InLine(m, p) <=> p \in S

Login == {p \in Procs : pc[p] \in AwaitsLogin \cup HoldsLogin}
Configs == {p \in Procs : pc[p] \in AwaitsConfigs \cup HoldsConfigs}

LinesOK ==
  /\ LineOf(loginLogoutMutex, Login) /\ LineOf(configsMutex, Configs)
  /\ \A p \in Procs : pc[p] \in HoldsLogin => HasLogin(p)
  /\ \A p \in Procs : pc[p] \in HoldsConfigs => HasConfigs(p)

-----------------------------------------------------------------------------
\* A sign-in works with the provider it has from somewhere, and the state and
\* the client are its own as long as it holds loginLogoutMutex.
Opening == {"open", "setup", "setAuth", "refresh"}
HasProvider == {"resolveCheck", "wizard", "connect"} \cup Opening

StateOK ==
  /\ \A p \in Procs :
       /\ pc[p] \in HasProvider => provider[p] \in Hosts
       /\ pc[p] \in {"setup", "setAuth", "refresh"} => state = "CONNECTING" /\ client = provider[p]
       /\ pc[p] = "open" => state = "CONNECTING" /\ client = NoHost
       /\ pc[p] \in {"resolveGet", "resolveCheck"} => state = "CONNECTING"
       /\ pc[p] \in {"disconnectGet", "logoutGet"} => state = "DISCONNECTED"
       /\ pc[p] = "refresh" => bundleAuth = provider[p]
  /\ state = "CONNECTED" => client # NoHost
  /\ state = "DISCONNECTED" => client = NoHost
  /\ state = "CONNECTING" => SigningIn("auto") \/ SigningIn("manual") \/ pc["auto"] = "logout"

\* A logout drops the provider of the bundle models before any sign-in that
\* comes after it hands out one.
LogoutFirst ==
  \A p \in Procs : pc[p] = "forget" =>
    /\ state # "CONNECTED"
    /\ \A q \in Procs : /\ pc[q] \in {"setup", "setAuth"} => Ahead(configsMutex, p, q)
                        /\ pc[q] # "refresh"

\* A sign-in that read the target after its last change comes after everything
\* that this change still has to do.
ChangeFirst ==
  ~missed =>
    /\ pc["commit"] # "commitRefresh"
    /\ pc["commit"] = "clearAuth" =>
         /\ state # "CONNECTED"
         /\ \A q \in Procs : /\ pc[q] \in {"setup", "setAuth"} => Ahead(configsMutex, "commit", q)
                             /\ pc[q] # "refresh"
    /\ pc["auto"] \in {"resolveCheck", "connect"} \cup Opening => provider["auto"] = host(target)
    /\ state = "CONNECTED" => client = host(target) /\ bundleAuth = client

ConnInv == TypeOK /\ LinesOK /\ StateOK /\ LogoutFirst /\ ChangeFirst

-----------------------------------------------------------------------------
\* Joining a line at its end.
LEMMA JoinLine ==
  ASSUME NEW m, NEW S, LineOf(m, S), NEW p \in Procs, p \notin S, NEW n, n = Wait(m, p)
  PROVE  /\ LineOf(n, S \cup {p})
         /\ \A q : Holds(m, q) => Holds(n, q)
         /\ \A a, b : Ahead(m, a, b) => Ahead(n, a, b)
         /\ \A a \in S \cap Procs : Ahead(n, a, p)
  <1>0. /\ m \in Seq(Procs) /\ NoRepeat(m) /\ (\A q \in Procs : InLine(m, q) <=> q \in S)
        /\ n \in Seq(Procs) /\ Len(n) = Len(m) + 1 /\ Len(m) \in Nat
        /\ \A i \in 1 .. Len(m) : n[i] = m[i] /\ i \in 1 .. Len(n)
        /\ n[Len(m) + 1] = p /\ Len(m) + 1 \in 1 .. Len(n)
        /\ \A i \in 1 .. Len(n) : i \in 1 .. Len(m) \/ i = Len(m) + 1
    BY AppendProperties, LenProperties DEF Wait, LineOf
  <1>1. ASSUME NEW q \in Procs PROVE InLine(n, q) <=> q \in S \cup {p}
    <2>1. InLine(n, q) => InLine(m, q) \/ q = p
      BY <1>0 DEF InLine
    <2>2. InLine(m, q) \/ q = p => InLine(n, q)
      BY <1>0 DEF InLine
    <2> QED
      BY <1>0, <2>1, <2>2
  <1>2. NoRepeat(n)
    <2>1. \A i \in 1 .. Len(m) : m[i] # p
      BY <1>0 DEF InLine
    <2> QED
      BY <1>0, <2>1 DEF NoRepeat
  <1>3. \A q : Holds(m, q) => Holds(n, q)
    BY <1>0, HeadTailAppend DEF Wait, Holds
  <1>4. \A a, b : Ahead(m, a, b) => Ahead(n, a, b)
    BY <1>0 DEF Ahead
  <1>5. \A a \in S \cap Procs : Ahead(n, a, p)
    <2> SUFFICES ASSUME NEW a \in S, a \in Procs PROVE Ahead(n, a, p)
      OBVIOUS
    <2>1. PICK i \in 1 .. Len(m) : m[i] = a
      BY <1>0 DEF InLine
    <2>2. i < Len(m) + 1
      BY <1>0
    <2> QED
      BY <1>0, <2>1, <2>2 DEF Ahead
  <1> QED
    BY <1>0, <1>1, <1>2, <1>3, <1>4, <1>5 DEF LineOf

\* Leaving a line that one is the head of.
LEMMA LeaveLine ==
  ASSUME NEW m, NEW S, LineOf(m, S), NEW p \in Procs, Holds(m, p), NEW n, n = Signal(m)
  PROVE  /\ LineOf(n, S \ {p}) /\ p \in S
         /\ \A a, b : Ahead(m, a, b) /\ a # p => Ahead(n, a, b)
         /\ \A a : ~Ahead(m, a, p)
  <1>0. /\ m \in Seq(Procs) /\ NoRepeat(m) /\ (\A q \in Procs : InLine(m, q) <=> q \in S)
        /\ m # << >> /\ Head(m) = p
    BY DEF LineOf, Holds
  <1>1. /\ n \in Seq(Procs) /\ Len(m) \in Nat /\ Len(m) > 0 /\ Len(n) = Len(m) - 1
        /\ m[1] = p /\ \A i \in 1 .. Len(m) - 1 : n[i] = m[i + 1]
    BY <1>0, HeadTailProperties, LenProperties DEF Signal
  <1>2. \A i \in 1 .. Len(n) : i + 1 \in 1 .. Len(m) /\ i + 1 # 1 /\ n[i] = m[i + 1]
    BY <1>1
  <1>3. \A i \in 1 .. Len(m) : i # 1 => i - 1 \in 1 .. Len(n) /\ n[i - 1] = m[i]
    BY <1>1
  <1>4. 1 \in 1 .. Len(m)
    BY <1>1
  <1>5. \A i \in 1 .. Len(m) : m[i] = p => i = 1
    BY <1>0, <1>1, <1>4 DEF NoRepeat
  <1>6. ASSUME NEW q \in Procs PROVE InLine(n, q) <=> q \in S \ {p}
    <2>1. ASSUME NEW i \in 1 .. Len(n), n[i] = q PROVE q \in S /\ q # p
      BY <1>0, <1>2, <1>5, <2>1 DEF InLine
    <2>2. ASSUME q \in S, q # p PROVE InLine(n, q)
      <3>1. PICK i \in 1 .. Len(m) : m[i] = q
        BY <1>0, <2>2 DEF InLine
      <3>2. i # 1
        BY <1>1, <2>2, <3>1
      <3> QED
        BY <1>3, <3>1, <3>2 DEF InLine
    <2> QED
      BY <2>1, <2>2 DEF InLine
  <1>7. NoRepeat(n)
    <2> SUFFICES ASSUME NEW i \in 1 .. Len(n), NEW k \in 1 .. Len(n), n[i] = n[k] PROVE i = k
      BY DEF NoRepeat
    <2>1. i + 1 = k + 1
      BY <1>0, <1>2 DEF NoRepeat
    <2> QED
      BY <2>1
  <1>8. ASSUME NEW a, NEW b, Ahead(m, a, b), a # p PROVE Ahead(n, a, b)
    <2>1. PICK i \in 1 .. Len(m), k \in 1 .. Len(m) : i < k /\ m[i] = a /\ m[k] = b
      BY <1>8 DEF Ahead
    <2>2. i # 1 /\ k # 1
      BY <1>1, <1>8, <2>1
    <2>3. i - 1 < k - 1
      BY <2>1
    <2> QED
      BY <1>3, <2>1, <2>2, <2>3 DEF Ahead
  <1>9. \A a : ~Ahead(m, a, p)
    BY <1>1, <1>5 DEF Ahead
  <1>10. p \in S
    BY <1>0, <1>1, <1>4 DEF InLine
  <1> QED
    BY <1>1, <1>6, <1>7, <1>8, <1>9, <1>10 DEF LineOf

\* What p does to a line when it moves from one place to another; P are the
\* places at which a call is in the line.
Turn(m, n, p, P, from, to) ==
  \/ n = m /\ (from \in P <=> to \in P)
  \/ n = Wait(m, p) /\ from \notin P /\ to \in P
  \/ n = Signal(m) /\ Holds(m, p) /\ to \notin P
  \/ n = Wait(Signal(m), p) /\ Holds(m, p) /\ to \in P

LEMMA TurnKeepsLine ==
  ASSUME NEW m, NEW S, LineOf(m, S), NEW p \in Procs, NEW n, NEW P,
         NEW from, NEW to, Turn(m, n, p, P, from, to), p \in S <=> from \in P,
         NEW T, T = IF to \in P THEN S \cup {p} ELSE S \ {p}
  PROVE  /\ LineOf(n, T)
         /\ \A q : q # p /\ Holds(m, q) => Holds(n, q)
         /\ \A a, b : a # p /\ b # p /\ Ahead(m, a, b) => Ahead(n, a, b)
  <1>1. CASE n = m /\ (from \in P <=> to \in P)
    <2>1. S = T
      BY <1>1
    <2> QED
      BY <1>1, <2>1
  <1>2. CASE n = Wait(m, p) /\ from \notin P /\ to \in P
    BY <1>2, JoinLine
  <1>3. CASE n = Signal(m) /\ Holds(m, p) /\ to \notin P
    BY <1>3, LeaveLine DEF Holds
  <1>4. CASE n = Wait(Signal(m), p) /\ Holds(m, p) /\ to \in P
    <2> DEFINE l == Signal(m)
    <2>1. /\ LineOf(l, S \ {p}) /\ p \in S
          /\ \A a, b : Ahead(m, a, b) /\ a # p => Ahead(l, a, b)
      BY <1>4, LeaveLine
    <2>2. n = Wait(l, p) /\ p \notin S \ {p}
      BY <1>4
    <2> HIDE DEF l
    <2>3. /\ LineOf(n, (S \ {p}) \cup {p})
          /\ \A a, b : Ahead(l, a, b) => Ahead(n, a, b)
      BY <2>1, <2>2, JoinLine
    <2>4. (S \ {p}) \cup {p} = T
      BY <1>4
    <2> QED
      BY <1>4, <2>1, <2>3, <2>4 DEF Holds
  <1> QED
    BY <1>1, <1>2, <1>3, <1>4 DEF Turn

LoginPlaces == AwaitsLogin \cup HoldsLogin
ConfigsPlaces == AwaitsConfigs \cup HoldsConfigs

\* The step of one call: it moves from a place to another and takes its turn at
\* both mutexes accordingly.
Moves(p, to) ==
  /\ pc' = [pc EXCEPT ![p] = to] /\ to \in PCs
  /\ Turn(loginLogoutMutex, loginLogoutMutex', p, LoginPlaces, pc[p], to)
  /\ Turn(configsMutex, configsMutex', p, ConfigsPlaces, pc[p], to)
  /\ to \in HoldsLogin => Holds(loginLogoutMutex', p)
  /\ to \in HoldsConfigs => Holds(configsMutex', p)

LEMMA MovesKeepLines ==
  ASSUME TypeOK, LinesOK, NEW p \in Procs, NEW to, Moves(p, to)
  PROVE  /\ LinesOK' /\ pc' \in [Procs -> PCs] /\ pc'[p] = to
         /\ loginLogoutMutex' \in Seq(Procs) /\ configsMutex' \in Seq(Procs)
         /\ \A q \in Procs : q # p => pc'[q] = pc[q]
         /\ \A a, b : a # p /\ b # p /\ Ahead(configsMutex, a, b) => Ahead(configsMutex', a, b)
  <1>1. /\ pc' = [pc EXCEPT ![p] = to] /\ to \in PCs /\ pc \in [Procs -> PCs]
        /\ Turn(loginLogoutMutex, loginLogoutMutex', p, LoginPlaces, pc[p], to)
        /\ Turn(configsMutex, configsMutex', p, ConfigsPlaces, pc[p], to)
        /\ to \in HoldsLogin => Holds(loginLogoutMutex', p)
        /\ to \in HoldsConfigs => Holds(configsMutex', p)
    BY DEF Moves, TypeOK
  <1>2. pc' \in [Procs -> PCs] /\ pc'[p] = to /\ \A q \in Procs : q # p => pc'[q] = pc[q]
    BY <1>1
  <1>3. /\ LineOf(loginLogoutMutex, Login) /\ LineOf(configsMutex, Configs)
        /\ \A q \in Procs : pc[q] \in HoldsLogin => HasLogin(q)
        /\ \A q \in Procs : pc[q] \in HoldsConfigs => HasConfigs(q)
    BY DEF LinesOK
  <1>4. /\ Login' = IF to \in LoginPlaces THEN Login \cup {p} ELSE Login \ {p}
        /\ Configs' = IF to \in ConfigsPlaces THEN Configs \cup {p} ELSE Configs \ {p}
    BY <1>2 DEF Login, Configs, LoginPlaces, ConfigsPlaces
  <1>5. /\ p \in Login <=> pc[p] \in LoginPlaces
        /\ p \in Configs <=> pc[p] \in ConfigsPlaces
    BY DEF Login, Configs, LoginPlaces, ConfigsPlaces
  <1>6. /\ LineOf(loginLogoutMutex', Login')
        /\ \A q : q # p /\ Holds(loginLogoutMutex, q) => Holds(loginLogoutMutex', q)
        /\ \A a, b : a # p /\ b # p /\ Ahead(loginLogoutMutex, a, b) => Ahead(loginLogoutMutex', a, b)
    <2> DEFINE m == loginLogoutMutex
               n == loginLogoutMutex'
               S == Login
               T == Login'
               from == pc[p]
    <2>1. /\ Turn(m, n, p, LoginPlaces, from, to) /\ LineOf(m, S)
          /\ p \in S <=> from \in LoginPlaces
          /\ T = IF to \in LoginPlaces THEN S \cup {p} ELSE S \ {p}
      BY <1>1, <1>3, <1>4, <1>5
    <2> HIDE DEF m, n, S, T, from
    <2>2. /\ LineOf(n, T)
          /\ \A q : q # p /\ Holds(m, q) => Holds(n, q)
          /\ \A a, b : a # p /\ b # p /\ Ahead(m, a, b) => Ahead(n, a, b)
      BY <2>1, TurnKeepsLine
    <2> QED
      BY <2>2 DEF m, n, S, T
  <1>7. /\ LineOf(configsMutex', Configs')
        /\ \A q : q # p /\ Holds(configsMutex, q) => Holds(configsMutex', q)
        /\ \A a, b : a # p /\ b # p /\ Ahead(configsMutex, a, b) => Ahead(configsMutex', a, b)
    <2> DEFINE m == configsMutex
               n == configsMutex'
               S == Configs
               T == Configs'
               from == pc[p]
    <2>1. /\ Turn(m, n, p, ConfigsPlaces, from, to) /\ LineOf(m, S)
          /\ p \in S <=> from \in ConfigsPlaces
          /\ T = IF to \in ConfigsPlaces THEN S \cup {p} ELSE S \ {p}
      BY <1>1, <1>3, <1>4, <1>5
    <2> HIDE DEF m, n, S, T, from
    <2>2. /\ LineOf(n, T)
          /\ \A q : q # p /\ Holds(m, q) => Holds(n, q)
          /\ \A a, b : a # p /\ b # p /\ Ahead(m, a, b) => Ahead(n, a, b)
      BY <2>1, TurnKeepsLine
    <2> QED
      BY <2>2 DEF m, n, S, T
  <1>8. LinesOK'
    <2>1. \A q \in Procs : pc'[q] \in HoldsLogin => Holds(loginLogoutMutex', q)
      BY <1>1, <1>2, <1>3, <1>6 DEF HasLogin
    <2>2. \A q \in Procs : pc'[q] \in HoldsConfigs => Holds(configsMutex', q)
      BY <1>1, <1>2, <1>3, <1>7 DEF HasConfigs
    <2> QED
      BY <1>6, <1>7, <2>1, <2>2 DEF LinesOK, HasLogin, HasConfigs, AwaitsLogin
  <1> QED
    BY <1>2, <1>6, <1>7, <1>8 DEF LineOf

\* Each mutex has one holder.
LEMMA OneHolder ==
  ASSUME LinesOK, NEW p \in Procs, NEW q \in Procs
  PROVE  /\ HasLogin(p) /\ pc[q] \in HoldsLogin => q = p
         /\ HasConfigs(p) /\ pc[q] \in HoldsConfigs => q = p
  BY DEF LinesOK, HasLogin, HasConfigs, Holds

-----------------------------------------------------------------------------
\* Every action preserves the invariant.

LEMMA InvParts ==
  ASSUME ConnInv
  PROVE  /\ TypeOK /\ LinesOK /\ StateOK /\ LogoutFirst /\ ChangeFirst
         /\ pc \in [Procs -> PCs] /\ provider \in [Procs -> Hosts \cup {NoHost}]
         /\ {"auto", "manual", "logout", "commit"} = Procs
         /\ \A p \in Procs : pc[p] \in HoldsLogin => HasLogin(p)
         /\ \A p \in Procs : pc[p] \in HoldsConfigs => HasConfigs(p)
  BY DEF ConnInv, TypeOK, LinesOK, Procs

\* As long as a call does not come to a place that matters to the order of
\* configsMutex, and no connection is made, the order stays.
LEMMA OrderStays ==
  ASSUME ConnInv, NEW p \in Procs, NEW to, Moves(p, to),
         to \notin {"forget", "setup", "setAuth", "refresh", "clearAuth"},
         state' = state \/ state' # "CONNECTED"
  PROVE  /\ LogoutFirst'
         /\ ~missed /\ pc'["commit"] = "clearAuth" =>
              /\ state' # "CONNECTED"
              /\ \A q \in Procs : /\ pc'[q] \in {"setup", "setAuth"} => Ahead(configsMutex', "commit", q)
                                  /\ pc'[q] # "refresh"
  <1>1. /\ pc' \in [Procs -> PCs] /\ pc'[p] = to
        /\ \A q \in Procs : q # p => pc'[q] = pc[q]
        /\ \A a, b : a # p /\ b # p /\ Ahead(configsMutex, a, b) => Ahead(configsMutex', a, b)
    BY InvParts, MovesKeepLines
  <1>2. LogoutFirst /\ ChangeFirst
    BY InvParts
  <1>3. "commit" \in Procs
    BY DEF Procs
  <1>4. LogoutFirst'
    BY <1>1, <1>2 DEF LogoutFirst
  <1>5. ASSUME ~missed, pc'["commit"] = "clearAuth"
        PROVE  /\ state' # "CONNECTED"
               /\ \A q \in Procs : /\ pc'[q] \in {"setup", "setAuth"} => Ahead(configsMutex', "commit", q)
                                   /\ pc'[q] # "refresh"
    BY <1>1, <1>2, <1>3, <1>5 DEF ChangeFirst
  <1> QED
    BY <1>4, <1>5

\* Steps that only move a call on: those of the mutexes, of the wizard and of
\* the user.
LEMMA PlainSteps ==
  ASSUME ConnInv, NEW p \in Procs, NEW to, Moves(p, to),
         UNCHANGED <<state, client, provider, bundleAuth, target, missed>>,
         \/ /\ pc[p] = "disconnectGet" /\ to = "resolve"
         \/ /\ pc[p] = "resolveCheck" /\ p = "auto" /\ to \in {"connect", "logout"}
         \/ /\ pc[p] = "logoutGet" /\ to = "idle"
         \/ /\ pc[p] = "idle" /\ to \in {"logout", "commitWait", "disconnect"}
         \/ /\ pc[p] = "wizard" /\ p = "manual" /\ to \in {"idle", "connect"}
  PROVE  LinesOK' /\ StateOK' /\ LogoutFirst' /\ ChangeFirst'
  <1>1. /\ pc' \in [Procs -> PCs] /\ pc'[p] = to /\ LinesOK'
        /\ \A q \in Procs : q # p => pc'[q] = pc[q]
    BY InvParts, MovesKeepLines
  <1>2. StateOK /\ ChangeFirst
    BY InvParts
  <1>3. "commit" \in Procs /\ "auto" \in Procs /\ "manual" \in Procs
    BY DEF Procs
  <1>4. to \in {"idle", "resolve", "connect", "logout", "commitWait", "disconnect"}
    OBVIOUS
  <1>5. \A q \in Procs :
          /\ pc'[q] \in HasProvider => provider'[q] \in Hosts
          /\ pc'[q] \in {"setup", "setAuth", "refresh"} => state' = "CONNECTING" /\ client' = provider'[q]
          /\ pc'[q] = "open" => state' = "CONNECTING" /\ client' = NoHost
          /\ pc'[q] \in {"resolveGet", "resolveCheck"} => state' = "CONNECTING"
          /\ pc'[q] \in {"disconnectGet", "logoutGet"} => state' = "DISCONNECTED"
          /\ pc'[q] = "refresh" => bundleAuth' = provider'[q]
    BY <1>1, <1>2, <1>4 DEF StateOK, HasProvider, Opening
  <1>6. state' = "CONNECTING" => (SigningIn("auto") \/ SigningIn("manual") \/ pc["auto"] = "logout")'
    BY <1>1, <1>2, <1>3 DEF StateOK, SigningIn
  <1>7. StateOK'
    BY <1>2, <1>5, <1>6 DEF StateOK
  <1>8. /\ LogoutFirst'
        /\ ~missed /\ pc'["commit"] = "clearAuth" =>
             /\ state' # "CONNECTED"
             /\ \A q \in Procs : /\ pc'[q] \in {"setup", "setAuth"} => Ahead(configsMutex', "commit", q)
                                 /\ pc'[q] # "refresh"
    BY <1>4, OrderStays
  <1>9. ChangeFirst'
    <2> SUFFICES ASSUME ~missed' PROVE ChangeFirst'
      BY DEF ChangeFirst
    <2>1. pc'["commit"] # "commitRefresh"
      BY <1>1, <1>2, <1>3, <1>4 DEF ChangeFirst
    <2>2. pc'["auto"] \in {"resolveCheck", "connect"} \cup Opening => provider'["auto"] = host(target)'
      BY <1>1, <1>2, <1>3, <1>4 DEF ChangeFirst, Opening, host
    <2>3. state' = "CONNECTED" => client' = host(target)' /\ bundleAuth' = client'
      BY <1>2 DEF ChangeFirst, host
    <2> QED
      BY <1>8, <2>1, <2>2, <2>3 DEF ChangeFirst
  <1> QED
    BY <1>1, <1>7, <1>8, <1>9

\* The rest of the types, for a step of one call.
LEMMA TypeStep ==
  ASSUME ConnInv, NEW p \in Procs, NEW to, Moves(p, to),
         target' \in Targets \cup {NoTarget}, newTarget' \in Targets \cup {NoTarget},
         bundleAuth' \in Hosts \cup {NoHost}, client' \in Hosts \cup {NoHost},
         state' \in {"CONNECTED", "CONNECTING", "DISCONNECTED"},
         provider' \in [Procs -> Hosts \cup {NoHost}],
         {listening', hostEvent', missed'} \subseteq BOOLEAN,
         changes' \in 0 .. MaxChanges, calls' \in 0 .. MaxUserCalls
  PROVE  TypeOK'
  BY InvParts, MovesKeepLines DEF TypeOK

LEMMA TypeParts ==
  ASSUME ConnInv
  PROVE  /\ target \in Targets \cup {NoTarget} /\ newTarget \in Targets \cup {NoTarget}
         /\ bundleAuth \in Hosts \cup {NoHost} /\ client \in Hosts \cup {NoHost}
         /\ state \in {"CONNECTED", "CONNECTING", "DISCONNECTED"}
         /\ provider \in [Procs -> Hosts \cup {NoHost}]
         /\ listening \in BOOLEAN /\ hostEvent \in BOOLEAN /\ missed \in BOOLEAN
         /\ changes \in 0 .. MaxChanges /\ calls \in 0 .. MaxUserCalls
         /\ MaxChanges \in Nat /\ MaxUserCalls \in Nat
         /\ NoHost \notin Hosts /\ NoTarget \notin Targets
         /\ \A t \in Targets \cup {NoTarget} : host(t) \in Hosts \cup {NoHost} /\ (t # NoTarget => host(t) \in Hosts)
  BY ConnectionAssumption DEF ConnInv, TypeOK, host

LEMMA AutoMovesOn ==
  ASSUME ConnInv, disconnectEnd \/ resolveEnd
  PROVE  ConnInv'
  <1> USE DEF PCs, LoginPlaces, ConfigsPlaces, AwaitsLogin, HoldsLogin, AwaitsConfigs, HoldsConfigs
  <1>0. "auto" \in Procs
    BY DEF Procs
  <1>1. CASE disconnectEnd
    <2>1. Moves("auto", "resolve") /\ pc["auto"] = "disconnectGet"
      BY <1>0, <1>1, InvParts DEF disconnectEnd, Goto, Moves, Turn, HasLogin, HasConfigs
    <2>2. UNCHANGED <<connVars, configVars, boundVars, provider, listening, missed>>
      BY <1>1 DEF disconnectEnd
    <2>3. TypeOK'
      BY <1>0, <2>1, <2>2, TypeParts, TypeStep DEF connVars, configVars, boundVars
    <2> QED
      BY <1>0, <2>1, <2>2, <2>3, PlainSteps DEF connVars, configVars, ConnInv
  <1>2. CASE resolveEnd
    <2>1. PICK to \in {"connect", "logout"} : Goto("auto", to)
      BY <1>2 DEF resolveEnd
    <2>2. Moves("auto", to) /\ pc["auto"] = "resolveCheck"
      BY <1>0, <1>2, <2>1, InvParts DEF resolveEnd, Goto, Moves, Turn, HasLogin, HasConfigs
    <2>3. UNCHANGED <<connVars, configVars, boundVars, provider, listening, missed>>
      BY <1>2 DEF resolveEnd
    <2>4. TypeOK'
      BY <1>0, <2>2, <2>3, TypeParts, TypeStep DEF connVars, configVars, boundVars
    <2> QED
      BY <1>0, <2>2, <2>3, <2>4, PlainSteps DEF connVars, configVars, ConnInv
  <1> QED
    BY <1>1, <1>2

LEMMA UserMovesOn ==
  ASSUME ConnInv,
         \/ logoutCommand \/ WizardStep
         \/ \E t \in Targets \cup {NoTarget} : setTarget(t)
  PROVE  ConnInv'
  <1> USE DEF PCs, LoginPlaces, ConfigsPlaces, AwaitsLogin, HoldsLogin, AwaitsConfigs, HoldsConfigs
  <1>0. Procs = {"auto", "manual", "logout", "commit"}
    BY DEF Procs
  <1>1. CASE logoutCommand
    <2>1. Moves("logout", "logout") /\ pc["logout"] = "idle"
      BY <1>0, <1>1, InvParts DEF logoutCommand, Goto, Moves, Turn
    <2>2. UNCHANGED <<connVars, configVars, changes, provider, listening, missed>>
          /\ calls' \in 0 .. MaxUserCalls
      BY <1>1, TypeParts DEF logoutCommand
    <2>3. TypeOK'
      BY <1>0, <2>1, <2>2, TypeParts, TypeStep DEF connVars, configVars
    <2> QED
      BY <1>0, <2>1, <2>2, <2>3, PlainSteps DEF connVars, configVars, ConnInv
  <1>2. CASE WizardStep
    <2>1. PICK to \in {"idle", "connect"} : Moves("manual", to) /\ pc["manual"] = "wizard"
      <3>1. wizardCancelled => Moves("manual", "idle")
        BY <1>0, InvParts DEF wizardCancelled, Goto, Moves, Turn
      <3>2. wizardDone => Moves("manual", "connect")
        BY <1>0, InvParts DEF wizardDone, Goto, Moves, Turn
      <3> QED
        BY <1>2, <3>1, <3>2 DEF WizardStep, wizardCancelled, wizardDone
    <2>2. UNCHANGED <<connVars, configVars, boundVars, provider, listening, missed>>
      BY <1>2 DEF WizardStep, wizardCancelled, wizardDone
    <2>3. TypeOK'
      BY <1>0, <2>1, <2>2, TypeParts, TypeStep DEF connVars, configVars, boundVars
    <2> QED
      BY <1>0, <2>1, <2>2, <2>3, PlainSteps DEF connVars, configVars, ConnInv
  <1>3. ASSUME NEW t \in Targets \cup {NoTarget}, setTarget(t) PROVE ConnInv'
    <2>1. Moves("commit", "commitWait") /\ pc["commit"] = "idle"
      BY <1>0, <1>3, InvParts DEF setTarget, Goto, Moves, Turn
    <2>2. UNCHANGED <<connVars, target, bundleAuth, hostEvent, calls, provider, listening, missed>>
          /\ newTarget' = t /\ changes' \in 0 .. MaxChanges
      BY <1>3, TypeParts DEF setTarget
    <2>3. TypeOK'
      BY <1>0, <2>1, <2>2, TypeParts, TypeStep DEF connVars
    <2> QED
      BY <1>0, <2>1, <2>2, <2>3, PlainSteps DEF connVars, ConnInv
  <1> QED
    BY <1>1, <1>2, <1>3

\* What StateOK says of one call.
CallOK(q) ==
  /\ pc[q] \in HasProvider => provider[q] \in Hosts
  /\ pc[q] \in {"setup", "setAuth", "refresh"} => state = "CONNECTING" /\ client = provider[q]
  /\ pc[q] = "open" => state = "CONNECTING" /\ client = NoHost
  /\ pc[q] \in {"resolveGet", "resolveCheck"} => state = "CONNECTING"
  /\ pc[q] \in {"disconnectGet", "logoutGet"} => state = "DISCONNECTED"
  /\ pc[q] = "refresh" => bundleAuth = provider[q]

ShownOK ==
  /\ state = "CONNECTED" => client # NoHost
  /\ state = "DISCONNECTED" => client = NoHost
  /\ state = "CONNECTING" => SigningIn("auto") \/ SigningIn("manual") \/ pc["auto"] = "logout"

LEMMA StateParts == StateOK <=> (\A q \in Procs : CallOK(q)) /\ ShownOK
  BY DEF StateOK, CallOK, ShownOK

\* The call that holds loginLogoutMutex may change the state and the client: no
\* other call is at a place that relies on them.
LEMMA OthersDoNotMind ==
  ASSUME ConnInv, NEW p \in Procs, NEW to, Moves(p, to), HasLogin(p),
         NEW q \in Procs, q # p, provider'[q] = provider[q]
  PROVE  CallOK(q)' /\ pc'[q] = pc[q] /\ pc[q] \notin HoldsLogin
  <1>1. pc'[q] = pc[q]
    BY InvParts, MovesKeepLines
  <1>2. pc[q] \notin HoldsLogin
    BY InvParts, OneHolder
  <1>3. CallOK(q)
    BY InvParts, StateParts
  <1> QED
    BY <1>1, <1>2, <1>3 DEF CallOK, HasProvider, Opening, HoldsLogin

LEMMA DisconnectStarts ==
  ASSUME ConnInv, NEW p \in Procs,
         \/ p = "auto" /\ disconnectStart
         \/ p \in {"auto", "logout"} /\ logoutStart(p)
  PROVE  ConnInv'
  <1> USE DEF PCs, LoginPlaces, ConfigsPlaces, AwaitsLogin, HoldsLogin, AwaitsConfigs, HoldsConfigs
  <1>0. Procs = {"auto", "manual", "logout", "commit"}
    BY DEF Procs
  <1>1. PICK to \in {"disconnectGet", "logoutGet"} : Moves(p, to) /\ HasLogin(p)
    <2>1. p = "auto" /\ disconnectStart => Moves(p, "disconnectGet")
      BY <1>0, InvParts DEF disconnectStart, Goto, Moves, Turn, HasLogin
    <2>2. logoutStart(p) => Moves(p, "logoutGet")
      BY <1>0, InvParts DEF logoutStart, Goto, Moves, Turn, HasLogin
    <2> QED
      BY <2>1, <2>2 DEF disconnectStart, logoutStart
  <1>2. /\ state' = "DISCONNECTED" /\ client' = NoHost
        /\ UNCHANGED <<configVars, boundVars, provider, listening, missed>>
        /\ pc[p] \in {"disconnect", "logout"}
    BY DEF disconnectStart, logoutStart, Disconnect
  <1>3. TypeOK'
    BY <1>0, <1>1, <1>2, TypeParts, TypeStep DEF configVars, boundVars
  <1>4. pc' \in [Procs -> PCs] /\ pc'[p] = to /\ LinesOK' /\ \A q \in Procs : q # p => pc'[q] = pc[q]
    BY <1>1, InvParts, MovesKeepLines
  <1>5. StateOK'
    <2>1. ASSUME NEW q \in Procs PROVE CallOK(q)'
      <3>1. CASE q = p
        BY <1>2, <1>4, <3>1 DEF CallOK, HasProvider, Opening
      <3>2. CASE q # p
        BY <1>1, <1>2, <3>2, OthersDoNotMind
      <3> QED
        BY <3>1, <3>2
    <2>2. ShownOK'
      BY <1>2 DEF ShownOK
    <2> QED
      BY <2>1, <2>2 DEF StateOK, CallOK, ShownOK
  <1>6. LogoutFirst' /\ ChangeFirst'
    <2>1. /\ LogoutFirst'
          /\ ~missed /\ pc'["commit"] = "clearAuth" =>
               /\ state' # "CONNECTED"
               /\ \A q \in Procs : /\ pc'[q] \in {"setup", "setAuth"} => Ahead(configsMutex', "commit", q)
                                   /\ pc'[q] # "refresh"
      BY <1>1, <1>2, OrderStays
    <2>2. ~missed => /\ pc'["commit"] # "commitRefresh"
                     /\ pc'["auto"] \in {"resolveCheck", "connect"} \cup Opening => provider["auto"] = host(target)
      BY <1>0, <1>1, <1>4, InvParts DEF ChangeFirst, Opening
    <2> QED
      BY <1>2, <2>1, <2>2 DEF ChangeFirst, configVars, host
  <1> QED
    BY <1>3, <1>4, <1>5, <1>6 DEF ConnInv

LEMMA ResolveStarts == ASSUME ConnInv, resolveStart PROVE ConnInv'
  <1> USE DEF PCs, LoginPlaces, ConfigsPlaces, AwaitsLogin, HoldsLogin, AwaitsConfigs, HoldsConfigs
  <1>0. Procs = {"auto", "manual", "logout", "commit"}
    BY DEF Procs
  <1>1. Moves("auto", "resolveGet") /\ HasLogin("auto")
    BY <1>0, InvParts DEF resolveStart, Goto, Moves, Turn, HasLogin
  <1>2. /\ state' = "CONNECTING" /\ client' = client
        /\ UNCHANGED <<configVars, boundVars, provider, listening, missed>>
    BY DEF resolveStart, beginConnecting
  <1>3. TypeOK'
    BY <1>0, <1>1, <1>2, TypeParts, TypeStep DEF configVars, boundVars
  <1>4. pc' \in [Procs -> PCs] /\ pc'["auto"] = "resolveGet" /\ LinesOK'
        /\ \A q \in Procs : q # "auto" => pc'[q] = pc[q]
    BY <1>0, <1>1, InvParts, MovesKeepLines
  <1>5. StateOK'
    <2>1. ASSUME NEW q \in Procs PROVE CallOK(q)'
      <3>1. CASE q = "auto"
        BY <1>2, <1>4, <3>1 DEF CallOK, HasProvider, Opening
      <3>2. CASE q # "auto"
        BY <1>0, <1>1, <1>2, <3>2, OthersDoNotMind
      <3> QED
        BY <3>1, <3>2
    <2>2. ShownOK'
      BY <1>2, <1>4 DEF ShownOK, SigningIn
    <2> QED
      BY <2>1, <2>2 DEF StateOK, CallOK, ShownOK
  <1>6. LogoutFirst' /\ ChangeFirst'
    <2>1. /\ LogoutFirst'
          /\ ~missed /\ pc'["commit"] = "clearAuth" =>
               /\ state' # "CONNECTED"
               /\ \A q \in Procs : /\ pc'[q] \in {"setup", "setAuth"} => Ahead(configsMutex', "commit", q)
                                   /\ pc'[q] # "refresh"
      BY <1>0, <1>1, <1>2, OrderStays
    <2>2. ~missed => pc'["commit"] # "commitRefresh"
      BY <1>0, <1>4, InvParts DEF ChangeFirst
    <2> QED
      BY <1>2, <1>4, <2>1, <2>2 DEF ChangeFirst, configVars, host, Opening
  <1> QED
    BY <1>3, <1>4, <1>5, <1>6 DEF ConnInv

\* The host is read under configsMutex, so no target change is half done, and
\* under loginLogoutMutex, so no other sign-in is under way.
LEMMA HostResolves == ASSUME ConnInv, resolveHost PROVE ConnInv'
  <1> USE DEF PCs, LoginPlaces, ConfigsPlaces, AwaitsLogin, HoldsLogin, AwaitsConfigs, HoldsConfigs
  <1>0. Procs = {"auto", "manual", "logout", "commit"}
    BY DEF Procs
  <1>1. HasLogin("auto") /\ HasConfigs("auto") /\ pc["auto"] = "resolveGet"
    BY <1>0, InvParts DEF resolveHost
  <1>2. PICK to \in {"resolveCheck", "logout"} :
           Moves("auto", to) /\ (to = "resolveCheck" => target # NoTarget)
    <2>1. target = NoTarget => Moves("auto", "logout")
      BY <1>0, <1>1, InvParts DEF resolveHost, Goto, Moves, Turn, HasLogin, HasConfigs
    <2>2. target # NoTarget => Moves("auto", "resolveCheck")
      BY <1>0, <1>1, InvParts DEF resolveHost, Goto, Moves, Turn, HasLogin, HasConfigs
    <2> QED
      BY <2>1, <2>2
  <1>3. /\ UNCHANGED <<state, client, configVars, boundVars, listening>>
        /\ missed' = FALSE
        /\ provider' = [provider EXCEPT !["auto"] = host(target)]
    BY DEF resolveHost, connVars
  <1>4. provider' \in [Procs -> Hosts \cup {NoHost}]
        /\ provider'["auto"] = host(target)
        /\ \A q \in Procs : q # "auto" => provider'[q] = provider[q]
    BY <1>0, <1>3, TypeParts
  <1>5. TypeOK'
    BY <1>0, <1>2, <1>3, <1>4, TypeParts, TypeStep DEF configVars, boundVars
  <1>6. pc' \in [Procs -> PCs] /\ pc'["auto"] = to /\ LinesOK'
        /\ \A q \in Procs : q # "auto" => pc'[q] = pc[q]
    BY <1>0, <1>2, InvParts, MovesKeepLines
  <1>7. state = "CONNECTING" /\ ShownOK
    BY <1>0, <1>1, InvParts, StateParts DEF StateOK
  <1>8. StateOK'
    <2>1. ASSUME NEW q \in Procs PROVE CallOK(q)'
      <3>1. CASE q = "auto"
        <4>1. to = "resolveCheck" => host(target) \in Hosts
          BY <1>2, TypeParts
        <4> QED
          BY <1>3, <1>4, <1>6, <1>7, <3>1, <4>1 DEF CallOK, HasProvider, Opening
      <3>2. CASE q # "auto"
        BY <1>0, <1>1, <1>2, <1>4, <3>2, OthersDoNotMind
      <3> QED
        BY <3>1, <3>2
    <2>2. ShownOK'
      BY <1>3, <1>6, <1>7 DEF ShownOK, SigningIn
    <2> QED
      BY <2>1, <2>2 DEF StateOK, CallOK, ShownOK
  <1>9. LogoutFirst'
    BY <1>0, <1>2, <1>3, OrderStays
  <1>10. \A q \in Procs : q # "auto" => pc'[q] \notin HoldsLogin /\ pc'[q] # "commitRefresh"
    <2>1. \A q \in Procs : q # "auto" => pc[q] \notin HoldsLogin /\ pc[q] \notin HoldsConfigs
      BY <1>0, <1>1, InvParts, OneHolder
    <2> QED
      BY <1>6, <2>1
  <1>11. ChangeFirst'
    BY <1>0, <1>3, <1>4, <1>6, <1>7, <1>10 DEF ChangeFirst, configVars, host
  <1> QED
    BY <1>5, <1>6, <1>8, <1>9, <1>11 DEF ConnInv

Signers == {"auto", "manual"}

LEMMA ConnectStarts ==
  ASSUME ConnInv, NEW p \in Signers, connectStart(p)
  PROVE  ConnInv'
  <1> USE DEF PCs, LoginPlaces, ConfigsPlaces, AwaitsLogin, HoldsLogin, AwaitsConfigs, HoldsConfigs
  <1>0. Procs = {"auto", "manual", "logout", "commit"} /\ p \in Procs
    BY DEF Procs, Signers
  <1>1. Moves(p, "open") /\ HasLogin(p) /\ pc[p] = "connect"
    BY <1>0, InvParts DEF connectStart, Goto, Moves, Turn, HasLogin
  <1>2. /\ state' = "CONNECTING" /\ client' = NoHost
        /\ UNCHANGED <<configVars, boundVars, provider, listening, missed>>
    BY DEF connectStart, startConnect
  <1>3. TypeOK'
    BY <1>0, <1>1, <1>2, TypeParts, TypeStep DEF configVars, boundVars
  <1>4. pc' \in [Procs -> PCs] /\ pc'[p] = "open" /\ LinesOK'
        /\ \A q \in Procs : q # p => pc'[q] = pc[q]
    BY <1>0, <1>1, InvParts, MovesKeepLines
  <1>5. StateOK'
    <2>1. ASSUME NEW q \in Procs PROVE CallOK(q)'
      <3>1. CASE q = p
        <4>1. provider[p] \in Hosts
          BY <1>0, <1>1, InvParts, StateParts DEF CallOK, HasProvider
        <4> QED
          BY <1>2, <1>4, <3>1, <4>1 DEF CallOK
      <3>2. CASE q # p
        BY <1>0, <1>1, <1>2, <3>2, OthersDoNotMind
      <3> QED
        BY <3>1, <3>2
    <2>2. ShownOK'
      BY <1>2, <1>4 DEF ShownOK, SigningIn, Signers
    <2> QED
      BY <2>1, <2>2 DEF StateOK, CallOK, ShownOK
  <1>6. LogoutFirst' /\ ChangeFirst'
    <2>1. /\ LogoutFirst'
          /\ ~missed /\ pc'["commit"] = "clearAuth" =>
               /\ state' # "CONNECTED"
               /\ \A q \in Procs : /\ pc'[q] \in {"setup", "setAuth"} => Ahead(configsMutex', "commit", q)
                                   /\ pc'[q] # "refresh"
      BY <1>0, <1>1, <1>2, OrderStays
    <2>2. ~missed => /\ pc'["commit"] # "commitRefresh"
                     /\ pc'["auto"] \in {"resolveCheck", "connect"} \cup Opening => provider["auto"] = host(target)
      BY <1>0, <1>1, <1>4, InvParts DEF ChangeFirst, Opening, Signers
    <2> QED
      BY <1>2, <2>1, <2>2 DEF ChangeFirst, configVars, host
  <1> QED
    BY <1>3, <1>4, <1>5, <1>6 DEF ConnInv

LEMMA ConnectFails ==
  ASSUME ConnInv, NEW p \in Signers, connectFails(p)
  PROVE  ConnInv'
  <1> USE DEF PCs, LoginPlaces, ConfigsPlaces, AwaitsLogin, HoldsLogin, AwaitsConfigs, HoldsConfigs
  <1>0. Procs = {"auto", "manual", "logout", "commit"} /\ p \in Procs
    BY DEF Procs, Signers
  <1>1. Moves(p, "idle") /\ HasLogin(p) /\ pc[p] \in {"open", "setup"}
    BY <1>0, InvParts DEF connectFails, Return, Goto, Moves, Turn, HasLogin, HasConfigs
  <1>2. /\ state' = "DISCONNECTED" /\ client' = NoHost /\ listening' \in BOOLEAN
        /\ UNCHANGED <<configVars, boundVars, provider, missed>>
    BY TypeParts DEF connectFails, Disconnect, Return
  <1>3. TypeOK'
    BY <1>0, <1>1, <1>2, TypeParts, TypeStep DEF configVars, boundVars
  <1>4. pc' \in [Procs -> PCs] /\ pc'[p] = "idle" /\ LinesOK'
        /\ \A q \in Procs : q # p => pc'[q] = pc[q]
    BY <1>0, <1>1, InvParts, MovesKeepLines
  <1>5. StateOK'
    <2>1. ASSUME NEW q \in Procs PROVE CallOK(q)'
      <3>1. CASE q = p
        BY <1>4, <3>1 DEF CallOK, HasProvider, Opening
      <3>2. CASE q # p
        BY <1>0, <1>1, <1>2, <3>2, OthersDoNotMind
      <3> QED
        BY <3>1, <3>2
    <2>2. ShownOK'
      BY <1>2 DEF ShownOK
    <2> QED
      BY <2>1, <2>2 DEF StateOK, CallOK, ShownOK
  <1>6. LogoutFirst' /\ ChangeFirst'
    <2>1. /\ LogoutFirst'
          /\ ~missed /\ pc'["commit"] = "clearAuth" =>
               /\ state' # "CONNECTED"
               /\ \A q \in Procs : /\ pc'[q] \in {"setup", "setAuth"} => Ahead(configsMutex', "commit", q)
                                   /\ pc'[q] # "refresh"
      BY <1>0, <1>1, <1>2, OrderStays
    <2>2. ~missed => /\ pc'["commit"] # "commitRefresh"
                     /\ pc'["auto"] \in {"resolveCheck", "connect"} \cup Opening => provider["auto"] = host(target)
      BY <1>0, <1>1, <1>4, InvParts DEF ChangeFirst, Opening
    <2> QED
      BY <1>2, <2>1, <2>2 DEF ChangeFirst, configVars, host
  <1> QED
    BY <1>3, <1>4, <1>5, <1>6 DEF ConnInv

\* The setup queues for configsMutex behind every logout and target change that
\* still has an auth provider to forget.
LEMMA Opened ==
  ASSUME ConnInv, NEW p \in Signers, opened(p)
  PROVE  ConnInv'
  <1> USE DEF PCs, LoginPlaces, ConfigsPlaces, AwaitsLogin, HoldsLogin, AwaitsConfigs, HoldsConfigs
  <1>0. Procs = {"auto", "manual", "logout", "commit"} /\ p \in Procs
    BY DEF Procs, Signers
  <1>1. Moves(p, "setup") /\ HasLogin(p) /\ pc[p] = "open" /\ configsMutex' = Wait(configsMutex, p)
    BY <1>0, InvParts DEF opened, Goto, Moves, Turn, HasLogin
  <1>2. /\ state' = state /\ client' = provider[p]
        /\ UNCHANGED <<configVars, boundVars, provider, listening, missed>>
    BY DEF opened
  <1>3. provider[p] \in Hosts /\ state = "CONNECTING"
    BY <1>0, <1>1, InvParts, StateParts DEF CallOK, HasProvider, Opening
  <1>4. TypeOK'
    BY <1>0, <1>1, <1>2, <1>3, TypeParts, TypeStep DEF configVars, boundVars
  <1>5. /\ pc' \in [Procs -> PCs] /\ pc'[p] = "setup" /\ LinesOK'
        /\ \A q \in Procs : q # p => pc'[q] = pc[q]
        /\ \A a, b : a # p /\ b # p /\ Ahead(configsMutex, a, b) => Ahead(configsMutex', a, b)
    BY <1>0, <1>1, InvParts, MovesKeepLines
  <1>6. \A a \in Procs : pc[a] \in {"forget", "clearAuth"} => Ahead(configsMutex', a, p)
    <2>1. LineOf(configsMutex, Configs) /\ p \notin Configs
      BY <1>1, InvParts DEF LinesOK, Configs
    <2>2. \A a \in Configs \cap Procs : Ahead(configsMutex', a, p)
      BY <1>0, <1>1, <2>1, JoinLine
    <2> QED
      BY <2>2 DEF Configs
  <1>7. StateOK'
    <2>1. ASSUME NEW q \in Procs PROVE CallOK(q)'
      <3>1. CASE q = p
        BY <1>2, <1>3, <1>5, <3>1 DEF CallOK
      <3>2. CASE q # p
        BY <1>0, <1>1, <1>2, <3>2, OthersDoNotMind
      <3> QED
        BY <3>1, <3>2
    <2>2. ShownOK'
      BY <1>2, <1>3, <1>5 DEF ShownOK, SigningIn, Signers
    <2> QED
      BY <2>1, <2>2 DEF StateOK, CallOK, ShownOK
  <1>8. LogoutFirst'
    BY <1>2, <1>3, <1>5, <1>6, InvParts DEF LogoutFirst
  <1>9. ChangeFirst'
    <2> SUFFICES ASSUME ~missed' PROVE ChangeFirst'
      BY DEF ChangeFirst
    <2>1. ~missed /\ ChangeFirst
      BY <1>2, InvParts
    <2>2. pc'["commit"] = pc["commit"] /\ pc["commit"] # "commitRefresh"
      BY <1>0, <1>5, <2>1 DEF ChangeFirst, Signers
    <2>3. pc["commit"] = "clearAuth" =>
            \A q \in Procs : /\ pc'[q] \in {"setup", "setAuth"} => Ahead(configsMutex', "commit", q)
                             /\ pc'[q] # "refresh"
      BY <1>0, <1>5, <1>6, <2>1 DEF ChangeFirst, Signers
    <2>4. pc'["auto"] \in {"resolveCheck", "connect"} \cup Opening => provider["auto"] = host(target)
      BY <1>0, <1>1, <1>5, <2>1 DEF ChangeFirst, Opening
    <2> QED
      BY <1>2, <1>3, <2>2, <2>3, <2>4 DEF ChangeFirst, configVars, host
  <1> QED
    BY <1>4, <1>5, <1>7, <1>8, <1>9 DEF ConnInv

\* Whoever heads configsMutex in its setup has nobody left before it.
LEMMA SetupDone ==
  ASSUME ConnInv, NEW p \in Signers, setupDone(p)
  PROVE  ConnInv'
  <1> USE DEF PCs, LoginPlaces, ConfigsPlaces, AwaitsLogin, HoldsLogin, AwaitsConfigs, HoldsConfigs
  <1>0. Procs = {"auto", "manual", "logout", "commit"} /\ p \in Procs
    BY DEF Procs, Signers
  <1>1. Moves(p, "setAuth") /\ HasLogin(p) /\ pc[p] = "setup" /\ HasConfigs(p)
    BY <1>0, InvParts DEF setupDone, Goto, Moves, Turn, HasLogin, HasConfigs
  <1>2. UNCHANGED <<connVars, configVars, boundVars, provider, listening, missed>>
    BY DEF setupDone
  <1>3. provider[p] \in Hosts /\ state = "CONNECTING" /\ client = provider[p]
    BY <1>0, <1>1, InvParts, StateParts DEF CallOK, HasProvider, Opening
  <1>4. TypeOK'
    BY <1>0, <1>1, <1>2, TypeParts, TypeStep DEF connVars, configVars, boundVars
  <1>5. /\ pc' \in [Procs -> PCs] /\ pc'[p] = "setAuth" /\ LinesOK'
        /\ \A q \in Procs : q # p => pc'[q] = pc[q]
        /\ \A a, b : a # p /\ b # p /\ Ahead(configsMutex, a, b) => Ahead(configsMutex', a, b)
    BY <1>0, <1>1, InvParts, MovesKeepLines
  <1>6. \A a : ~Ahead(configsMutex, a, p)
    <2>1. LineOf(configsMutex, Configs) /\ Holds(configsMutex, p)
      BY <1>1, InvParts DEF LinesOK, HasConfigs
    <2> QED
      BY <1>0, <2>1, LeaveLine
  <1>7. StateOK'
    <2>1. ASSUME NEW q \in Procs PROVE CallOK(q)'
      <3>1. CASE q = p
        BY <1>2, <1>3, <1>5, <3>1 DEF CallOK, connVars
      <3>2. CASE q # p
        BY <1>0, <1>1, <1>2, <3>2, OthersDoNotMind
      <3> QED
        BY <3>1, <3>2
    <2>2. ShownOK'
      BY <1>2, <1>3, <1>5 DEF ShownOK, SigningIn, Signers, connVars
    <2> QED
      BY <2>1, <2>2 DEF StateOK, CallOK, ShownOK
  <1>8. LogoutFirst'
    <2>1. \A a \in Procs : pc[a] # "forget"
      BY <1>0, <1>1, <1>6, InvParts DEF LogoutFirst
    <2> QED
      BY <1>5, <2>1 DEF LogoutFirst
  <1>9. ChangeFirst'
    <2> SUFFICES ASSUME ~missed' PROVE ChangeFirst'
      BY DEF ChangeFirst
    <2>1. ~missed /\ ChangeFirst
      BY <1>2, InvParts
    <2>2. pc'["commit"] \notin {"clearAuth", "commitRefresh"}
      BY <1>0, <1>1, <1>5, <1>6, <2>1 DEF ChangeFirst, Signers
    <2>3. pc'["auto"] \in {"resolveCheck", "connect"} \cup Opening => provider["auto"] = host(target)
      BY <1>0, <1>1, <1>5, <2>1 DEF ChangeFirst, Opening
    <2> QED
      BY <1>2, <1>3, <2>2, <2>3 DEF ChangeFirst, configVars, connVars, host
  <1> QED
    BY <1>4, <1>5, <1>7, <1>8, <1>9 DEF ConnInv

LEMMA AuthIsSet ==
  ASSUME ConnInv, NEW p \in Signers, setAuthProvider(p)
  PROVE  ConnInv'
  <1> USE DEF PCs, LoginPlaces, ConfigsPlaces, AwaitsLogin, HoldsLogin, AwaitsConfigs, HoldsConfigs
  <1>0. Procs = {"auto", "manual", "logout", "commit"} /\ p \in Procs
    BY DEF Procs, Signers
  <1>1. Moves(p, "refresh") /\ HasLogin(p) /\ pc[p] = "setAuth" /\ HasConfigs(p)
    BY <1>0, InvParts DEF setAuthProvider, Goto, Moves, Turn, HasLogin, HasConfigs
  <1>2. /\ bundleAuth' = provider[p]
        /\ UNCHANGED <<state, client, target, newTarget, hostEvent, boundVars, provider, listening, missed>>
    BY DEF setAuthProvider, connVars
  <1>3. provider[p] \in Hosts /\ state = "CONNECTING" /\ client = provider[p]
    BY <1>0, <1>1, InvParts, StateParts DEF CallOK, HasProvider, Opening
  <1>4. TypeOK'
    BY <1>0, <1>1, <1>2, <1>3, TypeParts, TypeStep DEF boundVars
  <1>5. /\ pc' \in [Procs -> PCs] /\ pc'[p] = "refresh" /\ LinesOK'
        /\ \A q \in Procs : q # p => pc'[q] = pc[q]
    BY <1>0, <1>1, InvParts, MovesKeepLines
  <1>6. \A a : ~Ahead(configsMutex, a, p)
    <2>1. LineOf(configsMutex, Configs) /\ Holds(configsMutex, p)
      BY <1>1, InvParts DEF LinesOK, HasConfigs
    <2> QED
      BY <1>0, <2>1, LeaveLine
  <1>7. StateOK'
    <2>1. ASSUME NEW q \in Procs PROVE CallOK(q)'
      <3>1. CASE q = p
        BY <1>2, <1>3, <1>5, <3>1 DEF CallOK
      <3>2. CASE q # p
        BY <1>0, <1>1, <1>2, <3>2, OthersDoNotMind
      <3> QED
        BY <3>1, <3>2
    <2>2. ShownOK'
      BY <1>2, <1>3, <1>5 DEF ShownOK, SigningIn, Signers
    <2> QED
      BY <2>1, <2>2 DEF StateOK, CallOK, ShownOK
  <1>8. LogoutFirst'
    <2>1. \A a \in Procs : pc[a] # "forget"
      BY <1>0, <1>1, <1>6, InvParts DEF LogoutFirst
    <2> QED
      BY <1>5, <2>1 DEF LogoutFirst
  <1>9. ChangeFirst'
    <2> SUFFICES ASSUME ~missed' PROVE ChangeFirst'
      BY DEF ChangeFirst
    <2>1. ~missed /\ ChangeFirst
      BY <1>2, InvParts
    <2>2. pc'["commit"] \notin {"clearAuth", "commitRefresh"}
      BY <1>0, <1>1, <1>5, <1>6, <2>1 DEF ChangeFirst, Signers
    <2>3. pc'["auto"] \in {"resolveCheck", "connect"} \cup Opening => provider["auto"] = host(target)
      BY <1>0, <1>1, <1>5, <2>1 DEF ChangeFirst, Opening
    <2> QED
      BY <1>2, <1>3, <2>2, <2>3 DEF ChangeFirst, host
  <1> QED
    BY <1>4, <1>5, <1>7, <1>8, <1>9 DEF ConnInv

\* The connection that is made is the one of the call that ends.
LEMMA Connected ==
  ASSUME ConnInv, NEW p \in Signers, connected(p)
  PROVE  ConnInv'
  <1> USE DEF PCs, LoginPlaces, ConfigsPlaces, AwaitsLogin, HoldsLogin, AwaitsConfigs, HoldsConfigs
  <1>0. Procs = {"auto", "manual", "logout", "commit"} /\ p \in Procs
    BY DEF Procs, Signers
  <1>1. Moves(p, "idle") /\ HasLogin(p) /\ pc[p] = "refresh"
    BY <1>0, InvParts DEF connected, Return, Goto, Moves, Turn, HasLogin, HasConfigs
  <1>2. /\ state' = "CONNECTED" /\ client' = client /\ listening' \in BOOLEAN
        /\ missed' = (missed \/ (p = "manual" /\ provider[p] # host(target)))
        /\ UNCHANGED <<configVars, boundVars, provider>>
    BY TypeParts DEF connected, Return
  <1>3. provider[p] \in Hosts /\ client = provider[p] /\ bundleAuth = provider[p]
    BY <1>0, <1>1, InvParts, StateParts DEF CallOK, HasProvider, Opening
  <1>4. TypeOK'
    <2>1. missed' \in BOOLEAN
      BY <1>2
    <2> QED
      BY <1>0, <1>1, <1>2, <2>1, TypeParts, TypeStep DEF configVars, boundVars
  <1>5. /\ pc' \in [Procs -> PCs] /\ pc'[p] = "idle" /\ LinesOK'
        /\ \A q \in Procs : q # p => pc'[q] = pc[q]
    BY <1>0, <1>1, InvParts, MovesKeepLines
  <1>6. StateOK'
    <2>1. ASSUME NEW q \in Procs PROVE CallOK(q)'
      <3>1. CASE q = p
        BY <1>5, <3>1 DEF CallOK, HasProvider, Opening
      <3>2. CASE q # p
        BY <1>0, <1>1, <1>2, <3>2, OthersDoNotMind
      <3> QED
        BY <3>1, <3>2
    <2>2. ShownOK'
      BY <1>2, <1>3, TypeParts DEF ShownOK
    <2> QED
      BY <2>1, <2>2 DEF StateOK, CallOK, ShownOK
  <1>7. LogoutFirst'
    <2>1. \A a \in Procs : pc[a] # "forget"
      BY <1>0, <1>1, InvParts DEF LogoutFirst
    <2> QED
      BY <1>5, <2>1 DEF LogoutFirst
  <1>8. ChangeFirst'
    <2> SUFFICES ASSUME ~missed' PROVE ChangeFirst'
      BY DEF ChangeFirst
    <2>1. ~missed /\ ChangeFirst /\ (p = "manual" => provider[p] = host(target))
      BY <1>2, InvParts
    <2>2. pc'["commit"] \notin {"clearAuth", "commitRefresh"}
      BY <1>0, <1>1, <1>5, <2>1 DEF ChangeFirst, Signers
    <2>3. pc'["auto"] \in {"resolveCheck", "connect"} \cup Opening => provider["auto"] = host(target)
      BY <1>0, <1>1, <1>5, <2>1 DEF ChangeFirst, Opening
    <2>4. provider[p] = host(target)
      BY <1>1, <2>1 DEF ChangeFirst, Opening, Signers
    <2> QED
      BY <1>2, <1>3, <2>2, <2>3, <2>4 DEF ChangeFirst, configVars, host
  <1> QED
    BY <1>4, <1>5, <1>6, <1>7, <1>8 DEF ConnInv

\* A logout begins to forget when it gives up loginLogoutMutex: no sign-in is
\* under way then, and none has its connection any more.
LEMMA LogoutReads ==
  ASSUME ConnInv, NEW p \in {"auto", "logout"}, logoutGet(p)
  PROVE  ConnInv'
  <1> USE DEF PCs, LoginPlaces, ConfigsPlaces, AwaitsLogin, HoldsLogin, AwaitsConfigs, HoldsConfigs
  <1>0. Procs = {"auto", "manual", "logout", "commit"} /\ p \in Procs
    BY DEF Procs
  <1>1. HasLogin(p) /\ pc[p] = "logoutGet" /\ HasConfigs(p) /\ state = "DISCONNECTED"
    BY <1>0, InvParts, StateParts DEF logoutGet, CallOK
  <1>2. /\ UNCHANGED <<connVars, configVars, boundVars, provider, missed>> /\ listening' \in BOOLEAN
    BY TypeParts DEF logoutGet, Return
  <1>3. CASE target = NoTarget
    <2>1. Moves(p, "idle")
      BY <1>0, <1>1, <1>3, InvParts DEF logoutGet, Return, Goto, Moves, Turn, HasLogin, HasConfigs
    <2>2. TypeOK'
      BY <1>0, <1>2, <2>1, TypeParts, TypeStep DEF connVars, configVars, boundVars
    <2> QED
      BY <1>0, <1>1, <1>2, <2>1, <2>2, PlainSteps DEF connVars, configVars, ConnInv
  <1>4. CASE target # NoTarget
    <2>1. Moves(p, "forget")
      BY <1>0, <1>1, <1>4, InvParts DEF logoutGet, Goto, Moves, Turn, HasLogin, HasConfigs
    <2>2. TypeOK'
      BY <1>0, <1>2, <2>1, TypeParts, TypeStep DEF connVars, configVars, boundVars
    <2>3. /\ pc' \in [Procs -> PCs] /\ pc'[p] = "forget" /\ LinesOK'
          /\ \A q \in Procs : q # p => pc'[q] = pc[q] /\ pc[q] \notin HoldsLogin
          /\ \A a, b : a # p /\ b # p /\ Ahead(configsMutex, a, b) => Ahead(configsMutex', a, b)
      BY <1>0, <1>1, <2>1, InvParts, MovesKeepLines, OneHolder
    <2>4. StateOK'
      <3>1. ASSUME NEW q \in Procs PROVE CallOK(q)'
        <4>1. CASE q = p
          BY <2>3, <4>1 DEF CallOK, HasProvider, Opening
        <4>2. CASE q # p
          BY <1>0, <1>1, <1>2, <2>1, <4>2, OthersDoNotMind
        <4> QED
          BY <4>1, <4>2
      <3>2. ShownOK'
        BY <1>1, <1>2, InvParts, StateParts DEF ShownOK, connVars
      <3> QED
        BY <3>1, <3>2 DEF StateOK, CallOK, ShownOK
    <2>5. \A q \in Procs : pc'[q] \notin {"setup", "setAuth", "refresh"}
      BY <2>3
    <2>6. LogoutFirst'
      BY <1>1, <1>2, <2>5 DEF LogoutFirst, connVars
    <2>7. ChangeFirst'
      <3>1. ~missed => /\ pc'["commit"] # "commitRefresh"
                       /\ pc'["auto"] \in {"resolveCheck", "connect"} \cup Opening => provider["auto"] = host(target)
        BY <1>0, <1>1, <2>3, InvParts DEF ChangeFirst, Opening
      <3> QED
        BY <1>1, <1>2, <2>5, <3>1 DEF ChangeFirst, connVars, configVars, host
    <2> QED
      BY <2>2, <2>3, <2>4, <2>6, <2>7 DEF ConnInv
  <1> QED
    BY <1>3, <1>4

\* Under configsMutex the provider of the bundle models is forgotten: none of
\* the sign-ins that are past setAuthProvider is affected.
LEMMA AuthForgotten ==
  ASSUME ConnInv, NEW p \in {"auto", "logout", "commit"},
         \/ p # "commit" /\ forget(p)
         \/ p = "commit" /\ clearAuth
  PROVE  ConnInv'
  <1> USE DEF PCs, LoginPlaces, ConfigsPlaces, AwaitsLogin, HoldsLogin, AwaitsConfigs, HoldsConfigs
  <1>0. Procs = {"auto", "manual", "logout", "commit"} /\ p \in Procs
    BY DEF Procs
  <1>1. /\ Moves(p, "idle") /\ HasConfigs(p)
        /\ \/ p # "commit" /\ pc[p] = "forget"
           \/ p = "commit" /\ pc[p] = "clearAuth"
    <2>1. CASE p # "commit" /\ forget(p)
      BY <1>0, <2>1, InvParts DEF forget, Return, Goto, Moves, Turn, HasConfigs
    <2>2. CASE p = "commit" /\ clearAuth
      BY <1>0, <2>2, InvParts DEF clearAuth, Goto, Moves, Turn, HasConfigs
    <2> QED
      BY <2>1, <2>2
  <1>2. /\ bundleAuth' = NoHost /\ listening' \in BOOLEAN
        /\ UNCHANGED <<state, client, target, newTarget, hostEvent, boundVars, provider, missed>>
    BY TypeParts DEF forget, clearAuth, Return, connVars
  <1>3. TypeOK'
    BY <1>0, <1>1, <1>2, TypeParts, TypeStep DEF boundVars
  <1>4. /\ pc' \in [Procs -> PCs] /\ pc'[p] = "idle" /\ LinesOK'
        /\ \A q \in Procs : q # p => pc'[q] = pc[q]
    BY <1>0, <1>1, InvParts, MovesKeepLines
  <1>5. \A q \in Procs : q # p => pc[q] # "refresh"
    BY <1>0, <1>1, InvParts, OneHolder
  <1>6. StateOK'
    <2>1. ASSUME NEW q \in Procs PROVE CallOK(q)'
      <3>1. CallOK(q)
        BY InvParts, StateParts
      <3> QED
        BY <1>2, <1>4, <1>5, <3>1 DEF CallOK, HasProvider, Opening
    <2>2. ShownOK'
      BY <1>1, <1>2, <1>4, <1>0, InvParts, StateParts DEF ShownOK, SigningIn
    <2> QED
      BY <2>1, <2>2 DEF StateOK, CallOK, ShownOK
  <1>7. /\ LogoutFirst'
        /\ ~missed /\ pc'["commit"] = "clearAuth" =>
             /\ state' # "CONNECTED"
             /\ \A q \in Procs : /\ pc'[q] \in {"setup", "setAuth"} => Ahead(configsMutex', "commit", q)
                                 /\ pc'[q] # "refresh"
    BY <1>0, <1>1, <1>2, OrderStays
  <1>8. ChangeFirst'
    <2> SUFFICES ASSUME ~missed' PROVE ChangeFirst'
      BY DEF ChangeFirst
    <2>1. ~missed /\ ChangeFirst /\ LogoutFirst
      BY <1>2, InvParts
    <2>2. pc'["commit"] # "commitRefresh" /\ state # "CONNECTED"
      BY <1>0, <1>1, <1>4, <2>1 DEF ChangeFirst, LogoutFirst
    <2>3. pc'["auto"] \in {"resolveCheck", "connect"} \cup Opening => provider["auto"] = host(target)
      BY <1>0, <1>1, <1>4, <2>1 DEF ChangeFirst, Opening
    <2> QED
      BY <1>2, <1>7, <2>2, <2>3 DEF ChangeFirst, host
  <1> QED
    BY <1>3, <1>4, <1>6, <1>7, <1>8 DEF ConnInv

LEMMA WizardOpens == ASSUME ConnInv, configureLogin PROVE ConnInv'
  <1> USE DEF PCs, LoginPlaces, ConfigsPlaces, AwaitsLogin, HoldsLogin, AwaitsConfigs, HoldsConfigs
  <1>0. Procs = {"auto", "manual", "logout", "commit"}
    BY DEF Procs
  <1>1. Moves("manual", "wizard") /\ pc["manual"] = "idle"
    BY <1>0, InvParts DEF configureLogin, Goto, Moves, Turn
  <1>2. /\ UNCHANGED <<connVars, configVars, changes, listening, missed>>
        /\ calls' \in 0 .. MaxUserCalls
    BY TypeParts DEF configureLogin
  <1>3. /\ provider' \in [Procs -> Hosts \cup {NoHost}] /\ provider'["manual"] \in Hosts
        /\ \A q \in Procs : q # "manual" => provider'[q] = provider[q]
    <2>1. PICK h \in (IF target = NoTarget THEN Hosts ELSE {host(target)}) :
             provider' = [provider EXCEPT !["manual"] = h]
      BY DEF configureLogin
    <2>2. h \in Hosts
      BY <2>1, TypeParts
    <2> QED
      BY <1>0, <2>1, <2>2, TypeParts
  <1>4. TypeOK'
    BY <1>0, <1>1, <1>2, <1>3, TypeParts, TypeStep DEF connVars, configVars
  <1>5. /\ pc' \in [Procs -> PCs] /\ pc'["manual"] = "wizard" /\ LinesOK'
        /\ \A q \in Procs : q # "manual" => pc'[q] = pc[q]
    BY <1>0, <1>1, InvParts, MovesKeepLines
  <1>6. StateOK'
    <2>1. ASSUME NEW q \in Procs PROVE CallOK(q)'
      <3>1. CallOK(q)
        BY InvParts, StateParts
      <3> QED
        BY <1>2, <1>3, <1>5, <3>1 DEF CallOK, HasProvider, Opening, connVars, configVars
    <2>2. ShownOK'
      BY <1>0, <1>1, <1>2, <1>5, InvParts, StateParts DEF ShownOK, SigningIn, connVars
    <2> QED
      BY <2>1, <2>2 DEF StateOK, CallOK, ShownOK
  <1>7. /\ LogoutFirst'
        /\ ~missed /\ pc'["commit"] = "clearAuth" =>
             /\ state' # "CONNECTED"
             /\ \A q \in Procs : /\ pc'[q] \in {"setup", "setAuth"} => Ahead(configsMutex', "commit", q)
                                 /\ pc'[q] # "refresh"
    BY <1>0, <1>1, <1>2, OrderStays DEF connVars
  <1>8. ChangeFirst'
    <2> SUFFICES ASSUME ~missed' PROVE ChangeFirst'
      BY DEF ChangeFirst
    <2>1. ~missed /\ ChangeFirst
      BY <1>2, InvParts
    <2>2. pc'["commit"] # "commitRefresh"
      BY <1>0, <1>5, <2>1 DEF ChangeFirst
    <2>3. pc'["auto"] \in {"resolveCheck", "connect"} \cup Opening => provider'["auto"] = host(target)
      BY <1>0, <1>3, <1>5, <2>1 DEF ChangeFirst
    <2> QED
      BY <1>2, <1>7, <2>1, <2>2, <2>3 DEF ChangeFirst, host, connVars, configVars
  <1> QED
    BY <1>4, <1>5, <1>6, <1>7, <1>8 DEF ConnInv

\* The target changes under configsMutex: no sign-in hands out a provider then.
LEMMA TargetSwitches == ASSUME ConnInv, switchTarget PROVE ConnInv'
  <1> USE DEF PCs, LoginPlaces, ConfigsPlaces, AwaitsLogin, HoldsLogin, AwaitsConfigs, HoldsConfigs
  <1>0. Procs = {"auto", "manual", "logout", "commit"}
    BY DEF Procs
  <1>1. Moves("commit", "commitRefresh") /\ pc["commit"] = "commitWait" /\ HasConfigs("commit")
    BY <1>0, InvParts DEF switchTarget, Goto, Moves, Turn, HasConfigs
  <1>2. /\ UNCHANGED <<state, client, newTarget, boundVars, provider, listening>>
        /\ target' = newTarget /\ bundleAuth' = NoHost /\ missed' = TRUE /\ hostEvent' \in BOOLEAN
    BY TypeParts DEF switchTarget, connVars
  <1>3. TypeOK'
    BY <1>0, <1>1, <1>2, TypeParts, TypeStep DEF boundVars
  <1>4. /\ pc' \in [Procs -> PCs] /\ pc'["commit"] = "commitRefresh" /\ LinesOK'
        /\ \A q \in Procs : q # "commit" => pc'[q] = pc[q] /\ pc[q] # "refresh"
    BY <1>0, <1>1, InvParts, MovesKeepLines, OneHolder
  <1>5. StateOK'
    <2>1. ASSUME NEW q \in Procs PROVE CallOK(q)'
      <3>1. CallOK(q)
        BY InvParts, StateParts
      <3> QED
        BY <1>2, <1>4, <3>1 DEF CallOK, HasProvider, Opening
    <2>2. ShownOK'
      BY <1>0, <1>2, <1>4, InvParts, StateParts DEF ShownOK, SigningIn
    <2> QED
      BY <2>1, <2>2 DEF StateOK, CallOK, ShownOK
  <1>6. LogoutFirst'
    BY <1>0, <1>1, <1>2, OrderStays
  <1> QED
    BY <1>2, <1>3, <1>4, <1>5, <1>6 DEF ConnInv, ChangeFirst

\* The event of the target change, or of the host, may begin a sign-in.
LEMMA EventSignsIn == ASSUME ConnInv, hostChanged PROVE ConnInv'
  <1> USE DEF PCs, LoginPlaces, ConfigsPlaces, AwaitsLogin, HoldsLogin, AwaitsConfigs, HoldsConfigs
  <1>0. Procs = {"auto", "manual", "logout", "commit"}
    BY DEF Procs
  <1>1. hostEvent' \in BOOLEAN
        /\ UNCHANGED <<connVars, target, bundleAuth, newTarget, boundVars, configsMutex, provider, listening, missed>>
    BY DEF hostChanged
  <1>2. CASE listening /\ pc["auto"] = "idle"
    <2>1. Moves("auto", "disconnect")
      BY <1>0, <1>2, InvParts DEF hostChanged, onEvent, Moves, Turn
    <2>2. TypeOK'
      BY <1>0, <1>1, <2>1, TypeParts, TypeStep DEF connVars, boundVars
    <2> QED
      BY <1>0, <1>1, <1>2, <2>1, <2>2, PlainSteps DEF connVars, ConnInv
  <1>3. CASE ~(listening /\ pc["auto"] = "idle")
    <2>1. pc' = pc /\ loginLogoutMutex' = loginLogoutMutex
      BY <1>3 DEF hostChanged, onEvent
    <2>2. TypeOK'
      BY <1>1, <2>1, InvParts DEF TypeOK, connVars, boundVars
    <2>3. LinesOK'
      BY <1>1, <2>1, InvParts DEF LinesOK, Login, Configs, HasLogin, HasConfigs
    <2>4. StateOK'
      BY <1>1, <2>1, InvParts DEF StateOK, SigningIn, connVars
    <2>5. LogoutFirst' /\ ChangeFirst'
      BY <1>1, <2>1, InvParts DEF LogoutFirst, ChangeFirst, connVars, host
    <2> QED
      BY <2>2, <2>3, <2>4, <2>5 DEF ConnInv
  <1> QED
    BY <1>2, <1>3

LEMMA ChangeIsReported == ASSUME ConnInv, targetSwitched PROVE ConnInv'
  <1> USE DEF PCs, LoginPlaces, ConfigsPlaces, AwaitsLogin, HoldsLogin, AwaitsConfigs, HoldsConfigs
  <1>0. Procs = {"auto", "manual", "logout", "commit"}
    BY DEF Procs
  <1>1. /\ pc["commit"] = "commitRefresh" /\ HasConfigs("commit")
        /\ configsMutex' = Wait(Signal(configsMutex), "commit")
        /\ UNCHANGED <<connVars, configVars, boundVars, provider, listening, missed>>
    BY <1>0, InvParts DEF targetSwitched
  <1>2. missed
    BY <1>1, InvParts DEF ChangeFirst
  <1>3. /\ pc' \in [Procs -> PCs] /\ pc'["commit"] = "clearAuth"
        /\ \A q \in {"manual", "logout"} : pc'[q] = pc[q]
        /\ \/ pc'["auto"] = pc["auto"] /\ loginLogoutMutex' = loginLogoutMutex
           \/ /\ pc["auto"] = "idle" /\ pc'["auto"] = "disconnect"
              /\ loginLogoutMutex' = Wait(loginLogoutMutex, "auto")
    BY <1>0, <1>1, InvParts DEF targetSwitched, onEvent
  <1>4. LineOf(configsMutex, Configs) /\ LineOf(loginLogoutMutex, Login)
    BY InvParts DEF LinesOK
  <1>5. /\ LineOf(configsMutex', Configs')
        /\ \A q : q # "commit" /\ Holds(configsMutex, q) => Holds(configsMutex', q)
        /\ \A a, b : a # "commit" /\ b # "commit" /\ Ahead(configsMutex, a, b) => Ahead(configsMutex', a, b)
    <2> DEFINE m == configsMutex
               n == configsMutex'
               S == Configs
               T == Configs'
    <2>1. /\ Turn(m, n, "commit", ConfigsPlaces, "commitRefresh", "clearAuth") /\ LineOf(m, S)
          /\ "commit" \in S /\ "commitRefresh" \in ConfigsPlaces /\ "clearAuth" \in ConfigsPlaces
      BY <1>0, <1>1, <1>4 DEF Turn, Configs, HasConfigs
    <2>2. T = S \cup {"commit"}
      BY <1>0, <1>1, <1>3 DEF Configs
    <2> HIDE DEF m, n, S, T
    <2>3. /\ LineOf(n, T)
          /\ \A q : q # "commit" /\ Holds(m, q) => Holds(n, q)
          /\ \A a, b : a # "commit" /\ b # "commit" /\ Ahead(m, a, b) => Ahead(n, a, b)
      BY <1>0, <2>1, <2>2, TurnKeepsLine
    <2> QED
      BY <2>3 DEF m, n, S, T
  <1>6. /\ LineOf(loginLogoutMutex', Login')
        /\ \A q : Holds(loginLogoutMutex, q) => Holds(loginLogoutMutex', q)
    <2>1. CASE pc'["auto"] = pc["auto"] /\ loginLogoutMutex' = loginLogoutMutex
      <3>1. Login' = Login
        BY <1>0, <1>1, <1>3, <2>1 DEF Login
      <3> QED
        BY <1>4, <2>1, <3>1
    <2>2. CASE /\ pc["auto"] = "idle" /\ pc'["auto"] = "disconnect"
               /\ loginLogoutMutex' = Wait(loginLogoutMutex, "auto")
      <3>1. "auto" \notin Login /\ Login' = Login \cup {"auto"}
        BY <1>0, <1>1, <1>3, <2>2 DEF Login
      <3> QED
        BY <1>0, <1>4, <2>2, <3>1, JoinLine
    <2> QED
      BY <1>3, <2>1, <2>2
  <1>7. LinesOK'
    <2>1. \A q \in Procs : pc'[q] \in HoldsLogin => Holds(loginLogoutMutex', q)
      BY <1>0, <1>3, <1>6, InvParts DEF HasLogin
    <2>2. \A q \in Procs : pc'[q] \in HoldsConfigs => Holds(configsMutex', q)
      BY <1>0, <1>3, <1>5, InvParts DEF HasConfigs
    <2> QED
      BY <1>5, <1>6, <2>1, <2>2 DEF LinesOK, HasLogin, HasConfigs
  <1>8. TypeOK'
    BY <1>1, <1>3, <1>5, <1>6, InvParts DEF TypeOK, LineOf, connVars, configVars, boundVars
  <1>9. \A q \in Procs : \/ pc'[q] = pc[q]
                         \/ pc'[q] = "disconnect" /\ pc[q] = "idle"
                         \/ q = "commit" /\ pc'[q] = "clearAuth"
    BY <1>0, <1>3
  <1>10. StateOK'
    <2>1. ASSUME NEW q \in Procs PROVE CallOK(q)'
      <3>1. CallOK(q)
        BY InvParts, StateParts
      <3> QED
        BY <1>1, <1>9, <3>1 DEF CallOK, HasProvider, Opening, connVars, configVars
    <2>2. ShownOK'
      BY <1>0, <1>1, <1>9, InvParts, StateParts DEF ShownOK, SigningIn, connVars
    <2> QED
      BY <2>1, <2>2 DEF StateOK, CallOK, ShownOK
  <1>11. LogoutFirst'
    <2> SUFFICES ASSUME NEW a \in Procs, pc'[a] = "forget",
                        NEW q \in Procs
                 PROVE  /\ state' # "CONNECTED"
                        /\ pc'[q] \in {"setup", "setAuth"} => Ahead(configsMutex', a, q)
                        /\ pc'[q] # "refresh"
      BY DEF LogoutFirst
    <2>1. pc[a] = "forget" /\ a # "commit"
      BY <1>9, <1>1
    <2>2. pc'[q] \in {"setup", "setAuth", "refresh"} => pc[q] = pc'[q] /\ q # "commit"
      BY <1>9, <1>1
    <2> QED
      BY <1>1, <1>5, <2>1, <2>2, InvParts DEF LogoutFirst, connVars
  <1> QED
    BY <1>1, <1>2, <1>7, <1>8, <1>10, <1>11 DEF ConnInv, ChangeFirst

LEMMA InitConn == Init => ConnInv
  <1> SUFFICES ASSUME Init PROVE ConnInv
    OBVIOUS
  <1> USE DEF PCs, AwaitsLogin, HoldsLogin, AwaitsConfigs, HoldsConfigs
  <1>0. Procs = {"auto", "manual", "logout", "commit"}
    BY DEF Procs
  <1>1. pc["auto"] = "disconnect" /\ \A p \in Procs : p # "auto" => pc[p] = "idle"
    BY <1>0 DEF Init
  <1>2. TypeOK
    <2>1. loginLogoutMutex \in Seq(Procs) /\ configsMutex \in Seq(Procs)
      BY <1>0 DEF Init, Free
    <2>2. pc \in [Procs -> PCs] /\ provider \in [Procs -> Hosts \cup {NoHost}]
      BY DEF Init
    <2>3. changes \in 0..MaxChanges /\ calls \in 0..MaxUserCalls
      BY ConnectionAssumption DEF Init
    <2>4. {listening, hostEvent, missed} \subseteq BOOLEAN
      BY DEF Init
    <2> QED
      BY <2>1, <2>2, <2>3, <2>4 DEF Init, TypeOK
  <1>3. LinesOK
    <2>1. Login = {"auto"} /\ Configs = {}
      BY <1>0, <1>1 DEF Login, Configs
    <2>2. LineOf(loginLogoutMutex, Login)
      BY <1>0, <2>1 DEF Init, LineOf, InLine, NoRepeat
    <2>3. LineOf(configsMutex, Configs)
      BY <2>1 DEF Init, LineOf, InLine, NoRepeat, Free
    <2> QED
      BY <1>1, <2>2, <2>3 DEF LinesOK
  <1>4. StateOK /\ LogoutFirst /\ ChangeFirst
    BY <1>0, <1>1 DEF Init, StateOK, LogoutFirst, ChangeFirst, HasProvider, Opening
  <1> QED
    BY <1>2, <1>3, <1>4 DEF ConnInv

LEMMA StepConn == ConnInv /\ [Next]_vars => ConnInv'
  <1> SUFFICES ASSUME ConnInv, [Next]_vars PROVE ConnInv'
    OBVIOUS
  <1>1. CASE AutoStep
    <2>1. disconnectStart => ConnInv'
      BY DisconnectStarts DEF Procs
    <2> QED
      BY <1>1, <2>1, AutoMovesOn, ResolveStarts, HostResolves DEF AutoStep
  <1>2. ASSUME NEW p \in Signers, ConnectStep(p) PROVE ConnInv'
    BY <1>2, ConnectStarts, ConnectFails, Opened, SetupDone, AuthIsSet, Connected DEF ConnectStep
  <1>3. ASSUME NEW p \in {"auto", "logout"}, LogoutStep(p) PROVE ConnInv'
    BY <1>3, DisconnectStarts, LogoutReads, AuthForgotten DEF LogoutStep, Procs
  <1>4. CASE CommitStep
    <2>1. clearAuth => ConnInv'
      BY AuthForgotten
    <2> QED
      BY <1>4, <2>1, TargetSwitches, ChangeIsReported DEF CommitStep
  <1>5. CASE \/ hostChanged \/ logoutCommand \/ configureLogin \/ WizardStep
             \/ \E t \in Targets \cup {NoTarget} : setTarget(t)
    BY <1>5, EventSignsIn, UserMovesOn, WizardOpens
  <1>6. CASE UNCHANGED vars
    <2>1. UNCHANGED <<state, client, target, bundleAuth, newTarget, hostEvent, changes, calls,
                      loginLogoutMutex, configsMutex, pc, provider, listening, missed>>
      BY <1>6 DEF vars, connVars, configVars, boundVars
    <2>2. TypeOK' /\ LinesOK'
      BY <2>1, InvParts DEF TypeOK, LinesOK, Login, Configs, HasLogin, HasConfigs
    <2>3. StateOK' /\ LogoutFirst' /\ ChangeFirst'
      BY <2>1, InvParts DEF StateOK, SigningIn, LogoutFirst, ChangeFirst, host
    <2> QED
      BY <2>2, <2>3 DEF ConnInv
  <1> QED
    BY <1>1, <1>2, <1>3, <1>4, <1>5, <1>6 DEF Next, Signers

\* For any targets, hosts and bounds: the two mutexes, the state and the client
\* agree, whichever of the four calls overlap (ConnectionManager.ts,
\* WorkspaceConnectionModel.ts).
THEOREM ConnectionInvariant == Spec => []ConnectionInv
  <1>1. ConnInv => ConnectionInv
    <2> SUFFICES ASSUME ConnInv PROVE ConnectionInv
      OBVIOUS
    <2>1. TypeOK /\ LinesOK /\ StateOK
      BY InvParts
    <2>2. \A p \in Procs : /\ InLine(loginLogoutMutex, p) <=> pc[p] \in AwaitsLogin \cup HoldsLogin
                           /\ InLine(configsMutex, p) <=> pc[p] \in AwaitsConfigs \cup HoldsConfigs
      BY <2>1 DEF LinesOK, LineOf, Login, Configs
    <2> QED
      BY <2>1, <2>2 DEF ConnectionInv, LinesOK, StateOK, InLine
  <1> QED
    BY <1>1, InitConn, StepConn, PTL DEF Spec

\* For any targets, hosts and bounds: the connection that is left when everything
\* has settled is the target's, with its provider in the bundle models, if a
\* sign-in has read the target since it changed (loginWithSavedAuth, logout,
\* commitTarget).
THEOREM ConnectionIsTheTargets == Spec => []ConnectedToTarget
  <1>1. ConnInv => ConnectedToTarget
    BY InvParts DEF ConnectedToTarget, ChangeFirst
  <1> QED
    BY <1>1, InitConn, StepConn, PTL DEF Spec

=============================================================================
