----------------------------- MODULE Connection -----------------------------
(***************************************************************************)
(* Signing in: ConnectionManager, its WorkspaceConnectionModel, and the    *)
(* two methods of ConfigModel that it races with (commitTarget and         *)
(* setAuthProvider).  Four calls can be in progress at once:               *)
(*   "auto"    loginWithSavedAuth, on start and on target or host changes  *)
(*   "manual"  configureLogin                                              *)
(*   "logout"  the logout command                                          *)
(*   "commit"  ConfigModel.setTarget                                       *)
(* savedAuthMutex and configureLoginMutex are only ever tried, so at most  *)
(* one call of the first two kinds is in progress and their being locked   *)
(* is pc # "idle".  loginLogoutMutex and configsMutex queue.  pc[p] is the *)
(* await at which p is suspended.  An auth provider is known by its host.  *)
(* The cluster, the sync destination and the serverless choice, which      *)
(* disconnect and connect update, are represented by their waits for       *)
(* configsMutex.                                                           *)
(***************************************************************************)
EXTENDS MutexOps, Naturals

CONSTANTS
  Targets,        \* the targets the bundle defines
  Hosts,
  HostOf,         \* the host of each target
  NoHost, NoTarget,
  MaxChanges,     \* bound: target changes
  MaxUserCalls    \* bound: sign-ins and logouts asked for by the user

ASSUME ConnectionAssumption ==
  /\ HostOf \in [Targets -> Hosts]
  /\ NoTarget \notin Targets /\ NoHost \notin Hosts
  /\ MaxChanges \in Nat /\ MaxUserCalls \in Nat

Procs == {"auto", "manual", "logout", "commit"}

VARIABLES
  target,             \* ConfigModel._target
  bundleAuth,         \* the auth provider the bundle models hold
  state, client,      \* WorkspaceConnectionModel
  loginLogoutMutex, configsMutex,
  pc,
  provider,           \* the auth provider each call works with
  newTarget,          \* the argument of the setTarget call
  listening,          \* init() has registered the listeners
  hostEvent,          \* the change of the host key has still to be reported
  missed,             \* history: no sign-in has read the target since it changed, or
                      \* a wizard opened for another target has signed in since
  changes, calls

connVars == <<state, client>>
configVars == <<target, bundleAuth, newTarget, hostEvent>>
boundVars == <<changes, calls>>
vars == <<connVars, configVars, boundVars, loginLogoutMutex, configsMutex, pc, provider, listening, missed>>

host(t) == IF t = NoTarget THEN NoHost ELSE HostOf[t]

\* The places at which a call holds, or waits in the line of, each mutex.
AwaitsLogin == {"disconnect", "resolve", "connect", "logout"}
HoldsLogin == {"disconnectGet", "resolveGet", "resolveCheck", "open", "setup", "setAuth", "refresh", "logoutGet"}
AwaitsConfigs == {"disconnectGet", "resolveGet", "setup", "setAuth", "logoutGet", "forget", "commitWait", "clearAuth"}
HoldsConfigs == {"refresh", "commitRefresh"}
PCs == {"idle", "wizard"} \cup AwaitsLogin \cup HoldsLogin \cup AwaitsConfigs \cup HoldsConfigs

TypeOK ==
  /\ target \in Targets \cup {NoTarget} /\ newTarget \in Targets \cup {NoTarget}
  /\ bundleAuth \in Hosts \cup {NoHost} /\ client \in Hosts \cup {NoHost}
  /\ state \in {"CONNECTED", "CONNECTING", "DISCONNECTED"}
  /\ loginLogoutMutex \in Seq(Procs) /\ configsMutex \in Seq(Procs)
  /\ pc \in [Procs -> PCs]
  /\ provider \in [Procs -> Hosts \cup {NoHost}]
  /\ {listening, hostEvent, missed} \subseteq BOOLEAN
  /\ changes \in 0..MaxChanges /\ calls \in 0..MaxUserCalls

\* ConfigModel.init has resolved a target; ConnectionManager.init signs in.
Init ==
  /\ target \in Targets /\ newTarget = NoTarget /\ bundleAuth = NoHost
  /\ state = "DISCONNECTED" /\ client = NoHost
  /\ pc = [p \in Procs |-> IF p = "auto" THEN "disconnect" ELSE "idle"]
  /\ loginLogoutMutex = <<"auto">> /\ configsMutex = Free
  /\ provider = [p \in Procs |-> NoHost]
  /\ listening = FALSE /\ hostEvent = FALSE /\ missed = FALSE
  /\ changes = 0 /\ calls = 0

Goto(p, place) == pc' = [pc EXCEPT ![p] = place]
HasLogin(p) == Holds(loginLogoutMutex, p)
HasConfigs(p) == Holds(configsMutex, p)

-----------------------------------------------------------------------------
\* WorkspaceConnectionModel: what a method does to the state and the client.
Disconnect == state' = "DISCONNECTED" /\ client' = NoHost
beginConnecting == state' = "CONNECTING" /\ UNCHANGED client
startConnect == state' = "CONNECTING" /\ client' = NoHost

\* disconnect() of ConnectionManager: drop the connection, then read the config.
disconnectStart ==
  /\ pc["auto"] = "disconnect" /\ HasLogin("auto")
  /\ Disconnect
  /\ Goto("auto", "disconnectGet")
  /\ configsMutex' = Wait(configsMutex, "auto")
  /\ UNCHANGED <<configVars, boundVars, loginLogoutMutex, provider, listening, missed>>

disconnectEnd ==
  /\ pc["auto"] = "disconnectGet" /\ HasConfigs("auto")
  /\ configsMutex' = Signal(configsMutex)
  /\ loginLogoutMutex' = Wait(Signal(loginLogoutMutex), "auto")
  /\ Goto("auto", "resolve")
  /\ UNCHANGED <<connVars, configVars, boundVars, provider, listening, missed>>

\* resolveAuth(), up to the read of the host.
resolveStart ==
  /\ pc["auto"] = "resolve" /\ HasLogin("auto")
  /\ beginConnecting
  /\ Goto("auto", "resolveGet")
  /\ configsMutex' = Wait(configsMutex, "auto")
  /\ UNCHANGED <<configVars, boundVars, loginLogoutMutex, provider, listening, missed>>

\* Mutant: the host of an earlier sign-in is used if there was one.
resolveHostCached ==
  /\ pc["auto"] = "resolveGet" /\ HasConfigs("auto")
  /\ configsMutex' = Signal(configsMutex)
  /\ provider' = [provider EXCEPT !["auto"] = IF @ = NoHost THEN host(target) ELSE @]
  /\ IF target = NoTarget
       THEN /\ Goto("auto", "logout")
            /\ loginLogoutMutex' = Wait(Signal(loginLogoutMutex), "auto")
       ELSE /\ Goto("auto", "resolveCheck")
            /\ UNCHANGED loginLogoutMutex
  /\ missed' = FALSE
  /\ UNCHANGED <<connVars, configVars, boundVars, listening>>

\* The host and the target are read; without them there is nothing to resolve.
\* A target change from here on is not noticed by this sign-in.
resolveHost ==
  /\ pc["auto"] = "resolveGet" /\ HasConfigs("auto")
  /\ configsMutex' = Signal(configsMutex)
  /\ provider' = [provider EXCEPT !["auto"] = host(target)]
  /\ IF target = NoTarget
       THEN /\ Goto("auto", "logout")
            /\ loginLogoutMutex' = Wait(Signal(loginLogoutMutex), "auto")
       ELSE /\ Goto("auto", "resolveCheck")
            /\ UNCHANGED loginLogoutMutex
  /\ missed' = FALSE
  /\ UNCHANGED <<connVars, configVars, boundVars, listening>>

\* A saved or a unique profile passes its check and sign-in goes on, or there is
\* none, or an error is swallowed by @onError: then the user is logged out.
resolveEnd ==
  /\ pc["auto"] = "resolveCheck"
  /\ loginLogoutMutex' = Wait(Signal(loginLogoutMutex), "auto")
  /\ Goto("auto", "connect") \/ Goto("auto", "logout")
  /\ UNCHANGED <<connVars, configVars, boundVars, configsMutex, provider, listening, missed>>

\* Mutant: the client of the former workspace is kept while the new one opens.
connectStartKeeps(p) ==
  /\ pc[p] = "connect" /\ HasLogin(p)
  /\ state' = "CONNECTING" /\ UNCHANGED client
  /\ Goto(p, "open")
  /\ UNCHANGED <<configVars, boundVars, loginLogoutMutex, configsMutex, provider, listening, missed>>

\* _connect(): the workspace of the provider is opened.
connectStart(p) ==
  /\ pc[p] = "connect" /\ HasLogin(p)
  /\ startConnect
  /\ Goto(p, "open")
  /\ UNCHANGED <<configVars, boundVars, loginLogoutMutex, configsMutex, provider, listening, missed>>

\* The call ends; the first automatic sign-in is init(), which then listens.
Return(p) ==
  /\ Goto(p, "idle")
  /\ listening' = (listening \/ p = "auto")

\* Mutant: a failed sign-in leaves the state as it is.
connectFailsQuietly(p) ==
  /\ pc[p] = "open" \/ (pc[p] = "setup" /\ HasConfigs(p))
  /\ client' = NoHost /\ UNCHANGED state
  /\ configsMutex' = IF pc[p] = "setup" THEN Signal(configsMutex) ELSE configsMutex
  /\ loginLogoutMutex' = Signal(loginLogoutMutex)
  /\ Return(p)
  /\ UNCHANGED <<configVars, boundVars, provider, missed>>

\* Opening the workspace fails, or a step of the setup does (saving the profile
\* throws without a target): disconnected, and connect() swallows the error.
connectFails(p) ==
  /\ pc[p] = "open" \/ (pc[p] = "setup" /\ HasConfigs(p))
  /\ Disconnect
  /\ configsMutex' = IF pc[p] = "setup" THEN Signal(configsMutex) ELSE configsMutex
  /\ loginLogoutMutex' = Signal(loginLogoutMutex)
  /\ Return(p)
  /\ UNCHANGED <<configVars, boundVars, provider, missed>>

\* The workspace is open and current; the setup begins.
opened(p) ==
  /\ pc[p] = "open"
  /\ client' = provider[p] /\ UNCHANGED state
  /\ Goto(p, "setup")
  /\ configsMutex' = Wait(configsMutex, p)
  /\ UNCHANGED <<configVars, boundVars, loginLogoutMutex, provider, listening, missed>>

\* The profile is saved and the cluster, the sync destination, serverless and
\* the metadata service follow; then setAuthProvider queues.
setupDone(p) ==
  /\ pc[p] = "setup" /\ HasConfigs(p)
  /\ target # NoTarget
  /\ configsMutex' = Wait(Signal(configsMutex), p)
  /\ Goto(p, "setAuth")
  /\ UNCHANGED <<connVars, configVars, boundVars, loginLogoutMutex, provider, listening, missed>>

\* setAuthProvider(): the bundle models get the provider and are refreshed.
setAuthProvider(p) ==
  /\ pc[p] = "setAuth" /\ HasConfigs(p)
  /\ bundleAuth' = provider[p]
  /\ Goto(p, "refresh")
  /\ UNCHANGED <<connVars, target, newTarget, hostEvent, boundVars, loginLogoutMutex, configsMutex,
                 provider, listening, missed>>

\* Mutant: configsMutex is not released.
connectedLocked(p) ==
  /\ pc[p] = "refresh"
  /\ state' = "CONNECTED" /\ UNCHANGED client
  /\ loginLogoutMutex' = Signal(loginLogoutMutex)
  /\ UNCHANGED configsMutex
  /\ Return(p)
  /\ missed' = (missed \/ (p = "manual" /\ provider[p] # host(target)))
  /\ UNCHANGED <<configVars, boundVars, provider>>

\* CONNECTED, also when the refresh fails: that error is reported afterwards.
connected(p) ==
  /\ pc[p] = "refresh"
  /\ state' = "CONNECTED" /\ UNCHANGED client
  /\ configsMutex' = Signal(configsMutex)
  /\ loginLogoutMutex' = Signal(loginLogoutMutex)
  /\ Return(p)
  /\ missed' = (missed \/ (p = "manual" /\ provider[p] # host(target)))
  /\ UNCHANGED <<configVars, boundVars, provider>>

\* logout(): disconnect, then forget the profile and the auth provider.
logoutStart(p) ==
  /\ pc[p] = "logout" /\ HasLogin(p)
  /\ Disconnect
  /\ Goto(p, "logoutGet")
  /\ configsMutex' = Wait(configsMutex, p)
  /\ UNCHANGED <<configVars, boundVars, loginLogoutMutex, provider, listening, missed>>

logoutGet(p) ==
  /\ pc[p] = "logoutGet" /\ HasConfigs(p)
  /\ loginLogoutMutex' = Signal(loginLogoutMutex)
  /\ IF target = NoTarget
       THEN /\ Return(p)
            /\ configsMutex' = Signal(configsMutex)
       ELSE /\ Goto(p, "forget")
            /\ configsMutex' = Wait(Signal(configsMutex), p)
            /\ UNCHANGED listening
  /\ UNCHANGED <<connVars, configVars, boundVars, provider, missed>>

forget(p) ==
  /\ pc[p] = "forget" /\ HasConfigs(p)
  /\ bundleAuth' = NoHost
  /\ configsMutex' = Signal(configsMutex)
  /\ Return(p)
  /\ UNCHANGED <<connVars, target, newTarget, hostEvent, boundVars, loginLogoutMutex, provider, missed>>

-----------------------------------------------------------------------------
\* The user asks to log out.
logoutCommand ==
  /\ calls < MaxUserCalls /\ calls' = calls + 1
  /\ pc["logout"] = "idle"
  /\ Goto("logout", "logout")
  /\ loginLogoutMutex' = Wait(loginLogoutMutex, "logout")
  /\ UNCHANGED <<connVars, configVars, changes, configsMutex, provider, listening, missed>>

\* The user asks to sign in: the wizard is told the host of the target, or lets
\* the user choose one.
configureLogin ==
  /\ calls < MaxUserCalls /\ calls' = calls + 1
  /\ pc["manual"] = "idle"
  /\ Goto("manual", "wizard")
  /\ \E h \in (IF target = NoTarget THEN Hosts ELSE {host(target)}) :
        provider' = [provider EXCEPT !["manual"] = h]
  /\ UNCHANGED <<connVars, configVars, changes, loginLogoutMutex, configsMutex, listening, missed>>

wizardCancelled ==
  /\ pc["manual"] = "wizard"
  /\ Goto("manual", "idle")
  /\ UNCHANGED <<connVars, configVars, boundVars, loginLogoutMutex, configsMutex, provider, listening, missed>>

\* The wizard yields a provider, perhaps for a target that is no longer current.
wizardDone ==
  /\ pc["manual"] = "wizard"
  /\ Goto("manual", "connect")
  /\ loginLogoutMutex' = Wait(loginLogoutMutex, "manual")
  /\ UNCHANGED <<connVars, configVars, boundVars, configsMutex, provider, listening, missed>>

\* setTarget(): the target is another one and the bundle defines it.
setTarget(t) ==
  /\ changes < MaxChanges /\ changes' = changes + 1
  /\ pc["commit"] = "idle" /\ t # target
  /\ newTarget' = t
  /\ Goto("commit", "commitWait")
  /\ configsMutex' = Wait(configsMutex, "commit")
  /\ UNCHANGED <<connVars, target, bundleAuth, hostEvent, calls, loginLogoutMutex, provider, listening, missed>>

\* Under configsMutex the target is switched; the bundle models drop their auth.
switchTarget ==
  /\ pc["commit"] = "commitWait" /\ HasConfigs("commit")
  /\ target' = newTarget
  /\ bundleAuth' = NoHost
  /\ hostEvent' = (hostEvent \/ host(newTarget) # host(target))
  /\ missed' = TRUE
  /\ Goto("commit", "commitRefresh")
  /\ UNCHANGED <<connVars, newTarget, boundVars, loginLogoutMutex, configsMutex, provider, listening>>

\* loginWithSavedAuth on an event: dropped while another one is in progress.
onEvent(otherMoves) ==
  IF listening /\ pc["auto"] = "idle"
    THEN /\ pc' = [otherMoves EXCEPT !["auto"] = "disconnect"]
         /\ loginLogoutMutex' = Wait(loginLogoutMutex, "auto")
    ELSE /\ pc' = otherMoves
         /\ UNCHANGED loginLogoutMutex

\* The child models are refreshed, or fail to be; then the finally block fires
\* onDidChangeTarget and calls setAuthProvider(undefined).
targetSwitched ==
  /\ pc["commit"] = "commitRefresh"
  /\ onEvent([pc EXCEPT !["commit"] = "clearAuth"])
  /\ configsMutex' = Wait(Signal(configsMutex), "commit")
  /\ UNCHANGED <<connVars, configVars, boundVars, provider, listening, missed>>

clearAuth ==
  /\ pc["commit"] = "clearAuth" /\ HasConfigs("commit")
  /\ bundleAuth' = NoHost
  /\ configsMutex' = Signal(configsMutex)
  /\ Goto("commit", "idle")
  /\ UNCHANGED <<connVars, target, newTarget, hostEvent, boundVars, loginLogoutMutex, provider, listening, missed>>

\* The refreshed config reports that the host key has changed.
hostChanged ==
  /\ hostEvent /\ hostEvent' = FALSE
  /\ onEvent(pc)
  /\ UNCHANGED <<connVars, target, bundleAuth, newTarget, boundVars, configsMutex, provider, listening, missed>>

-----------------------------------------------------------------------------
AutoStep == disconnectStart \/ disconnectEnd \/ resolveStart \/ resolveHost \/ resolveEnd
ConnectStep(p) == connectStart(p) \/ connectFails(p) \/ opened(p) \/ setupDone(p)
                  \/ setAuthProvider(p) \/ connected(p)
LogoutStep(p) == logoutStart(p) \/ logoutGet(p) \/ forget(p)
CommitStep == switchTarget \/ targetSwitched \/ clearAuth
WizardStep == wizardCancelled \/ wizardDone

Next ==
  \/ AutoStep \/ ConnectStep("auto") \/ LogoutStep("auto")
  \/ WizardStep \/ ConnectStep("manual")
  \/ LogoutStep("logout")
  \/ CommitStep \/ hostChanged
  \/ logoutCommand \/ configureLogin
  \/ \E t \in Targets \cup {NoTarget} : setTarget(t)

Spec == Init /\ [][Next]_vars

\* Promises are resumed and requests answered, well or badly; the user finishes
\* or cancels the wizard.
FairSpec ==
  /\ Spec
  /\ WF_vars(AutoStep \/ ConnectStep("auto") \/ LogoutStep("auto"))
  /\ WF_vars(WizardStep \/ ConnectStep("manual"))
  /\ WF_vars(LogoutStep("logout"))
  /\ WF_vars(CommitStep) /\ WF_vars(hostChanged)

-----------------------------------------------------------------------------
SigningIn(p) == pc[p] \in {"resolveGet", "resolveCheck", "connect", "open", "setup", "setAuth", "refresh"}

\* The two mutexes, the state and the client agree although four calls share
\* them: a client is there when CONNECTED, none when DISCONNECTED, the setup of
\* a sign-in runs against its own client, and CONNECTING is shown only while a
\* sign-in, or the logout that ends it, is in progress.
ConnectionInv ==
  /\ TypeOK
  /\ \A p \in Procs :
       /\ (\E i \in 1..Len(loginLogoutMutex) : loginLogoutMutex[i] = p)
            <=> pc[p] \in AwaitsLogin \cup HoldsLogin
       /\ (\E i \in 1..Len(configsMutex) : configsMutex[i] = p)
            <=> pc[p] \in AwaitsConfigs \cup HoldsConfigs
       /\ pc[p] \in HoldsLogin => HasLogin(p)
       /\ pc[p] \in HoldsConfigs => HasConfigs(p)
       /\ pc[p] \in {"setup", "setAuth", "refresh"} => state = "CONNECTING" /\ client = provider[p]
       /\ pc[p] = "open" => state = "CONNECTING" /\ client = NoHost
  /\ state = "CONNECTED" => client # NoHost
  /\ state = "DISCONNECTED" => client = NoHost
  /\ state = "CONNECTING" => SigningIn("auto") \/ SigningIn("manual") \/ pc["auto"] = "logout"

\* No call is in progress and no event is due.
Quiet == (\A p \in Procs : pc[p] = "idle") /\ ~hostEvent

\* If the latest target change was followed by an automatic sign-in that read the
\* new target, and no wizard was left open across it, then the connection that is
\* in force when everything has settled is one to the host of the target, and the
\* bundle models hold its auth provider: neither setAuthProvider(undefined) of the
\* target change nor that of a logout comes after the one of the sign-in.
ConnectedToTarget ==
  Quiet /\ ~missed /\ state = "CONNECTED" => client = host(target) /\ bundleAuth = client

\* CONNECTING never stays: neither a failing request nor a lock can hang sign-in.
SignInSettles == state = "CONNECTING" ~> state # "CONNECTING"

\* A target change always completes, whichever sign-ins and logouts it meets.
TargetChangeCompletes == pc["commit"] = "commitWait" ~> pc["commit"] = "idle"

\* When everything has settled after a target change, the connection to the host
\* of the former target is gone (ConnectionManager.test.ts, "drops the old
\* connection first when the target changes").
OldConnectionDropped == Quiet /\ state = "CONNECTED" => client = host(target)

=============================================================================
