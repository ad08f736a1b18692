------------------------- MODULE DarkMedVpnService --------------------------
(***************************************************************************)
(* DarkMedVpnService.kt: the VPN service, its TUN descriptor, its native   *)
(* engine (the abstract engine of NativeEngine) and its polling monitor.   *)
(* Every method runs on the main thread but onRevoke, which Android calls  *)
(* on a binder thread; nothing synchronises the two.                       *)
(*                                                                         *)
(* An action is the stretch between two accesses to a field that the other *)
(* thread may write; a read of routeState and the write computed from it   *)
(* are one action.  Android (the delivery of intents, establish, the table *)
(* of descriptors, onDestroy once the service is stopped) is modelled from *)
(* how this code uses it.                                                  *)
(***************************************************************************)
EXTENDS Naturals, ProtectedRouteState

CONSTANTS Fds,       \* descriptor numbers of the process
          NoFd,      \* null
          Revokes    \* may the user or another VPN revoke this one?

ASSUME FdAssumption == NoFd \notin Fds /\ Revokes \in BOOLEAN

Main == "main"
Binder == "binder"
ServiceThreads == {Main, Binder}

VARIABLES tunnelFd,    \* the field tunnelFd
          engine,      \* is the field engine set?
          routeState,  \* the field routeState
          posted,      \* engineMonitor callbacks in the main thread's queue
          created,     \* Android: the service object is alive
          started,     \* Android: the service is in the started state
          pc,          \* where each thread is in startTunnel or stopTunnel
          local,       \* the descriptor each thread holds in a local variable
          active,      \* stopTunnel: is activeEngine set?
          kind,        \* what each descriptor number denotes
          engineState, \* the native engine, see NativeEngine
          engineFd,    \* the descriptor the native engine works on
          outrun,      \* the other stop has closed what this one holds (history)
          disturbed    \* a revocation has met a start or the monitor (history)

fieldVars == <<tunnelFd, engine, routeState, posted>>
androidVars == <<created, started>>
nativeVars == <<kind, engineState, engineFd>>
threadVars == <<pc, local, active>>
historyVars == <<outrun, disturbed>>
vars == <<fieldVars, androidVars, nativeVars, threadVars, historyVars>>

Native == INSTANCE NativeEngine

Init ==
    /\ tunnelFd = NoFd
    /\ engine = FALSE
    /\ routeState = Stopped
    /\ posted = 0
    /\ created = FALSE
    /\ started = FALSE
    /\ pc = [t \in ServiceThreads |-> "idle"]
    /\ local = [t \in ServiceThreads |-> NoFd]
    /\ active = [t \in ServiceThreads |-> FALSE]
    /\ kind = [f \in Fds |-> "free"]
    /\ Native!EngineInit
    /\ engineFd = NoFd
    /\ outrun = [t \in ServiceThreads |-> FALSE]
    /\ disturbed = FALSE

Goto(t, from, to) ==
    /\ pc[t] = from
    /\ pc' = [pc EXCEPT ![t] = to]

-----------------------------------------------------------------------------
(* onStartCommand, and startTunnel on the main thread.                       *)

(* startService or startForegroundService with action ACTION_START or        *)
(* ACTION_STOP: Android creates the service when there is none.  (It does so *)
(* here only when no onRevoke of the last service is still running.)         *)
Command(handler) ==
    /\ created \/ pc[Binder] = "idle"
    /\ Goto(Main, "idle", handler)
    /\ created' = TRUE
    /\ started' = TRUE
    /\ UNCHANGED <<fieldVars, nativeVars, local, active>>

CommandStart == Command("start")
CommandStop == Command("stop")

(* An intent without a configuration path, or with no known action. *)
CommandWithoutEffect == Command("idle")

MayStart == tunnelFd = NoFd

StartIgnored ==
    /\ ~MayStart
    /\ Goto(Main, "start", "idle")
    /\ UNCHANGED <<fieldVars, androidVars, nativeVars, local, active>>

StartBegins ==
    /\ MayStart
    /\ Goto(Main, "start", "establish")
    /\ routeState' = Starting
    /\ UNCHANGED <<tunnelFd, engine, posted, androidVars, nativeVars, local, active>>

(* The path is invalid or outside the app's storage, or establish throws or  *)
(* returns no descriptor.                                                    *)
StartBlocked ==
    /\ Goto(Main, "establish", "idle")
    /\ routeState' = Failed(routeState)
    /\ UNCHANGED <<tunnelFd, engine, posted, androidVars, nativeVars, local, active>>

(* establish, and detachFd: the number is the service's own from now on. *)
Establish ==
    /\ Goto(Main, "establish", "detached")
    /\ \E f \in Fds :
        /\ kind[f] = "free"
        /\ kind' = [kind EXCEPT ![f] = "tun"]
        /\ local' = [local EXCEPT ![Main] = f]
    /\ routeState' = TunEstablished(routeState)
    /\ UNCHANGED <<tunnelFd, engine, posted, androidVars, engineState, engineFd, active>>

StartKeepsFd ==
    /\ Goto(Main, "detached", "proxy")
    /\ tunnelFd' = local[Main]
    /\ UNCHANGED <<engine, routeState, posted, androidVars, nativeVars, local, active>>

StartsProxy ==
    /\ Goto(Main, "proxy", "native")
    /\ routeState' = ProxyStarting(routeState)
    /\ UNCHANGED <<tunnelFd, engine, posted, androidVars, nativeVars, local, active>>

(* HevTun2Socks.start returns true. *)
NativeStarts ==
    /\ Goto(Main, "native", "keep")
    /\ Native!EngineStart
    /\ engineFd' = local[Main]
    /\ local' = [local EXCEPT ![Main] = NoFd]
    /\ UNCHANGED <<fieldVars, androidVars, kind, active>>

(* The library is missing, or HevTun2Socks.start returns false - whatever    *)
(* the state of the engine.  The TUN descriptor is kept.                     *)
NativeStartFails ==
    /\ Goto(Main, "native", "idle")
    /\ routeState' = Failed(routeState)
    /\ local' = [local EXCEPT ![Main] = NoFd]
    /\ UNCHANGED <<tunnelFd, engine, posted, androidVars, nativeVars, active>>

StartKeepsEngine ==
    /\ Goto(Main, "keep", "ready")
    /\ engine' = TRUE
    /\ UNCHANGED <<tunnelFd, routeState, posted, androidVars, nativeVars, local, active>>

StartEnds ==
    /\ Goto(Main, "ready", "idle")
    /\ routeState' = ProxyReady(routeState, FALSE)
    /\ posted' = posted + 1
    /\ UNCHANGED <<tunnelFd, engine, androidVars, nativeVars, local, active>>

StartStep ==
    \/ StartIgnored \/ StartBegins \/ StartBlocked
    \/ Establish \/ StartKeepsFd \/ StartsProxy
    \/ NativeStarts \/ NativeStartFails \/ StartKeepsEngine \/ StartEnds

-----------------------------------------------------------------------------
(* stopTunnel, on either thread. *)

(* stopService, by the orchestrator or by the wipe. *)
StopService ==
    /\ started
    /\ started' = FALSE
    /\ UNCHANGED <<fieldVars, created, nativeVars, threadVars>>

(* Android destroys a service that is not started: onDestroy. *)
Destroy ==
    /\ created /\ ~started
    /\ Goto(Main, "idle", "stop")
    /\ created' = FALSE
    /\ UNCHANGED <<fieldVars, started, nativeVars, local, active>>

(* A VPN that is established can be revoked. *)
Revoke ==
    /\ Revokes
    /\ created
    /\ \E f \in Fds : kind[f] = "tun"
    /\ Goto(Binder, "idle", "stop")
    /\ UNCHANGED <<fieldVars, androidVars, nativeVars, local, active>>

StopBegins(t) ==
    /\ Goto(t, "stop", "unpost")
    /\ routeState' = Stopping(routeState)
    /\ UNCHANGED <<tunnelFd, engine, posted, androidVars, nativeVars, local, active>>

RemovesCallbacks == 0

StopUnposts(t) ==
    /\ Goto(t, "unpost", "engine")
    /\ posted' = RemovesCallbacks
    /\ UNCHANGED <<tunnelFd, engine, routeState, androidVars, nativeVars, local, active>>

ForgetsEngine == FALSE                  \* mutation of ReadsEngine
ReadsEngine == engine

StopReadsEngine(t) ==
    /\ Goto(t, "engine", "joining")
    /\ active' = [active EXCEPT ![t] = ReadsEngine]
    /\ UNCHANGED <<fieldVars, androidVars, nativeVars, local>>

(* HevTun2Socks.stop waits for the worker, if there is one ... *)
StopJoins(t) ==
    /\ pc[t] = "joining"
    /\ active[t]
    /\ Native!EngineJoined
    /\ UNCHANGED <<fieldVars, androidVars, kind, engineFd, threadVars>>

(* ... and returns. *)
NeverWaits == TRUE                      \* mutations of Joined
WaitsForDeath == engineState = "dead"
Joined == engineState = "off"

StopJoined(t) ==
    /\ active[t] => Joined
    /\ Goto(t, "joining", "drop")
    /\ UNCHANGED <<fieldVars, androidVars, nativeVars, local, active>>

(* Without an engine the descriptor is closed here. *)
StopDropsEngine(t) ==
    /\ Goto(t, "drop", IF active[t] THEN "forget" ELSE "fd")
    /\ engine' = FALSE
    /\ UNCHANGED <<tunnelFd, routeState, posted, androidVars, nativeVars, local, active>>

StopReadsFd(t) ==
    /\ Goto(t, "fd", "close")
    /\ local' = [local EXCEPT ![t] = tunnelFd]
    /\ UNCHANGED <<fieldVars, androidVars, nativeVars, active>>

StopCloses(t) ==
    /\ Goto(t, "close", "forget")
    /\ kind' = [f \in Fds |-> IF f = local[t] THEN "free" ELSE kind[f]]
    /\ local' = [local EXCEPT ![t] = NoFd]
    /\ UNCHANGED <<fieldVars, androidVars, engineState, engineFd, active>>

KeepsFd == tunnelFd                     \* mutation of ForgetsFd
ForgetsFd == NoFd

StopForgetsFd(t) ==
    /\ Goto(t, "forget", "stopped")
    /\ tunnelFd' = ForgetsFd
    /\ UNCHANGED <<engine, routeState, posted, androidVars, nativeVars, local, active>>

(* The last line of stopTunnel, and the stopSelf of its callers. *)
StopEnds(t) ==
    /\ Goto(t, "stopped", "idle")
    /\ routeState' = Stopped
    /\ started' = FALSE
    /\ active' = [active EXCEPT ![t] = FALSE]
    /\ UNCHANGED <<tunnelFd, engine, posted, created, nativeVars, local>>

StopStep(t) ==
    \/ StopBegins(t) \/ StopUnposts(t) \/ StopReadsEngine(t) \/ StopJoins(t)
    \/ StopJoined(t) \/ StopDropsEngine(t) \/ StopReadsFd(t) \/ StopCloses(t)
    \/ StopForgetsFd(t) \/ StopEnds(t)

-----------------------------------------------------------------------------
(* engineMonitor: it reports a dead engine once, polls a live one again, and *)
(* stops when there is none.                                                 *)
ReportsOnly == posted - 1               \* mutation of Reposts
Reposts == IF engine /\ engineState = "on" THEN posted ELSE posted - 1

MonitorRuns ==
    /\ pc[Main] = "idle"
    /\ posted > 0
    /\ posted' = Reposts
    /\ routeState' = IF engine /\ engineState # "on"
                     THEN Failed(routeState) ELSE routeState
    /\ disturbed' = (disturbed \/ pc[Binder] # "idle")
    /\ UNCHANGED <<tunnelFd, engine, androidVars, nativeVars, threadVars, outrun>>

(* The worker returns from the tunnel, by itself or because it is stopped. *)
EngineDies ==
    /\ Native!EngineDies
    /\ engineFd' = NoFd
    /\ UNCHANGED <<fieldVars, androidVars, kind, threadVars>>

(* The rest of the process opens and closes descriptors of its own. *)
OthersUseFds ==
    /\ \E f \in Fds :
        \/ kind[f] = "free" /\ kind' = [kind EXCEPT ![f] = "other"]
        \/ kind[f] = "other" /\ kind' = [kind EXCEPT ![f] = "free"]
    /\ UNCHANGED <<fieldVars, androidVars, engineState, engineFd, threadVars>>

ServiceStep ==
    \/ CommandStart \/ CommandStop \/ CommandWithoutEffect
    \/ StopService \/ Destroy \/ Revoke
    \/ StartStep
    \/ \E t \in ServiceThreads : StopStep(t)
    \/ EngineDies \/ OthersUseFds

InStart == {"start", "establish", "detached", "proxy", "native", "keep", "ready"}

(* A thread that is about to forget the descriptor without having had an     *)
(* engine has just closed it.                                                *)
RecordOverlap ==
    /\ outrun' = [t \in ServiceThreads |->
          /\ pc'[t] = "close"
          /\ \/ outrun[t]
             \/ \E u \in ServiceThreads \ {t} : pc'[u] = "forget" /\ ~active'[u]]
    /\ disturbed' = (disturbed \/ (pc'[Binder] # "idle" /\ pc'[Main] \in InStart))

Next == (ServiceStep /\ RecordOverlap) \/ MonitorRuns

Spec == Init /\ [][Next]_vars

(* Both threads run, the handler delivers what is posted, and a worker that  *)
(* a stop waits for returns (StopReturns of TunnelEngine).                   *)
StopWaits == \E t \in ServiceThreads : pc[t] = "joining" /\ active[t]

Fairness ==
    /\ WF_vars(StartStep /\ RecordOverlap)
    /\ \A t \in ServiceThreads : WF_vars(StopStep(t) /\ RecordOverlap)
    /\ WF_vars(StopWaits /\ EngineDies /\ RecordOverlap)
    /\ SF_vars(MonitorRuns)

FairSpec == Spec /\ Fairness

-----------------------------------------------------------------------------
TypeOK ==
    /\ tunnelFd \in Fds \cup {NoFd}
    /\ engine \in BOOLEAN
    /\ routeState \in RouteState
    /\ posted \in Nat /\ (~disturbed => posted <= 1)
    /\ created \in BOOLEAN
    /\ started \in BOOLEAN
    /\ pc \in [ServiceThreads ->
                {"idle", "start", "establish", "detached", "proxy", "native",
                 "keep", "ready", "stop", "unpost", "engine", "joining", "drop",
                 "fd", "close", "forget", "stopped"}]
    /\ local \in [ServiceThreads -> Fds \cup {NoFd}]
    /\ active \in [ServiceThreads -> BOOLEAN]
    /\ kind \in [Fds -> {"free", "tun", "other"}]
    /\ engineState \in {"off", "on", "dead"}
    /\ engineFd \in Fds \cup {NoFd}
    /\ outrun \in [ServiceThreads -> BOOLEAN]
    /\ disturbed \in BOOLEAN

(* The safety properties below hold as long as no revocation on the binder   *)
(* thread has run into a start or the monitor on the main thread: nothing in *)
(* the code keeps the two apart (TunOnlyRemainsFailClosed shows one outcome).*)
(* Two stops may run into each other at any point.                           *)
Undisturbed == ~disturbed

(* While the service holds the TUN descriptor, whatever has happened to the  *)
(* engine, the state it reports is fail closed.                              *)
TunRemainsFailClosed ==
    Undisturbed /\ tunnelFd # NoFd => IsFailClosed(routeState)

(* The engine works on the TUN descriptor: nobody has closed it under the    *)
(* engine, so that the number could denote something else by now.            *)
EngineOwnsTun ==
    Undisturbed /\ engineState = "on" => kind[engineFd] = "tun"

(* stopTunnel closes what the service established, never a number that has   *)
(* been given to somebody else since, however starts and stops follow each   *)
(* other and also when two stops meet, but for the one that the other stop   *)
(* has outrun: both have read tunnelFd before it was cleared, and the second *)
(* closes whatever has the number by then.                                   *)
ClosesOnlyTheTun ==
    Undisturbed =>
        \A t \in ServiceThreads :
            pc[t] = "close" /\ local[t] # NoFd /\ ~outrun[t] => kind[local[t]] = "tun"

AtRest == Undisturbed /\ \A t \in ServiceThreads : pc[t] = "idle"

(* A service that reports a running engine has its monitor callback posted   *)
(* once to notice its death, however starts, stops and deaths follow each    *)
(* other.                                                                    *)
EngineIsWatched ==
    AtRest /\ routeState.phase = "DEGRADED" => engine /\ posted = 1

(* A service at rest in STOPPED has no engine, running or dead, and no       *)
(* descriptor of its own left: the next start is not refused.                *)
StoppedMeansStopped ==
    AtRest /\ routeState.phase = "STOPPED"
        => ~engine /\ engineState = "off" /\ tunnelFd = NoFd

(* A dead engine is reported as FAILED, unless the service is stopped. *)
DeathIsReported ==
    AtRest /\ engineState = "dead"
        ~> disturbed \/ routeState.phase \in {"FAILED", "STOPPING", "STOPPED"}

(* stopTunnel comes to its end, also when the main thread and onRevoke run   *)
(* it at the same time and only one of them finds a worker to join.          *)
StopsReturn == \A t \in ServiceThreads : pc[t] = "stop" ~> pc[t] = "idle"

(* The phases that the service reports follow each other as the contract of  *)
(* the protected route says, and a worker is started and joined only in the  *)
(* phases that say so, whatever starts, stops and deaths interleave.         *)
Route == INSTANCE ProtectedRoute WITH phase <- routeState.phase

RouteFollowsContract ==
    /\ Route!RouteInit
    /\ [][Route!RouteNext \/ disturbed']_<<routeState.phase, engineState>>

-----------------------------------------------------------------------------
(* ProtectedRouteStateTest.tunOnlyIsNotProtectedAndRemainsFailClosed, for    *)
(* the service with revocations at any time.                                 *)
TunOnlyRemainsFailClosed == tunnelFd # NoFd => IsFailClosed(routeState)

(* android_vpn_runtime_findings_ar.md: the descriptor must be closed when the *)
(* service ends.  Neither stopTunnel, when there is an engine, nor the native *)
(* tunnel, which closes only a descriptor that it opened itself, does it.     *)
StopClosesTheTun ==
    AtRest /\ routeState.phase = "STOPPED" => \A f \in Fds : kind[f] # "tun"
=============================================================================
