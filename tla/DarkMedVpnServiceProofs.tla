---------------------- MODULE DarkMedVpnServiceProofs -----------------------
(***************************************************************************)
(* Proofs about DarkMedVpnService, for any set of descriptor numbers and   *)
(* with or without revocations.                                            *)
(*                                                                         *)
(* As long as no revocation has run into a start or the monitor            *)
(* (Undisturbed) a thread in startTunnel is alone in the service           *)
(* (StartsAlone); stopTunnel may be run by one thread or by both.  What    *)
(* they have done so far can be read off their places: in startTunnel      *)
(* (Starts) and in stopTunnel (Stops).  Between calls the fields describe  *)
(* the native engine and the descriptor (Owns), and the reported phase     *)
(* describes the fields (Reports).                                         *)
(***************************************************************************)
EXTENDS DarkMedVpnService, TLAPS

StartsAlone == pc[Main] \in InStart => pc[Binder] = "idle"

(* The stretch of stopTunnel from its first line to its last. *)
Undone == {"fd", "close", "forget", "stopped"}
InStop == {"unpost", "engine", "joining", "drop"} \cup Undone

(* What startTunnel has set so far. *)
Starts ==
    /\ pc[Main] \in {"establish", "detached"} => tunnelFd = NoFd
    /\ pc[Main] \in {"establish", "detached", "proxy", "native", "keep"} => ~engine
    /\ pc[Main] = "detached" => local[Main] # NoFd /\ kind[local[Main]] = "tun"
    /\ pc[Main] \in {"proxy", "native"} => tunnelFd = local[Main]
    /\ pc[Main] \in {"proxy", "native", "keep", "ready"} => tunnelFd # NoFd
    /\ pc[Main] = "ready" => engine /\ posted = 0
    /\ pc[Main] \in {"keep", "ready"} => engineState # "off"

(* What stopTunnel has undone so far, by one thread or by both.  A thread    *)
(* that is in it when the other has come to its end finds everything undone, *)
(* perhaps after it has read an engine that was still there, or a descriptor *)
(* that the other has closed meanwhile.                                      *)
Stops ==
    \A t \in ServiceThreads :
        /\ pc[t] \in InStop => routeState.phase \in {"STOPPING", "STOPPED"}
        /\ pc[t] \in InStop \ {"unpost"} => posted = 0
        /\ pc[t] \in {"joining", "drop"} /\ engine => active[t]
        /\ pc[t] \in {"drop"} \cup Undone => engineState = "off"
        /\ pc[t] \in Undone => ~engine
        /\ pc[t] \in {"fd", "close"} => ~active[t]
        /\ pc[t] = "close" /\ local[t] # NoFd /\ ~outrun[t] => kind[local[t]] = "tun"
        /\ pc[t] = "stopped" => tunnelFd = NoFd

(* The engine and the descriptor are those the fields name. *)
Owns ==
    /\ tunnelFd # NoFd /\ (\A t \in ServiceThreads : pc[t] = "forget" => active[t])
        => kind[tunnelFd] = "tun"
    /\ engineState = "on" => engineFd = tunnelFd /\ tunnelFd # NoFd
    /\ engine => tunnelFd # NoFd
    /\ ~engine /\ pc[Main] # "keep" => engineState = "off"
    /\ engine /\ (\A t \in ServiceThreads : pc[t] \notin {"joining", "drop"})
        => engineState # "off"
    /\ posted > 0 => engine

(* What each phase says of the fields, and of the place in startTunnel. *)
Reports ==
    /\ routeState.phase \in {"STOPPED", "STARTING", "TUN_ESTABLISHED",
                             "TUN2SOCKS_STARTING", "DEGRADED", "STOPPING", "FAILED"}
    /\ tunnelFd # NoFd \/ pc[Main] = "detached" => routeState.tunEstablished
    /\ routeState.phase = "STOPPED" => ~engine /\ engineState = "off" /\ tunnelFd = NoFd
    /\ routeState.phase = "DEGRADED" => engine /\ posted = 1
    /\ pc[Main] = "establish" => routeState.phase = "STARTING"
    /\ pc[Main] \in {"detached", "proxy"} => routeState.phase = "TUN_ESTABLISHED"
    /\ pc[Main] \in {"native", "keep", "ready"} => routeState.phase = "TUN2SOCKS_STARTING"
    /\ (\A t \in ServiceThreads : pc[t] \in {"idle", "start", "stop"})
        => routeState.phase \in {"STOPPED", "DEGRADED", "FAILED"}

ServiceInv ==
    /\ TypeOK
    /\ Undisturbed => StartsAlone /\ Starts /\ Stops /\ Owns /\ Reports

-----------------------------------------------------------------------------
(* Every function of ProtectedRouteStateMachine makes a state of a state.    *)
LEMMA RouteFunctions ==
    /\ Starting \in RouteState /\ Stopped \in RouteState
    /\ \A s \in RouteState :
        /\ TunEstablished(s) \in RouteState
        /\ ProxyStarting(s) \in RouteState
        /\ ProxyReady(s, FALSE) \in RouteState
        /\ Failed(s) \in RouteState
        /\ Stopping(s) \in RouteState
  BY DEF Starting, Stopped, At, RouteState, ProtectedRoutePhase, TunEstablished,
         ProxyStarting, ProxyReady, Failed, Fatal, Stopping

LEMMA ServiceInvInit == Init => ServiceInv
<1> SUFFICES ASSUME Init PROVE ServiceInv
  OBVIOUS
<1> USE FdAssumption DEF Init, Native!EngineInit, ServiceThreads, Main, Binder
<1>1. pc \in [ServiceThreads -> {"idle"}] /\ local \in [ServiceThreads -> {NoFd}]
  OBVIOUS
<1>2. active \in [ServiceThreads -> BOOLEAN] /\ kind \in [Fds -> {"free"}]
  OBVIOUS
<1>3. TypeOK
  <2>1. /\ tunnelFd \in Fds \cup {NoFd} /\ engineFd \in Fds \cup {NoFd}
        /\ posted \in Nat /\ (~disturbed => posted <= 1)
    OBVIOUS
  <2>2. /\ engine \in BOOLEAN /\ created \in BOOLEAN /\ started \in BOOLEAN
        /\ outrun \in [ServiceThreads -> BOOLEAN] /\ disturbed \in BOOLEAN
    OBVIOUS
  <2>3. QED
    BY <1>1, <1>2, <2>1, <2>2, RouteFunctions DEF TypeOK
<1>4. StartsAlone /\ Undisturbed /\ Starts /\ Stops
  BY DEF StartsAlone, Undisturbed, InStart, Starts, Stops, InStop, Undone
<1>5. Owns /\ Reports
  BY DEF Owns, Reports, Stopped, At
<1>6. QED
  BY <1>3, <1>4, <1>5 DEF ServiceInv

(* The types, given the bound on posted, which rests on who runs. *)
LEMMA ServiceTypeStep ==
    ASSUME TypeOK, ServiceStep, RecordOverlap,
           posted' \in Nat, Undisturbed' => posted' <= 1
    PROVE  TypeOK'
<1>f. NoFd \notin Fds
  BY FdAssumption
<1>r. routeState \in RouteState
  BY DEF TypeOK
<1>o. outrun' \in [ServiceThreads -> BOOLEAN] /\ disturbed' \in BOOLEAN
  BY DEF RecordOverlap, TypeOK
<1> USE DEF TypeOK, Undisturbed, ServiceThreads, Main, Binder, Goto, fieldVars,
            androidVars, nativeVars
<1>1. CASE CommandStart
  BY <1>f, <1>o, <1>1 DEF CommandStart, Command
<1>2. CASE CommandStop
  BY <1>f, <1>o, <1>2 DEF CommandStop, Command
<1>3. CASE CommandWithoutEffect
  BY <1>f, <1>o, <1>3 DEF CommandWithoutEffect, Command
<1>4. CASE StopService
  BY <1>f, <1>o, <1>4 DEF StopService, threadVars
<1>5. CASE Destroy
  BY <1>f, <1>o, <1>5 DEF Destroy
<1>6. CASE Revoke
  BY <1>f, <1>o, <1>6 DEF Revoke
<1>7. CASE StartIgnored
  BY <1>f, <1>o, <1>7 DEF StartIgnored, MayStart
<1>8. CASE StartBegins
  BY RouteFunctions, <1>r, <1>f, <1>o, <1>8 DEF StartBegins, MayStart
<1>9. CASE StartBlocked
  BY RouteFunctions, <1>r, <1>f, <1>o, <1>9 DEF StartBlocked
<1>10. CASE Establish
  <2>1. PICK f \in Fds :
           kind' = [kind EXCEPT ![f] = "tun"] /\ local' = [local EXCEPT ![Main] = f]
    BY <1>10 DEF Establish
  <2>2. /\ kind' \in [Fds -> {"free", "tun", "other"}]
        /\ local' \in [ServiceThreads -> Fds \cup {NoFd}]
    BY <2>1
  <2>3. routeState' \in RouteState
    BY <1>r, <1>10, RouteFunctions DEF Establish
  <2>4. QED
    BY <1>o, <1>10, <2>2, <2>3 DEF Establish
<1>11. CASE StartKeepsFd
  BY <1>f, <1>o, <1>11 DEF StartKeepsFd
<1>12. CASE StartsProxy
  BY RouteFunctions, <1>r, <1>f, <1>o, <1>12 DEF StartsProxy
<1>13. CASE NativeStarts
  BY <1>f, <1>o, <1>13 DEF NativeStarts, Native!EngineStart
<1>14. CASE NativeStartFails
  BY RouteFunctions, <1>r, <1>f, <1>o, <1>14 DEF NativeStartFails
<1>15. CASE StartKeepsEngine
  BY <1>f, <1>o, <1>15 DEF StartKeepsEngine
<1>16. CASE StartEnds
  BY RouteFunctions, <1>r, <1>f, <1>o, <1>16 DEF StartEnds
<1>17. CASE EngineDies
  BY <1>f, <1>o, <1>17 DEF EngineDies, Native!EngineDies, threadVars
<1>18. CASE OthersUseFds
  BY <1>f, <1>o, <1>18 DEF OthersUseFds, threadVars
<1>19. ASSUME NEW t \in ServiceThreads, StopBegins(t) PROVE TypeOK'
  BY RouteFunctions, <1>r, <1>f, <1>o, <1>19 DEF StopBegins
<1>20. ASSUME NEW t \in ServiceThreads, StopUnposts(t) PROVE TypeOK'
  BY <1>f, <1>o, <1>20 DEF StopUnposts, RemovesCallbacks
<1>21. ASSUME NEW t \in ServiceThreads, StopReadsEngine(t) PROVE TypeOK'
  BY <1>f, <1>o, <1>21 DEF StopReadsEngine, ReadsEngine
<1>22. ASSUME NEW t \in ServiceThreads, StopJoins(t) PROVE TypeOK'
  BY <1>f, <1>o, <1>22 DEF StopJoins, Native!EngineJoined, threadVars
<1>23. ASSUME NEW t \in ServiceThreads, StopDropsEngine(t) PROVE TypeOK'
  BY <1>f, <1>o, <1>23 DEF StopDropsEngine
<1>24. ASSUME NEW t \in ServiceThreads, StopReadsFd(t) PROVE TypeOK'
  BY <1>f, <1>o, <1>24 DEF StopReadsFd
<1>25. ASSUME NEW t \in ServiceThreads, StopCloses(t) PROVE TypeOK'
  BY <1>f, <1>o, <1>25 DEF StopCloses
<1>26. ASSUME NEW t \in ServiceThreads, StopForgetsFd(t) PROVE TypeOK'
  BY <1>f, <1>o, <1>26 DEF StopForgetsFd, ForgetsFd
<1>27. ASSUME NEW t \in ServiceThreads, StopEnds(t) PROVE TypeOK'
  BY RouteFunctions, <1>r, <1>f, <1>o, <1>27 DEF StopEnds
<1>28. ASSUME NEW t \in ServiceThreads, StopJoined(t) PROVE TypeOK'
  BY <1>f, <1>o, <1>28 DEF StopJoined
<1> QED
  BY <1>1, <1>2, <1>3, <1>4, <1>5, <1>6, <1>7, <1>8, <1>9, <1>10,
     <1>11, <1>12, <1>13, <1>14, <1>15, <1>16, <1>17, <1>18, <1>19,
     <1>20, <1>21, <1>22, <1>23, <1>24, <1>25, <1>26, <1>27, <1>28
     DEF ServiceStep, StartStep, StopStep
(* Only startTunnel posts, and when it does nothing is posted. *)
LEMMA PostedStep ==
    ASSUME ServiceInv, ServiceStep, RecordOverlap
    PROVE  posted' \in Nat /\ (Undisturbed' => posted' <= 1)
<1>1. posted \in Nat /\ (Undisturbed => posted <= 1) /\ (Undisturbed' => Undisturbed)
  BY DEF ServiceInv, TypeOK, Undisturbed, RecordOverlap
<1>2. CASE StartEnds
  BY <1>1, <1>2 DEF StartEnds, Goto, ServiceInv, Starts
<1>3. ASSUME NEW t \in ServiceThreads, StopUnposts(t) PROVE posted' = 0
  BY <1>3 DEF StopUnposts, RemovesCallbacks
<1>4. CASE \/ StartIgnored \/ StartBegins \/ StartBlocked
           \/ Establish \/ StartKeepsFd \/ StartsProxy
           \/ NativeStarts \/ NativeStartFails \/ StartKeepsEngine
  BY <1>1, <1>4 DEF StartIgnored, StartBegins, StartBlocked, Establish, StartKeepsFd,
         StartsProxy, NativeStarts, NativeStartFails, StartKeepsEngine, fieldVars
<1>5. ASSUME NEW t \in ServiceThreads, StopStep(t), ~StopUnposts(t)
      PROVE  posted' = posted
  BY <1>5 DEF StopStep, StopBegins, StopReadsEngine, StopJoins, StopJoined, StopDropsEngine,
         StopReadsFd, StopCloses, StopForgetsFd, StopEnds, fieldVars
<1>6. CASE \/ CommandStart \/ CommandStop \/ CommandWithoutEffect
           \/ StopService \/ Destroy \/ Revoke \/ EngineDies \/ OthersUseFds
  BY <1>1, <1>6 DEF CommandStart, CommandStop, CommandWithoutEffect, Command,
         StopService, Destroy, Revoke, EngineDies, OthersUseFds, fieldVars
<1>7. QED
  BY <1>1, <1>2, <1>3, <1>4, <1>5, <1>6 DEF ServiceStep, StartStep

-----------------------------------------------------------------------------
(* A step of a start that is alone, or of one stop or two, keeps the         *)
(* invariant; a step with which a revocation meets a start need only keep    *)
(* the types.                                                                *)
LEMMA ServiceInvStep ==
    ASSUME ServiceInv, ServiceStep, RecordOverlap
    PROVE  ServiceInv'
<1>t. TypeOK'
  BY PostedStep, ServiceTypeStep DEF ServiceInv
<1> SUFFICES ASSUME Undisturbed'
             PROVE  StartsAlone' /\ Starts' /\ Stops' /\ Owns' /\ Reports'
  BY <1>t DEF ServiceInv
<1>u. TypeOK /\ StartsAlone /\ Starts /\ Stops /\ Owns /\ Reports
  BY DEF ServiceInv, Undisturbed, RecordOverlap
<1>f. NoFd \notin Fds
  BY FdAssumption
<1> USE DEF TypeOK, Undisturbed, StartsAlone, InStart, Starts, Stops, InStop, Undone,
            Owns, Reports, RecordOverlap, ServiceThreads, Main, Binder, Goto,
            fieldVars, androidVars, nativeVars, RouteState
<1>1. CASE CommandStart
  BY <1>u, <1>f, <1>1 DEF CommandStart, Command
<1>2. CASE CommandStop
  BY <1>u, <1>f, <1>2 DEF CommandStop, Command
<1>3. CASE CommandWithoutEffect
  BY <1>u, <1>f, <1>3 DEF CommandWithoutEffect, Command
<1>4. CASE StopService
  <2>1. StartsAlone' /\ Starts' /\ Stops'
    BY <1>u, <1>f, <1>4 DEF StopService, threadVars
  <2>2. Owns'
    BY <1>u, <1>f, <1>4 DEF StopService, threadVars
  <2>3. Reports'
    BY <1>u, <1>f, <1>4 DEF StopService, threadVars
  <2>4. QED
    BY <2>1, <2>2, <2>3
<1>5. CASE Destroy
  <2>1. StartsAlone' /\ Starts'
    BY <1>u, <1>f, <1>5 DEF Destroy
  <2>5. Stops'
    BY <1>u, <1>f, <1>5 DEF Destroy
  <2>2. Owns'
    BY <1>u, <1>f, <1>5 DEF Destroy
  <2>3. Reports'
    BY <1>u, <1>f, <1>5 DEF Destroy
  <2>4. QED
    BY <2>1, <2>2, <2>3, <2>5
<1>6. CASE Revoke
  <2>1. StartsAlone'
    BY <1>u, <1>f, <1>6 DEF Revoke
  <2>5. Starts'
    BY <1>u, <1>f, <1>6 DEF Revoke
  <2>6. Stops'
    BY <1>u, <1>f, <1>6 DEF Revoke
  <2>2. Owns'
    BY <1>u, <1>f, <1>6 DEF Revoke
  <2>3. Reports'
    BY <1>u, <1>f, <1>6 DEF Revoke
  <2>4. QED
    BY <2>1, <2>2, <2>3, <2>5, <2>6
<1>7. CASE StartIgnored
  BY <1>u, <1>f, <1>7 DEF StartIgnored, MayStart
<1>8. CASE StartBegins
  BY <1>u, <1>f, <1>8 DEF StartBegins, MayStart, Starting, At
<1>9. CASE StartBlocked
  BY <1>u, <1>f, <1>9 DEF StartBlocked, Failed, Fatal
<1>10. CASE Establish
  <2>1. StartsAlone' /\ Starts' /\ Stops'
    BY <1>u, <1>f, <1>10 DEF Establish, TunEstablished
  <2>2. Owns'
    BY <1>u, <1>f, <1>10 DEF Establish, TunEstablished
  <2>3. Reports'
    BY <1>u, <1>f, <1>10 DEF Establish, TunEstablished
  <2>4. QED
    BY <2>1, <2>2, <2>3
<1>11. CASE StartKeepsFd
  BY <1>u, <1>f, <1>11 DEF StartKeepsFd
<1>12. CASE StartsProxy
  BY <1>u, <1>f, <1>12 DEF StartsProxy, ProxyStarting
<1>13. CASE NativeStarts
  BY <1>u, <1>f, <1>13 DEF NativeStarts, Native!EngineStart
<1>14. CASE NativeStartFails
  BY <1>u, <1>f, <1>14 DEF NativeStartFails, Failed, Fatal
<1>15. CASE StartKeepsEngine
  BY <1>u, <1>f, <1>15 DEF StartKeepsEngine
<1>16. CASE StartEnds
  <2>1. StartsAlone' /\ Starts' /\ Stops'
    BY <1>u, <1>f, <1>16 DEF StartEnds, ProxyReady
  <2>2. Owns'
    BY <1>u, <1>f, <1>16 DEF StartEnds, ProxyReady
  <2>3. Reports'
    BY <1>u, <1>f, <1>16 DEF StartEnds, ProxyReady
  <2>4. QED
    BY <2>1, <2>2, <2>3
<1>17. CASE EngineDies
  BY <1>u, <1>f, <1>17 DEF EngineDies, Native!EngineDies, threadVars
<1>18. CASE OthersUseFds
  BY <1>u, <1>f, <1>18 DEF OthersUseFds, threadVars
<1>19. ASSUME NEW t \in ServiceThreads, StopBegins(t)
       PROVE  StartsAlone' /\ Starts' /\ Stops' /\ Owns' /\ Reports'
  <2>1. StartsAlone' /\ Starts' /\ Stops'
    BY <1>u, <1>f, <1>19 DEF StopBegins, Stopping
  <2>2. Owns'
    BY <1>u, <1>f, <1>19 DEF StopBegins, Stopping
  <2>3. Reports'
    BY <1>u, <1>f, <1>19 DEF StopBegins, Stopping
  <2>4. QED
    BY <2>1, <2>2, <2>3
<1>20. ASSUME NEW t \in ServiceThreads, StopUnposts(t)
       PROVE  StartsAlone' /\ Starts' /\ Stops' /\ Owns' /\ Reports'
  BY <1>u, <1>f, <1>20 DEF StopUnposts, RemovesCallbacks
<1>21. ASSUME NEW t \in ServiceThreads, StopReadsEngine(t)
       PROVE  StartsAlone' /\ Starts' /\ Stops' /\ Owns' /\ Reports'
  BY <1>u, <1>f, <1>21 DEF StopReadsEngine, ReadsEngine
<1>22. ASSUME NEW t \in ServiceThreads, StopJoins(t)
       PROVE  StartsAlone' /\ Starts' /\ Stops' /\ Owns' /\ Reports'
  BY <1>u, <1>f, <1>22 DEF StopJoins, Native!EngineJoined, threadVars
<1>23. ASSUME NEW t \in ServiceThreads, StopDropsEngine(t)
       PROVE  StartsAlone' /\ Starts' /\ Stops' /\ Owns' /\ Reports'
  <2>1. StartsAlone' /\ Starts' /\ Stops'
    BY <1>u, <1>f, <1>23 DEF StopDropsEngine
  <2>2. Owns'
    BY <1>u, <1>f, <1>23 DEF StopDropsEngine
  <2>3. Reports'
    BY <1>u, <1>f, <1>23 DEF StopDropsEngine
  <2>4. QED
    BY <2>1, <2>2, <2>3
<1>24. ASSUME NEW t \in ServiceThreads, StopReadsFd(t)
       PROVE  StartsAlone' /\ Starts' /\ Stops' /\ Owns' /\ Reports'
  BY <1>u, <1>f, <1>24 DEF StopReadsFd
<1>25. ASSUME NEW t \in ServiceThreads, StopCloses(t)
       PROVE  StartsAlone' /\ Starts' /\ Stops' /\ Owns' /\ Reports'
  BY <1>u, <1>f, <1>25 DEF StopCloses
<1>26. ASSUME NEW t \in ServiceThreads, StopForgetsFd(t)
       PROVE  StartsAlone' /\ Starts' /\ Stops' /\ Owns' /\ Reports'
  BY <1>u, <1>f, <1>26 DEF StopForgetsFd, ForgetsFd
<1>27. ASSUME NEW t \in ServiceThreads, StopEnds(t)
       PROVE  StartsAlone' /\ Starts' /\ Stops' /\ Owns' /\ Reports'
  <2>1. StartsAlone' /\ Starts' /\ Stops'
    BY <1>u, <1>f, <1>27 DEF StopEnds, Stopped, At
  <2>2. Owns'
    BY <1>u, <1>f, <1>27 DEF StopEnds, Stopped, At
  <2>3. Reports'
    BY <1>u, <1>f, <1>27 DEF StopEnds, Stopped, At
  <2>4. QED
    BY <2>1, <2>2, <2>3
<1>28. ASSUME NEW t \in ServiceThreads, StopJoined(t)
       PROVE  StartsAlone' /\ Starts' /\ Stops' /\ Owns' /\ Reports'
  <2>1. StartsAlone' /\ Starts' /\ Stops'
    BY <1>u, <1>f, <1>28 DEF StopJoined, Joined
  <2>2. Owns'
    BY <1>u, <1>f, <1>28 DEF StopJoined
  <2>3. Reports'
    BY <1>u, <1>f, <1>28 DEF StopJoined
  <2>4. QED
    BY <2>1, <2>2, <2>3
<1> QED
  BY <1>1, <1>2, <1>3, <1>4, <1>5, <1>6, <1>7, <1>8, <1>9, <1>10,
     <1>11, <1>12, <1>13, <1>14, <1>15, <1>16, <1>17, <1>18, <1>19,
     <1>20, <1>21, <1>22, <1>23, <1>24, <1>25, <1>26, <1>27, <1>28
     DEF ServiceStep, StartStep, StopStep

(* The monitor reports what it finds, and changes nothing else.              *)
LEMMA MonitorInvStep == ServiceInv /\ MonitorRuns => ServiceInv'
<1> SUFFICES ASSUME ServiceInv, MonitorRuns PROVE ServiceInv'
  OBVIOUS
<1>1. posted' \in Nat /\ posted' <= posted
  BY DEF MonitorRuns, Reposts, ServiceInv, TypeOK
<1>2. routeState' \in RouteState
  BY RouteFunctions DEF MonitorRuns, ServiceInv, TypeOK
<1>3. outrun' = outrun /\ disturbed' \in BOOLEAN /\ (Undisturbed' => Undisturbed)
  BY DEF MonitorRuns, Undisturbed, ServiceInv, TypeOK
<1>4. TypeOK'
  BY <1>1, <1>2, <1>3 DEF MonitorRuns, ServiceInv, TypeOK, Undisturbed, androidVars,
         nativeVars, threadVars
<1>5. ASSUME Undisturbed' PROVE StartsAlone' /\ Starts' /\ Stops' /\ Owns' /\ Reports'
  BY <1>3, <1>5, FdAssumption
     DEF MonitorRuns, Reposts, Failed, Fatal, ServiceInv, TypeOK, Undisturbed, StartsAlone,
         Starts, Stops, InStop, Undone, Owns, Reports, ServiceThreads, Main, Binder,
         androidVars, nativeVars, threadVars, RouteState
<1>6. QED
  BY <1>4, <1>5 DEF ServiceInv

LEMMA ServiceInvariant == Spec => []ServiceInv
<1>1. ServiceInv /\ [Next]_vars => ServiceInv'
  <2>1. ServiceInv /\ UNCHANGED vars => ServiceInv'
    BY DEF vars, fieldVars, androidVars, nativeVars, threadVars, historyVars, ServiceInv, TypeOK,
           Undisturbed, StartsAlone, Starts, Stops, Owns, Reports
  <2>2. QED
    BY <2>1, ServiceInvStep, MonitorInvStep DEF Next
<1>2. QED
  BY <1>1, ServiceInvInit, PTL DEF Spec

-----------------------------------------------------------------------------
(* The fields, the threads' places and the descriptor table keep their       *)
(* types, and one engineMonitor callback at most is posted.                  *)
THEOREM ServiceTypes == Spec => []TypeOK
  BY ServiceInvariant, PTL DEF ServiceInv

(* As long as tunnelFd is set, DarkMedVpnService.state is fail closed.       *)
THEOREM RouteFailsClosed == Spec => []TunRemainsFailClosed
<1>1. ServiceInv => TunRemainsFailClosed
  BY DEF ServiceInv, Reports, TunRemainsFailClosed, Undisturbed, IsFailClosed, IsProtected
<1>2. QED
  BY <1>1, ServiceInvariant, PTL

(* stopTunnel closes the descriptor only once the engine has been joined.    *)
THEOREM EngineKeepsItsTun == Spec => []EngineOwnsTun
<1>1. ServiceInv => EngineOwnsTun
  BY DEF ServiceInv, Owns, Stops, InStop, Undone, EngineOwnsTun, Undisturbed
<1>2. QED
  BY <1>1, ServiceInvariant, PTL

(* What stopTunnel closes is the descriptor that establish gave, unless two  *)
(* stops meet and the other has closed it meanwhile.                         *)
THEOREM NothingElseIsClosed == Spec => []ClosesOnlyTheTun
<1>1. ServiceInv => ClosesOnlyTheTun
  BY DEF ServiceInv, Stops, ClosesOnlyTheTun
<1>2. QED
  BY <1>1, ServiceInvariant, PTL

(* engineMonitor is posted whenever the service rests in DEGRADED.           *)
THEOREM MonitorWatches == Spec => []EngineIsWatched
<1>1. ServiceInv => EngineIsWatched
  BY DEF ServiceInv, Reports, EngineIsWatched, AtRest, Undisturbed
<1>2. QED
  BY <1>1, ServiceInvariant, PTL

(* A service at rest in STOPPED can be started again.                        *)
THEOREM StopIsComplete == Spec => []StoppedMeansStopped
<1>1. ServiceInv => StoppedMeansStopped
  BY DEF ServiceInv, Reports, StoppedMeansStopped, AtRest, Undisturbed
<1>2. QED
  BY <1>1, ServiceInvariant, PTL

-----------------------------------------------------------------------------
(* Each step is a step of the contract, or one with which a revocation meets *)
(* a start or the monitor.                                                   *)
LEMMA RouteStep ==
    ServiceInv /\ [Next]_vars
        => [Route!RouteNext \/ disturbed']_<<routeState.phase, engineState>>
<1> SUFFICES ASSUME ServiceInv, [Next]_vars, ~disturbed'
             PROVE  \/ Route!RouteNext
                    \/ UNCHANGED <<routeState.phase, engineState>>
  OBVIOUS
<1>1. CASE UNCHANGED vars
  BY <1>1 DEF vars, fieldVars, nativeVars
<1>2. CASE MonitorRuns
  <2>1. Undisturbed /\ TypeOK /\ StartsAlone /\ Owns /\ Reports /\ Stops
    BY <1>2 DEF MonitorRuns, ServiceInv, Undisturbed, TypeOK
  <2>2. pc[Main] = "idle" /\ pc[Binder] = "idle"
    BY <1>2, <2>1 DEF MonitorRuns, TypeOK, ServiceThreads, Main, Binder
  <2>3. engine /\ engineState # "off"
    BY <1>2, <2>1, <2>2 DEF MonitorRuns, Owns, ServiceThreads
  <2>4. routeState.phase \in {"DEGRADED", "FAILED"}
    BY <2>1, <2>2, <2>3 DEF Reports, ServiceThreads
  <2>5. CASE engineState = "dead"
    BY <1>2, <2>1, <2>3, <2>4, <2>5
       DEF MonitorRuns, Failed, Fatal, nativeVars, TypeOK, RouteState,
           Route!RouteNext, Route!RouteFails, Route!Report
  <2>6. CASE engineState = "on"
    BY <1>2, <2>6 DEF MonitorRuns, nativeVars
  <2>7. QED
    BY <2>1, <2>3, <2>5, <2>6 DEF TypeOK
<1>3. ASSUME ServiceStep, RecordOverlap
      PROVE  \/ Route!RouteNext
             \/ UNCHANGED <<routeState.phase, engineState>>
  <2>1. TypeOK /\ StartsAlone /\ Starts /\ Stops /\ Owns /\ Reports
    BY <1>3 DEF ServiceInv, Undisturbed, RecordOverlap
  <2> USE DEF Goto, fieldVars, nativeVars
  <2>2. CASE \/ CommandStart \/ CommandStop \/ CommandWithoutEffect
             \/ StopService \/ Destroy \/ Revoke \/ OthersUseFds
             \/ StartIgnored \/ StartKeepsFd \/ StartKeepsEngine
    BY <2>2 DEF CommandStart, CommandStop, CommandWithoutEffect, Command, StopService,
           Destroy, Revoke, OthersUseFds, StartIgnored, StartKeepsFd, StartKeepsEngine
  <2>3. ASSUME NEW t \in ServiceThreads,
               \/ StopUnposts(t) \/ StopReadsEngine(t) \/ StopJoined(t) \/ StopDropsEngine(t)
               \/ StopReadsFd(t) \/ StopCloses(t) \/ StopForgetsFd(t)
        PROVE  UNCHANGED <<routeState.phase, engineState>>
    BY <2>3 DEF StopUnposts, StopReadsEngine, StopJoined, StopDropsEngine, StopReadsFd,
                StopCloses, StopForgetsFd
  <2>4. CASE EngineDies
    BY <2>4 DEF EngineDies, Native!EngineDies, Route!RouteNext, Route!EngineMoves,
                Route!EngineDies
  <2>5. CASE NativeStarts
    BY <2>1, <2>5 DEF NativeStarts, Native!EngineStart, Reports, Route!RouteNext,
                      Route!EngineMoves, Route!EngineStart
  <2>6. ASSUME NEW t \in ServiceThreads, StopJoins(t) PROVE Route!RouteNext
    BY <2>1, <2>6 DEF StopJoins, Native!EngineJoined, Stops, InStop, Reports, Route!RouteNext,
                      Route!EngineMoves, Route!EngineJoined
  <2>7. CASE StartBegins
    <3>1. routeState.phase \in {"STOPPED", "FAILED"}
      BY <2>1, <2>7 DEF StartBegins, MayStart, Reports, Owns, StartsAlone, InStart, TypeOK,
                        ServiceThreads, Main, Binder
    <3>2. QED
      BY <2>7, <3>1 DEF StartBegins, Starting, At, Route!RouteNext,
                        Route!RouteStarts, Route!Report
  <2>8. CASE StartBlocked \/ NativeStartFails
    BY <2>1, <2>8 DEF StartBlocked, NativeStartFails, Failed, Fatal, Reports, TypeOK,
                      RouteState, Route!RouteNext, Route!RouteFails, Route!Report
  <2>9. CASE Establish \/ StartsProxy
    BY <2>1, <2>9 DEF Establish, StartsProxy, TunEstablished, ProxyStarting, Reports,
                      TypeOK, RouteState, Route!RouteNext, Route!TunStep, Route!Report
  <2>10. CASE StartEnds
    BY <2>1, <2>10 DEF StartEnds, ProxyReady, Reports, Starts, TypeOK, RouteState,
                       Route!RouteNext, Route!RouteDegraded, Route!Report
  <2>11. ASSUME NEW t \in ServiceThreads, StopBegins(t) PROVE Route!RouteNext
    BY <2>1, <2>11 DEF StopBegins, Stopping, TypeOK, RouteState, Route!RouteNext,
                       Route!RouteStops
  <2>12. ASSUME NEW t \in ServiceThreads, StopEnds(t)
         PROVE  Route!RouteNext \/ UNCHANGED <<routeState.phase, engineState>>
    <3>1. engineState = "off" /\ routeState.phase \in {"STOPPING", "STOPPED"}
      BY <2>1, <2>12 DEF StopEnds, Stops, InStop, Undone
    <3>2. routeState'.phase = "STOPPED" /\ UNCHANGED engineState
      BY <2>12 DEF StopEnds, Stopped, At
    <3> QED
      BY <3>1, <3>2 DEF Route!RouteNext, Route!RouteStops, Route!Report
  <2>13. QED
    BY <1>3, <2>2, <2>3, <2>4, <2>5, <2>6, <2>7, <2>8, <2>9, <2>10, <2>11, <2>12
       DEF ServiceStep, StartStep, StopStep
<1>4. QED
  BY <1>1, <1>2, <1>3 DEF Next

(* The service reports the phases in the order of the state contract, and    *)
(* starts and joins the worker in the phases that say so.                    *)
THEOREM ServiceFollowsContract == Spec => RouteFollowsContract
<1>1. Init => Route!RouteInit
  BY DEF Init, Stopped, At, Native!EngineInit, Route!RouteInit, Route!EngineInit
<1>2. QED
  BY <1>1, ServiceInvariant, RouteStep, PTL DEF Spec, RouteFollowsContract
=============================================================================
