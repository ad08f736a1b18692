------------------------ MODULE NetworkOrchestrator ------------------------
(***************************************************************************)
(* DarkMedNetworkOrchestrator.kt and TorForegroundService.kt: Tor first,   *)
(* then the VPN, over intents and broadcasts that Android delivers later.  *)
(*                                                                         *)
(* All the code here runs on the main thread.  What two services still     *)
(* have to do there waits in one queue, looper; broadcasts come at any     *)
(* time and in any order.  Of DarkMedVpnService this module keeps whether  *)
(* it holds a TUN descriptor.  Android and TorService (another project's   *)
(* library) are modelled from how this code uses them.                     *)
(***************************************************************************)
EXTENDS Naturals, Sequences

CONSTANT MaxLooper   \* bound: broadcasts, revocations and calls of the user
                     \* come only while looper is shorter

ASSUME MaxLooperAssumption == MaxLooper \in Nat \ {0}

Broadcasts == {"READY", "READY without port", "ERROR", "STOPPED"}

Work == {"start Tor", "stop Tor", "destroy Tor", "start VPN", "destroy VPN"}

VARIABLES receiver,    \* is the field receiver set, and registered?
          mail,        \* broadcasts on their way to that receiver
          looper,      \* intents and onDestroy calls the main thread has to run
          torWanted,   \* Android: TorForegroundService is in the started state
          torBound,    \* the field torBound
          connection,  \* Android: torConnection is "none", "waiting", "connected"
          torRuns,     \* Android: TorService is in the started state
          vpnWanted,   \* Android: DarkMedVpnService is in the started state
          vpnUp,       \* DarkMedVpnService: tunnelFd is set
          stopped      \* the last thing asked for was a stop (history)

routeVars == <<receiver, mail, stopped>>
torVars == <<torBound, connection, torRuns>>
vars == <<routeVars, looper, torWanted, torVars, vpnWanted, vpnUp>>

Init ==
    /\ receiver = FALSE
    /\ mail = {}
    /\ looper = <<>>
    /\ torWanted = FALSE
    /\ torBound = FALSE
    /\ connection = "none"
    /\ torRuns = FALSE
    /\ vpnWanted = FALSE
    /\ vpnUp = FALSE
    /\ stopped = FALSE

(* A broadcast reaches the receiver that is registered when it is sent. *)
Send(b) == mail' = IF receiver THEN mail \cup {b} ELSE mail

(* Android drops what is on its way to a receiver that is unregistered. *)
ForgetsReceiver == mail' = mail /\ receiver' = FALSE   \* mutation of Unregister
Unregister == mail' = {} /\ receiver' = FALSE

HasRoom == Len(looper) < MaxLooper

Ahead(work) == {i \in DOMAIN looper : looper[i] = work}

(* stopService on a service that is started has it destroyed.  Android keeps *)
(* the VPN service bound while its TUN is up: then it may live on.           *)
DestroysTor == IF torWanted THEN <<"destroy Tor">> ELSE <<>>

VpnIsBound == vpnUp /\ Ahead("destroy VPN") = {}
DestroysVpn == {s \in {<<"destroy VPN">>, <<>>} :
                   s = <<>> => ~vpnWanted \/ VpnIsBound}

-----------------------------------------------------------------------------
(* DarkMedNetworkOrchestrator *)

(* startTorThenVpn, with the VPN consent given.  startForegroundService may  *)
(* throw; the receiver stays registered all the same.                        *)
StartTorThenVpn ==
    /\ ~receiver
    /\ HasRoom
    /\ receiver' = TRUE
    /\ stopped' = FALSE
    /\ \/ looper' = Append(looper, "start Tor") /\ torWanted' = TRUE
       \/ UNCHANGED <<looper, torWanted>>
    /\ UNCHANGED <<mail, torVars, vpnWanted, vpnUp>>

IgnoresVpn == {<<>>}                     \* mutation of StopsVpn
StopsVpn == DestroysVpn

StopRoute ==
    /\ HasRoom
    /\ \E s \in StopsVpn : looper' = looper \o s \o <<"stop Tor">>
    /\ vpnWanted' = FALSE
    /\ torWanted' = TRUE
    /\ stopped' = TRUE
    /\ Unregister
    /\ UNCHANGED <<torVars, vpnUp>>

(* The error broadcast that stopWithError sends goes to the receiver that it *)
(* unregisters next, so that nobody gets it.                                 *)
StopWithError ==
    /\ \E s \in DestroysVpn : looper' = looper \o s \o DestroysTor
    /\ vpnWanted' = FALSE
    /\ torWanted' = FALSE
    /\ stopped' = TRUE
    /\ Unregister
    /\ UNCHANGED <<torVars, vpnUp>>

(* A READY with a valid port, and the configuration is written. *)
ReceiveReady ==
    /\ "READY" \in mail
    /\ mail' = mail \ {"READY"}
    /\ looper' = Append(looper, "start VPN")
    /\ vpnWanted' = TRUE
    /\ UNCHANGED <<receiver, stopped, torWanted, torVars, vpnUp>>

(* An ERROR, a READY without a valid port, or no configuration. *)
ReceiveError ==
    /\ mail \cap {"READY", "READY without port", "ERROR"} # {}
    /\ StopWithError

ReceiveStopped ==
    /\ "STOPPED" \in mail
    /\ Unregister
    /\ UNCHANGED <<stopped, looper, torWanted, torVars, vpnWanted, vpnUp>>

-----------------------------------------------------------------------------
(* TorForegroundService *)

KeepsTor == torRuns                     \* mutation of StopsTor
StopsTor == FALSE

StopTor ==
    /\ connection' = IF torBound THEN "none" ELSE connection
    /\ torBound' = FALSE
    /\ torRuns' = StopsTor

(* The main thread takes up the next piece of work and leaves more, if any,  *)
(* at the end of the queue.                                                  *)
Handles(work, more) ==
    /\ looper # <<>> /\ Head(looper) = work
    /\ looper' = Tail(looper) \o more

(* onStartCommand without an action: the torrc is written and TorService     *)
(* started and bound.                                                        *)
TorStarts ==
    /\ Handles("start Tor", <<>>)
    /\ torRuns' = TRUE
    /\ \/ /\ torBound' = TRUE
          /\ connection' = IF connection = "none" THEN "waiting" ELSE connection
       \/ torBound' = FALSE /\ UNCHANGED connection
    /\ UNCHANGED <<routeVars, torWanted, vpnWanted, vpnUp>>

TorConfigFails ==
    /\ Handles("start Tor", DestroysTor)
    /\ torWanted' = FALSE
    /\ Send("ERROR")
    /\ UNCHANGED <<receiver, stopped, torVars, vpnWanted, vpnUp>>

TorStops ==
    /\ Handles("stop Tor", DestroysTor)
    /\ torWanted' = FALSE
    /\ StopTor
    /\ UNCHANGED <<routeVars, vpnWanted, vpnUp>>

(* onDestroy.  A binding that stopTor leaves, because torBound was lowered   *)
(* by a disconnection, goes with the service.                                *)
TorDestroyed ==
    /\ Handles("destroy Tor", <<>>)
    /\ connection' = "none"
    /\ torBound' = FALSE
    /\ torRuns' = StopsTor
    /\ UNCHANGED <<routeVars, torWanted, vpnWanted, vpnUp>>

(* onServiceConnected: the port may not be known yet. *)
TorConnected ==
    /\ connection = "waiting"
    /\ connection' = "connected"
    /\ torBound' = TRUE
    /\ \/ Send("READY")
       \/ Send("READY without port")
    /\ UNCHANGED <<receiver, stopped, looper, torWanted, torRuns, vpnWanted, vpnUp>>

(* A binder of another kind is ignored. *)
TorConnectedInVain ==
    /\ connection = "waiting"
    /\ connection' = "connected"
    /\ UNCHANGED <<routeVars, looper, torWanted, torBound, torRuns, vpnWanted, vpnUp>>

(* onServiceDisconnected; Android connects again once TorService is back. *)
TorDisconnected ==
    /\ connection = "connected"
    /\ connection' = "waiting"
    /\ torBound' = FALSE
    /\ Send("STOPPED")
    /\ UNCHANGED <<receiver, stopped, looper, torWanted, torRuns, vpnWanted, vpnUp>>

-----------------------------------------------------------------------------
(* DarkMedVpnService, as far as the orchestrator depends on it. *)

(* startTunnel is ignored while there is a descriptor, and may be blocked. *)
VpnStarts ==
    /\ Handles("start VPN", <<>>)
    /\ vpnUp' \in {vpnUp, TRUE}
    /\ UNCHANGED <<routeVars, torWanted, torVars, vpnWanted>>

VpnDestroyed ==
    /\ Handles("destroy VPN", <<>>)
    /\ vpnUp' = FALSE
    /\ UNCHANGED <<routeVars, torWanted, torVars, vpnWanted>>

(* onRevoke ends with stopSelf, and Android no longer binds the service. *)
VpnRevoked ==
    /\ HasRoom
    /\ vpnUp
    /\ vpnUp' = FALSE
    /\ vpnWanted' = FALSE
    /\ looper' = Append(looper, "destroy VPN")
    /\ UNCHANGED <<routeVars, torWanted, torVars>>

MainThread ==
    \/ TorStarts \/ TorConfigFails \/ TorStops \/ TorDestroyed
    \/ VpnStarts \/ VpnDestroyed

Deliver ==
    /\ HasRoom
    /\ ReceiveReady \/ ReceiveError \/ ReceiveStopped

Next ==
    \/ StartTorThenVpn \/ StopRoute \/ Deliver
    \/ MainThread
    \/ TorConnected \/ TorConnectedInVain \/ TorDisconnected
    \/ VpnRevoked

(* The main thread runs what is posted to it. *)
Spec == Init /\ [][Next]_vars
FairSpec == Spec /\ WF_vars(MainThread)

-----------------------------------------------------------------------------
TypeOK ==
    /\ receiver \in BOOLEAN
    /\ mail \subseteq Broadcasts
    /\ looper \in Seq(Work)
    /\ torWanted \in BOOLEAN
    /\ torBound \in BOOLEAN /\ (torBound => connection # "none")
    /\ connection \in {"none", "waiting", "connected"}
    /\ torRuns \in BOOLEAN
    /\ vpnWanted \in BOOLEAN
    /\ vpnUp \in BOOLEAN
    /\ stopped \in BOOLEAN

(* Once the route has been stopped, by the user or for an error, nothing     *)
(* that Tor reports late starts the VPN any more.                            *)
NoVpnAfterStop ==
    [][stopped' => \A i \in DOMAIN looper' :
                      looper'[i] = "start VPN" => Ahead("start VPN") # {}]_vars

(* A start of the VPN that is still to be run when the route is stopped is   *)
(* followed by the destruction of the service, unless it finds the VPN up.   *)
StopOvertakesStart ==
    stopped => \A i \in Ahead("start VPN") :
                  vpnUp \/ \E j \in Ahead("destroy VPN") : i < j

(* Whoever has stopped the route, Tor included, nothing of Tor is left once  *)
(* the main thread has done its work.                                        *)
StopStopsTor ==
    stopped /\ looper = <<>> =>
        ~torWanted /\ ~torRuns /\ connection = "none"

(* And Tor does stop, unless the route is started again. *)
StopTakesEffect ==
    stopped ~> ~stopped \/ (~torRuns /\ connection = "none")
=============================================================================
