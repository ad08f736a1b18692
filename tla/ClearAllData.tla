---------------------------- MODULE ClearAllData ----------------------------
(***************************************************************************)
(* Clear All Data (MainActivity.kt's SettingsScreen, ClearAllDataFlow.kt,  *)
(* ClearAllDataCoordinator.kt, DataWiper.kt) while the network orchestrator*)
(* and its services are at work.  The coordinator runs on a background     *)
(* thread: it asks Android to stop the services and goes on to delete and  *)
(* to verify, whatever the main thread has still to do.  Leaving the       *)
(* screen drops its state and the result, not the wipe, so that a second   *)
(* one may begin while the first is under way.                             *)
(*                                                                         *)
(* Of the data this module keeps whether there is any; what writes some is *)
(* the configuration of Tor and of the tunnel.  The broadcast that closes  *)
(* the browser sessions and the service of WireGuard are left out.         *)
(***************************************************************************)
EXTENDS NetworkOrchestrator

CONSTANT Jobs   \* calls of wipeAfterConfirmation under way at a time

VARIABLES phase,     \* wipeState.phase
          awaited,   \* the job whose result the screen waits for, if any
          job,       \* how far each call has come
          data,      \* is there any data in the directories of the app?
          restarted  \* the jobs since whose confirmation the user has started the
                     \* route (history)

wipeVars == <<phase, awaited, job, data, restarted>>
allVars == <<vars, wipeVars>>

WipeInit ==
    /\ Init
    /\ phase = "Idle"
    /\ awaited = {}
    /\ job = [j \in Jobs |-> "none"]
    /\ data = TRUE
    /\ restarted = {}

-----------------------------------------------------------------------------
(* The screen and ClearAllDataReducer. *)
Asks ==
    /\ phase \in {"Idle", "Completed", "Failed"}
    /\ phase' = "Confirmation"
    /\ UNCHANGED <<vars, awaited, job, data, restarted>>

Cancels ==
    /\ phase = "Confirmation"
    /\ phase' = "Idle"
    /\ UNCHANGED <<vars, awaited, job, data, restarted>>

Confirms(j) ==
    /\ phase = "Confirmation"
    /\ phase' = "Wiping"
    /\ job[j] = "none"
    /\ job' = [job EXCEPT ![j] = "stop Tor"]
    /\ awaited' = {j}
    /\ restarted' = restarted \ {j}
    /\ UNCHANGED <<vars, data>>

(* The screen is left: what it remembers and the coroutine's scope are gone. *)
Leaves ==
    /\ phase # "Idle"
    /\ phase' = "Idle"
    /\ awaited' = {}
    /\ UNCHANGED <<vars, job, data, restarted>>

Shows(j) ==
    /\ job[j] \in {"Completed", "Failed"}
    /\ job' = [job EXCEPT ![j] = "none"]
    /\ phase' = IF j \in awaited THEN job[j] ELSE phase
    /\ awaited' = awaited \ {j}
    /\ UNCHANGED <<vars, data, restarted>>

-----------------------------------------------------------------------------
(* The background thread. *)
Reaches(j, from, to) == job[j] = from /\ job' = [job EXCEPT ![j] = to]

SparesTor == <<>>                        \* mutation of StopsTorService
StopsTorService == DestroysTor

WipeStopsTorService(j) ==
    /\ HasRoom
    /\ Reaches(j, "stop Tor", "stop VPN")
    /\ looper' = looper \o StopsTorService
    /\ torWanted' = FALSE
    /\ UNCHANGED <<routeVars, torVars, vpnWanted, vpnUp, phase, awaited, data, restarted>>

WipeStopsVpnService(j) ==
    /\ HasRoom
    /\ Reaches(j, "stop VPN", "delete")
    /\ \E s \in DestroysVpn : looper' = looper \o s
    /\ vpnWanted' = FALSE
    /\ UNCHANGED <<routeVars, torWanted, torVars, vpnUp, phase, awaited, data, restarted>>

(* wipeAll deletes what it finds, lists the directories again, and tells the *)
(* main thread.  What cannot be deleted makes the wipe fail.                 *)
WipeDeletes(j) ==
    /\ \/ Reaches(j, "delete", "verify") /\ data' = FALSE
       \/ Reaches(j, "delete", "Failed") /\ data' \in {data, FALSE}
    /\ UNCHANGED <<vars, phase, awaited, restarted>>

WipeVerifies(j) ==
    /\ Reaches(j, "verify", IF data THEN "Failed" ELSE "Completed")
    /\ UNCHANGED <<vars, phase, awaited, data, restarted>>

-----------------------------------------------------------------------------
(* The orchestrator: TorConfigWriter and Tun2SocksConfigWriter write, or     *)
(* fail before, in the middle or after.                                      *)
Writes == TorStarts \/ (HasRoom /\ ReceiveReady)
MayWrite == TorConfigFails \/ (HasRoom /\ ReceiveError)

WritesNot ==
    \/ StopRoute \/ (HasRoom /\ ReceiveStopped)
    \/ TorStops \/ TorDestroyed \/ VpnStarts \/ VpnDestroyed
    \/ TorConnected \/ TorConnectedInVain \/ TorDisconnected \/ VpnRevoked

RouteStep ==
    /\ \/ StartTorThenVpn /\ restarted' = Jobs /\ UNCHANGED data
       \/ Writes /\ data' = TRUE /\ UNCHANGED restarted
       \/ MayWrite /\ data' \in {data, TRUE} /\ UNCHANGED restarted
       \/ WritesNot /\ UNCHANGED <<data, restarted>>
    /\ UNCHANGED <<phase, awaited, job>>

WipeNext ==
    \/ Asks \/ Cancels \/ Leaves
    \/ \E j \in Jobs :
          \/ Confirms(j) \/ Shows(j)
          \/ WipeStopsTorService(j) \/ WipeStopsVpnService(j)
          \/ WipeDeletes(j) \/ WipeVerifies(j)
    \/ RouteStep

WipeSpec == WipeInit /\ [][WipeNext]_allVars
FairWipeSpec == WipeSpec /\ WF_vars(MainThread)

-----------------------------------------------------------------------------
WipeTypeOK ==
    /\ TypeOK
    /\ phase \in {"Idle", "Confirmation", "Wiping", "Completed", "Failed"}
    /\ awaited \in SUBSET Jobs
    /\ job \in [Jobs -> {"none", "stop Tor", "stop VPN", "delete", "verify",
                         "Completed", "Failed"}]
    /\ data \in BOOLEAN /\ restarted \in SUBSET Jobs

(* A wipe that is past its first step has seen to it that nothing of Tor is  *)
(* left once the main thread has done its work, unless the user starts the   *)
(* route meanwhile; neither a start or a stop that was already queued brings *)
(* it back, nor a stop of the route that comes meanwhile.                    *)
WipeStopsTor ==
    looper = <<>> /\ (\E j \in Jobs \ restarted : job[j] \in {"stop VPN", "delete", "verify"}) =>
        ~torWanted /\ ~torRuns /\ connection = "none"

(* values-en/strings.xml on a wipe that has succeeded: "Completed: local     *)
(* data wipe verified".  But the services were only asked to stop, and the   *)
(* orchestrator was not asked at all: a start of Tor that is still queued    *)
(* and a READY that comes late write their configurations afterwards.        *)
WipeMeansClean == phase = "Completed" /\ restarted # Jobs => ~data
=============================================================================
