-------------------------- MODULE ProtectedRoute ---------------------------
(***************************************************************************)
(* The state contract of the protected route (state_machine_matrix.md), as *)
(* far as the VPN service reports it, together with the native engine it   *)
(* reports about: which phase may follow which, and in which phases a      *)
(* worker may be started and joined.                                       *)
(***************************************************************************)
EXTENDS NativeEngine

VARIABLE phase

RouteInit == EngineInit /\ phase = "STOPPED"

Report(from, to) ==
    /\ phase \in from
    /\ phase' = to
    /\ UNCHANGED engineState

(* A start, also the reconnect that the contract grants a route that has     *)
(* failed or is degraded.                                                    *)
RouteStarts == Report({"STOPPED", "FAILED", "DEGRADED"}, "STARTING")

TunStep ==
    \/ Report({"STARTING"}, "TUN_ESTABLISHED")
    \/ Report({"TUN_ESTABLISHED"}, "TUN2SOCKS_STARTING")

(* A worker runs before the route is reported DEGRADED; READY is out of     *)
(* reach while nobody verifies the upstream.                                *)
RouteDegraded ==
    /\ engineState # "off"
    /\ Report({"TUN2SOCKS_STARTING"}, "DEGRADED")

RouteFails ==
    \/ Report({"STARTING", "TUN2SOCKS_STARTING"}, "FAILED")
    \/ engineState = "dead" /\ Report({"DEGRADED"}, "FAILED")

RouteStops ==
    \/ phase' = "STOPPING" /\ UNCHANGED engineState
    \/ engineState = "off" /\ Report({"STOPPING"}, "STOPPED")

EngineMoves ==
    /\ \/ phase = "TUN2SOCKS_STARTING" /\ EngineStart
       \/ EngineDies
       \/ phase = "STOPPING" /\ EngineJoined
    /\ UNCHANGED phase

RouteNext ==
    \/ RouteStarts \/ TunStep \/ RouteDegraded \/ RouteFails \/ RouteStops
    \/ EngineMoves

RouteSpec == RouteInit /\ [][RouteNext]_<<phase, engineState>>
=============================================================================
