--------------------------- MODULE MCTunnelEngine ---------------------------
(* Two threads of the app (the main thread and the binder thread that        *)
(* delivers onRevoke), one TCP and one UDP session.                          *)
EXTENDS TunnelEngine

CONSTANTS ui, binder, tcp1, udp1

MCThreads == {ui, binder}
MCSessions == {tcp1, udp1}
=============================================================================
