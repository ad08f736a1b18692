------------------------ MODULE ProtectedRouteState -------------------------
(***************************************************************************)
(* The route state of ProtectedRouteState.kt: an immutable record and the  *)
(* functions of ProtectedRouteStateMachine that derive the next one.  The  *)
(* text of fatalReason is abstracted to whether there is one.              *)
(***************************************************************************)

ProtectedRoutePhase ==
    {"STOPPED", "STARTING", "TUN_ESTABLISHED", "TOR_STARTING", "TOR_READY",
     "TUN2SOCKS_STARTING", "PROXY_READY", "PROTECTED", "READY", "DEGRADED",
     "STOPPING", "FAILED", "KILLED"}

RouteState ==
    [phase : ProtectedRoutePhase, tunEstablished : BOOLEAN, torReady : BOOLEAN,
     proxyReady : BOOLEAN, upstreamProtected : BOOLEAN, fatalReason : BOOLEAN]

At(phase) ==
    [phase |-> phase, tunEstablished |-> FALSE, torReady |-> FALSE,
     proxyReady |-> FALSE, upstreamProtected |-> FALSE, fatalReason |-> FALSE]

IsProtected(s) ==
    /\ s.phase = "READY"
    /\ s.tunEstablished /\ s.torReady /\ s.proxyReady /\ s.upstreamProtected
    /\ ~s.fatalReason

IsFailClosed(s) ==
    \/ s.phase \in {"DEGRADED", "FAILED", "KILLED", "STOPPING"}
    \/ s.tunEstablished /\ ~IsProtected(s)

Stopped == At("STOPPED")
Starting == At("STARTING")

TorStarting(s) == [s EXCEPT !.phase = "TOR_STARTING", !.fatalReason = FALSE]

TorReady(s) ==
    [s EXCEPT !.phase = "TOR_READY", !.torReady = TRUE, !.fatalReason = FALSE]

ForgetsTun(s) ==                          \* mutation of TunEstablished
    [s EXCEPT !.phase = "TUN_ESTABLISHED", !.fatalReason = FALSE]
TunEstablished(s) ==
    [s EXCEPT !.phase = "TUN_ESTABLISHED", !.tunEstablished = TRUE,
              !.fatalReason = FALSE]

ProxyStarting(s) ==
    [s EXCEPT !.phase = "TUN2SOCKS_STARTING", !.fatalReason = FALSE]

ReadyUnverified(s, protected) ==           \* mutation of ProxyReady
    [s EXCEPT !.phase = "READY", !.proxyReady = TRUE,
              !.upstreamProtected = protected, !.fatalReason = ~protected]
ProxyReady(s, protected) ==
    [s EXCEPT !.phase = IF protected THEN "READY" ELSE "DEGRADED",
              !.proxyReady = TRUE,
              !.upstreamProtected = protected,
              !.fatalReason = ~protected]

Fatal(s, phase) ==
    [s EXCEPT !.phase = phase, !.fatalReason = TRUE, !.torReady = FALSE,
              !.proxyReady = FALSE, !.upstreamProtected = FALSE]

Failed(s) == Fatal(s, "FAILED")
Killed(s) == Fatal(s, "KILLED")

Stopping(s) == [s EXCEPT !.phase = "STOPPING", !.fatalReason = FALSE]
=============================================================================
