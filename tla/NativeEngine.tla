---------------------------- MODULE NativeEngine ----------------------------
(***************************************************************************)
(* What the native engine promises the VPN service through HevTun2Socks:   *)
(* start succeeds only when there is no engine thread, a thread that has   *)
(* been started may die by itself, and stop leaves no thread behind.  A    *)
(* thread that has died must still be stopped before the next start.       *)
(***************************************************************************)
VARIABLE engineState   \* "off", "on", or "dead" (exited but not joined)

EngineInit == engineState = "off"

(* startNative returns true. *)
EngineStart == engineState = "off" /\ engineState' = "on"

(* The worker returns from the tunnel; isRunning becomes false. *)
EngineDies == engineState = "on" /\ engineState' = "dead"

(* stopNative joins the worker, which has returned by then. *)
EngineJoined == engineState = "dead" /\ engineState' = "off"

EngineNext == EngineStart \/ EngineDies \/ EngineJoined

EngineSpec == EngineInit /\ [][EngineNext]_engineState
=============================================================================
