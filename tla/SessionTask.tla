---------------------------- MODULE SessionTask ----------------------------
(***************************************************************************)
(* What TCP and UDP sessions have in common: the task that runs            *)
(* hev_socks5_session_run, its time-out, and the ways it sleeps, is woken  *)
(* and is told to end.                                                     *)
(*                                                                         *)
(* Tasks are cooperative and no task yields while it holds the tunnel's    *)
(* mutex, so that everything a session's task does between two yields is   *)
(* undisturbed by the lwIP callbacks: a stretch that is cut into several   *)
(* actions keeps state = "running" between them, and the callbacks wait.   *)
(***************************************************************************)

VARIABLES
    spc,        \* how far hev_socks5_session_run has come
    state,      \* "ready" to run, "asleep" in hev_task_sleep, "woken" from it,
                \* or "running" in the middle of a stretch
    timeout     \* self->timeout

taskVars == <<spc, state, timeout>>

States == {"ready", "asleep", "woken", "running"}

TaskInit == spc = "new" /\ state = "ready" /\ timeout = "unset"

(* hev_socks5_set_timeout: a timeout of zero is final. *)
SetAnyTimeout(t) == t                       \* mutation of SetTimeout
SetTimeout(t) == IF timeout = "zero" THEN "zero" ELSE t

(* hev_task_wakeup of the session's task. *)
Woken == IF state = "asleep" THEN "woken" ELSE state

(* hev_socks5_session_terminate. *)
Terminated == timeout' = SetTimeout("zero") /\ state' = Woken

MayRun == state \in {"ready", "woken", "running"}
CallbacksMayRun == state # "running" /\ spc # "done"

(* hev_socks5_task_io_yielder (HEV_TASK_WAITIO) at a point of the program:   *)
(* with a timeout of zero it fails without yielding and control goes on at   *)
(* the place named out.                                                      *)
WaitIo(here, t, out) ==
    /\ timeout' = t
    /\ IF t = "zero" THEN spc' = out /\ state' = "running"
                     ELSE spc' = here /\ state' = "asleep"

GoOn(place) == spc' = place /\ state' = "running"

(* hev_socks5_client_connect, from the first run of the task on; the         *)
(* handshake that follows begins by setting its own timeout.                 *)
ConnectStep ==
    /\ spc \in {"new", "connecting"}
    /\ MayRun
    /\ LET t == IF spc = "new" THEN SetTimeout("connect") ELSE timeout
       IN  \/ WaitIo("connecting", t, "leaving")
           \/ GoOn("leaving") /\ timeout' = t
           \/ GoOn("handshake") /\ timeout' = SetTimeout("tcp")
=============================================================================
