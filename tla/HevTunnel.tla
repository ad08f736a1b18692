----------------------------- MODULE HevTunnel ------------------------------
(***************************************************************************)
(* The life of the native tunnel (hev-socks5-tunnel.c, hev-main.c): one    *)
(* worker thread that runs main - init, run, fini - any number of times,   *)
(* the cooperative tasks that run inside it, and the other threads that    *)
(* may call hev_socks5_tunnel_stop at any moment, the four bits of the     *)
(* atomic word tsync being all that the two sides share besides the        *)
(* descriptors of the event socket pair.                                   *)
(*                                                                         *)
(* Between two yields a task runs undisturbed by the other tasks, but not  *)
(* by the other threads: an action is one such stretch, cut where the      *)
(* stretch touches tsync or the event sockets.  Packets, lwIP and the      *)
(* forwarding of a session are abstracted to the sessions they open or     *)
(* evict and to the moment a session ends; TunnelTraffic says which.       *)
(***************************************************************************)
EXTENDS Naturals, FiniteSets

CONSTANTS Threads,      \* threads that may call hev_socks5_tunnel_stop
          Sessions,     \* identities of the sessions open at a time
          TunMayBreak   \* may a read of the TUN descriptor fail for good?

ASSUME TunMayBreakAssumption == TunMayBreak \in BOOLEAN

VARIABLES tsync,       \* the atomic word, as the set of its bits
          eventFds,    \* "open" between socketpair and event_task_fini
          eventBytes,  \* bytes written to event_fds[1] and not yet read
          run,         \* the flag the tasks poll
          wpc,         \* where the worker is in main
          event, io, timer,   \* states of the three tasks
          sessions,    \* session_set
          terminated,  \* sessions told to end
          spc          \* where each thread is in hev_socks5_tunnel_stop

mainVars == <<tsync, eventFds, eventBytes, wpc>>
taskVars == <<run, event, io, timer, sessions, terminated>>
tunnelVars == <<mainVars, taskVars, spc>>

TunnelInit ==
    /\ tsync = {}
    /\ eventFds = "closed"
    /\ eventBytes = 0
    /\ run = 0
    /\ wpc = "idle"
    /\ event = "none" /\ io = "none" /\ timer = "none"
    /\ sessions = {}
    /\ terminated = {}
    /\ spc = [t \in Threads |-> "idle"]

-----------------------------------------------------------------------------
(* The worker: main_from_file, main_inner.                                  *)

(* hev_socks5_tunnel_main_from_file is called. *)
MainEnter ==
    /\ wpc = "idle"
    /\ wpc' = "init"
    /\ UNCHANGED <<tsync, eventFds, eventBytes, taskVars, spc>>

(* The configuration cannot be read, a logger or the task system fails: main *)
(* returns before tsync has been touched.                                    *)
MainFails ==
    /\ wpc = "init"
    /\ wpc' = "idle"
    /\ UNCHANGED <<tsync, eventFds, eventBytes, taskVars, spc>>

(* hev_socks5_tunnel_init up to and with the socket pair. *)
InitEventFds ==
    /\ wpc = "init"
    /\ wpc' = "initTasks"
    /\ eventFds' = "open"
    /\ eventBytes' = 0
    /\ UNCHANGED <<tsync, taskVars, spc>>

(* Any step of hev_socks5_tunnel_init fails: it calls fini. *)
InitFails ==
    /\ wpc \in {"init", "initTasks"}
    /\ wpc' = "fini"
    /\ UNCHANGED <<tsync, eventFds, eventBytes, taskVars, spc>>

(* The last step of init: from here on a stop may be signalled. *)
InitDone ==
    /\ wpc = "initTasks"
    /\ wpc' = "run"
    /\ tsync' = tsync \cup {"SEND"}
    /\ UNCHANGED <<eventFds, eventBytes, taskVars, spc>>

(* hev_socks5_tunnel_run finds a stop that came before SEND was set. *)
RunConsumesStop ==
    /\ wpc = "run"
    /\ "STOP" \in tsync
    /\ tsync' = tsync \ {"STOP"}
    /\ wpc' = "fini"
    /\ UNCHANGED <<eventFds, eventBytes, taskVars, spc>>

(* hev_socks5_tunnel_run starts the three tasks and the scheduler. *)
RunStarts ==
    /\ wpc = "run"
    /\ "STOP" \notin tsync
    /\ wpc' = "tasks"
    /\ run' = 1
    /\ event' = "reading"
    /\ io' = "ready"
    /\ timer' = "ready"
    /\ UNCHANGED <<tsync, eventFds, eventBytes, sessions, terminated, spc>>

(* hev_task_system_run returns when the last task has exited. *)
SystemRunReturns ==
    /\ wpc = "tasks"
    /\ event = "done" /\ io = "done" /\ timer = "done"
    /\ sessions = {}
    /\ wpc' = "fini"
    /\ UNCHANGED <<tsync, eventFds, eventBytes, taskVars, spc>>

(* The retry loop of hev_socks5_tunnel_fini: forbid new signals, then wait   *)
(* for a thread that is in the middle of one.                                *)
FiniClearsSend == {"SEND"}    \* mutation of FiniClears
FiniClears == {"SEND", "SENT"}
FiniNeverWaits == FALSE       \* mutation of FiniWaits
FiniWaits == "WAIT" \in tsync

FiniTry ==
    /\ wpc = "fini"
    /\ tsync' = tsync \ FiniClears
    /\ wpc' = IF FiniWaits THEN "fini" ELSE "teardown"
    /\ UNCHANGED <<eventFds, eventBytes, taskVars, spc>>

(* The rest of fini: tasks and event sockets are released, main returns. *)
Teardown ==
    /\ wpc = "teardown"
    /\ wpc' = "idle"
    /\ eventFds' = "closed"
    /\ eventBytes' = 0
    /\ event' = "none" /\ io' = "none" /\ timer' = "none"
    /\ UNCHANGED <<tsync, run, sessions, terminated, spc>>

-----------------------------------------------------------------------------
(* The tasks.  The event task keeps the processor from its read to the join, *)
(* the I/O task from one packet to the next and while it retries a read that *)
(* fails.                                                                    *)
TasksMayRun == wpc = "tasks" /\ event # "clearing" /\ io \notin {"handling", "broken"}

(* hev_task_wakeup on a task that may be asleep. *)
Woken(state) == IF state \in {"waiting", "sleeping"} THEN "ready" ELSE state

(* event_task_entry: the byte written by stop arrives. *)
EventRead ==
    /\ TasksMayRun
    /\ event = "reading"
    /\ eventBytes > 0
    /\ eventBytes' = 0
    /\ run' = 0
    /\ event' = "clearing"
    /\ UNCHANGED <<tsync, eventFds, wpc, io, timer, sessions, terminated, spc>>

(* ... SENT is cleared, every session is told to end, and the join of the    *)
(* I/O task wakes it.                                                        *)
TerminateNone == terminated             \* mutation of TerminateAll
TerminateAll == sessions
JoinWakes(state) == Woken(state)

EventClear ==
    /\ event = "clearing"
    /\ tsync' = tsync \ {"SENT"}
    /\ terminated' = TerminateAll
    /\ event' = "joinIo"
    /\ io' = JoinWakes(io)
    /\ UNCHANGED <<eventFds, eventBytes, wpc, run, timer, sessions, spc>>

EventJoinsIo ==
    /\ TasksMayRun
    /\ event = "joinIo"
    /\ io = "done"
    /\ event' = "joinTimer"
    /\ timer' = JoinWakes(timer)
    /\ UNCHANGED <<mainVars, run, io, sessions, terminated, spc>>

EventJoinsTimer ==
    /\ TasksMayRun
    /\ event = "joinTimer"
    /\ timer = "done"
    /\ event' = "done"
    /\ UNCHANGED <<mainVars, run, io, timer, sessions, terminated, spc>>

(* The TUN descriptor becomes readable. *)
PacketArrives ==
    /\ TasksMayRun
    /\ io = "waiting"
    /\ io' = "ready"
    /\ UNCHANGED <<mainVars, run, event, timer, sessions, terminated, spc>>

(* lwip_io_task_entry: as long as the TUN descriptor has packets the I/O     *)
(* task handles one after the other without yielding.                        *)
IoMayHandle ==
    /\ wpc = "tasks" /\ event # "clearing"
    /\ io \in {"ready", "handling"}
    /\ run = 1

(* A packet opens session s (tcp_accept_handler, udp_recv_handler), which    *)
(* wakes the timer task and, at the session limit, tells those in E to end.  *)
AcceptKeepsTimer == timer               \* mutation of AcceptWakes
AcceptWakes == Woken(timer)

IoOpens(s, E) ==
    /\ IoMayHandle
    /\ s \notin sessions
    /\ E \subseteq sessions \cup {s}
    /\ sessions' = sessions \cup {s}
    /\ terminated' = terminated \cup E
    /\ timer' = AcceptWakes
    /\ io' = "handling"
    /\ UNCHANGED <<mainVars, run, event, spc>>

(* Any other packet. *)
IoHandles ==
    /\ IoMayHandle
    /\ io' = "handling"
    /\ UNCHANGED <<mainVars, run, event, timer, sessions, terminated, spc>>

(* The TUN descriptor has run dry. *)
IoWaits ==
    /\ IoMayHandle
    /\ io' = "waiting"
    /\ UNCHANGED <<mainVars, run, event, timer, sessions, terminated, spc>>

(* hev_tunnel_read fails with something else than "try again": it returns no *)
(* buffer without having yielded, and the loop tries again at once.          *)
IoBreaks ==
    /\ TunMayBreak
    /\ IoMayHandle
    /\ io' = "broken"
    /\ UNCHANGED <<mainVars, run, event, timer, sessions, terminated, spc>>

IoRetries == wpc = "tasks" /\ io = "broken" /\ UNCHANGED tunnelVars

IoEnds ==
    /\ TasksMayRun
    /\ io = "ready"
    /\ run = 0
    /\ io' = "done"
    /\ UNCHANGED <<mainVars, run, event, timer, sessions, terminated, spc>>

(* lwip_timer_task_entry: one round, then sleep while there are sessions and *)
(* wait without a timeout while there are none.                              *)
TimerStep ==
    /\ TasksMayRun
    /\ timer = "ready"
    /\ timer' = CASE run = 0 -> "done"
                   [] run = 1 /\ sessions # {} -> "sleeping"
                   [] OTHER -> "waiting"
    /\ UNCHANGED <<mainVars, run, event, io, sessions, terminated, spc>>

TimerExpires ==
    /\ TasksMayRun
    /\ timer = "sleeping"
    /\ timer' = "ready"
    /\ UNCHANGED <<mainVars, run, event, io, sessions, terminated, spc>>

(* hev_socks5_session_task_entry returns from hev_socks5_session_run: the    *)
(* peer or the upstream closed, an operation timed out, or the session was   *)
(* terminated.                                                               *)
DropsMark(s) == terminated \ {s}

SessionEnds(s) ==
    /\ TasksMayRun
    /\ s \in sessions
    /\ sessions' = sessions \ {s}
    /\ terminated' = DropsMark(s)
    /\ UNCHANGED <<mainVars, run, event, io, timer, spc>>

-----------------------------------------------------------------------------
(* hev_socks5_tunnel_stop, called by thread t. *)
StopCall(t) ==
    /\ spc[t] = "idle"
    /\ spc' = [spc EXCEPT ![t] = "acquire"]
    /\ UNCHANGED <<mainVars, taskVars>>

(* fetch_or of WAIT: what was set before decides; another thread's WAIT is   *)
(* waited for.                                                               *)
StopFree == "WAIT" \notin tsync

StopAcquire(t) ==
    /\ spc[t] = "acquire"
    /\ StopFree
    /\ tsync' = tsync \cup {"WAIT"}
    /\ spc' = [spc EXCEPT ![t] = IF "SEND" \in tsync THEN "signal" ELSE "setStop"]
    /\ UNCHANGED <<eventFds, eventBytes, wpc, taskVars>>

(* fetch_or of SENT: only the first signal writes. *)
AlwaysWrites == TRUE                        \* mutation of FirstSignal
FirstSignal == "SENT" \notin tsync

StopSignal(t) ==
    /\ spc[t] = "signal"
    /\ tsync' = tsync \cup {"SENT"}
    /\ spc' = [spc EXCEPT ![t] = IF FirstSignal THEN "write" ELSE "release"]
    /\ UNCHANGED <<eventFds, eventBytes, wpc, taskVars>>

StopWrite(t) ==
    /\ spc[t] = "write"
    /\ eventBytes' = eventBytes + 1
    /\ spc' = [spc EXCEPT ![t] = "release"]
    /\ UNCHANGED <<tsync, eventFds, wpc, taskVars>>

StopSetStop(t) ==
    /\ spc[t] = "setStop"
    /\ tsync' = tsync \cup {"STOP"}
    /\ spc' = [spc EXCEPT ![t] = "release"]
    /\ UNCHANGED <<eventFds, eventBytes, wpc, taskVars>>

StopRelease(t) ==
    /\ spc[t] = "release"
    /\ tsync' = tsync \ {"WAIT"}
    /\ spc' = [spc EXCEPT ![t] = "idle"]
    /\ UNCHANGED <<eventFds, eventBytes, wpc, taskVars>>

-----------------------------------------------------------------------------
MainStep ==
    \/ MainFails \/ InitEventFds \/ InitFails \/ InitDone
    \/ RunConsumesStop \/ RunStarts \/ SystemRunReturns
    \/ FiniTry \/ Teardown

(* One session at most for one that is opened. *)
Evictions == {{}} \cup {{e} : e \in Sessions}

TaskStep ==
    \/ EventRead \/ EventClear \/ EventJoinsIo \/ EventJoinsTimer
    \/ PacketArrives
    \/ \E s \in Sessions, E \in Evictions : IoOpens(s, E)
    \/ IoHandles \/ IoWaits \/ IoBreaks \/ IoRetries \/ IoEnds \/ TimerStep \/ TimerExpires
    \/ \E s \in Sessions : SessionEnds(s)

StopStep(t) ==
    \/ StopAcquire(t) \/ StopSignal(t) \/ StopWrite(t)
    \/ StopSetStop(t) \/ StopRelease(t)

TunnelNext ==
    \/ MainEnter \/ MainStep \/ TaskStep
    \/ \E t \in Threads : StopCall(t) \/ StopStep(t)

TunnelSpec == TunnelInit /\ [][TunnelNext]_tunnelVars

-----------------------------------------------------------------------------
TunnelTypeOK ==
    /\ tsync \in SUBSET {"SEND", "SENT", "WAIT", "STOP"}
    /\ eventFds \in {"closed", "open"}
    /\ eventBytes \in Nat
    /\ run \in {0, 1}
    /\ wpc \in {"idle", "init", "initTasks", "run", "tasks", "fini", "teardown"}
    /\ event \in {"none", "reading", "clearing", "joinIo", "joinTimer", "done"}
    /\ io \in {"none", "ready", "handling", "waiting", "broken", "done"}
    /\ timer \in {"none", "ready", "waiting", "sleeping", "done"}
    /\ sessions \in SUBSET Sessions
    /\ terminated \in SUBSET sessions
    /\ spc \in [Threads -> {"idle", "acquire", "signal", "write", "setStop", "release"}]

Signalling == {t \in Threads : spc[t] \in {"signal", "write", "setStop", "release"}}

(* A stop that has decided to signal writes to event sockets that are open:  *)
(* init, run, fini and the next main may go on meanwhile, and a write to a   *)
(* closed descriptor would fail the assertion in hev_socks5_tunnel_stop or   *)
(* reach a descriptor that is somebody else's by then.                       *)
WritesToOpenFds ==
    \A t \in Threads : spc[t] \in {"signal", "write"} => eventFds = "open"

(* The WAIT bit is a lock: one thread at a time is between its fetch_or and  *)
(* its fetch_and, and the bit is set exactly then.                           *)
WaitIsALock ==
    /\ \A s, t \in Signalling : s = t
    /\ "WAIT" \in tsync <=> Signalling # {}

(* However often the tunnel is stopped, at most one byte is in flight while  *)
(* it runs, and fini, which clears SENT under a signal in progress, lets one *)
(* more through: the write never meets a full socket, although the event     *)
(* task clears SENT again and the later bytes are read by nobody.            *)
FewBytesInFlight ==
    Cardinality({t \in Threads : spc[t] = "write"}) + eventBytes
        <= IF wpc \in {"fini", "teardown"} THEN 2 ELSE 1

(* Once the event task has begun to join, every session still open has been  *)
(* told to end and no other can appear, so that the scheduler runs dry.      *)
NoSessionLeftBehind ==
    event \in {"joinIo", "joinTimer", "done"} => sessions = terminated

(* What a stop has signalled is never lost: while the event task still reads *)
(* and SENT is set, the byte is in flight or about to be written.            *)
SentMeansByte ==
    wpc = "tasks" /\ event = "reading" /\ "SENT" \in tsync
        => eventBytes > 0 \/ \E t \in Threads : spc[t] = "write"

(* While a session is open the timer task is never asleep without a timeout: *)
(* lwIP's retransmissions and time-outs keep running.                        *)
TimersRunForSessions ==
    wpc = "tasks" /\ sessions # {} => timer # "waiting"
=============================================================================
