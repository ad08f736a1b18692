---------------------------- MODULE TunnelEngine ----------------------------
(***************************************************************************)
(* The JNI engine (darkmed_tun2socks_jni.cpp) around the native tunnel of  *)
(* HevTunnel: startNative and stopNative, called by any thread of the app  *)
(* under g_mutex, the worker thread that runs the tunnel's main, and the   *)
(* callback with which the worker asks the Java VpnService to protect each *)
(* upstream socket, under g_protector_mutex.                               *)
(*                                                                         *)
(* The protector is one variable for g_vm, g_protector, g_protect_method   *)
(* and the callback pointer of hev-task-io-socket.c, which are set and     *)
(* cleared together.                                                       *)
(***************************************************************************)
EXTENDS HevTunnel

CONSTANT Nobody   \* no thread holds a mutex

VARIABLES gMutex,         \* the thread inside startNative or stopNative
          gWorker,        \* g_worker.joinable()
          gRunning,       \* g_running
          protector,      \* the protector's references are set
          protectorMutex, \* the thread that holds g_protector_mutex
          worker,         \* the worker thread: none, or where it is
          prot,           \* where the worker is in protect_socket
          unprotected,    \* sessions that have not created their socket yet
          cpc,            \* where each calling thread is
          quitAsked       \* quit has been called since the last start (history)

jniVars == <<gMutex, gWorker, gRunning, protector, protectorMutex, cpc>>
engineVars == <<jniVars, worker, prot, unprotected, quitAsked>>
vars == <<tunnelVars, engineVars>>

ASSUME NobodyAssumption == Nobody \notin Threads /\ Nobody # "worker"

Init ==
    /\ TunnelInit
    /\ gMutex = Nobody
    /\ gWorker = FALSE
    /\ gRunning = FALSE
    /\ protector = FALSE
    /\ protectorMutex = Nobody
    /\ worker = "none"
    /\ prot = "idle"
    /\ unprotected = {}
    /\ cpc = [t \in Threads |-> "idle"]
    /\ quitAsked = FALSE

-----------------------------------------------------------------------------
Goto(t, from, to) ==
    /\ cpc[t] = from
    /\ cpc' = [cpc EXCEPT ![t] = to]

(* The lock_guard on g_mutex at the head of startNative and stopNative. *)
Lock(t) ==
    /\ gMutex = Nobody
    /\ gMutex' = t
    /\ \E to \in {"startCheck", "stopCheck"} : Goto(t, "idle", to)
    /\ UNCHANGED <<tunnelVars, gWorker, gRunning, protector, protectorMutex,
                   worker, prot, unprotected, quitAsked>>

Return(t, from) ==
    /\ Goto(t, from, "idle")
    /\ gMutex' = Nobody

(* startNative: a worker is running, or has ended and was not joined. *)
RefusesRunning == gRunning             \* mutation of Refuses
Refuses == gRunning \/ gWorker

StartRefused(t) ==
    /\ Refuses
    /\ Return(t, "startCheck")
    /\ UNCHANGED <<tunnelVars, gWorker, gRunning, protector, protectorMutex,
                   worker, prot, unprotected, quitAsked>>

(* startNative: no VM, no protect method, or no global reference. *)
StartWithoutProtector(t) ==
    /\ ~Refuses
    /\ Return(t, "startCheck")
    /\ UNCHANGED <<tunnelVars, gWorker, gRunning, protector, protectorMutex,
                   worker, prot, unprotected, quitAsked>>

(* startNative: the references are kept, then the callback is set under      *)
(* g_protector_mutex, and g_running is raised.                               *)
StartPrepares(t) ==
    /\ ~Refuses
    /\ Goto(t, "startCheck", "startSpawn")
    /\ protectorMutex = Nobody
    /\ protector' = TRUE
    /\ gRunning' = TRUE
    /\ UNCHANGED <<tunnelVars, gMutex, gWorker, protectorMutex, worker, prot,
                   unprotected, quitAsked>>

(* startNative: the thread is created and start returns true. *)
StartSpawns(t) ==
    /\ Return(t, "startSpawn")
    /\ gWorker' = TRUE
    /\ worker' = "born"
    /\ quitAsked' = FALSE
    /\ UNCHANGED <<tunnelVars, gRunning, protector, protectorMutex, prot, unprotected>>

(* startNative: the thread cannot be created. *)
StartCannotSpawn(t) ==
    /\ Goto(t, "startSpawn", "clear")
    /\ gRunning' = FALSE
    /\ UNCHANGED <<tunnelVars, gMutex, gWorker, protector, protectorMutex,
                   worker, prot, unprotected, quitAsked>>

(* stopNative: a worker that still runs is told to quit. *)
StopQuits(t) ==
    /\ gWorker /\ gRunning
    /\ Goto(t, "stopCheck", "quit")
    /\ StopCall(t)
    /\ quitAsked' = TRUE
    /\ UNCHANGED <<gMutex, gWorker, gRunning, protector, protectorMutex,
                   worker, prot, unprotected>>

(* ... hev_socks5_tunnel_stop runs to its end. *)
StopQuitting(t) ==
    /\ cpc[t] = "quit"
    /\ StopStep(t)
    /\ UNCHANGED engineVars

(* How stopNative goes on: the thread is moved out of g_worker and joined,   *)
(* then the flag is lowered and the protector cleared.                       *)
ClearsBeforeJoin == "clear"            \* mutations of AfterQuit
NeverJoins == "lower"
AfterQuit == "join"

StopQuitted(t) ==
    /\ spc[t] = "idle"
    /\ Goto(t, "quit", AfterQuit)
    /\ gWorker' = FALSE
    /\ UNCHANGED <<tunnelVars, gMutex, gRunning, protector, protectorMutex,
                   worker, prot, unprotected, quitAsked>>

(* stopNative: the worker has already lowered g_running, or there is none.   *)
StopWithoutQuit(t) ==
    /\ ~(gWorker /\ gRunning)
    /\ Goto(t, "stopCheck", IF gWorker THEN "join" ELSE "lower")
    /\ gWorker' = FALSE
    /\ UNCHANGED <<tunnelVars, gMutex, gRunning, protector, protectorMutex,
                   worker, prot, unprotected, quitAsked>>

StopJoins(t) ==
    /\ worker = "exited"
    /\ Goto(t, "join", "lower")
    /\ worker' = "none"
    /\ UNCHANGED <<tunnelVars, gMutex, gWorker, gRunning, protector,
                   protectorMutex, prot, unprotected, quitAsked>>

StopLowers(t) ==
    /\ Goto(t, "lower", "clear")
    /\ gRunning' = FALSE
    /\ UNCHANGED <<tunnelVars, gMutex, gWorker, protector, protectorMutex,
                   worker, prot, unprotected, quitAsked>>

(* clear_protector, under g_protector_mutex; the caller then returns. *)
ClearProtector(t) ==
    /\ protectorMutex = Nobody
    /\ protector' = FALSE
    /\ Return(t, "clear")
    /\ UNCHANGED <<tunnelVars, gWorker, gRunning, protectorMutex, worker,
                   prot, unprotected, quitAsked>>

CallerStep(t) ==
    \/ StartRefused(t) \/ StartWithoutProtector(t) \/ StartPrepares(t)
    \/ StartSpawns(t) \/ StartCannotSpawn(t)
    \/ StopQuits(t) \/ StopQuitting(t) \/ StopQuitted(t) \/ StopWithoutQuit(t)
    \/ StopJoins(t) \/ StopLowers(t) \/ ClearProtector(t)

-----------------------------------------------------------------------------
(* run_tunnel on the worker thread. *)
WorkerEnters ==
    /\ worker = "born"
    /\ MainEnter
    /\ worker' = "main"
    /\ UNCHANGED <<jniVars, prot, unprotected, quitAsked>>

WorkerInMain ==
    /\ worker = "main"
    /\ prot = "idle"
    /\ MainStep
    /\ UNCHANGED engineVars

(* A step A of a task; the sessions it opens have no socket yet.             *)
WorkerRuns(A) ==
    /\ worker = "main"
    /\ prot = "idle"
    /\ A
    /\ unprotected' = (unprotected \cap sessions') \cup (sessions' \ sessions)
    /\ UNCHANGED <<jniVars, worker, prot, quitAsked>>

(* hev_task_io_socket_socket of a session calls protect_socket: the mutex,   *)
(* the test of the references ...                                            *)
ProtectLocks(s) ==
    /\ worker = "main"
    /\ TasksMayRun
    /\ prot = "idle"
    /\ s \in unprotected
    /\ protectorMutex = Nobody
    /\ protectorMutex' = "worker"
    /\ unprotected' = unprotected \ {s}
    /\ prot' = IF protector THEN "calling" ELSE "returning"
    /\ UNCHANGED <<tunnelVars, gMutex, gWorker, gRunning, protector, cpc,
                   worker, quitAsked>>

(* ... the call of VpnService.protect, and the return, with or without the   *)
(* socket being protected.                                                   *)
ProtectReturns ==
    /\ prot # "idle"
    /\ prot' = "idle"
    /\ protectorMutex' = Nobody
    /\ UNCHANGED <<tunnelVars, gMutex, gWorker, gRunning, protector, cpc,
                   worker, unprotected, quitAsked>>

(* main has returned: g_last_result and g_running are stored. *)
StaysRaised == gRunning                \* mutation of Lowered
Lowered == FALSE

WorkerLowers ==
    /\ worker = "main"
    /\ wpc = "idle"
    /\ worker' = "exited"
    /\ gRunning' = Lowered
    /\ UNCHANGED <<tunnelVars, gMutex, gWorker, protector, protectorMutex, cpc,
                   prot, unprotected, quitAsked>>

WorkerStep ==
    \/ WorkerEnters \/ WorkerInMain \/ WorkerRuns(TaskStep)
    \/ \E s \in Sessions : ProtectLocks(s)
    \/ ProtectReturns \/ WorkerLowers

Next == WorkerStep \/ \E t \in Threads : Lock(t) \/ CallerStep(t)

Spec == Init /\ [][Next]_vars

-----------------------------------------------------------------------------
(* The operating system runs every thread, a protect call returns, and the   *)
(* task scheduler picks every runnable task again and again (a task that has *)
(* run moves back in the order by the time it used).  A session that has     *)
(* been told to end does so: its time-out is 0 and it has been woken.  The   *)
(* packets that wait in the TUN device come to an end again and again.       *)
(* Nobody has to start or stop the engine, and packets, sessions and         *)
(* protect calls may keep coming for ever.                                   *)
Fairness ==
    /\ \A t \in Threads : WF_vars(CallerStep(t))
    /\ WF_vars(WorkerEnters)
    /\ WF_vars(WorkerInMain)
    /\ WF_vars(ProtectReturns)
    /\ WF_vars(WorkerLowers)
    /\ SF_vars(WorkerRuns(EventRead))
    /\ SF_vars(WorkerRuns(EventClear))
    /\ SF_vars(WorkerRuns(EventJoinsIo))
    /\ SF_vars(WorkerRuns(EventJoinsTimer))
    /\ WF_vars(WorkerRuns(IoWaits))
    /\ SF_vars(WorkerRuns(IoEnds))
    /\ SF_vars(WorkerRuns(TimerStep))
    /\ \A s \in Sessions : SF_vars(WorkerRuns(s \in terminated /\ SessionEnds(s)))

FairSpec == Spec /\ Fairness

-----------------------------------------------------------------------------
TypeOK ==
    /\ TunnelTypeOK
    /\ gMutex \in Threads \cup {Nobody}
    /\ gWorker \in BOOLEAN
    /\ gRunning \in BOOLEAN
    /\ protector \in BOOLEAN
    /\ protectorMutex \in {Nobody, "worker"}
    /\ worker \in {"none", "born", "main", "exited"}
    /\ prot \in {"idle", "calling", "returning"}
    /\ unprotected \in SUBSET sessions
    /\ cpc \in [Threads -> {"idle", "startCheck", "startSpawn", "stopCheck",
                            "quit", "join", "lower", "clear"}]
    /\ quitAsked \in BOOLEAN

(* From the moment the worker thread exists until it has left the tunnel the *)
(* protector is in place: no session opens a socket, and no call into Java   *)
(* is under way, with the references gone.  Start, its failure paths and     *)
(* stop set and clear them on other threads.                                 *)
ProtectedWhileRunning ==
    worker \in {"born", "main"} => protector /\ prot # "returning"

(* g_running and joinable tell the truth: a raised flag means that a worker  *)
(* exists or is just being started, and a worker is joinable until joined.   *)
(* The service's monitor and both guards rely on it.                         *)
FlagsTellTheTruth ==
    /\ gWorker <=> worker # "none" /\ \A t \in Threads : cpc[t] # "join"
    /\ gRunning => \/ worker \in {"born", "main"}
                   \/ \E t \in Threads : cpc[t] \in {"startSpawn"}
    /\ worker \in {"born", "main"} => gRunning

(* When a stop is about to return - it clears the protector and unlocks -    *)
(* nothing of the tunnel is left: no worker, no task or session, event       *)
(* sockets closed.                                                           *)
StopLeavesNothing ==
    \A t \in Threads : cpc[t] \in {"lower", "clear"} =>
        /\ worker = "none"
        /\ wpc = "idle"
        /\ eventFds = "closed"
        /\ sessions = {}

(* No worker is started over another one, running or merely not joined       *)
(* (assigning to a joinable std::thread terminates the process).             *)
NeverTwoWorkers == [][worker' = "born" => worker = "none" \/ worker = "born"]_vars

(* The worker has finished init between the two reads of a stop that found   *)
(* SEND clear: the stop sets STOP, which run may already have looked at.     *)
StopTooLate(t) == spc[t] = "setStop" /\ "SEND" \in tsync

(* The stop is lost: STOP was set when the tasks were already running, and   *)
(* the event task waits for a byte that nobody writes.                       *)
LostStop ==
    /\ "STOP" \in tsync
    /\ wpc = "tasks" /\ event = "reading" /\ eventBytes = 0

(* The worker has heard of a stop, or comes to its end for another reason.   *)
WorkerLeaves ==
    /\ worker = "main"
    /\ \/ wpc \in {"fini", "teardown", "idle"}
       \/ wpc = "tasks" /\ event # "reading"

(* The worker is on its way out, or will find STOP before it starts the      *)
(* tasks, or has a byte in the socket that the event task reads.             *)
Heard ==
    \/ WorkerLeaves
    \/ "STOP" \in tsync /\ wpc \in {"idle", "init", "initTasks", "run"}
    \/ eventBytes > 0 /\ wpc \in {"run", "tasks"}

(* Whoever waits in join for a worker has been heard by it, or the stop is   *)
(* lost.  The stop may have met the worker anywhere between its birth and    *)
(* its end, after any number of earlier runs that left the word and the      *)
(* socket as they did.                                                       *)
StopIsHeard ==
    \A t \in Threads :
        cpc[t] = "join" /\ worker \in {"born", "main"} => Heard \/ LostStop

(* The window of StopTooLate is the only way to lose a stop. *)
LostOnlyWhenTooLate ==
    [][LostStop' => LostStop \/ \E t \in Threads : StopTooLate(t)]_vars

(* Nobody waits in a circle.  A mutex is held by somebody who is inside and  *)
(* will leave; a join waits for a worker that exists; and while it waits     *)
(* nobody holds what the worker may wait for: WAIT is clear, for fini, and   *)
(* g_protector_mutex is free or the worker's own.                            *)
NoCircularWait ==
    /\ gMutex # Nobody => cpc[gMutex] # "idle"
    /\ protectorMutex = "worker" <=> prot # "idle"
    /\ prot # "idle" => worker = "main" /\ TasksMayRun
    /\ \A t \in Threads : cpc[t] = "join" => worker # "none" /\ "WAIT" \notin tsync

(* A stop that has got the mutex returns, whatever the worker was doing: it  *)
(* may not have entered main, be starting, run, protect a socket or have     *)
(* ended by itself; unless the stop falls into the window of StopTooLate or  *)
(* the TUN device has broken.                                                *)
StopReturns ==
    \A t \in Threads :
        cpc[t] = "stopCheck" ~> cpc[t] = "idle" \/ StopTooLate(t) \/ io = "broken"

-----------------------------------------------------------------------------
(* The engine is what the service takes it for: off without a worker, on     *)
(* while g_running is up, dead when the worker has not been joined.          *)
SeenState == IF worker = "none" THEN "off" ELSE IF gRunning THEN "on" ELSE "dead"

Engine == INSTANCE NativeEngine WITH engineState <- SeenState

ImplementsEngine == Engine!EngineSpec

-----------------------------------------------------------------------------
(* hev-main.h on hev_socks5_tunnel_main_from_file: it "will blocks until the *)
(* hev_socks5_tunnel_quit is called or an error occurs".  The code does not  *)
(* keep to it in two ways, one for each of these properties.                 *)

(* Main returns once quit is called. *)
ReturnsOnQuit == quitAsked /\ worker = "main" ~> worker # "main"

(* Main returns when the TUN device fails and quit is called too. *)
ReturnsOnError == quitAsked /\ io = "broken" ~> worker # "main"
=============================================================================
