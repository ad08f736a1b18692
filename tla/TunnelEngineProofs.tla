------------------------- MODULE TunnelEngineProofs -------------------------
(***************************************************************************)
(* Proofs about TunnelEngine, for any set of calling threads and any set   *)
(* of sessions.                                                            *)
(*                                                                         *)
(* The engine only takes steps of the tunnel, so that all that is proved   *)
(* of HevTunnel holds inside it (EngineRunsTunnel).  The rest follows from *)
(* an inductive invariant that ties the place of the one thread that holds *)
(* g_mutex to the worker's (CallerAndWorker), and the place of the worker  *)
(* to what exists of the tunnel (WorkerAndTunnel).                         *)
(***************************************************************************)
EXTENDS TunnelEngine, HevTunnelProofs

(* A thread that is in startNative or stopNative holds g_mutex, and only a   *)
(* thread in stopNative's call of quit is in hev_socks5_tunnel_stop.         *)
MutexHeld ==
    \A t \in Threads : /\ cpc[t] # "idle" <=> gMutex = t
                       /\ spc[t] # "idle" => cpc[t] = "quit"

(* What the thread in startNative or stopNative knows of the worker.         *)
CallerAndWorker ==
    \A t \in Threads :
        /\ cpc[t] = "startSpawn" => worker = "none" /\ gRunning /\ protector
        /\ cpc[t] = "quit" => worker # "none"
        /\ cpc[t] = "join" => worker # "none"
        /\ cpc[t] \in {"lower", "clear"} => worker = "none"

(* Nothing of the tunnel exists outside the worker's main. *)
WorkerAndTunnel ==
    /\ worker # "main" => wpc = "idle"
    /\ wpc \in {"idle", "init"} => eventFds = "closed"
    /\ wpc # "tasks" => sessions = {}
    /\ prot # "idle" => worker = "main" /\ wpc = "tasks"

EngineInv ==
    /\ TypeOK /\ MutexHeld /\ CallerAndWorker /\ WorkerAndTunnel
    /\ FlagsTellTheTruth /\ ProtectedWhileRunning

-----------------------------------------------------------------------------
(* What the parts of the tunnel leave alone. *)
LEMMA MainLeaves ==
    ASSUME MainStep, WorkerAndTunnel
    PROVE  /\ UNCHANGED <<spc, sessions>>
           /\ wpc # "idle"
           /\ wpc' \in {"idle", "init"} => eventFds' = "closed"
           /\ wpc' # "tasks" => sessions' = {}
  BY DEF MainStep, MainFails, InitEventFds, InitFails, InitDone, RunConsumesStop,
         RunStarts, SystemRunReturns, FiniTry, Teardown, WorkerAndTunnel, taskVars

LEMMA TaskLeaves ==
    ASSUME TaskStep
    PROVE  UNCHANGED <<spc, eventFds, wpc>> /\ (wpc # "tasks" => UNCHANGED sessions)
  BY DEF TaskStep, TasksMayRun, EventRead, EventClear, EventJoinsIo, EventJoinsTimer,
         PacketArrives, IoOpens, IoHandles, IoWaits, IoMayHandle, IoBreaks, IoRetries, IoEnds, TimerStep,
         TimerExpires, SessionEnds, mainVars, taskVars, tunnelVars

LEMMA StopLeaves ==
    ASSUME TunnelTypeOK, NEW t \in Threads, StopCall(t) \/ StopStep(t)
    PROVE  /\ UNCHANGED <<eventFds, wpc, sessions>>
           /\ \A u \in Threads : u # t => spc'[u] = spc[u]
  BY DEF TunnelTypeOK, StopCall, StopStep, StopAcquire, StopSignal, StopWrite,
         StopSetStop, StopRelease, mainVars, taskVars

-----------------------------------------------------------------------------
(* The engine is a tunnel: its steps are steps of the tunnel or leave it     *)
(* alone.                                                                    *)
LEMMA EngineStepIsTunnelStep == [Next]_vars => [TunnelNext]_tunnelVars
<1> SUFFICES ASSUME [Next]_vars PROVE [TunnelNext]_tunnelVars
  OBVIOUS
<1>1. CASE WorkerEnters
  BY <1>1 DEF WorkerEnters, TunnelNext
<1>2. CASE WorkerInMain
  BY <1>2 DEF WorkerInMain, TunnelNext
<1>3. CASE WorkerRuns(TaskStep)
  BY <1>3 DEF WorkerRuns, TunnelNext
<1>4. ASSUME NEW s \in Sessions, ProtectLocks(s) PROVE UNCHANGED tunnelVars
  BY <1>4 DEF ProtectLocks
<1>5. CASE ProtectReturns
  BY <1>5 DEF ProtectReturns
<1>6. CASE WorkerLowers
  BY <1>6 DEF WorkerLowers
<1>7. ASSUME NEW t \in Threads, Lock(t) PROVE UNCHANGED tunnelVars
  BY <1>7 DEF Lock
<1>8. ASSUME NEW t \in Threads, CallerStep(t) PROVE [TunnelNext]_tunnelVars
  <2>1. CASE StopQuits(t)
    BY <2>1 DEF StopQuits, TunnelNext
  <2>2. CASE StopQuitting(t)
    BY <2>2 DEF StopQuitting, TunnelNext
  <2>3. CASE \/ StartRefused(t) \/ StartWithoutProtector(t) \/ StartPrepares(t)
             \/ StartSpawns(t) \/ StartCannotSpawn(t) \/ StopQuitted(t)
             \/ StopWithoutQuit(t) \/ StopJoins(t) \/ StopLowers(t)
             \/ ClearProtector(t)
    BY <2>3 DEF StartRefused, StartWithoutProtector, StartPrepares, StartSpawns,
                StartCannotSpawn, StopQuitted, StopWithoutQuit, StopJoins,
                StopLowers, ClearProtector
  <2>4. QED
    BY <1>8, <2>1, <2>2, <2>3 DEF CallerStep
<1>9. CASE UNCHANGED vars
  BY <1>9 DEF vars
<1>10. QED
  BY <1>1, <1>2, <1>3, <1>4, <1>5, <1>6, <1>7, <1>8, <1>9 DEF Next, WorkerStep

(* Whatever is proved of the tunnel holds of the tunnel in the engine: init, *)
(* run and fini on the worker thread, and the quit of stopNative on any      *)
(* other, are steps of hev-socks5-tunnel.c and nothing else touches it.      *)
THEOREM EngineRunsTunnel == Spec => TunnelSpec
<1>1. Init => TunnelInit
  BY DEF Init
<1>2. QED
  BY <1>1, EngineStepIsTunnelStep, PTL DEF Spec, TunnelSpec

-----------------------------------------------------------------------------
(* The inductive invariant. *)
LEMMA EngineInvInit == Init => EngineInv
<1> SUFFICES ASSUME Init PROVE EngineInv
  OBVIOUS
<1>1. TunnelTypeOK
  BY InitInv DEF Init
<1>2. QED
  BY <1>1, NobodyAssumption
     DEF Init, TunnelInit, EngineInv, TypeOK, MutexHeld, CallerAndWorker,
         WorkerAndTunnel, FlagsTellTheTruth, ProtectedWhileRunning

LEMMA EngineInvStep == EngineInv /\ [Next]_vars => EngineInv'
<1> SUFFICES ASSUME EngineInv, [Next]_vars PROVE EngineInv'
  OBVIOUS
<1>t. TunnelTypeOK'
  BY TypeStep, EngineStepIsTunnelStep DEF EngineInv, TypeOK
<1>s. TunnelTypeOK /\ spc \in [Threads -> {"idle", "acquire", "signal", "write",
                                           "setStop", "release"}]
  BY DEF EngineInv, TypeOK, TunnelTypeOK
<1> USE NobodyAssumption
        DEF EngineInv, TypeOK, MutexHeld, CallerAndWorker, WorkerAndTunnel,
            FlagsTellTheTruth, ProtectedWhileRunning, Goto, Return, jniVars,
            tunnelVars, mainVars, taskVars, engineVars
<1>1. CASE WorkerEnters
  BY <1>t, <1>1 DEF WorkerEnters, MainEnter
<1>2. CASE WorkerInMain
  BY <1>t, <1>2, MainLeaves DEF WorkerInMain
<1>3. CASE WorkerRuns(TaskStep)
  BY <1>t, <1>3, TaskLeaves DEF WorkerRuns
<1>4. ASSUME NEW s \in Sessions, ProtectLocks(s) PROVE EngineInv'
  BY <1>t, <1>4 DEF ProtectLocks, TasksMayRun
<1>5. CASE ProtectReturns
  BY <1>t, <1>5 DEF ProtectReturns
<1>6. CASE WorkerLowers
  BY <1>t, <1>6 DEF WorkerLowers, Lowered
<1>7. ASSUME NEW t \in Threads, Lock(t) PROVE EngineInv'
  BY <1>t, <1>7 DEF Lock
<1>8. ASSUME NEW t \in Threads, StartRefused(t) PROVE EngineInv'
  BY <1>t, <1>8 DEF StartRefused
<1>9. ASSUME NEW t \in Threads, StartWithoutProtector(t) PROVE EngineInv'
  BY <1>t, <1>9 DEF StartWithoutProtector
<1>10. ASSUME NEW t \in Threads, StartPrepares(t) PROVE EngineInv'
  BY <1>t, <1>10 DEF StartPrepares, Refuses
<1>11. ASSUME NEW t \in Threads, StartSpawns(t) PROVE EngineInv'
  BY <1>t, <1>11 DEF StartSpawns
<1>12. ASSUME NEW t \in Threads, StartCannotSpawn(t) PROVE EngineInv'
  BY <1>t, <1>12 DEF StartCannotSpawn
<1>13. ASSUME NEW t \in Threads, StopQuits(t) PROVE EngineInv'
  BY <1>t, <1>s, <1>13, StopLeaves DEF StopQuits
<1>14. ASSUME NEW t \in Threads, StopQuitting(t) PROVE EngineInv'
  BY <1>t, <1>s, <1>14, StopLeaves DEF StopQuitting
<1>15. ASSUME NEW t \in Threads, StopQuitted(t) PROVE EngineInv'
  BY <1>t, <1>15 DEF StopQuitted, AfterQuit
<1>16. ASSUME NEW t \in Threads, StopWithoutQuit(t) PROVE EngineInv'
  BY <1>t, <1>16 DEF StopWithoutQuit
<1>17. ASSUME NEW t \in Threads, StopJoins(t) PROVE EngineInv'
  BY <1>t, <1>17 DEF StopJoins
<1>18. ASSUME NEW t \in Threads, StopLowers(t) PROVE EngineInv'
  BY <1>t, <1>18 DEF StopLowers
<1>19. ASSUME NEW t \in Threads, ClearProtector(t) PROVE EngineInv'
  BY <1>t, <1>19 DEF ClearProtector
<1>20. CASE UNCHANGED vars
  BY <1>t, <1>20 DEF vars
<1>21. QED
  BY <1>1, <1>2, <1>3, <1>4, <1>5, <1>6, <1>7, <1>8, <1>9, <1>10, <1>11, <1>12,
     <1>13, <1>14, <1>15, <1>16, <1>17, <1>18, <1>19, <1>20
     DEF Next, WorkerStep, CallerStep

LEMMA EngineInvariant == Spec => []EngineInv
  BY EngineInvInit, EngineInvStep, PTL DEF Spec
-----------------------------------------------------------------------------
(* The callers in startNative and stopNative, the worker and its protect     *)
(* callback are always at one of the places TypeOK lists, and a session that *)
(* still has to be protected is an open one.                                 *)
THEOREM EngineTypes == Spec => []TypeOK
  BY EngineInvariant, PTL DEF EngineInv

(* From startNative's set of the callback until the worker has left the      *)
(* tunnel, a session that asks protect_socket finds the references set.      *)
THEOREM SessionsAreProtected == Spec => []ProtectedWhileRunning
  BY EngineInvariant, PTL DEF EngineInv

(* g_running and g_worker.joinable() say what they are taken for by the      *)
(* guards of startNative and stopNative and by isRunningNative.              *)
THEOREM FlagsAreTrue == Spec => []FlagsTellTheTruth
  BY EngineInvariant, PTL DEF EngineInv

(* When stopNative clears the protector the worker, its event sockets and    *)
(* every session are gone: it has joined, and main closes what it opened.    *)
THEOREM StopIsThorough == Spec => []StopLeavesNothing
<1>1. EngineInv => StopLeavesNothing
  BY DEF EngineInv, CallerAndWorker, WorkerAndTunnel, StopLeavesNothing
<1>2. QED
  BY <1>1, EngineInvariant, PTL

-----------------------------------------------------------------------------
(* A stop that has done its part - it has written its byte, seen that        *)
(* another stop's byte is on its way, or set STOP - has been heard or lost.  *)
StopSpoken ==
    \A t \in Threads :
        /\ worker \in {"born", "main"}
        /\ \/ cpc[t] = "join"
           \/ cpc[t] = "quit" /\ spc[t] \in {"release", "idle"}
        => Heard \/ LostStop

(* What is heard stays heard, whatever the worker does: it finds STOP when   *)
(* it has finished init, and the byte when its tasks run.                    *)
LEMMA MainHears ==
    ASSUME EngineInv, worker = "main", MainStep, Heard \/ LostStop, worker' = "main"
    PROVE  (Heard \/ LostStop)'
<1> USE DEF Heard, WorkerLeaves, LostStop, MainStep, taskVars
<1>1. CASE MainFails
  BY <1>1 DEF MainFails
<1>2. CASE InitEventFds
  BY <1>2 DEF InitEventFds
<1>3. CASE InitFails
  BY <1>3 DEF InitFails
<1>4. CASE InitDone
  BY <1>4 DEF InitDone
<1>5. CASE RunConsumesStop
  BY <1>5 DEF RunConsumesStop
<1>6. CASE RunStarts
  BY <1>6 DEF RunStarts
<1>7. CASE SystemRunReturns
  BY <1>7 DEF SystemRunReturns
<1>8. CASE FiniTry
  BY <1>8 DEF FiniTry
<1>9. CASE Teardown
  BY <1>9 DEF Teardown
<1> QED
  BY <1>1, <1>2, <1>3, <1>4, <1>5, <1>6, <1>7, <1>8, <1>9

LEMMA TasksHear ==
    ASSUME worker = "main", TaskStep, Heard \/ LostStop, worker' = "main"
    PROVE  (Heard \/ LostStop)'
<1> USE DEF Heard, WorkerLeaves, LostStop, mainVars, taskVars
<1>1. CASE EventRead \/ EventClear
  BY <1>1 DEF EventRead, EventClear, TasksMayRun
<1>2. CASE EventJoinsIo \/ EventJoinsTimer
  BY <1>2 DEF EventJoinsIo, EventJoinsTimer
<1>3. CASE UNCHANGED <<mainVars, event>>
  BY <1>3
<1>4. CASE \/ PacketArrives \/ IoHandles \/ IoWaits \/ IoBreaks \/ IoRetries
           \/ IoEnds \/ TimerStep \/ TimerExpires
           \/ \E s \in Sessions, E \in Evictions : IoOpens(s, E)
           \/ \E s \in Sessions : SessionEnds(s)
  BY <1>3, <1>4 DEF PacketArrives, IoHandles, IoWaits, IoBreaks, IoRetries, IoEnds,
                    TimerStep, TimerExpires, IoOpens, SessionEnds, tunnelVars
<1> QED
  BY <1>1, <1>2, <1>4 DEF TaskStep

(* The stop itself: where it ends it has been heard.  SENT was clear, and    *)
(* its own byte is written; or SENT was set, and stands for a byte; or SEND  *)
(* was clear when it looked, and STOP is set.                                *)
LEMMA StopSpeaks ==
    ASSUME EngineInv, SignalMeansOpen, SentInFlight, StopSpoken,
           NEW t \in Threads, cpc[t] = "quit", StopStep(t),
           UNCHANGED <<cpc, worker>>, worker \in {"born", "main"},
           spc'[t] \in {"release", "idle"}
    PROVE  (Heard \/ LostStop)'
<1>s. /\ spc \in [Threads -> {"idle", "acquire", "signal", "write", "setStop", "release"}]
      /\ wpc \in {"idle", "init", "initTasks", "run", "tasks", "fini", "teardown"}
      /\ eventBytes \in Nat
      /\ wpc # "idle" => worker = "main"
  BY DEF EngineInv, TypeOK, TunnelTypeOK, WorkerAndTunnel
<1>o. \A u \in Threads : spc[u] # "idle" => u = t
  BY DEF EngineInv, MutexHeld
<1> USE DEF Heard, WorkerLeaves, LostStop, taskVars
<1>1. CASE StopAcquire(t)
  BY <1>s, <1>1 DEF StopAcquire
<1>2. CASE StopSignal(t)
  <2>1. spc[t] = "signal" /\ "SENT" \in tsync
    BY <1>s, <1>2 DEF StopSignal, FirstSignal
  <2>2. ~ \E u \in Threads : spc[u] = "write"
    BY <1>o, <2>1
  <2>3. wpc \in SignalPhases
    BY <2>1 DEF SentInFlight
  <2>4. wpc = "run" \/ (wpc = "tasks" /\ event = "reading") => eventBytes > 0
    BY <2>1, <2>2 DEF SentInFlight, SentMeansByte
  <2> QED
    BY <1>s, <1>2, <2>3, <2>4 DEF StopSignal, SignalPhases
<1>3. CASE StopWrite(t)
  BY <1>s, <1>3 DEF StopWrite, SignalMeansOpen, SignalPhases
<1>4. CASE StopSetStop(t)
  BY <1>s, <1>4 DEF StopSetStop
<1>5. CASE StopRelease(t)
  BY <1>s, <1>5 DEF StopRelease, StopSpoken
<1> QED
  BY <1>1, <1>2, <1>3, <1>4, <1>5 DEF StopStep

LEMMA StopSpokenStep ==
    ASSUME EngineInv, SignalMeansOpen, SentInFlight, StopSpoken, [Next]_vars
    PROVE  StopSpoken'
<1>s. spc \in [Threads -> {"idle", "acquire", "signal", "write", "setStop", "release"}]
  BY DEF EngineInv, TypeOK, TunnelTypeOK
<1>h. ASSUME UNCHANGED <<mainVars, event>>, worker' = worker
      PROVE  Heard \/ LostStop <=> (Heard \/ LostStop)'
  BY <1>h DEF Heard, LostStop, WorkerLeaves, mainVars
<1> USE DEF StopSpoken, jniVars, engineVars, tunnelVars, taskVars
<1>1. CASE WorkerEnters
  BY <1>1 DEF WorkerEnters, MainEnter, Heard, LostStop, WorkerLeaves
<1>2. CASE WorkerInMain
  BY <1>2, MainHears, MainLeaves DEF WorkerInMain, EngineInv
<1>3. CASE WorkerRuns(TaskStep)
  BY <1>3, TasksHear, TaskLeaves DEF WorkerRuns
<1>4. CASE ProtectReturns \/ (\E s \in Sessions : ProtectLocks(s)) \/ UNCHANGED vars
  BY <1>4, <1>h DEF ProtectLocks, ProtectReturns, vars
<1>5. CASE WorkerLowers
  BY <1>5 DEF WorkerLowers
<1> USE DEF EngineInv, TypeOK, MutexHeld, CallerAndWorker, Goto, Return
<1>6. ASSUME NEW t \in Threads,
             \/ Lock(t) \/ StartRefused(t) \/ StartWithoutProtector(t)
             \/ StartPrepares(t) \/ StartCannotSpawn(t) \/ StopLowers(t)
             \/ ClearProtector(t)
      PROVE  StopSpoken'
  BY <1>6, <1>h DEF Lock, StartRefused, StartWithoutProtector, StartPrepares,
                    StartCannotSpawn, StopLowers, ClearProtector
<1>7. ASSUME NEW t \in Threads, StartSpawns(t) \/ StopJoins(t)
      PROVE  StopSpoken'
  BY <1>7 DEF StartSpawns, StopJoins
<1>8. ASSUME NEW t \in Threads, StopQuits(t) PROVE StopSpoken'
  BY <1>s, <1>8 DEF StopQuits, StopCall
<1>9. ASSUME NEW t \in Threads, StopQuitted(t) PROVE StopSpoken'
  BY <1>9, <1>h DEF StopQuitted, AfterQuit
<1>10. ASSUME NEW t \in Threads, StopWithoutQuit(t) PROVE StopSpoken'
  BY <1>10 DEF StopWithoutQuit, FlagsTellTheTruth
<1>11. ASSUME NEW t \in Threads, StopQuitting(t) PROVE StopSpoken'
  <2>1. cpc[t] = "quit" /\ StopStep(t) /\ UNCHANGED <<cpc, worker>>
    BY <1>11 DEF StopQuitting
  <2>2. \A u \in Threads : u # t => cpc[u] = "idle"
    BY <2>1
  <2> QED
    BY <2>1, <2>2, StopSpeaks
<1> QED
  BY <1>1, <1>2, <1>3, <1>4, <1>5, <1>6, <1>7, <1>8, <1>9, <1>10, <1>11
     DEF Next, WorkerStep, CallerStep

(* stopNative's join waits for a worker that has heard hev_socks5_tunnel_stop *)
(* or will, except in the window between its two operations on tsync.        *)
THEOREM JoinedIsHeard == Spec => []StopIsHeard
<1>1. Init => StopSpoken
  BY DEF Init, StopSpoken
<1>2. Spec => [](SignalMeansOpen /\ SentInFlight)
  BY EngineRunsTunnel, SignalsAreOpen, SentStaysInFlight, PTL
<1>3. Spec => []StopSpoken
  BY <1>1, <1>2, EngineInvariant, StopSpokenStep, PTL DEF Spec
<1>4. StopSpoken => StopIsHeard
  BY DEF StopSpoken, StopIsHeard
<1> QED
  BY <1>3, <1>4, PTL

(* A stop gets lost in no other way than by setting STOP after it has found  *)
(* SEND clear and init has set it since.                                     *)
LEMMA LostStep ==
    ASSUME EngineInv, BytesCounted, [Next]_vars, LostStop', ~LostStop
    PROVE  \E t \in Threads : StopTooLate(t)
<1>1. [TunnelNext]_tunnelVars
  BY EngineStepIsTunnelStep
<1> USE DEF LostStop, mainVars, taskVars, tunnelVars
<1>2. ~UNCHANGED tunnelVars
  OBVIOUS
<1>3. ~MainEnter /\ ~MainStep
  BY DEF MainEnter, MainStep, MainFails, InitEventFds, InitFails, InitDone,
         RunConsumesStop, RunStarts, SystemRunReturns, FiniTry, Teardown
<1>4. ~TaskStep
  BY DEF TaskStep, EventRead, EventClear, EventJoinsIo, EventJoinsTimer, PacketArrives,
         IoOpens, IoHandles, IoWaits, IoBreaks, IoRetries, IoEnds, TimerStep,
         TimerExpires, SessionEnds
<1>5. PICK t \in Threads : StopCall(t) \/ StopStep(t)
  BY <1>1, <1>2, <1>3, <1>4 DEF TunnelNext
<1>6. eventBytes \in Nat
  BY DEF EngineInv, TypeOK, TunnelTypeOK
<1>7. StopSetStop(t)
  BY <1>5, <1>6 DEF StopCall, StopStep, StopAcquire, StopSignal, StopWrite, StopRelease
<1>8. wpc = "tasks"
  BY <1>7 DEF StopSetStop
<1> QED
  BY <1>7, <1>8 DEF StopSetStop, StopTooLate, BytesCounted

(* hev_socks5_tunnel_stop: StopTooLate, which StopReturns excepts, is the    *)
(* only way in which the worker may fail to hear of a stop.                  *)
THEOREM LostInOneWindow == Spec => LostOnlyWhenTooLate
<1>1. Spec => []BytesCounted
  BY EngineRunsTunnel, BytesAreCounted, PTL
<1>2. EngineInv /\ BytesCounted /\ [Next]_vars
        => [LostStop' => LostStop \/ \E t \in Threads : StopTooLate(t)]_vars
  BY LostStep
<1> QED
  BY <1>1, <1>2, EngineInvariant, PTL DEF Spec, LostOnlyWhenTooLate

-----------------------------------------------------------------------------
(* Who holds g_mutex is inside, and who holds g_protector_mutex is the       *)
(* worker, in a task that runs.                                              *)
HoldersAreInside ==
    /\ gMutex # Nobody => cpc[gMutex] # "idle"
    /\ protectorMutex = "worker" <=> prot # "idle"
    /\ prot # "idle" => worker = "main" /\ TasksMayRun

LEMMA HoldersStep ==
    ASSUME EngineInv, HoldersAreInside, [Next]_vars
    PROVE  HoldersAreInside'
<1>s. TypeOK
  BY DEF EngineInv
<1> USE NobodyAssumption
        DEF HoldersAreInside, TypeOK, Goto, Return, jniVars, tunnelVars, engineVars
<1>1. CASE WorkerEnters
  BY <1>1 DEF WorkerEnters, MainEnter
<1>2. CASE WorkerInMain \/ WorkerRuns(TaskStep) \/ WorkerLowers
  BY <1>2 DEF WorkerInMain, WorkerRuns, WorkerLowers, TasksMayRun
<1>3. ASSUME NEW s \in Sessions, ProtectLocks(s) PROVE HoldersAreInside'
  BY <1>3 DEF ProtectLocks, TasksMayRun, mainVars, taskVars
<1>4. CASE ProtectReturns
  BY <1>4 DEF ProtectReturns
<1>5. ASSUME NEW t \in Threads, Lock(t) PROVE HoldersAreInside'
  BY <1>s, <1>5 DEF Lock, TasksMayRun, mainVars, taskVars
<1>6. ASSUME NEW t \in Threads, CallerStep(t) PROVE HoldersAreInside'
  <2>1. UNCHANGED <<wpc, event, io, protectorMutex, prot>>
    <3>1. CASE StopQuits(t)
      BY <3>1 DEF StopQuits, StopCall, mainVars, taskVars
    <3>2. CASE StopQuitting(t)
      BY <3>2 DEF StopQuitting, StopStep, StopAcquire, StopSignal, StopWrite,
                  StopSetStop, StopRelease, mainVars, taskVars
    <3>3. CASE ~StopQuits(t) /\ ~StopQuitting(t)
      BY <1>6, <3>3 DEF CallerStep, StartRefused, StartWithoutProtector, StartPrepares,
             StartSpawns, StartCannotSpawn, StopQuitted, StopWithoutQuit, StopJoins,
             StopLowers, ClearProtector, mainVars, taskVars
    <3> QED
      BY <3>1, <3>2, <3>3
  <2>2. gMutex' # Nobody => gMutex' = gMutex /\ cpc'[gMutex] # "idle"
    <3>1. CASE gMutex' = Nobody
      BY <3>1
    <3>2. CASE StopQuitting(t)
      BY <3>2 DEF StopQuitting
    <3>3. CASE gMutex' # Nobody /\ ~StopQuitting(t)
      <4>1. /\ gMutex' = gMutex
            /\ \E to \in {"startSpawn", "clear", "quit", "join", "lower"} :
                  cpc' = [cpc EXCEPT ![t] = to]
        BY <1>6, <3>3 DEF CallerStep, StartRefused, StartWithoutProtector, StartPrepares,
               StartSpawns, StartCannotSpawn, StopQuits, StopQuitted, AfterQuit,
               StopWithoutQuit, StopJoins, StopLowers, ClearProtector
      <4> QED
        BY <1>s, <3>3, <4>1
    <3> QED
      BY <3>1, <3>2, <3>3
  <2>3. worker = "main" => worker' = "main"
        \/ \E u \in Threads : cpc[u] = "startSpawn"
    BY <1>6 DEF CallerStep, StartRefused, StartWithoutProtector, StartPrepares,
           StartSpawns, StartCannotSpawn, StopQuits, StopQuitting, StopQuitted,
           StopWithoutQuit, StopJoins, StopLowers, ClearProtector
  <2>4. worker = "main" => worker' = "main"
    BY <2>3 DEF EngineInv, CallerAndWorker
  <2> QED
    BY <2>1, <2>2, <2>4 DEF TasksMayRun
<1>7. CASE UNCHANGED vars
  BY <1>7 DEF vars, TasksMayRun, mainVars, taskVars
<1> QED
  BY <1>1, <1>2, <1>3, <1>4, <1>5, <1>6, <1>7 DEF Next, WorkerStep

(* stopNative holds g_mutex while it joins, main's fini waits for WAIT, and  *)
(* protect_socket and clear_protector for g_protector_mutex: no two of them  *)
(* wait for each other.                                                      *)
THEOREM NoCircle == Spec => []NoCircularWait
<1>1. Init => HoldersAreInside
  BY NobodyAssumption DEF Init, HoldersAreInside
<1>2. Spec => []HoldersAreInside
  BY <1>1, EngineInvariant, HoldersStep, PTL DEF Spec
<1>3. Spec => []WaitIsALock
  BY EngineRunsTunnel, WaitExcludes, PTL
<1>4. EngineInv /\ HoldersAreInside /\ WaitIsALock => NoCircularWait
  <2> SUFFICES ASSUME EngineInv, HoldersAreInside, WaitIsALock,
                      NEW t \in Threads, cpc[t] = "join"
               PROVE  worker # "none" /\ "WAIT" \notin tsync
    BY DEF HoldersAreInside, NoCircularWait
  <2>1. worker # "none"
    BY DEF EngineInv, CallerAndWorker
  <2>2. ASSUME NEW u \in Signalling PROVE FALSE
    BY DEF Signalling, EngineInv, MutexHeld
  <2> QED
    BY <2>1, <2>2 DEF WaitIsALock
<1> QED
  BY <1>2, <1>3, <1>4, EngineInvariant, PTL

-----------------------------------------------------------------------------
(* The one thread in startNative that may create the thread has found        *)
(* nothing to join, under g_mutex, and nobody else has started one since.    *)
LEMMA SpawnStep == EngineInv /\ [Next]_vars =>
    [worker' = "born" => worker = "none" \/ worker = "born"]_vars
<1> SUFFICES ASSUME EngineInv, [Next]_vars, worker' = "born"
             PROVE  worker = "none" \/ worker = "born"
  OBVIOUS
<1>1. ASSUME NEW t \in Threads, StartSpawns(t) PROVE worker = "none"
  BY <1>1 DEF StartSpawns, Return, Goto, EngineInv, CallerAndWorker
<1>2. ASSUME NEW t \in Threads, CallerStep(t), ~StartSpawns(t)
      PROVE  worker = "born"
  BY <1>2 DEF CallerStep, StartRefused, StartWithoutProtector, StartPrepares,
              StartCannotSpawn, StopQuits, StopQuitting, StopQuitted,
              StopWithoutQuit, StopJoins, StopLowers, ClearProtector, engineVars
<1>3. ASSUME NEW t \in Threads, Lock(t) PROVE worker = "born"
  BY <1>3 DEF Lock
<1>4. ASSUME WorkerStep PROVE worker = "born"
  BY <1>4 DEF WorkerStep, WorkerEnters, WorkerInMain, WorkerRuns, ProtectLocks,
              ProtectReturns, WorkerLowers, engineVars
<1>5. CASE UNCHANGED vars
  BY <1>5 DEF vars, engineVars
<1>6. QED
  BY <1>1, <1>2, <1>3, <1>4, <1>5 DEF Next

(* startNative never assigns to a joinable std::thread, which would end the  *)
(* process, and never runs two tunnels at once.                              *)
THEOREM OneWorkerAtATime == Spec => NeverTwoWorkers
  BY EngineInvariant, SpawnStep, PTL DEF Spec, NeverTwoWorkers

-----------------------------------------------------------------------------
(* Each step of the JNI engine is a step of the engine the service knows, or *)
(* leaves it as it is.                                                       *)
LEMMA EngineStepMaps == EngineInv /\ [Next]_vars => [Engine!EngineNext]_SeenState
<1> SUFFICES ASSUME EngineInv, [Next]_vars
             PROVE  [Engine!EngineNext]_SeenState
  OBVIOUS
<1> USE DEF SeenState, EngineInv, TypeOK, MutexHeld, CallerAndWorker,
            FlagsTellTheTruth, Goto, Return, jniVars, engineVars
<1>1. CASE WorkerEnters
  BY <1>1 DEF WorkerEnters
<1>2. CASE WorkerInMain \/ (\E t \in Threads : StopQuitting(t)) \/ UNCHANGED vars
  BY <1>2 DEF WorkerInMain, StopQuitting, vars
<1>3. CASE \/ WorkerRuns(TaskStep) \/ ProtectReturns
           \/ \E s \in Sessions : ProtectLocks(s)
  BY <1>3 DEF WorkerRuns, ProtectReturns, ProtectLocks
<1>4. CASE WorkerLowers
  BY <1>4 DEF WorkerLowers, Lowered, Engine!EngineNext, Engine!EngineDies
<1>5. ASSUME NEW t \in Threads, StartSpawns(t)
      PROVE  Engine!EngineStart
  BY <1>5 DEF StartSpawns, Engine!EngineStart
<1>6. ASSUME NEW t \in Threads, StopJoins(t)
      PROVE  Engine!EngineJoined
  BY <1>6 DEF StopJoins, Engine!EngineJoined
<1>7. ASSUME NEW t \in Threads,
             \/ Lock(t) \/ StartRefused(t) \/ StartWithoutProtector(t)
             \/ StopQuits(t) \/ StopQuitted(t) \/ StopWithoutQuit(t)
             \/ ClearProtector(t)
      PROVE  UNCHANGED SeenState
  BY <1>7 DEF Lock, StartRefused, StartWithoutProtector, StopQuits, StopQuitted,
              StopWithoutQuit, ClearProtector
<1>8. ASSUME NEW t \in Threads,
             StartPrepares(t) \/ StartCannotSpawn(t) \/ StopLowers(t)
      PROVE  UNCHANGED SeenState
  <2>1. worker = "none" /\ worker' = "none"
    BY <1>8 DEF StartPrepares, StartCannotSpawn, StopLowers, Refuses
  <2>2. QED
    BY <2>1
<1>9. QED
  BY <1>1, <1>2, <1>3, <1>4, <1>5, <1>6, <1>7, <1>8
     DEF Next, WorkerStep, CallerStep, Engine!EngineNext

(* The engine keeps what NativeEngine promises the VPN service.              *)
THEOREM EngineImplementsContract == Spec => ImplementsEngine
<1>1. Init => Engine!EngineInit
  BY DEF Init, Engine!EngineInit, SeenState
<1>2. QED
  BY <1>1, EngineInvariant, EngineStepMaps, PTL
     DEF Spec, ImplementsEngine, Engine!EngineSpec
=============================================================================
