-------------------------- MODULE HevTunnelProofs ---------------------------
(***************************************************************************)
(* Proofs about HevTunnel, for any set of stopping threads and any set of  *)
(* sessions, whether or not the TUN device may break.                      *)
(*                                                                         *)
(* The argument for the event sockets: a thread signals only if it saw     *)
(* SEND, and holds the lock WAIT while it does (WaitIsALock); SEND is set  *)
(* only while the sockets are open (SendMeansOpen); and fini, which clears *)
(* SEND, goes on to close them only once nobody holds WAIT                 *)
(* (SignalMeansOpen).                                                      *)
(***************************************************************************)
EXTENDS HevTunnel, FiniteSetTheorems, TLAPS

(* The phases of main in which a signal may be on its way. *)
SignalPhases == {"run", "tasks", "fini"}

SendMeansOpen ==
    /\ wpc = "initTasks" => eventFds = "open"
    /\ "SEND" \in tsync => eventFds = "open" /\ wpc \in SignalPhases

SignalMeansOpen ==
    \A t \in Threads : spc[t] \in {"signal", "write"} =>
        eventFds = "open" /\ wpc \in SignalPhases

(* SENT is clear when main is not between init and fini, and as long as the  *)
(* event task reads it stands for a byte.                                    *)
SentInFlight ==
    /\ wpc \notin SignalPhases => "SENT" \notin tsync
    /\ wpc = "run" /\ "SENT" \in tsync
        => eventBytes > 0 \/ \E t \in Threads : spc[t] = "write"
    /\ SentMeansByte

(* The bytes in the event sockets: while SEND is set there is one at most,   *)
(* and none while its writer is still on the way or the next may set out;    *)
(* a signal that was on its way when fini cleared SEND adds one.             *)
Writing == \E t \in Threads : spc[t] = "write"

BytesCounted ==
    /\ wpc \in {"idle", "init", "initTasks"} => eventBytes = 0
    /\ wpc \in {"run", "tasks"} => "SEND" \in tsync
    /\ "SEND" \in tsync =>
          /\ eventBytes <= 1
          /\ Writing \/ "SENT" \notin tsync \/ event = "clearing" => eventBytes = 0
          /\ "SENT" \notin tsync \/ event = "clearing" => ~Writing
    /\ "SEND" \notin tsync =>
          /\ eventBytes <= 2
          /\ (\E t \in Threads : spc[t] \in {"signal", "write"}) => eventBytes <= 1
    /\ event = "clearing" => wpc = "tasks" /\ "SENT" \in tsync

(* Once the event task has read the byte the flag run is down. *)
RunIsDown == event \in {"clearing", "joinIo", "joinTimer", "done"} => run = 0

LEMMA InitInv ==
    TunnelInit => /\ TunnelTypeOK /\ WaitIsALock
                  /\ SendMeansOpen /\ SignalMeansOpen /\ SentInFlight
                  /\ RunIsDown /\ NoSessionLeftBehind /\ TimersRunForSessions
  BY DEF TunnelInit, TunnelTypeOK, WaitIsALock, Signalling, SendMeansOpen,
         SignalMeansOpen, SentInFlight, SentMeansByte, RunIsDown,
         NoSessionLeftBehind, TimersRunForSessions

-----------------------------------------------------------------------------
(* Every step keeps the types. *)
LEMMA TypeStep == TunnelTypeOK /\ [TunnelNext]_tunnelVars => TunnelTypeOK'
<1> SUFFICES ASSUME TunnelTypeOK, [TunnelNext]_tunnelVars PROVE TunnelTypeOK'
  OBVIOUS
<1> USE DEF TunnelTypeOK, mainVars, taskVars
<1>1. CASE MainEnter
  BY <1>1 DEF MainEnter
<1>2. CASE MainFails
  BY <1>2 DEF MainFails
<1>3. CASE InitEventFds
  BY <1>3 DEF InitEventFds
<1>4. CASE InitFails
  BY <1>4 DEF InitFails
<1>5. CASE InitDone
  BY <1>5 DEF InitDone
<1>6. CASE RunConsumesStop
  BY <1>6 DEF RunConsumesStop
<1>7. CASE RunStarts
  BY <1>7 DEF RunStarts
<1>8. CASE SystemRunReturns
  BY <1>8 DEF SystemRunReturns
<1>9. CASE FiniTry
  BY <1>9 DEF FiniTry, FiniClears, FiniWaits
<1>10. CASE Teardown
  BY <1>10 DEF Teardown
<1>11. CASE EventRead
  BY <1>11 DEF EventRead
<1>12. CASE EventClear
  BY <1>12 DEF EventClear, TerminateAll, JoinWakes, Woken
<1>13. CASE EventJoinsIo
  BY <1>13 DEF EventJoinsIo, JoinWakes, Woken
<1>14. CASE EventJoinsTimer
  BY <1>14 DEF EventJoinsTimer
<1>15. CASE PacketArrives
  BY <1>15 DEF PacketArrives
<1>16. ASSUME NEW s \in Sessions, NEW E \in Evictions, IoOpens(s, E) PROVE TunnelTypeOK'
  BY <1>16 DEF IoOpens, IoMayHandle, AcceptWakes, Woken
<1>17. CASE IoHandles \/ IoWaits \/ IoBreaks
  BY <1>17 DEF IoHandles, IoWaits, IoBreaks, IoMayHandle
<1>18. CASE IoRetries
  BY <1>18 DEF IoRetries, tunnelVars
<1>19. CASE IoEnds
  BY <1>19 DEF IoEnds
<1>20. CASE TimerStep
  BY <1>20 DEF TimerStep
<1>21. CASE TimerExpires
  BY <1>21 DEF TimerExpires
<1>22. ASSUME NEW s \in Sessions, SessionEnds(s) PROVE TunnelTypeOK'
  BY <1>22 DEF SessionEnds, DropsMark
<1>23. ASSUME NEW t \in Threads, StopCall(t) PROVE TunnelTypeOK'
  BY <1>23 DEF StopCall
<1>24. ASSUME NEW t \in Threads, StopAcquire(t) PROVE TunnelTypeOK'
  BY <1>24 DEF StopAcquire, StopFree
<1>25. ASSUME NEW t \in Threads, StopSignal(t) PROVE TunnelTypeOK'
  BY <1>25 DEF StopSignal, FirstSignal
<1>26. ASSUME NEW t \in Threads, StopWrite(t) PROVE TunnelTypeOK'
  BY <1>26 DEF StopWrite
<1>27. ASSUME NEW t \in Threads, StopSetStop(t) PROVE TunnelTypeOK'
  BY <1>27 DEF StopSetStop
<1>28. ASSUME NEW t \in Threads, StopRelease(t) PROVE TunnelTypeOK'
  BY <1>28 DEF StopRelease
<1>29. CASE UNCHANGED tunnelVars
  BY <1>29 DEF tunnelVars
<1> QED
  BY <1>1, <1>2, <1>3, <1>4, <1>5, <1>6, <1>7, <1>8, <1>9, <1>10, <1>11,
     <1>12, <1>13, <1>14, <1>15, <1>16, <1>17, <1>18, <1>19, <1>20, <1>21,
     <1>22, <1>23, <1>24, <1>25, <1>26, <1>27, <1>28, <1>29
     DEF TunnelNext, MainStep, TaskStep, StopStep

(* The bit WAIT is taken by StopAcquire and given back by StopRelease only. *)
LEMMA LockStep ==
    TunnelTypeOK /\ WaitIsALock /\ [TunnelNext]_tunnelVars => WaitIsALock'
<1> SUFFICES ASSUME TunnelTypeOK, WaitIsALock,
                    [TunnelNext]_tunnelVars
             PROVE  WaitIsALock'
  OBVIOUS
<1> USE DEF TunnelTypeOK, WaitIsALock, Signalling,
            mainVars, taskVars
<1>1. CASE FiniTry
  BY <1>1
     DEF FiniTry, FiniClears, FiniWaits
<1>2. ASSUME NEW t \in Threads, StopAcquire(t) PROVE WaitIsALock'
  BY <1>2
     DEF StopAcquire, StopFree
<1>3. ASSUME NEW t \in Threads, StopSignal(t) PROVE WaitIsALock'
  BY <1>3
     DEF StopSignal, FirstSignal
<1>4. ASSUME NEW t \in Threads, StopWrite(t) PROVE WaitIsALock'
  BY <1>4
     DEF StopWrite
<1>5. ASSUME NEW t \in Threads, StopSetStop(t) PROVE WaitIsALock'
  BY <1>5
     DEF StopSetStop
<1>6. ASSUME NEW t \in Threads, StopRelease(t) PROVE WaitIsALock'
  BY <1>6
     DEF StopRelease
<1>7. CASE MainEnter \/ MainFails \/ InitEventFds \/ InitFails \/
          InitDone \/ RunConsumesStop \/ RunStarts \/ SystemRunReturns
          \/ Teardown
  BY <1>7
     DEF MainEnter, MainFails, InitEventFds, InitFails, InitDone,
         RunConsumesStop, RunStarts, SystemRunReturns, Teardown
<1>8. CASE EventRead \/ EventClear \/ EventJoinsIo \/ EventJoinsTimer
          \/ PacketArrives \/ IoHandles \/ IoWaits \/ IoBreaks \/ IoRetries \/ IoEnds \/
          TimerStep \/ TimerExpires
  BY <1>8
     DEF EventRead, TasksMayRun, EventClear, TerminateAll, JoinWakes,
         Woken, EventJoinsIo, EventJoinsTimer, PacketArrives, IoHandles, IoWaits, IoBreaks, IoMayHandle,
         IoRetries, tunnelVars, IoEnds, TimerStep, TimerExpires
<1>9. ASSUME NEW s \in Sessions, NEW E \in Evictions, IoOpens(s, E) PROVE WaitIsALock'
  BY <1>9
     DEF IoOpens, IoMayHandle, AcceptWakes, Woken
<1>10. ASSUME NEW s \in Sessions, SessionEnds(s) PROVE WaitIsALock'
  BY <1>10
     DEF SessionEnds
<1>11. ASSUME NEW t \in Threads, StopCall(t)
       PROVE  WaitIsALock'
  BY <1>11
     DEF StopCall
<1>12. CASE UNCHANGED tunnelVars
  BY <1>12 DEF tunnelVars
<1> QED
  BY <1>1, <1>2, <1>3, <1>4, <1>5, <1>6, <1>7, <1>8, <1>9, <1>10, <1>11,
     <1>12
     DEF TunnelNext, MainStep, TaskStep, StopStep

(* The sockets are open while SEND is set or a thread signals. *)
LEMMA OpenStep ==
    TunnelTypeOK /\ WaitIsALock /\ SendMeansOpen /\ SignalMeansOpen /\ [TunnelNext]_tunnelVars => (SendMeansOpen /\ SignalMeansOpen)'
<1> SUFFICES ASSUME TunnelTypeOK, WaitIsALock, SendMeansOpen, SignalMeansOpen,
                    [TunnelNext]_tunnelVars
             PROVE  (SendMeansOpen /\ SignalMeansOpen)'
  OBVIOUS
<1> USE DEF TunnelTypeOK, WaitIsALock, Signalling, SendMeansOpen,
            SignalMeansOpen, SignalPhases,
            mainVars, taskVars
<1>1. CASE InitEventFds
  BY <1>1
     DEF InitEventFds
<1>2. CASE InitDone
  BY <1>2
     DEF InitDone
<1>3. CASE FiniTry
  BY <1>3
     DEF FiniTry, FiniClears, FiniWaits
<1>4. CASE Teardown
  BY <1>4
     DEF Teardown
<1>5. ASSUME NEW t \in Threads, StopAcquire(t) PROVE (SendMeansOpen /\ SignalMeansOpen)'
  BY <1>5
     DEF StopAcquire, StopFree
<1>6. ASSUME NEW t \in Threads, StopSignal(t) PROVE (SendMeansOpen /\ SignalMeansOpen)'
  BY <1>6
     DEF StopSignal, FirstSignal
<1>7. CASE MainEnter \/ MainFails \/ InitFails \/ RunConsumesStop \/
          RunStarts \/ SystemRunReturns
  BY <1>7
     DEF MainEnter, MainFails, InitFails, RunConsumesStop, RunStarts,
         SystemRunReturns
<1>8. CASE EventRead \/ EventClear \/ EventJoinsIo \/ EventJoinsTimer
          \/ PacketArrives \/ IoHandles \/ IoWaits \/ IoBreaks \/ IoRetries \/ IoEnds \/
          TimerStep \/ TimerExpires
  BY <1>8
     DEF EventRead, TasksMayRun, EventClear, TerminateAll, JoinWakes,
         Woken, EventJoinsIo, EventJoinsTimer, PacketArrives, IoHandles, IoWaits, IoBreaks, IoMayHandle,
         IoRetries, tunnelVars, IoEnds, TimerStep, TimerExpires
<1>9. ASSUME NEW s \in Sessions, NEW E \in Evictions, IoOpens(s, E) PROVE (SendMeansOpen /\ SignalMeansOpen)'
  BY <1>9
     DEF IoOpens, IoMayHandle, AcceptWakes, Woken
<1>10. ASSUME NEW s \in Sessions, SessionEnds(s) PROVE (SendMeansOpen /\ SignalMeansOpen)'
  BY <1>10
     DEF SessionEnds
<1>11. ASSUME NEW t \in Threads, StopCall(t) \/ StopWrite(t)
                  \/ StopSetStop(t) \/ StopRelease(t)
       PROVE  (SendMeansOpen /\ SignalMeansOpen)'
  BY <1>11
     DEF StopCall, StopWrite, StopSetStop, StopRelease
<1>12. CASE UNCHANGED tunnelVars
  BY <1>12 DEF tunnelVars
<1> QED
  BY <1>1, <1>2, <1>3, <1>4, <1>5, <1>6, <1>7, <1>8, <1>9, <1>10, <1>11,
     <1>12
     DEF TunnelNext, MainStep, TaskStep, StopStep

(* SENT stands for a byte until the event task has read it. *)
LEMMA SentStep ==
    TunnelTypeOK /\ WaitIsALock /\ SignalMeansOpen /\ SentInFlight /\ [TunnelNext]_tunnelVars => SentInFlight'
<1> SUFFICES ASSUME TunnelTypeOK, WaitIsALock, SignalMeansOpen, SentInFlight,
                    [TunnelNext]_tunnelVars
             PROVE  SentInFlight'
  OBVIOUS
<1> USE DEF TunnelTypeOK, WaitIsALock, Signalling, SignalMeansOpen,
            SignalPhases, SentInFlight, SentMeansByte,
            mainVars, taskVars
<1>1. CASE InitDone
  BY <1>1
     DEF InitDone
<1>2. CASE FiniTry
  BY <1>2
     DEF FiniTry, FiniClears, FiniWaits
<1>3. CASE RunStarts
  BY <1>3
     DEF RunStarts
<1>4. CASE EventRead
  BY <1>4
     DEF EventRead, TasksMayRun
<1>5. CASE EventClear
  BY <1>5
     DEF EventClear, TerminateAll, JoinWakes, Woken
<1>6. ASSUME NEW t \in Threads, StopAcquire(t) PROVE SentInFlight'
  BY <1>6
     DEF StopAcquire, StopFree
<1>7. ASSUME NEW t \in Threads, StopSignal(t) PROVE SentInFlight'
  BY <1>7
     DEF StopSignal, FirstSignal
<1>8. ASSUME NEW t \in Threads, StopWrite(t) PROVE SentInFlight'
  BY <1>8
     DEF StopWrite
<1>9. ASSUME NEW t \in Threads, StopSetStop(t) PROVE SentInFlight'
  BY <1>9
     DEF StopSetStop
<1>10. ASSUME NEW t \in Threads, StopRelease(t) PROVE SentInFlight'
  BY <1>10
     DEF StopRelease
<1>11. CASE MainEnter \/ MainFails \/ InitEventFds \/ InitFails \/
          RunConsumesStop \/ SystemRunReturns \/ Teardown
  BY <1>11
     DEF MainEnter, MainFails, InitEventFds, InitFails, RunConsumesStop,
         SystemRunReturns, Teardown
<1>12. CASE EventJoinsIo \/ EventJoinsTimer \/ PacketArrives \/
          IoHandles \/ IoWaits \/ IoBreaks \/ IoRetries \/ IoEnds \/ TimerStep \/ TimerExpires
  BY <1>12
     DEF EventJoinsIo, JoinWakes, Woken, EventJoinsTimer, PacketArrives,
         IoHandles, IoWaits, IoBreaks, IoMayHandle, IoRetries, tunnelVars, IoEnds, TimerStep, TimerExpires
<1>13. ASSUME NEW s \in Sessions, NEW E \in Evictions, IoOpens(s, E) PROVE SentInFlight'
  BY <1>13
     DEF IoOpens, IoMayHandle, AcceptWakes, Woken
<1>14. ASSUME NEW s \in Sessions, SessionEnds(s) PROVE SentInFlight'
  BY <1>14
     DEF SessionEnds
<1>15. ASSUME NEW t \in Threads, StopCall(t)
       PROVE  SentInFlight'
  BY <1>15
     DEF StopCall
<1>16. CASE UNCHANGED tunnelVars
  BY <1>16 DEF tunnelVars
<1> QED
  BY <1>1, <1>2, <1>3, <1>4, <1>5, <1>6, <1>7, <1>8, <1>9, <1>10, <1>11,
     <1>12, <1>13, <1>14, <1>15, <1>16
     DEF TunnelNext, MainStep, TaskStep, StopStep

(* The bytes that SENT keeps few.                                            *)
LEMMA BytesStep ==
    TunnelTypeOK /\ WaitIsALock /\ SendMeansOpen /\ SignalMeansOpen /\ SentInFlight /\ BytesCounted
       /\ [TunnelNext]_tunnelVars => BytesCounted'
<1> SUFFICES ASSUME TunnelTypeOK, WaitIsALock, SendMeansOpen, SignalMeansOpen, SentInFlight,
                    BytesCounted, [TunnelNext]_tunnelVars
             PROVE  BytesCounted'
  OBVIOUS
<1> USE DEF TunnelTypeOK, Signalling, BytesCounted, Writing, mainVars, taskVars
<1>1. CASE InitDone
  <2>1. ~Writing /\ "SENT" \notin tsync /\ eventBytes = 0
    BY <1>1 DEF InitDone, SignalMeansOpen, SentInFlight, SignalPhases
  <2> QED
    BY <1>1, <2>1 DEF InitDone
<1>2. CASE FiniTry
  <2>1. spc' = spc /\ eventBytes' = eventBytes /\ event' = event /\ "SEND" \notin tsync'
        /\ wpc' \in {"fini", "teardown"} /\ wpc = "fini"
    BY <1>2 DEF FiniTry, FiniClears, FiniWaits
  <2> QED
    BY <2>1
<1>3. CASE RunStarts
  BY <1>3 DEF RunStarts
<1>4. CASE EventRead
  <2>1. "SENT" \in tsync /\ ~Writing
    BY <1>4 DEF EventRead, TasksMayRun
  <2> QED
    BY <1>4, <2>1 DEF EventRead, TasksMayRun
<1>5. CASE EventClear
  BY <1>5 DEF EventClear
<1>6. ASSUME NEW t \in Threads, StopAcquire(t) PROVE BytesCounted'
  <2>1. /\ eventBytes' = eventBytes /\ wpc' = wpc /\ event' = event
        /\ "SEND" \in tsync' <=> "SEND" \in tsync
        /\ "SENT" \in tsync' <=> "SENT" \in tsync
        /\ "SEND" \notin tsync => spc'[t] = "setStop"
        /\ spc'[t] # "write"
        /\ \A u \in Threads : u # t => spc'[u] = spc[u]
    BY <1>6 DEF StopAcquire, StopFree
  <2>2. Writing' => Writing
    BY <2>1
  <2>3. "SEND" \notin tsync =>
           ((\E u \in Threads : spc'[u] \in {"signal", "write"}) =>
               \E u \in Threads : spc[u] \in {"signal", "write"})
    BY <2>1
  <2> QED
    BY <2>1, <2>2, <2>3
<1>7. ASSUME NEW t \in Threads, StopSignal(t) PROVE BytesCounted'
  <2>1. /\ eventBytes' = eventBytes /\ wpc' = wpc /\ event' = event /\ spc[t] = "signal"
        /\ "SEND" \in tsync' <=> "SEND" \in tsync
        /\ "SENT" \in tsync'
        /\ spc'[t] = IF "SENT" \notin tsync THEN "write" ELSE "release"
        /\ \A u \in Threads : u # t => spc'[u] = spc[u]
    BY <1>7 DEF StopSignal, FirstSignal
  <2>2. \A u \in Threads : u # t => spc'[u] \notin {"signal", "write"}
    BY <2>1 DEF WaitIsALock
  <2>3. CASE "SENT" \in tsync
    <3>1. ~Writing'
      BY <2>1, <2>2, <2>3
    <3> QED
      BY <2>1, <2>3, <3>1
  <2>4. CASE "SENT" \notin tsync
    BY <2>1, <2>4
  <2> QED
    BY <2>3, <2>4
<1>8. ASSUME NEW t \in Threads, StopWrite(t) PROVE BytesCounted'
  <2>1. /\ eventBytes' = eventBytes + 1 /\ wpc' = wpc /\ event' = event /\ tsync' = tsync
        /\ spc[t] = "write" /\ spc'[t] = "release" /\ wpc \in {"run", "tasks", "fini"}
        /\ \A u \in Threads : u # t => spc'[u] = spc[u]
    BY <1>8 DEF StopWrite, SignalMeansOpen, SignalPhases
  <2>2. \A u \in Threads : spc'[u] \notin {"signal", "write"}
    BY <2>1 DEF WaitIsALock
  <2>3. ~Writing' /\ Writing
    BY <2>1, <2>2
  <2> QED
    BY <2>1, <2>2, <2>3
<1>9. ASSUME NEW t \in Threads, StopSetStop(t) \/ StopRelease(t) \/ StopCall(t)
      PROVE  BytesCounted'
  <2>1. /\ eventBytes' = eventBytes /\ wpc' = wpc /\ event' = event
        /\ "SEND" \in tsync' <=> "SEND" \in tsync
        /\ "SENT" \in tsync' <=> "SENT" \in tsync
        /\ spc'[t] \notin {"signal", "write"}
        /\ \A u \in Threads : u # t => spc'[u] = spc[u]
    BY <1>9 DEF StopSetStop, StopRelease, StopCall
  <2>2. /\ Writing' => Writing
        /\ (\E u \in Threads : spc'[u] \in {"signal", "write"}) =>
               \E u \in Threads : spc[u] \in {"signal", "write"}
    BY <2>1
  <2> QED
    BY <2>1, <2>2
<1>10. CASE RunConsumesStop
  BY <1>10 DEF RunConsumesStop
<1>11. CASE MainEnter \/ MainFails \/ InitEventFds \/ InitFails \/ SystemRunReturns
  BY <1>11 DEF MainEnter, MainFails, InitEventFds, InitFails, SystemRunReturns
<1>12. CASE Teardown
  <2>1. "SEND" \notin tsync
    BY <1>12 DEF Teardown, SendMeansOpen, SignalPhases
  <2>2. /\ eventBytes' = 0 /\ tsync' = tsync /\ event' = "none" /\ wpc' = "idle"
    BY <1>12 DEF Teardown
  <2> QED
    BY <2>1, <2>2
<1>13. CASE EventJoinsIo \/ EventJoinsTimer \/ PacketArrives \/
          IoHandles \/ IoWaits \/ IoBreaks \/ IoRetries \/ IoEnds \/ TimerStep \/ TimerExpires
  BY <1>13
     DEF EventJoinsIo, JoinWakes, Woken, EventJoinsTimer, PacketArrives,
         IoHandles, IoWaits, IoBreaks, IoMayHandle, IoRetries, tunnelVars, IoEnds, TimerStep, TimerExpires
<1>14. ASSUME NEW s \in Sessions, NEW E \in Evictions, IoOpens(s, E) PROVE BytesCounted'
  BY <1>14 DEF IoOpens, IoMayHandle, AcceptWakes, Woken
<1>15. ASSUME NEW s \in Sessions, SessionEnds(s) PROVE BytesCounted'
  BY <1>15 DEF SessionEnds
<1>16. CASE UNCHANGED tunnelVars
  BY <1>16 DEF tunnelVars
<1> QED
  BY <1>1, <1>2, <1>3, <1>4, <1>5, <1>6, <1>7, <1>8, <1>9, <1>10, <1>11,
     <1>12, <1>13, <1>14, <1>15, <1>16
     DEF TunnelNext, MainStep, TaskStep, StopStep

(* Every open session is told to end, and no other one is opened after that. *)
LEMMA SessionStep ==
    TunnelTypeOK /\ RunIsDown /\ NoSessionLeftBehind /\ [TunnelNext]_tunnelVars => (RunIsDown /\ NoSessionLeftBehind)'
<1> SUFFICES ASSUME TunnelTypeOK, RunIsDown, NoSessionLeftBehind,
                    [TunnelNext]_tunnelVars
             PROVE  (RunIsDown /\ NoSessionLeftBehind)'
  OBVIOUS
<1> USE DEF TunnelTypeOK, RunIsDown, NoSessionLeftBehind,
            mainVars, taskVars
<1>1. CASE EventClear
  BY <1>1
     DEF EventClear, TerminateAll, JoinWakes, Woken
<1>2. ASSUME NEW s \in Sessions, NEW E \in Evictions, IoOpens(s, E) PROVE (RunIsDown /\ NoSessionLeftBehind)'
  BY <1>2
     DEF IoOpens, IoMayHandle, AcceptWakes, Woken
<1>3. ASSUME NEW s \in Sessions, SessionEnds(s) PROVE (RunIsDown /\ NoSessionLeftBehind)'
  BY <1>3
     DEF SessionEnds, DropsMark
<1>4. CASE MainEnter \/ MainFails \/ InitEventFds \/ InitFails \/
          InitDone \/ RunConsumesStop \/ RunStarts \/ SystemRunReturns
          \/ FiniTry \/ Teardown
  BY <1>4
     DEF MainEnter, MainFails, InitEventFds, InitFails, InitDone,
         RunConsumesStop, RunStarts, SystemRunReturns, FiniTry,
         FiniClears, FiniWaits, Teardown
<1>5. CASE EventRead \/ EventJoinsIo \/ EventJoinsTimer \/
          PacketArrives \/ IoHandles \/ IoWaits \/ IoBreaks \/ IoRetries \/ IoEnds \/
          TimerStep \/ TimerExpires
  BY <1>5
     DEF EventRead, TasksMayRun, EventJoinsIo, JoinWakes, Woken,
         EventJoinsTimer, PacketArrives, IoHandles, IoWaits, IoBreaks, IoMayHandle, IoRetries, tunnelVars,
         IoEnds, TimerStep, TimerExpires
<1>6. ASSUME NEW t \in Threads, StopCall(t) \/
                  StopAcquire(t) \/ StopSignal(t) \/
                  StopWrite(t) \/ StopSetStop(t) \/
                  StopRelease(t)
       PROVE  (RunIsDown /\ NoSessionLeftBehind)'
  BY <1>6
     DEF StopCall, StopAcquire, StopFree, StopSignal, FirstSignal,
         StopWrite, StopSetStop, StopRelease
<1>7. CASE UNCHANGED tunnelVars
  BY <1>7 DEF tunnelVars
<1> QED
  BY <1>1, <1>2, <1>3, <1>4, <1>5, <1>6, <1>7
     DEF TunnelNext, MainStep, TaskStep, StopStep

(* The timer task goes to sleep for good only when there is no session, and  *)
(* whoever opens one wakes it.                                               *)
LEMMA TimerTaskStep ==
    TunnelTypeOK /\ TimersRunForSessions /\ [TunnelNext]_tunnelVars => TimersRunForSessions'
<1> SUFFICES ASSUME TunnelTypeOK, TimersRunForSessions,
                    [TunnelNext]_tunnelVars
             PROVE  TimersRunForSessions'
  OBVIOUS
<1> USE DEF TunnelTypeOK, TimersRunForSessions,
            mainVars, taskVars
<1>1. CASE RunStarts
  BY <1>1
     DEF RunStarts
<1>2. CASE EventJoinsIo
  BY <1>2
     DEF EventJoinsIo, JoinWakes, Woken
<1>3. ASSUME NEW s \in Sessions, NEW E \in Evictions, IoOpens(s, E) PROVE TimersRunForSessions'
  BY <1>3
     DEF IoOpens, IoMayHandle, AcceptWakes, Woken
<1>4. CASE TimerStep
  BY <1>4
     DEF TimerStep
<1>5. CASE TimerExpires
  BY <1>5
     DEF TimerExpires
<1>6. ASSUME NEW s \in Sessions, SessionEnds(s) PROVE TimersRunForSessions'
  BY <1>6
     DEF SessionEnds, DropsMark
<1>7. CASE MainEnter \/ MainFails \/ InitEventFds \/ InitFails \/
          InitDone \/ RunConsumesStop \/ SystemRunReturns \/ FiniTry
          \/ Teardown
  BY <1>7
     DEF MainEnter, MainFails, InitEventFds, InitFails, InitDone,
         RunConsumesStop, SystemRunReturns, FiniTry, FiniClears,
         FiniWaits, Teardown
<1>8. CASE EventRead \/ EventClear \/ EventJoinsTimer \/ PacketArrives
          \/ IoHandles \/ IoWaits \/ IoBreaks \/ IoRetries \/ IoEnds
  BY <1>8
     DEF EventRead, TasksMayRun, EventClear, TerminateAll, JoinWakes,
         Woken, EventJoinsTimer, PacketArrives, IoHandles, IoWaits, IoBreaks, IoMayHandle, IoRetries,
         tunnelVars, IoEnds
<1>9. ASSUME NEW t \in Threads, StopCall(t) \/
                  StopAcquire(t) \/ StopSignal(t) \/
                  StopWrite(t) \/ StopSetStop(t) \/
                  StopRelease(t)
       PROVE  TimersRunForSessions'
  BY <1>9
     DEF StopCall, StopAcquire, StopFree, StopSignal, FirstSignal,
         StopWrite, StopSetStop, StopRelease
<1>10. CASE UNCHANGED tunnelVars
  BY <1>10 DEF tunnelVars
<1> QED
  BY <1>1, <1>2, <1>3, <1>4, <1>5, <1>6, <1>7, <1>8, <1>9, <1>10
     DEF TunnelNext, MainStep, TaskStep, StopStep

-----------------------------------------------------------------------------
(* Every variable has its type, and no session that is gone stays marked.    *)
THEOREM TypeCorrectness == TunnelSpec => []TunnelTypeOK
BY InitInv, TypeStep, PTL DEF TunnelSpec

(* hev_socks5_tunnel_stop: WAIT is a lock, for any number of stoppers.       *)
THEOREM WaitExcludes == TunnelSpec => []WaitIsALock
BY InitInv, LockStep, TypeCorrectness, PTL DEF TunnelSpec

LEMMA SignalsAreOpen == TunnelSpec => [](SendMeansOpen /\ SignalMeansOpen)
BY InitInv, OpenStep, TypeCorrectness, WaitExcludes, PTL DEF TunnelSpec

LEMMA SentStaysInFlight == TunnelSpec => []SentInFlight
BY InitInv, SentStep, TypeCorrectness, WaitExcludes, SignalsAreOpen, PTL DEF TunnelSpec

LEMMA BytesAreCounted == TunnelSpec => []BytesCounted
<1>1. TunnelInit => BytesCounted
  BY DEF TunnelInit, BytesCounted, Writing
<1> QED
  BY <1>1, BytesStep, TypeCorrectness, WaitExcludes, SignalsAreOpen, SentStaysInFlight, PTL
     DEF TunnelSpec

(* hev_socks5_tunnel_stop against hev_socks5_tunnel_fini: a signal is never  *)
(* written to event sockets that are not open.                               *)
THEOREM SignalsReachOpenFds == TunnelSpec => []WritesToOpenFds
<1>1. SignalMeansOpen => WritesToOpenFds
  BY DEF SignalMeansOpen, WritesToOpenFds
<1> QED
  BY <1>1, SignalsAreOpen, PTL

(* hev_socks5_tunnel_stop against the event task: a signalled stop is not    *)
(* lost, its byte is there to be read.                                       *)
THEOREM SignalIsNotLost == TunnelSpec => []SentMeansByte
<1>1. SentInFlight => SentMeansByte
  BY DEF SentInFlight
<1> QED
  BY <1>1, SentStaysInFlight, PTL

(* event_task_entry: the tasks that it joins find no session that was not    *)
(* told to end.                                                              *)
THEOREM EverySessionIsTerminated == TunnelSpec => []NoSessionLeftBehind
BY InitInv, SessionStep, TypeCorrectness, PTL DEF TunnelSpec

(* lwip_timer_task_entry: lwIP's timers run while a session is open.         *)
THEOREM TimersKeepRunning == TunnelSpec => []TimersRunForSessions
BY InitInv, TimerTaskStep, TypeCorrectness, PTL DEF TunnelSpec

(* hev_socks5_tunnel_stop, fini and the event task together keep the bytes   *)
(* in the event sockets few, for any number of stoppers.                     *)
THEOREM SocketNeverFills == TunnelSpec => []FewBytesInFlight
<1>1. TunnelTypeOK /\ WaitIsALock /\ SignalMeansOpen /\ BytesCounted => FewBytesInFlight
  <2> SUFFICES ASSUME TunnelTypeOK, WaitIsALock, SignalMeansOpen, BytesCounted
               PROVE  FewBytesInFlight
    OBVIOUS
  <2> DEFINE W == {t \in Threads : spc[t] = "write"}
  <2>1. eventBytes \in Nat
    BY DEF TunnelTypeOK
  <2>2. CASE W = {}
    <3>1. Cardinality(W) = 0
      BY <2>2, FS_EmptySet
    <3>2. eventBytes <= IF wpc \in {"fini", "teardown"} THEN 2 ELSE 1
      BY DEF BytesCounted, TunnelTypeOK
    <3> QED
      BY <2>1, <3>1, <3>2 DEF FewBytesInFlight
  <2>3. ASSUME NEW t \in Threads, spc[t] = "write"
        PROVE  FewBytesInFlight
    <3>1. W = {t}
      BY <2>3 DEF WaitIsALock, Signalling
    <3>2. Cardinality(W) = 1
      BY <3>1, FS_Singleton
    <3>3. eventBytes <= IF wpc \in {"fini", "teardown"} THEN 1 ELSE 0
      <4>1. wpc \in {"run", "tasks", "fini"}
        BY <2>3 DEF SignalMeansOpen, SignalPhases
      <4>2. CASE "SEND" \in tsync
        BY <2>1, <2>3, <4>2 DEF BytesCounted, Writing
      <4>3. CASE "SEND" \notin tsync
        BY <2>1, <2>3, <4>1, <4>3 DEF BytesCounted
      <4> QED
        BY <4>2, <4>3
    <3> QED
      BY <2>1, <3>2, <3>3 DEF FewBytesInFlight
  <2> QED
    BY <2>2, <2>3
<1> QED
  BY <1>1, BytesAreCounted, TypeCorrectness, WaitExcludes, SignalsAreOpen, PTL
=============================================================================
