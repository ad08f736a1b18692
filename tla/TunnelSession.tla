--------------------------- MODULE TunnelSession ---------------------------
(***************************************************************************)
(* One TCP session of the tunnel (hev-socks5-session-tcp.c): the task that *)
(* connects to the SOCKS server and then moves bytes between the lwIP pcb  *)
(* of the application's connection and the upstream socket, and the lwIP   *)
(* callbacks that the I/O and timer tasks run on the same session.         *)
(* SessionTask says how the task sleeps and when the callbacks may run.    *)
(* The two byte streams are counted, those towards the application byte by *)
(* byte, because tcp_write does not copy: lwIP sends, and sends again,     *)
(* from the memory of the ring buffer.                                     *)
(***************************************************************************)
EXTENDS SessionTask, RingBuffer, Integers

CONSTANTS AppBytes,    \* bytes the application sends at most
          UpBytes,     \* bytes the upstream server sends at most
          Window,      \* TCP_WND, the receive window of the pcb
          SendRoom     \* room in the upstream socket's send buffer

ASSUME SessionAssumption ==
    /\ AppBytes \in Nat /\ UpBytes \in Nat
    /\ Window \in Nat \ {0} /\ SendRoom \in Nat \ {0}

VARIABLES
    resF, resB, \* res_f and res_b of the splice loop
    \* from the application to the upstream
    pcb,        \* self->pcb is not NULL
    pcbEof,     \* self->pcb_eof
    queue,      \* bytes in self->queue
    rcvWnd,     \* the pcb's receive window
    appSent,    \* bytes lwIP has taken from the application
    upRoom,     \* free room of the upstream socket
    upGot,      \* bytes the upstream socket has taken
    shutWr,     \* the upstream socket is shut down for writing
    \* from the upstream to the application
    upSent,     \* bytes that have arrived at the upstream socket
    upFin,      \* ... and its end
    upDead,     \* the upstream connection has been reset
    upRead,     \* bytes read from the upstream socket
    ring, data, \* the ring buffer and the bytes in it, by their numbers
    segs,       \* what lwIP has not seen acknowledged: offset and byte
    finOut,     \* tcp_shutdown has sent a FIN after segs
    appGot,     \* the bytes the application has received
    appEof      \* the application has received the FIN

fwdVars == <<resF, queue, rcvWnd, upRoom, upGot, shutWr>>
bwdVars == <<resB, upRead, ring, data, segs, finOut>>
envVars == <<pcbEof, appSent, upSent, upFin, upDead>>
appVars == <<appGot, appEof>>
sessionVars == <<taskVars, fwdVars, bwdVars, pcb, envVars, appVars>>

SessionInit ==
    /\ TaskInit
    /\ resF = 1 /\ resB = 1
    /\ pcb = TRUE /\ pcbEof = FALSE
    /\ queue = 0 /\ rcvWnd = Window /\ appSent = 0
    /\ upRoom = SendRoom /\ upGot = 0 /\ shutWr = FALSE
    /\ upSent = 0 /\ upFin = FALSE /\ upDead = FALSE /\ upRead = 0
    /\ ring = EmptyRing /\ data = [p \in Offsets |-> 0]
    /\ segs = <<>> /\ finOut = FALSE
    /\ appGot = <<>> /\ appEof = FALSE

-----------------------------------------------------------------------------
Connect ==
    /\ ConnectStep
    /\ UNCHANGED <<fwdVars, bwdVars, pcb, envVars, appVars>>

(* hev_socks5_client_handshake; a session whose pcb is gone by its end does  *)
(* not begin to splice.                                                      *)
Handshake ==
    /\ spc = "handshake"
    /\ MayRun
    /\ \/ WaitIo("handshake", timeout, "leaving")
       \/ GoOn("leaving") /\ UNCHANGED timeout
       \/ GoOn(IF pcb THEN "splice" ELSE "leaving") /\ UNCHANGED timeout
    /\ UNCHANGED <<fwdVars, bwdVars, pcb, envVars, appVars>>

-----------------------------------------------------------------------------
(* tcp_splice_f.  writev takes what the socket has room for; -1 is an error. *)
WriteResults ==
    IF upDead THEN {-1}
    ELSE IF upRoom = 0 THEN {0}
    ELSE {n \in 1 .. queue : n <= upRoom}

(* tcp_recved opens the window by what the upstream has taken. *)
WindowUnchanged(n) == rcvWnd                \* mutation of WindowOpened
WindowOpened(n) == IF pcb THEN rcvWnd + n ELSE rcvWnd

ShutsAtEof == pcbEof                        \* mutation of ShutsWhenDrained
ShutsWhenDrained == queue = 0 /\ pcbEof

Forward ==
    IF resF < 0 THEN UNCHANGED fwdVars
    ELSE IF ShutsWhenDrained
    THEN resF' = -1 /\ shutWr' = TRUE /\ UNCHANGED <<queue, rcvWnd, upRoom, upGot>>
    ELSE IF queue = 0 THEN resF' = 0 /\ UNCHANGED <<queue, rcvWnd, upRoom, upGot, shutWr>>
    ELSE \E n \in WriteResults :
            IF n <= 0
            THEN resF' = n /\ UNCHANGED <<queue, rcvWnd, upRoom, upGot, shutWr>>
            ELSE /\ resF' = 1
                 /\ queue' = queue - n
                 /\ rcvWnd' = WindowOpened(n)
                 /\ upRoom' = upRoom - n
                 /\ upGot' = upGot + n
                 /\ UNCHANGED shutWr

-----------------------------------------------------------------------------
(* tcp_splice_b.  readv fills what is free of the ring; 0 stands for "try    *)
(* again" and for a full ring, -1 for the end of the stream or an error.     *)
ReadResults ==
    IF Writing(ring) = <<>> THEN {0}
    ELSE IF upDead THEN {-1}
    ELSE IF upSent > upRead
    THEN {n \in 1 .. (upSent - upRead) : n <= SizeOf(Writing(ring))}
    ELSE IF upFin THEN {-1} ELSE {0}

(* The bytes of the ring after readv has stored n of them. *)
Filled(n) ==
    LET iov == Writing(ring)
    IN  [p \in Offsets |->
            LET js == {j \in 1 .. n : OffsetOf(iov, j) = p}
            IN  IF js = {} THEN data[p] ELSE upRead + CHOOSE j \in js : TRUE]

(* What tcp_write has queued of the iovecs when it failed for some of them:  *)
(* references into the ring, no copies.                                      *)
Queued(bytes, iov, failed) ==
    LET Piece(i) ==
            IF i \notin DOMAIN iov \ failed THEN <<>>
            ELSE [j \in 1 .. iov[i].len |->
                     [pos |-> iov[i].base + j - 1, byte |-> bytes[iov[i].base + j - 1]]]
    IN  Piece(1) \o Piece(2)

(* res after tcp_write and tcp_output: any error ends this direction. *)
AfterWrite(err) == IF err THEN -1 ELSE 1

(* What a read that has returned n leads to. *)
AfterRead(n) ==
    LET got == IF n > 0 THEN n ELSE 0
        filled == WriteFinish(ring, got)
        iov == Reading(filled)
        res == IF n > 0 THEN 1 ELSE n
    IN  /\ upRead' = upRead + got
        /\ data' = IF got = 0 THEN data ELSE Filled(got)
        /\ IF ~pcb
           THEN ring' = filled /\ resB' = -1 /\ UNCHANGED <<segs, finOut>>
           ELSE IF iov = <<>>
           THEN /\ ring' = filled
                /\ resB' = res
                /\ finOut' = (finOut \/ res < 0)
                /\ UNCHANGED segs
           ELSE \E failed \in SUBSET (DOMAIN iov), outputFails \in BOOLEAN :
                /\ ring' = ReadFinish(filled, filled.rda)
                /\ segs' = segs \o Queued(data', iov, failed)
                /\ resB' = AfterWrite(failed # {} \/ outputFails)
                /\ UNCHANGED finOut

Backward ==
    IF resB < 0 THEN UNCHANGED bwdVars
    ELSE \E n \in ReadResults : AfterRead(n)

-----------------------------------------------------------------------------
(* One turn of the loop in hev_socks5_session_tcp_splice: both directions,   *)
(* then HEV_TASK_YIELD, which does not look at the timeout, HEV_TASK_WAITIO, *)
(* or the end of the loop.                                                   *)
IdleIfEitherIs == resF' = 0 \/ resB' = 0     \* mutation of Idle
Idle == resF' <= 0 /\ resB' <= 0

Splice ==
    /\ spc = "splice"
    /\ MayRun
    /\ Forward
    /\ Backward
    /\ IF ~Idle THEN state' = "ready" /\ UNCHANGED <<spc, timeout>>
       ELSE IF resF' = 0 \/ resB' = 0 THEN WaitIo("splice", timeout, "drain")
       ELSE GoOn("drain") /\ UNCHANGED timeout
    /\ UNCHANGED <<pcb, envVars, appVars>>

(* The second loop: wait until lwIP has released every byte of the ring. *)
Drain ==
    /\ spc = "drain"
    /\ MayRun
    /\ IF pcb /\ ring.use > 0 THEN WaitIo("drain", timeout, "leaving")
                              ELSE GoOn("leaving") /\ UNCHANGED timeout
    /\ UNCHANGED <<fwdVars, bwdVars, pcb, envVars, appVars>>

(* hev_task_sleep has slept for the whole timeout: the yielder fails. *)
TimesOut ==
    /\ state \in {"asleep", "woken"}
    /\ GoOn(IF spc = "splice" THEN "drain" ELSE "leaving")
    /\ UNCHANGED <<timeout, fwdVars, bwdVars, pcb, envVars, appVars>>

(* hev_socks5_session_tcp_destruct: the pcb is aborted, the queue freed; the *)
(* ring has gone with the stack frame of the splice.                         *)
Destruct ==
    /\ spc = "leaving"
    /\ spc' = "done" /\ state' = "ready"
    /\ pcb' = FALSE
    /\ queue' = 0
    /\ segs' = <<>>
    /\ ring' = EmptyRing /\ data' = [p \in Offsets |-> 0]
    /\ UNCHANGED <<timeout, resF, rcvWnd, upRoom, upGot, shutWr,
                   resB, upRead, finOut, envVars, appVars>>

-----------------------------------------------------------------------------
(* The callbacks, run by the I/O and timer tasks.                            *)

(* tcp_recv_handler with a byte: lwIP closes the window by it. *)
RecvSilently == state                       \* mutation of RecvWakes
RecvWakes == Woken

AppSends ==
    /\ CallbacksMayRun
    /\ pcb /\ ~pcbEof /\ rcvWnd > 0 /\ appSent < AppBytes
    /\ appSent' = appSent + 1
    /\ rcvWnd' = rcvWnd - 1
    /\ queue' = queue + 1
    /\ state' = RecvWakes
    /\ UNCHANGED <<spc, timeout, resF, upRoom, upGot, shutWr, bwdVars, pcb,
                   pcbEof, upSent, upFin, upDead, appVars>>

(* tcp_recv_handler without one: the application's FIN. *)
AppCloses ==
    /\ CallbacksMayRun
    /\ pcb /\ ~pcbEof
    /\ pcbEof' = TRUE
    /\ state' = RecvWakes
    /\ UNCHANGED <<spc, timeout, fwdVars, bwdVars, pcb,
                   appSent, upSent, upFin, upDead, appVars>>

(* The application receives and acknowledges n bytes: lwIP sends them from   *)
(* the ring, tcp_sent_handler releases them.                                 *)
SentSilently == state                       \* mutation of SentWakes
SentWakes == Woken

AppReceives(n) ==
    /\ CallbacksMayRun
    /\ pcb
    /\ n <= Len(segs)
    /\ appGot' = appGot \o [i \in 1 .. n |-> data[segs[i].pos]]
    /\ segs' = SubSeq(segs, n + 1, Len(segs))
    /\ ring' = ReadRelease(ring, n)
    /\ state' = SentWakes
    /\ UNCHANGED <<spc, timeout, fwdVars, resB, upRead, data, finOut, pcb,
                   envVars, appEof>>

(* The FIN after the last byte. *)
AppReceivesFin ==
    /\ pcb /\ finOut /\ ~appEof /\ segs = <<>>
    /\ appEof' = TRUE
    /\ UNCHANGED <<taskVars, fwdVars, bwdVars, pcb, envVars, appGot>>

(* tcp_err_handler: the application has reset the connection, lwIP has given *)
(* up retransmitting or, both sides closed, has freed the pcb.               *)
PcbLost ==
    /\ CallbacksMayRun
    /\ pcb
    /\ pcb' = FALSE
    /\ segs' = <<>>
    /\ Terminated
    /\ UNCHANGED <<spc, fwdVars, resB, upRead, ring, data, finOut,
                   envVars, appGot, appEof>>

(* hev_socks5_session_terminate by the event task or at the session limit. *)
TerminateSession ==
    /\ CallbacksMayRun
    /\ Terminated
    /\ UNCHANGED <<spc, fwdVars, bwdVars, pcb, envVars, appVars>>

-----------------------------------------------------------------------------
(* The upstream socket.  epoll is edge triggered: what arrives wakes the     *)
(* task, room wakes it when a write has found none.                          *)
UpstreamEvent == spc # "done" /\ state' = Woken /\ UNCHANGED <<spc, timeout>>

UpstreamAnswers ==
    /\ spc \in {"connecting", "handshake"} /\ state = "asleep"
    /\ UpstreamEvent
    /\ UNCHANGED <<fwdVars, bwdVars, pcb, envVars, appVars>>

UpstreamSends ==
    /\ spc \in {"handshake", "splice", "drain"}
    /\ ~upFin /\ ~upDead /\ upSent < UpBytes
    /\ upSent' = upSent + 1
    /\ UpstreamEvent
    /\ UNCHANGED <<fwdVars, bwdVars, pcb, pcbEof, appSent, upFin, upDead, appVars>>

UpstreamCloses ==
    /\ spc \in {"handshake", "splice", "drain"}
    /\ ~upFin /\ ~upDead
    /\ upFin' = TRUE
    /\ UpstreamEvent
    /\ UNCHANGED <<fwdVars, bwdVars, pcb, pcbEof, appSent, upSent, upDead, appVars>>

UpstreamResets ==
    /\ spc \in {"handshake", "splice", "drain"}
    /\ ~upDead
    /\ upDead' = TRUE
    /\ UpstreamEvent
    /\ UNCHANGED <<fwdVars, bwdVars, pcb, pcbEof, appSent, upSent, upFin, appVars>>

UpstreamTakes ==
    /\ spc # "done"
    /\ upRoom < SendRoom
    /\ upRoom' = upRoom + 1
    /\ state' = IF upRoom = 0 THEN Woken ELSE state
    /\ UNCHANGED <<spc, timeout, resF, queue, rcvWnd, upGot, shutWr,
                   bwdVars, pcb, envVars, appVars>>

-----------------------------------------------------------------------------
TaskStep == Connect \/ Handshake \/ Splice \/ Drain \/ Destruct

Callback ==
    \/ AppSends \/ AppCloses
    \/ \E n \in 1 .. MaxSize : AppReceives(n)
    \/ AppReceivesFin
    \/ PcbLost \/ TerminateSession

Upstream ==
    \/ UpstreamAnswers \/ UpstreamSends \/ UpstreamCloses \/ UpstreamResets
    \/ UpstreamTakes

Finished == spc = "done" /\ UNCHANGED sessionVars

SessionNext == TaskStep \/ TimesOut \/ Callback \/ Upstream \/ Finished

(* The scheduler runs every task that is ready, the application receives and *)
(* acknowledges, the upstream takes what it is sent; nobody has to send, to  *)
(* close or to answer, and no timeout has to pass.                           *)
SessionFairness ==
    /\ WF_sessionVars(TaskStep)
    /\ WF_sessionVars(\E n \in 1 .. MaxSize : AppReceives(n))
    /\ WF_sessionVars(UpstreamTakes)

SessionSafety == SessionInit /\ [][SessionNext]_sessionVars
SessionSpec == SessionSafety /\ SessionFairness
-----------------------------------------------------------------------------
SessionTypeOK ==
    /\ spc \in {"new", "connecting", "handshake", "splice", "drain", "leaving", "done"}
    /\ state \in States
    /\ timeout \in {"unset", "connect", "tcp", "zero"}
    /\ resF \in {-1, 0, 1} /\ resB \in {-1, 0, 1}
    /\ pcb \in BOOLEAN /\ pcbEof \in BOOLEAN
    /\ queue \in 0 .. Window /\ rcvWnd \in 0 .. Window /\ appSent \in 0 .. AppBytes
    /\ upRoom \in 0 .. SendRoom /\ upGot \in 0 .. AppBytes /\ shutWr \in BOOLEAN
    /\ upSent \in 0 .. UpBytes /\ upFin \in BOOLEAN /\ upDead \in BOOLEAN
    /\ upRead \in 0 .. UpBytes
    /\ ring \in Rings /\ data \in [Offsets -> 0 .. UpBytes]
    /\ segs \in Seq([pos : Offsets, byte : 1 .. UpBytes])
    /\ finOut \in BOOLEAN /\ appEof \in BOOLEAN
    /\ appGot \in Seq(1 .. UpBytes)

(* What lwIP may still have to send, or send again, is intact in the ring:   *)
(* readv never stores over a byte before tcp_sent_handler has released it,   *)
(* however the buffer wraps and starts over.                                 *)
SentBytesIntact ==
    \A i \in DOMAIN segs : data[segs[i].pos] = segs[i].byte

(* An end of stream that the application sees comes after every byte the     *)
(* session has read, in order and without a hole, and the session has then   *)
(* read up to the upstream's own end, or to its reset: a tcp_write that has  *)
(* failed is never followed by a FIN.                                        *)
FinMeansComplete ==
    appEof => /\ appGot = [i \in 1 .. upRead |-> i]
              /\ upDead \/ (upFin /\ upRead = upSent)

(* As long as the pcb lives, the receive window that lwIP offers and what is *)
(* queued for the upstream make up the whole window: none of it is lost, so  *)
(* that the application is never stalled by bytes already passed on.         *)
WindowConserved ==
    pcb => rcvWnd + queue = Window

(* The upstream is shut down for writing only once the application has       *)
(* closed its side, and has then been given every byte: a reset connection   *)
(* never looks like a complete request.                                      *)
HalfCloseInOrder ==
    shutWr => pcbEof /\ upGot = appSent

(* lwIP has refused bytes or could not send: the direction was given up. *)
GivenUp == resB < 0 /\ ~finOut

(* The session as the two streams it carries.  A reset by the application is *)
(* no end of the request; a reset of the upstream, which readv reports like  *)
(* the end of the stream, does end the answer.                               *)
Request == INSTANCE ByteStream WITH
    sent <- appSent, closed <- pcbEof, broken <- FALSE, dropped <- FALSE,
    got <- [i \in 1 .. upGot |-> i], ended <- shutWr

Response == INSTANCE ByteStream WITH
    sent <- upSent, closed <- upFin, broken <- upDead, dropped <- GivenUp,
    got <- appGot, ended <- appEof

(* However the bytes are split, refused, retried and wrapped on the way, and *)
(* whoever closes or resets when, each side gets a prefix of what the other  *)
(* has sent, then an end of stream that means what it says, and nothing      *)
(* behind it; once lwIP has refused bytes the application may get later ones *)
(* without them, still in order, but never the end.                          *)
ImplementsStreams == Request!StreamSpec /\ Response!StreamSpec

(* A session that sleeps in the splice loop has nothing it could do: what is *)
(* queued waits for room, what has been read has gone to lwIP, and the       *)
(* socket is dry or the ring full.  A wake-up is never lost, although epoll  *)
(* reports an edge once and hev_task_wakeup ignores a task that runs.        *)
NothingMissed ==
    spc = "splice" /\ state = "asleep" =>
        /\ pcb
        /\ resF >= 0 => IF queue > 0 THEN upRoom = 0 /\ ~upDead ELSE ~pcbEof
        /\ resB >= 0 => /\ ring.rda = 0
                        /\ \/ ring.use = MaxSize
                           \/ upRead = upSent /\ ~upFin /\ ~upDead

(* A session whose connection is gone, or that has been told to end, never   *)
(* sleeps again, whatever it was doing and whichever timeout connect and     *)
(* handshake set afterwards.                                                 *)
TerminatedNeverSleeps ==
    /\ ~pcb /\ spc # "done" => timeout = "zero"
    /\ timeout = "zero" => state # "asleep"

(* hev_socks5_set_timeout makes a termination final: no later timeout of     *)
(* connect or handshake takes it back.                                       *)
TerminationIsFinal == [][timeout = "zero" => timeout' = "zero"]_sessionVars

(* The session is over or has been told to end, a connection has failed, or  *)
(* the splice loop was left on a timeout, with a direction still open.       *)
Broken ==
    \/ spc = "done" \/ timeout = "zero" \/ upDead
    \/ spc \in {"drain", "leaving"} /\ (resF >= 0 \/ resB >= 0)

(* A session that splices always catches up with both streams, without the   *)
(* help of a timeout: every byte that has arrived from the upstream reaches  *)
(* the application unless lwIP refuses some, and every byte of the           *)
(* application, and then its end, reaches the upstream.                      *)
StreamsCatchUp ==
    /\ []<>(spc \notin {"splice", "drain"} \/ Broken \/ GivenUp \/ Len(appGot) = upSent)
    /\ []<>(spc # "splice" \/ Broken \/ (upGot = appSent /\ (pcbEof => shutWr)))

(* A session that both sides have closed ends, and without a timeout. *)
EndsWhenClosed ==
    spc = "splice" /\ upFin /\ pcbEof ~> Broken \/ GivenUp
=============================================================================
