----------------------------- MODULE UdpSession -----------------------------
(***************************************************************************)
(* One UDP session of the tunnel (hev-socks5-session-udp.c) in the mode    *)
(* Dark Med configures, UDP in TCP (hev-socks5-udp.c): the datagrams of an *)
(* application's socket travel as messages of one byte stream to the SOCKS *)
(* server and back.  SessionTask says how the task sleeps.                 *)
(*                                                                         *)
(* A datagram or a message is two units of the stream: sendmsg takes what  *)
(* the socket has room for and sleeps for the rest, and the first bytes of *)
(* a message may arrive long before the others.  Datagrams are numbered in *)
(* the order the session takes them, the units of datagram f are 2f-1 and  *)
(* 2f.  The upstream's messages are numbered in the same way; the session  *)
(* keeps those without data to itself.                                     *)
(*                                                                         *)
(* A stretch of the task sees the socket as it is when the stretch begins: *)
(* what happens to the socket meanwhile commutes with it, and epoll        *)
(* reports its edge at the next sleep.                                     *)
(***************************************************************************)
EXTENDS SessionTask, Sequences, Integers

CONSTANTS AppFrames,   \* datagrams the application sends at most
          UpUnits,     \* units the upstream server sends at most
          PoolSize,    \* UDP_POOL_SIZE
          Num,         \* misc.udp-copy-buffer-nums, the size of a batch
          SendRoom,    \* room in the upstream socket's send buffer, in units
          Empty        \* the upstream's messages that carry no data

ASSUME UdpAssumption ==
    /\ AppFrames \in Nat /\ UpUnits \in Nat /\ PoolSize \in Nat
    /\ Num \in Nat \ {0} /\ SendRoom \in Nat \ {0}
    /\ Empty \subseteq Nat \ {0}

VARIABLES
    resF, resB, \* res_f and res_b of the splice loop
    \* from the application to the upstream
    taken,      \* datagrams the session has taken
    frames,     \* self->frame_list
    batch,      \* frames of the sendmsg under way
    written,    \* units of them the socket has taken
    upRoom,     \* free room of the upstream socket
    wire,       \* the units the upstream socket has taken
    cut,        \* a sendmsg has given up in the middle of its batch
    \* from the upstream to the application
    upSent,     \* units that have arrived at the upstream socket
    upFin,      \* ... and its end
    upDead,     \* the upstream connection has been reset
    upRead,     \* units read from the upstream socket
    msgs,       \* msgv: the messages of the recvmmsg under way, 0 for a garbled one
    misread,    \* the stream is no longer read at the beginning of a message
    appGot      \* the upstream's messages that were handed to the application

fwdVars == <<resF, batch, written, upRoom, wire, cut>>
bwdVars == <<resB, upRead, msgs, misread, appGot>>
queueVars == <<taken, frames>>
upVars == <<upSent, upFin, upDead>>
udpVars == <<taskVars, fwdVars, bwdVars, queueVars, upVars>>

UdpInit ==
    /\ TaskInit
    /\ resF = 1 /\ resB = 1
    /\ taken = 0 /\ frames = <<>>
    /\ batch = 0 /\ written = 0 /\ upRoom = SendRoom /\ wire = <<>> /\ cut = FALSE
    /\ upSent = 0 /\ upFin = FALSE /\ upDead = FALSE
    /\ upRead = 0 /\ msgs = <<>> /\ misread = FALSE /\ appGot = <<>>

-----------------------------------------------------------------------------
Connect == ConnectStep /\ UNCHANGED <<fwdVars, bwdVars, queueVars, upVars>>

(* hev_socks5_client_handshake: the time-out of UDP is set whether it        *)
(* succeeds or not.                                                          *)
Handshake ==
    /\ spc = "handshake"
    /\ MayRun
    /\ \/ WaitIo("handshake", timeout, "leaving")
       \/ GoOn("leaving") /\ timeout' = SetTimeout("udp")
       \/ GoOn("forward") /\ timeout' = SetTimeout("udp")
    /\ UNCHANGED <<fwdVars, bwdVars, queueVars, upVars>>

-----------------------------------------------------------------------------
(* hev_socks5_session_udp_fwd_f and hev_socks5_udp_sendmmsg_tcp.             *)
Least(m, n) == IF m < n THEN m ELSE n

UnitsOf(fs) == [i \in 1 .. 2 * Len(fs) |-> 2 * fs[(i + 1) \div 2] - (i % 2)]

Forward ==
    /\ spc = "forward"
    /\ MayRun
    /\ IF resF < 0 \/ frames = <<>>
       THEN /\ GoOn("backward")
            /\ resF' = Least(resF, 0)
            /\ UNCHANGED <<batch, written>>
       ELSE /\ GoOn("sending")
            /\ batch' = Least(Num, Len(frames)) /\ written' = 0
            /\ UNCHANGED resF
    /\ UNCHANGED <<timeout, upRoom, wire, cut, bwdVars, queueVars, upVars>>

(* The batch was taken from the front of the list before the task slept;     *)
(* what the application has sent meanwhile is behind it.                     *)
KeepUnfinished ==                           \* mutation of DropBatch
    frames' = IF written = 2 * batch THEN SubSeq(frames, batch + 1, Len(frames)) ELSE frames
DropBatch == frames' = SubSeq(frames, batch + 1, Len(frames))

(* hev_task_io_socket_sendmsg with MSG_WAITALL. *)
Send ==
    /\ spc = "sending"
    /\ MayRun
    /\ IF written = 2 * batch
       THEN /\ GoOn("backward")
            /\ resF' = 1
            /\ DropBatch
            /\ UNCHANGED <<timeout, written, upRoom, wire>>
       ELSE IF upDead
       THEN GoOn("sendCut") /\ UNCHANGED <<timeout, resF, frames, written, upRoom, wire>>
       ELSE IF upRoom = 0
       THEN WaitIo("sending", timeout, "sendCut")
            /\ UNCHANGED <<resF, frames, written, upRoom, wire>>
       ELSE \E n \in 1 .. Least(upRoom, 2 * batch - written) :
                /\ GoOn("sending")
                /\ wire' = wire \o SubSeq(UnitsOf(frames), written + 1, written + n)
                /\ written' = written + n
                /\ upRoom' = upRoom - n
                /\ UNCHANGED <<timeout, resF, frames>>
    /\ UNCHANGED <<batch, cut, bwdVars, taken, upVars>>

(* sendmsg has failed or has been told to give up: it returns what was       *)
(* written, if anything was, and the whole batch then counts as sent.        *)
SendGivesUp ==
    /\ spc = "sendCut"
    /\ GoOn("backward")
    /\ IF written = 0 THEN resF' = -1 /\ UNCHANGED <<frames, cut>>
                      ELSE resF' = 1 /\ DropBatch /\ cut' = TRUE
    /\ UNCHANGED <<timeout, batch, written, upRoom, wire, bwdVars, taken, upVars>>

-----------------------------------------------------------------------------
(* hev_socks5_udp_recvmmsg_tcp: the first bytes of a message are read        *)
(* without waiting, the rest of it is waited for.                            *)
ReadHead ==
    /\ spc = "backward"
    /\ IF resB < 0 THEN GoOn("turn") /\ UNCHANGED <<resB, upRead>>
       ELSE IF Len(msgs) < Num /\ ~upDead /\ upRead < upSent
       THEN GoOn("rest") /\ upRead' = upRead + 1 /\ UNCHANGED resB
       ELSE IF msgs # <<>>
       THEN GoOn("deliver") /\ UNCHANGED <<resB, upRead>>
       ELSE /\ GoOn("turn")
            /\ resB' = IF upDead \/ upFin THEN -1 ELSE 0
            /\ UNCHANGED upRead
    /\ UNCHANGED <<timeout, msgs, misread, appGot, fwdVars, queueVars, upVars>>

(* What is read where no message begins is none of the upstream's. *)
MessageRead == IF misread THEN 0 ELSE (upRead + 1) \div 2

ReadRest ==
    /\ spc = "rest"
    /\ MayRun
    /\ IF upDead THEN GoOn("recvLost") /\ UNCHANGED <<timeout, upRead, msgs>>
       ELSE IF upRead < upSent
       THEN /\ GoOn("backward")
            /\ upRead' = upRead + 1 /\ msgs' = Append(msgs, MessageRead)
            /\ UNCHANGED timeout
       ELSE IF upFin THEN GoOn("recvLost") /\ UNCHANGED <<timeout, upRead, msgs>>
       ELSE WaitIo("rest", timeout, "recvCut") /\ UNCHANGED <<upRead, msgs>>
    /\ UNCHANGED <<resB, misread, appGot, fwdVars, queueVars, upVars>>

(* The head is whole, at once or after a wait, but its lengths cannot be     *)
(* right or the data would not fit into the buffer: recvmmsg fails, the      *)
(* messages before it are lost and its own rest stays in the stream.  With   *)
(* the errno of an earlier read that found nothing, this looks like "try     *)
(* again".                                                                   *)
BadHead ==
    /\ spc = "rest"
    /\ ~upDead /\ (state = "running" \/ (MayRun /\ upRead < upSent))
    /\ GoOn("turn")
    /\ misread' = TRUE /\ msgs' = <<>>
    /\ resB' \in {-1, 0}
    /\ UNCHANGED <<timeout, upRead, appGot, fwdVars, queueVars, upVars>>

(* A message cannot be read to its end: the yielder has given up, or the     *)
(* connection is over.  After a head that is too short the messages before   *)
(* it are delivered; otherwise the number of bytes that were read comes back *)
(* as the number of messages, of which those not filled in are undefined, or *)
(* as an error, or, when the yielder has given up, as "try again".           *)
ReadGivesUp ==
    /\ spc \in {"recvCut", "recvLost"}
    /\ misread' = TRUE
    /\ \/ /\ GoOn("turn")
          /\ resB' = -1 \/ (resB' = 0 /\ spc = "recvCut" /\ msgs = <<>>)
          /\ msgs' = <<>>
       \/ /\ GoOn("deliver")
          /\ \E k \in 0 .. Len(msgs), behind \in {<<>>, << 0 >>} :
                /\ behind = <<>> \/ k = Len(msgs)
                /\ msgs' = SubSeq(msgs, 1, k) \o behind
          /\ msgs' # <<>>
          /\ UNCHANGED resB
    /\ UNCHANGED <<timeout, upRead, appGot, fwdVars, queueVars, upVars>>

(* hev_socks5_session_udp_fwd_b looks at the messages of the batch in turn.  *)
BatchDone ==
    /\ spc = "deliver" /\ msgs = <<>>
    /\ GoOn("turn")
    /\ resB' = 1
    /\ UNCHANGED <<timeout, upRead, msgs, misread, appGot, fwdVars, queueVars, upVars>>

(* One without data is left out; of a garbled one nothing is known.          *)
SkipEmpty ==
    /\ spc = "deliver" /\ msgs # <<>>
    /\ Head(msgs) \in Empty \cup {0}
    /\ GoOn("deliver")
    /\ msgs' = Tail(msgs)
    /\ UNCHANGED <<timeout, resB, upRead, misread, appGot, fwdVars, queueVars, upVars>>

(* udp_sendfrom.  What is garbled is not recorded.                           *)
HandOver ==
    /\ spc = "deliver" /\ msgs # <<>>
    /\ Head(msgs) \notin Empty
    /\ GoOn("deliver")
    /\ msgs' = Tail(msgs)
    /\ appGot' = IF Head(msgs) = 0 THEN appGot ELSE Append(appGot, Head(msgs))
    /\ UNCHANGED <<timeout, resB, upRead, misread, fwdVars, queueVars, upVars>>

(* Its address is unusable, there is no pbuf, or lwIP fails: the rest of the *)
(* batch is lost and the direction is over.                                  *)
LeaveOut == GoOn("deliver") /\ msgs' = Tail(msgs) /\ resB' = resB  \* mutation of GiveUpReading
GiveUpReading == GoOn("turn") /\ msgs' = <<>> /\ resB' = -1

Refused ==
    /\ spc = "deliver" /\ msgs # <<>>
    /\ Head(msgs) \notin Empty
    /\ GiveUpReading
    /\ UNCHANGED <<timeout, upRead, misread, appGot, fwdVars, queueVars, upVars>>

Deliver == BatchDone \/ SkipEmpty \/ HandOver \/ Refused

-----------------------------------------------------------------------------
(* The end of a turn of the loop: HEV_TASK_YIELD, which does not look at the *)
(* timeout, HEV_TASK_WAITIO, or the end of the splice.                       *)
Turn ==
    /\ spc = "turn"
    /\ IF resF > 0 \/ resB > 0 THEN spc' = "forward" /\ state' = "ready" /\ UNCHANGED timeout
       ELSE IF resF = 0 \/ resB = 0 THEN WaitIo("forward", timeout, "leaving")
       ELSE GoOn("leaving") /\ UNCHANGED timeout
    /\ UNCHANGED <<fwdVars, bwdVars, queueVars, upVars>>

(* hev_task_sleep has slept for the whole timeout: the yielder fails. *)
TimesOut ==
    /\ state \in {"asleep", "woken"}
    /\ GoOn(CASE spc = "sending" -> "sendCut"
              [] spc = "rest" -> "recvCut"
              [] OTHER -> "leaving")
    /\ UNCHANGED <<timeout, fwdVars, bwdVars, queueVars, upVars>>

(* hev_socks5_session_udp_destruct frees what is queued and removes the pcb. *)
Destruct ==
    /\ spc = "leaving"
    /\ spc' = "done" /\ state' = "ready"
    /\ frames' = <<>>
    /\ UNCHANGED <<timeout, taken, fwdVars, bwdVars, upVars>>

-----------------------------------------------------------------------------
(* udp_recv_handler.  A datagram that finds the queue full, or for which     *)
(* there is no memory, is freed and nothing changes.                         *)
RecvSilently == state                       \* mutation of RecvWakes
RecvWakes == Woken

AppSends ==
    /\ CallbacksMayRun
    /\ taken < AppFrames
    /\ Len(frames) <= PoolSize
    /\ taken' = taken + 1
    /\ frames' = Append(frames, taken + 1)
    /\ state' = RecvWakes
    /\ UNCHANGED <<spc, timeout, fwdVars, bwdVars, upVars>>

(* hev_socks5_session_terminate: by the event task, at the session limit, or *)
(* by udp_recv_handler when lwIP reports that the pcb is over.               *)
TerminateSession ==
    /\ CallbacksMayRun
    /\ Terminated
    /\ UNCHANGED <<spc, fwdVars, bwdVars, queueVars, upVars>>

-----------------------------------------------------------------------------
(* The upstream socket, with edge triggered events. *)
UpstreamEvent ==
    /\ state # "running" /\ spc # "done"
    /\ state' = Woken
    /\ UNCHANGED <<spc, timeout, bwdVars, queueVars>>

UpstreamAnswers ==
    /\ spc \in {"connecting", "handshake"} /\ state = "asleep"
    /\ UpstreamEvent
    /\ UNCHANGED <<fwdVars, upVars>>

Associated == spc \notin {"new", "connecting", "leaving", "done"}

UpstreamSends ==
    /\ Associated /\ ~upFin /\ ~upDead /\ upSent < UpUnits
    /\ UpstreamEvent
    /\ upSent' = upSent + 1
    /\ UNCHANGED <<fwdVars, upFin, upDead>>

UpstreamCloses ==
    /\ Associated /\ ~upFin /\ ~upDead
    /\ UpstreamEvent
    /\ upFin' = TRUE
    /\ UNCHANGED <<fwdVars, upSent, upDead>>

UpstreamResets ==
    /\ Associated /\ ~upDead
    /\ UpstreamEvent
    /\ upDead' = TRUE
    /\ UNCHANGED <<fwdVars, upSent, upFin>>

(* Room is reported when a write has found none. *)
UpstreamTakes ==
    /\ state # "running" /\ spc # "done"
    /\ upRoom < SendRoom
    /\ upRoom' = upRoom + 1
    /\ state' = IF upRoom = 0 THEN Woken ELSE state
    /\ UNCHANGED <<spc, timeout, resF, batch, written, wire, cut, bwdVars, queueVars, upVars>>

-----------------------------------------------------------------------------
TaskStep ==
    \/ Connect \/ Handshake
    \/ Forward \/ Send \/ SendGivesUp
    \/ ReadHead \/ ReadRest \/ BadHead \/ ReadGivesUp \/ Deliver
    \/ Turn \/ Destruct

Upstream ==
    \/ UpstreamAnswers \/ UpstreamSends \/ UpstreamCloses \/ UpstreamResets
    \/ UpstreamTakes

Finished == spc = "done" /\ UNCHANGED udpVars

UdpNext == TaskStep \/ TimesOut \/ AppSends \/ TerminateSession \/ Upstream \/ Finished

(* The scheduler runs every task that is ready and the upstream takes what   *)
(* it is sent; nobody has to send or to close, and no timeout has to pass.   *)
UdpFairness == WF_udpVars(TaskStep) /\ WF_udpVars(UpstreamTakes)

UdpSafety == UdpInit /\ [][UdpNext]_udpVars
UdpSpec == UdpSafety /\ UdpFairness
-----------------------------------------------------------------------------
UdpTypeOK ==
    /\ spc \in {"new", "connecting", "handshake", "forward", "sending", "sendCut",
                "backward", "rest", "recvCut", "recvLost", "deliver", "turn",
                "leaving", "done"}
    /\ state \in States
    /\ timeout \in {"unset", "connect", "tcp", "udp", "zero"}
    /\ resF \in {-1, 0, 1} /\ resB \in {-1, 0, 1}
    /\ taken \in 0 .. AppFrames /\ frames \in Seq(Nat)
    /\ Len(frames) <= PoolSize + 1
    /\ batch \in 0 .. Num /\ written \in 0 .. 2 * batch
    /\ upRoom \in 0 .. SendRoom /\ wire \in Seq(Int) /\ cut \in BOOLEAN
    /\ upSent \in 0 .. UpUnits /\ upFin \in BOOLEAN /\ upDead \in BOOLEAN
    /\ upRead \in 0 .. upSent /\ msgs \in Seq(Nat) /\ Len(msgs) <= Num
    /\ misread \in BOOLEAN /\ appGot \in Seq(Nat)

(* What the socket has taken and what is queued make up all the datagrams    *)
(* that the session has taken, each once and in their order, although new    *)
(* ones arrive while sendmsg sleeps in the middle of a batch and the batch   *)
(* is dropped from the list only afterwards.                                 *)
InBatch == spc \in {"sending", "sendCut"}

FramesKept ==
    spc # "done" /\ ~cut =>
        wire \o SubSeq(UnitsOf(frames), IF InBatch THEN written + 1 ELSE 1, 2 * Len(frames))
            = [i \in 1 .. 2 * taken |-> i]

(* The application receives the upstream's messages in their order, each at  *)
(* most once, and all that carry data up to the last it has received:        *)
(* messages are lost, to a refusal or behind a misread head, only when none  *)
(* of the upstream's follows any more.                                       *)
WithData(n) == (1 .. n) \ Empty

Received == {appGot[i] : i \in DOMAIN appGot}

MessagesInOrder ==
    /\ \A i, j \in DOMAIN appGot : i < j => appGot[i] < appGot[j]
    /\ \E n \in 0 .. upSent \div 2 : Received = WithData(n)

(* Each direction keeps its order and loses nothing of its own accord. *)
StreamsIntact == FramesKept /\ MessagesInOrder

(* The direction to the upstream as the stream it carries, the units of the  *)
(* datagrams.  The session does not end it, and a sendmsg that gives up in   *)
(* the middle of its batch is the only thing that may leave a hole.          *)
Datagrams == INSTANCE ByteStream WITH
    sent <- 2 * taken, closed <- FALSE, broken <- FALSE, dropped <- cut,
    got <- wire, ended <- FALSE

(* However the batches are cut, and whatever is queued, times out or breaks  *)
(* meanwhile: the upstream is given every unit at most once and in order,    *)
(* without a hole before the first sendmsg that has given up.                *)
ImplementsStream == Datagrams!StreamSpec

(* A session that sleeps has nothing it could do: in the loop no datagram is *)
(* queued and the socket is dry, in sendmsg there is no room, in the middle  *)
(* of a message the rest of it has not arrived.  The exceptions are the      *)
(* code's: a head that is read in part only, or that is bad while errno is   *)
(* still EAGAIN, looks like "try again" (both have misread set), and when    *)
(* lwIP refuses a message that had to be waited for, the loop sleeps on a    *)
(* res_f of 0 from before the wait.                                          *)
NothingMissed ==
    state = "asleep" =>
        /\ spc = "forward" /\ ~misread =>
              /\ resF >= 0 /\ resB >= 0 => frames = <<>>
              /\ resB >= 0 => upRead = upSent /\ ~upFin /\ ~upDead
        /\ spc = "sending" => upRoom = 0 /\ ~upDead
        /\ spc = "rest" => upRead = upSent /\ ~upFin /\ ~upDead

(* As for TCP: a session that has been told to end never sleeps again. *)
TerminatedNeverSleeps == timeout = "zero" => state # "asleep"

(* The session is not associated, is over or has been told to end, the       *)
(* upstream is lost, a read or a write has been given up, a head was bad, or *)
(* the rest of a message is awaited.                                         *)
Broken ==
    \/ ~Associated \/ spc = "handshake"
    \/ spc = "rest" \/ timeout = "zero" \/ upDead \/ cut \/ misread

(* Every datagram the session has taken reaches the upstream, and every      *)
(* whole message with data reaches the application, without the help of a    *)
(* timeout, unless lwIP refuses a message.  But a message whose rest does    *)
(* not arrive holds up both directions, the messages before it in its batch  *)
(* included.                                                                 *)
UdpCatchesUp ==
    /\ []<>(Broken \/ resF < 0 \/ resB < 0 \/ Len(wire) = 2 * taken)
    /\ []<>(Broken \/ resB < 0 \/ Received = WithData(upSent \div 2))
=============================================================================
