-------------------------- MODULE UdpSessionProofs ---------------------------
(***************************************************************************)
(* Proofs about UdpSession, for any sizes of the queue, of the batches and *)
(* of the send buffer and any number of datagrams and messages.            *)
(*                                                                         *)
(* The frames of the list are numbered without a gap up to the last one    *)
(* taken (Numbered), and what the socket has taken ends where the list, or *)
(* what is left of its batch, begins (WireEndsAtList): FramesKept follows. *)
(* Of the messages from the upstream, the first h have been dealt with,    *)
(* the next, up to number g, are in the batch, and what has been read ends *)
(* there unless a read has been given up (Accounted): MessagesInOrder      *)
(* follows.  NothingMissed needs to know with which results the loop may   *)
(* go to sleep (Results), and the refinement of ByteStream that the wire   *)
(* still rises behind a sendmsg that was cut (WireRises).                  *)
(***************************************************************************)
EXTENDS UdpSession, SequenceTheorems, TLAPS

(* Where the task has not yet yielded, and where it no longer runs.          *)
Stretches ==
    /\ spc \in {"sendCut", "backward", "recvCut", "recvLost", "deliver", "turn",
                 "leaving"} =>
          state = "running"
    /\ spc = "done" => state = "ready"

Numbered ==
    /\ Len(frames) <= taken
    /\ \A i \in 1 .. Len(frames) : frames[i] = taken - Len(frames) + i
    /\ InBatch => batch <= Len(frames)

WireEndsAtList ==
    ~cut =>
        /\ spc # "done" =>
              Len(wire) = 2 * (taken - Len(frames)) + (IF InBatch THEN written ELSE 0)
        /\ \A i \in 1 .. Len(wire) : wire[i] = i

InMessage == spc \in {"rest", "recvCut", "recvLost"}

Delivered(h) ==
    /\ \A i, j \in DOMAIN appGot : i < j => appGot[i] < appGot[j]
    /\ Received = WithData(h)

InBatchOf(h, g) ==
    /\ h <= g /\ g <= h + Len(msgs) /\ 2 * g <= upSent
    /\ \A i \in 1 .. Len(msgs) : msgs[i] = IF h + i <= g THEN h + i ELSE 0
    /\ ~misread => g = h + Len(msgs)

Accounted ==
    \E h, g \in Nat :
        /\ Delivered(h) /\ InBatchOf(h, g)
        /\ ~misread /\ resB >= 0 => upRead = 2 * g + (IF InMessage THEN 1 ELSE 0)

Batched ==
    /\ resB < 0 => msgs = <<>>
    /\ InMessage \/ spc = "deliver" => resB >= 0
    /\ InMessage => Len(msgs) < Num
    /\ msgs # <<>> => InMessage \/ spc \in {"backward", "deliver"}

Dry == upRead = upSent /\ ~upFin /\ ~upDead

Results ==
    /\ spc = "backward" /\ msgs = <<>> /\ resF = 0 => frames = <<>>
    /\ spc = "turn" /\ ~misread /\ resB = 0 => Dry /\ (resF = 0 => frames = <<>>)

ControlOK ==
    /\ spc \in {"new", "connecting", "handshake", "forward", "sending", "sendCut",
                "backward", "rest", "recvCut", "recvLost", "deliver", "turn",
                "leaving", "done"}
    /\ state \in States
    /\ timeout \in {"unset", "connect", "tcp", "udp", "zero"}
    /\ Stretches
    /\ TerminatedNeverSleeps

ForwardOK ==
    /\ resF \in {-1, 0, 1}
    /\ taken \in 0 .. AppFrames /\ frames \in Seq(Nat) /\ Len(frames) <= PoolSize + 1
    /\ batch \in 0 .. Num /\ written \in 0 .. 2 * batch
    /\ upRoom \in 0 .. SendRoom /\ wire \in Seq(Int) /\ cut \in BOOLEAN
    /\ Numbered
    /\ WireEndsAtList

BackwardOK ==
    /\ resB \in {-1, 0, 1}
    /\ upSent \in 0 .. UpUnits /\ upFin \in BOOLEAN /\ upDead \in BOOLEAN
    /\ upRead \in 0 .. upSent /\ msgs \in Seq(Nat) /\ Len(msgs) <= Num
    /\ misread \in BOOLEAN /\ appGot \in Seq(Nat)
    /\ Batched
    /\ Accounted

SleepOK == Results /\ NothingMissed

UdpInv == ControlOK /\ ForwardOK /\ BackwardOK /\ SleepOK

-----------------------------------------------------------------------------
(* Sequences.                                                                *)
LEMMA PartOf ==
    ASSUME NEW S, NEW q \in Seq(S), NEW m \in 1 .. Len(q) + 1, NEW n \in 0 .. Len(q)
    PROVE  /\ SubSeq(q, m, n) \in Seq(S)
           /\ Len(SubSeq(q, m, n)) = IF m <= n THEN n - m + 1 ELSE 0
           /\ \A i \in 1 .. n - m + 1 : SubSeq(q, m, n)[i] = q[m + i - 1]
<1>1. m \in Int /\ n \in Int /\ Len(q) \in Nat
  BY LenProperties
<1>2. \A i \in m .. n : q[i] \in S
  BY <1>1, LenProperties
<1> QED
  BY <1>1, <1>2, SubSeqProperties

LEMMA Halves ==
    ASSUME NEW i \in Int
    PROVE  /\ i % 2 \in {0, 1} /\ (i + 1) \div 2 \in Int
           /\ 2 * ((i + 1) \div 2) = i + (i % 2)
  OBVIOUS

(* The units of frames that are numbered without a gap are numbered too.     *)
LEMMA UnitsInOrder ==
    ASSUME NEW fs \in Seq(Nat), NEW n \in Nat,
           \A i \in 1 .. Len(fs) : fs[i] = n + i
    PROVE  /\ UnitsOf(fs) \in Seq(Int)
           /\ Len(UnitsOf(fs)) = 2 * Len(fs)
           /\ \A i \in 1 .. 2 * Len(fs) : UnitsOf(fs)[i] = 2 * n + i
<1>1. Len(fs) \in Nat
  BY LenProperties
<1>2. ASSUME NEW i \in 1 .. 2 * Len(fs)
      PROVE  2 * fs[(i + 1) \div 2] - (i % 2) = 2 * n + i
  <2>1. PICK h \in Int, r \in {0, 1} :
            h = (i + 1) \div 2 /\ r = i % 2 /\ 2 * h = i + r
    BY <1>1, Halves
  <2>2. h \in 1 .. Len(fs)
    BY <1>1, <2>1
  <2>3. fs[h] = n + h
    BY <2>2
  <2> QED
    BY <1>1, <2>1, <2>3
<1>3. UnitsOf(fs) \in [1 .. 2 * Len(fs) -> Int]
  BY <1>1, <1>2 DEF UnitsOf
<1>4. UnitsOf(fs) \in Seq(Int) /\ Len(UnitsOf(fs)) = 2 * Len(fs)
  BY <1>1, <1>3
<1> QED
  BY <1>1, <1>2, <1>4 DEF UnitsOf

-----------------------------------------------------------------------------
(* The direction to the upstream.  All that the other steps can do to it is  *)
(* to move the task.                                                         *)
LEMMA ForwardKept ==
    ASSUME ForwardOK, UNCHANGED <<fwdVars, queueVars>>,
           InBatch' = InBatch, spc = "done" => spc' = "done"
    PROVE  ForwardOK'
  BY DEF ForwardOK, Numbered, WireEndsAtList, fwdVars, queueVars

(* The batch is at the front of the list, so that what is left is numbered.  *)
LEMMA BatchDropped ==
    ASSUME ForwardOK, InBatch, DropBatch, taken' = taken
    PROVE  /\ frames' \in Seq(Nat)
           /\ Len(frames') = Len(frames) - batch
           /\ \A i \in 1 .. Len(frames') : frames'[i] = taken' - Len(frames') + i
<1>1. /\ frames \in Seq(Nat) /\ Len(frames) \in Nat /\ batch \in Nat
      /\ batch <= Len(frames) /\ taken \in Nat
      /\ \A i \in 1 .. Len(frames) : frames[i] = taken - Len(frames) + i
  BY LenProperties, UdpAssumption DEF ForwardOK, Numbered
<1>2. /\ frames' \in Seq(Nat)
      /\ Len(frames') = IF batch + 1 <= Len(frames) THEN Len(frames) - (batch + 1) + 1 ELSE 0
      /\ \A i \in 1 .. Len(frames) - (batch + 1) + 1 : frames'[i] = frames[(batch + 1) + i - 1]
  <2> DEFINE m == batch + 1
             n == Len(frames)
  <2>1. m \in 1 .. Len(frames) + 1 /\ n \in 0 .. Len(frames)
    BY <1>1
  <2>2. frames' = SubSeq(frames, m, n)
    BY DEF DropBatch
  <2> HIDE DEF m, n
  <2>3. /\ SubSeq(frames, m, n) \in Seq(Nat)
        /\ Len(SubSeq(frames, m, n)) = IF m <= n THEN n - m + 1 ELSE 0
        /\ \A i \in 1 .. n - m + 1 : SubSeq(frames, m, n)[i] = frames[m + i - 1]
    BY <1>1, <2>1, PartOf
  <2> QED
    BY <2>2, <2>3 DEF m, n
<1>3. Len(frames') = Len(frames) - batch
  BY <1>1, <1>2
<1>4. ASSUME NEW i \in 1 .. Len(frames')
      PROVE  frames'[i] = taken' - Len(frames') + i
  <2>1. frames'[i] = frames[batch + i] /\ batch + i \in 1 .. Len(frames)
    BY <1>1, <1>2, <1>3, SMTT(30)
  <2> QED
    BY <1>1, <1>3, <2>1
<1> QED
  BY <1>2, <1>3, <1>4

LEMMA ForwardStep == ForwardOK /\ Forward => ForwardOK'
<1> SUFFICES ASSUME ForwardOK, Forward PROVE ForwardOK'
  OBVIOUS
<1>1. /\ taken' = taken /\ frames' = frames /\ upRoom' = upRoom /\ wire' = wire
      /\ cut' = cut /\ spc = "forward"
  BY DEF Forward, queueVars
<1>2. Len(frames) \in Nat
  BY LenProperties DEF ForwardOK
<1>3. CASE resF < 0 \/ frames = <<>>
  BY <1>1, <1>2, <1>3 DEF Forward, ForwardOK, Numbered, WireEndsAtList, InBatch, GoOn, Least
<1>4. CASE ~(resF < 0 \/ frames = <<>>)
  <2>1. batch' = Least(Num, Len(frames)) /\ written' = 0 /\ resF' = resF /\ spc' = "sending"
    BY <1>4 DEF Forward, GoOn
  <2>2. batch' \in 0 .. Num /\ batch' <= Len(frames)
    BY <1>2, <2>1, UdpAssumption DEF Least
  <2>3. Numbered'
    BY <1>1, <2>1, <2>2 DEF ForwardOK, Numbered
  <2>4. WireEndsAtList'
    BY <1>1, <2>1 DEF ForwardOK, WireEndsAtList, InBatch
  <2>5. written' \in 0 .. 2 * batch'
    BY <2>1, <2>2, UdpAssumption
  <2> QED
    BY <1>1, <2>1, <2>2, <2>3, <2>4, <2>5 DEF ForwardOK
<1> QED
  BY <1>3, <1>4

(* A piece cut out of a run of numbers.                                      *)
LEMMA NumbersCut ==
    ASSUME NEW q \in Seq(Int), NEW base \in Int, NEW w \in Nat, NEW n \in Nat,
           n >= 1, w + n <= Len(q), \A i \in 1 .. Len(q) : q[i] = base + i
    PROVE  /\ SubSeq(q, w + 1, w + n) \in Seq(Int)
           /\ Len(SubSeq(q, w + 1, w + n)) = n
           /\ \A i \in 1 .. n : SubSeq(q, w + 1, w + n)[i] = base + w + i
<1> DEFINE lo == w + 1
           hi == w + n
<1>1. /\ lo \in 1 .. Len(q) + 1 /\ hi \in 0 .. Len(q)
      /\ lo <= hi /\ hi - lo + 1 = n
  BY LenProperties
<1>2. \A i \in 1 .. n : lo + i - 1 \in 1 .. Len(q) /\ q[lo + i - 1] = base + w + i
  <2> TAKE i \in 1 .. n
  <2>1. lo + i - 1 = w + i /\ w + i \in 1 .. Len(q)
    BY LenProperties
  <2>2. q[w + i] = base + (w + i)
    BY <2>1
  <2> QED
    BY <2>1, <2>2
<1> HIDE DEF lo, hi
<1>3. /\ SubSeq(q, lo, hi) \in Seq(Int)
      /\ Len(SubSeq(q, lo, hi)) = IF lo <= hi THEN hi - lo + 1 ELSE 0
      /\ \A i \in 1 .. hi - lo + 1 : SubSeq(q, lo, hi)[i] = q[lo + i - 1]
  <2>1. lo \in 1 .. Len(q) + 1 /\ hi \in 0 .. Len(q)
    BY <1>1
  <2> QED
    BY <2>1, PartOf
<1>4. /\ SubSeq(q, lo, hi) \in Seq(Int)
      /\ Len(SubSeq(q, lo, hi)) = n
      /\ \A i \in 1 .. n : SubSeq(q, lo, hi)[i] = base + w + i
  BY <1>1, <1>2, <1>3
<1> QED
  BY <1>4, Zenon DEF lo, hi

(* What a successful piece of a sendmsg adds to the wire: the units that     *)
(* follow those the session has got off its hands.                           *)
Frontier == 2 * (taken - Len(frames)) + (IF InBatch THEN written ELSE 0)

LEMMA PartSent ==
    ASSUME ForwardOK, spc = "sending", NEW n \in 1 .. Least(upRoom, 2 * batch - written),
           wire' = wire \o SubSeq(UnitsOf(frames), written + 1, written + n)
    PROVE  /\ n \in Nat /\ n >= 1 /\ n <= upRoom /\ n <= 2 * batch - written
           /\ wire' \in Seq(Int) /\ Len(wire') = Len(wire) + n
           /\ \A i \in 1 .. Len(wire) : wire'[i] = wire[i]
           /\ \A i \in 1 .. n : wire'[Len(wire) + i] = Frontier + i
<1>1. InBatch
  BY DEF InBatch
<1>2. Len(frames) \in Nat /\ batch \in Nat /\ written \in Nat /\ upRoom \in Nat /\ Len(wire) \in Nat
  BY LenProperties, UdpAssumption DEF ForwardOK
<1>3. n \in Nat /\ n >= 1 /\ n <= upRoom /\ n <= 2 * batch - written
  BY <1>2 DEF Least
<1>4. /\ frames \in Seq(Nat) /\ taken - Len(frames) \in Nat /\ batch <= Len(frames)
      /\ \A i \in 1 .. Len(frames) : frames[i] = taken - Len(frames) + i
  BY <1>1, <1>2, UdpAssumption DEF ForwardOK, Numbered
<1>5. /\ UnitsOf(frames) \in Seq(Int)
      /\ Len(UnitsOf(frames)) = 2 * Len(frames)
      /\ \A i \in 1 .. 2 * Len(frames) :
            UnitsOf(frames)[i] = 2 * (taken - Len(frames)) + i
  BY <1>4, UnitsInOrder
<1>6. PICK part \in Seq(Int) :
         /\ part = SubSeq(UnitsOf(frames), written + 1, written + n) /\ Len(part) = n
         /\ \A i \in 1 .. n : part[i] = 2 * (taken - Len(frames)) + written + i
  <2>1. written + n <= Len(UnitsOf(frames))
    <3>1. 2 * batch <= 2 * Len(frames) /\ written + n <= 2 * batch
      BY <1>2, <1>3, <1>4
    <3>2. Len(UnitsOf(frames)) = 2 * Len(frames)
      BY <1>5, Zenon
    <3> QED
      BY <1>2, <1>3, <3>1, <3>2
  <2>2. 2 * (taken - Len(frames)) \in Int
    BY <1>4
  <2>3. \A i \in 1 .. Len(UnitsOf(frames)) :
           UnitsOf(frames)[i] = 2 * (taken - Len(frames)) + i
    BY <1>5, Zenon
  <2>4. n \in Nat /\ n >= 1 /\ written \in Nat /\ UnitsOf(frames) \in Seq(Int)
    BY <1>2, <1>3, <1>5, Zenon
  <2>5. /\ SubSeq(UnitsOf(frames), written + 1, written + n) \in Seq(Int)
        /\ Len(SubSeq(UnitsOf(frames), written + 1, written + n)) = n
        /\ \A i \in 1 .. n : SubSeq(UnitsOf(frames), written + 1, written + n)[i] =
                                2 * (taken - Len(frames)) + written + i
    BY <2>1, <2>2, <2>3, <2>4, NumbersCut, Zenon
  <2> QED
    BY <2>5, Zenon
<1>7. /\ wire' \in Seq(Int) /\ Len(wire') = Len(wire) + n
      /\ \A i \in 1 .. Len(wire') :
            wire'[i] = IF i <= Len(wire) THEN wire[i] ELSE part[i - Len(wire)]
  <2>1. wire \in Seq(Int) /\ wire' = wire \o part
    BY <1>6 DEF ForwardOK
  <2>2. /\ wire \o part \in Seq(Int)
        /\ Len(wire \o part) = Len(wire) + Len(part)
        /\ \A i \in 1 .. Len(wire) + Len(part) :
              (wire \o part)[i] = IF i <= Len(wire) THEN wire[i] ELSE part[i - Len(wire)]
    BY <1>6, <2>1, ConcatProperties, Zenon
  <2> QED
    BY <1>6, <2>1, <2>2
<1>8. \A i \in 1 .. Len(wire) : wire'[i] = wire[i]
  BY <1>2, <1>3, <1>7
<1>9. ASSUME NEW i \in 1 .. n
      PROVE  wire'[Len(wire) + i] = Frontier + i
  <2>1. PICK j \in Nat : j = Len(wire) + i
    BY <1>2
  <2>2. j \in 1 .. Len(wire') /\ ~(j <= Len(wire)) /\ j - Len(wire) = i
    BY <1>2, <1>3, <1>7, <2>1
  <2>3. wire'[j] = part[i]
    BY <1>7, <2>2
  <2>4. part[i] = 2 * (taken - Len(frames)) + written + i
    BY <1>6
  <2> QED
    BY <1>1, <1>2, <1>4, <2>1, <2>3, <2>4 DEF Frontier
<1> QED
  BY <1>3, <1>7, <1>8, <1>9

LEMMA SendStep == ForwardOK /\ Send => ForwardOK'
<1> SUFFICES ASSUME ForwardOK, Send PROVE ForwardOK'
  OBVIOUS
<1>1. batch' = batch /\ cut' = cut /\ taken' = taken /\ spc = "sending" /\ InBatch
  BY DEF Send, InBatch
<1>2. Len(frames) \in Nat /\ batch \in Nat /\ written \in Nat /\ upRoom \in Nat /\ Len(wire) \in Nat
  BY LenProperties, UdpAssumption DEF ForwardOK
<1>3. CASE written = 2 * batch
  <2>1. resF' = 1 /\ DropBatch /\ written' = written /\ upRoom' = upRoom /\ wire' = wire
        /\ spc' = "backward"
    BY <1>3 DEF Send, GoOn
  <2>2. /\ frames' \in Seq(Nat)
        /\ Len(frames') = Len(frames) - batch
        /\ \A i \in 1 .. Len(frames') : frames'[i] = taken' - Len(frames') + i
    BY <1>1, <2>1, BatchDropped
  <2>3. Len(frames') <= taken' /\ Len(frames') <= PoolSize + 1
    BY <1>1, <1>2, <2>2, UdpAssumption DEF ForwardOK, Numbered
  <2>4. WireEndsAtList'
    BY <1>1, <1>2, <1>3, <2>1, <2>2, UdpAssumption DEF ForwardOK, WireEndsAtList, InBatch
  <2>5. Numbered'
    BY <2>1, <2>2, <2>3 DEF Numbered, InBatch
  <2> QED
    BY <1>1, <2>1, <2>2, <2>3, <2>4, <2>5 DEF ForwardOK
<1>4. CASE /\ UNCHANGED <<resF, frames, written, upRoom, wire>>
           /\ spc' \in {"sending", "sendCut"}
  BY <1>1, <1>4, ForwardKept DEF fwdVars, queueVars, InBatch
<1>5. ASSUME NEW n \in 1 .. Least(upRoom, 2 * batch - written),
             written # 2 * batch, spc' = "sending",
             wire' = wire \o SubSeq(UnitsOf(frames), written + 1, written + n),
             written' = written + n, upRoom' = upRoom - n,
             UNCHANGED <<resF, frames>>
      PROVE  ForwardOK'
  <2>1. /\ n \in Nat /\ n >= 1 /\ n <= upRoom /\ n <= 2 * batch - written
        /\ wire' \in Seq(Int) /\ Len(wire') = Len(wire) + n
        /\ \A i \in 1 .. Len(wire) : wire'[i] = wire[i]
        /\ \A i \in 1 .. n : wire'[Len(wire) + i] = Frontier + i
    BY <1>1, <1>5, PartSent
  <2>2. Frontier = 2 * (taken - Len(frames)) + written /\ Frontier \in Int
    BY <1>1, <1>2, UdpAssumption DEF Frontier, ForwardOK
  <2>3. Numbered'
    BY <1>1, <1>5 DEF ForwardOK, Numbered, InBatch
  <2>4. WireEndsAtList'
    <3>1. CASE cut
      BY <1>1, <3>1 DEF WireEndsAtList
    <3>2. CASE ~cut
      <4>1. Len(wire) = Frontier /\ \A i \in 1 .. Len(wire) : wire[i] = i
        BY <1>1, <3>2 DEF ForwardOK, WireEndsAtList, Frontier
      <4>2. Len(wire') = 2 * (taken' - Len(frames')) + written'
        <5>1. taken \in Nat /\ taken' = taken /\ frames' = frames /\ written' = written + n
          BY <1>1, <1>5, UdpAssumption DEF ForwardOK
        <5>2. Len(wire) + n = 2 * (taken - Len(frames)) + written'
          BY <1>2, <2>1, <2>2, <4>1, <5>1
        <5> QED
          BY <2>1, <5>1, <5>2, Zenon
      <4>3. ASSUME NEW i \in 1 .. Len(wire') PROVE wire'[i] = i
        <5>1. CASE i <= Len(wire)
          BY <1>2, <2>1, <4>1, <5>1
        <5>2. CASE i > Len(wire)
          <6>1. i - Len(wire) \in 1 .. n /\ Len(wire) + (i - Len(wire)) = i
            BY <1>2, <2>1, <5>2
          <6>2. wire'[i] = Frontier + (i - Len(wire))
            BY <2>1, <6>1
          <6> QED
            BY <1>2, <4>1, <6>1, <6>2
        <5> QED
          BY <1>2, <2>1, <5>1, <5>2
      <4> QED
        BY <1>5, <4>2, <4>3 DEF WireEndsAtList, InBatch
    <3> QED
      BY <3>1, <3>2 DEF ForwardOK
  <2>5. written' \in 0 .. 2 * batch' /\ upRoom' \in 0 .. SendRoom
    BY <1>1, <1>2, <1>5, <2>1, UdpAssumption DEF ForwardOK
  <2> QED
    BY <1>1, <1>5, <2>1, <2>3, <2>4, <2>5 DEF ForwardOK
<1>6. CASE written # 2 * batch /\ (upDead \/ upRoom = 0)
  BY <1>4, <1>6 DEF Send, GoOn, WaitIo
<1>7. CASE written # 2 * batch /\ ~upDead /\ upRoom # 0
  BY <1>5, <1>7 DEF Send, GoOn
<1> QED
  BY <1>3, <1>6, <1>7

LEMMA SendGivesUpStep == ForwardOK /\ SendGivesUp => ForwardOK'
<1> SUFFICES ASSUME ForwardOK, SendGivesUp PROVE ForwardOK'
  OBVIOUS
<1>1. /\ batch' = batch /\ written' = written /\ taken' = taken /\ upRoom' = upRoom
      /\ wire' = wire /\ spc = "sendCut" /\ spc' = "backward" /\ InBatch
  BY DEF SendGivesUp, InBatch, GoOn
<1>2. Len(frames) \in Nat /\ batch \in Nat /\ taken \in Nat
  BY LenProperties, UdpAssumption DEF ForwardOK
<1>3. CASE written = 0
  <2>1. resF' = -1 /\ frames' = frames /\ cut' = cut
    BY <1>3 DEF SendGivesUp
  <2>2. WireEndsAtList'
    BY <1>1, <1>2, <1>3, <2>1 DEF ForwardOK, WireEndsAtList, InBatch
  <2>3. Numbered'
    BY <1>1, <2>1 DEF ForwardOK, Numbered, InBatch
  <2> QED
    BY <1>1, <2>1, <2>2, <2>3 DEF ForwardOK
<1>4. CASE written # 0
  <2>1. resF' = 1 /\ DropBatch /\ cut' = TRUE
    BY <1>4 DEF SendGivesUp
  <2>2. /\ frames' \in Seq(Nat)
        /\ Len(frames') = Len(frames) - batch
        /\ \A i \in 1 .. Len(frames') : frames'[i] = taken' - Len(frames') + i
    BY <1>1, <2>1, BatchDropped
  <2>3. Len(frames') <= taken' /\ Len(frames') <= PoolSize + 1
    BY <1>1, <1>2, <2>2, UdpAssumption DEF ForwardOK, Numbered
  <2>4. Numbered'
    BY <1>1, <2>2, <2>3 DEF Numbered, InBatch
  <2>5. WireEndsAtList'
    BY <2>1 DEF WireEndsAtList
  <2> QED
    BY <1>1, <2>1, <2>2, <2>3, <2>4, <2>5 DEF ForwardOK
<1> QED
  BY <1>3, <1>4

LEMMA AppSendsStep == ForwardOK /\ AppSends => ForwardOK'
<1> SUFFICES ASSUME ForwardOK, AppSends PROVE ForwardOK'
  OBVIOUS
<1>1. /\ taken' = taken + 1 /\ frames' = Append(frames, taken + 1) /\ UNCHANGED fwdVars
      /\ spc' = spc /\ taken < AppFrames /\ Len(frames) <= PoolSize /\ spc # "done"
  BY DEF AppSends, CallbacksMayRun
<1>2. frames \in Seq(Nat) /\ taken + 1 \in Nat /\ Len(frames) \in Nat /\ taken \in Nat
  BY LenProperties, UdpAssumption DEF ForwardOK
<1>3. /\ frames' \in Seq(Nat) /\ Len(frames') = Len(frames) + 1
      /\ \A i \in 1 .. Len(frames) : frames'[i] = frames[i]
      /\ frames'[Len(frames) + 1] = taken + 1
  BY <1>1, <1>2, AppendProperties
<1>4. \A i \in 1 .. Len(frames') : frames'[i] = taken' - Len(frames') + i
  <2> TAKE i \in 1 .. Len(frames')
  <2>1. CASE i \in 1 .. Len(frames)
    BY <1>1, <1>2, <1>3, <2>1 DEF ForwardOK, Numbered
  <2>2. CASE i = Len(frames) + 1
    BY <1>1, <1>2, <1>3, <2>2
  <2> QED
    BY <1>2, <1>3, <2>1, <2>2
<1>5. batch \in Nat /\ (InBatch => batch <= Len(frames)) /\ Len(frames) <= taken
  BY UdpAssumption DEF ForwardOK, Numbered
<1>6. Numbered'
  BY <1>1, <1>2, <1>3, <1>4, <1>5 DEF Numbered, InBatch, fwdVars
<1>7. taken' - Len(frames') = taken - Len(frames)
  BY <1>1, <1>2, <1>3
<1>8. WireEndsAtList'
  BY <1>1, <1>7 DEF ForwardOK, WireEndsAtList, InBatch, fwdVars
<1>9. taken' \in 0 .. AppFrames /\ Len(frames') <= PoolSize + 1
  BY <1>1, <1>2, <1>3, UdpAssumption
<1> QED
  BY <1>1, <1>3, <1>6, <1>8, <1>9 DEF ForwardOK, fwdVars

LEMMA DestructStep == ForwardOK /\ Destruct => ForwardOK'
<1> SUFFICES ASSUME ForwardOK, Destruct PROVE ForwardOK'
  OBVIOUS
<1>1. spc' = "done" /\ frames' = <<>> /\ taken' = taken /\ UNCHANGED fwdVars
  BY DEF Destruct
<1>2. frames' \in Seq(Nat) /\ Len(frames') = 0 /\ taken \in Nat
  BY <1>1, UdpAssumption DEF ForwardOK
<1>3. Numbered' /\ WireEndsAtList'
  BY <1>1, <1>2 DEF ForwardOK, Numbered, WireEndsAtList, InBatch, fwdVars
<1> QED
  BY <1>1, <1>2, <1>3, UdpAssumption DEF ForwardOK, fwdVars

LEMMA ForwardInv == Stretches /\ ForwardOK /\ [UdpNext]_udpVars => ForwardOK'
<1> SUFFICES ASSUME Stretches, ForwardOK, [UdpNext]_udpVars PROVE ForwardOK'
  OBVIOUS
<1>1. CASE \/ Connect \/ Handshake \/ ReadHead \/ ReadRest \/ BadHead \/ Deliver
           \/ ReadGivesUp \/ Turn \/ TimesOut \/ TerminateSession
           \/ UpstreamSends \/ UpstreamCloses \/ UpstreamResets \/ UpstreamAnswers
           \/ UNCHANGED udpVars
  <2>1. UNCHANGED <<fwdVars, queueVars>>
    BY <1>1 DEF Connect, Handshake, ReadHead, ReadRest, BadHead, Deliver, BatchDone, SkipEmpty,
         HandOver, Refused, ReadGivesUp, Turn, TimesOut, TerminateSession, UpstreamSends, UpstreamCloses, UpstreamResets, UpstreamAnswers,
         UpstreamEvent, udpVars
  <2>2. CASE TimesOut
    <3>1. spc # "sendCut" /\ spc # "done"
      BY <2>2 DEF TimesOut, Stretches
    <3> QED
      BY <2>1, <2>2, <3>1, ForwardKept DEF TimesOut, GoOn, InBatch
  <2>3. CASE ~TimesOut
    <3>1. InBatch' = InBatch /\ (spc = "done" => spc' = "done")
      BY <1>1, <2>3 DEF Connect, ConnectStep, Handshake, ReadHead, ReadRest, BadHead, Deliver,
         BatchDone, SkipEmpty, HandOver, Refused, GiveUpReading, ReadGivesUp, Turn, TerminateSession, UpstreamSends, UpstreamCloses, UpstreamResets,
         UpstreamAnswers, UpstreamEvent, udpVars, taskVars, InBatch, WaitIo, GoOn,
         Terminated, CallbacksMayRun
    <3> QED
      BY <2>1, <3>1, ForwardKept
  <2> QED
    BY <2>2, <2>3
<1>2. CASE UpstreamTakes
  BY <1>2, UdpAssumption
     DEF UpstreamTakes, ForwardOK, Numbered, WireEndsAtList, InBatch, queueVars
<1> QED
  BY <1>1, <1>2, ForwardStep, SendStep, SendGivesUpStep, AppSendsStep, DestructStep
     DEF UdpNext, TaskStep, Upstream, Finished

(* Where one run of numbers goes on with the rest of another.                *)
UpTo(n) == [i \in 1 .. n |-> i]

LEMMA NumbersJoined ==
    ASSUME NEW w \in Seq(Int), NEW q \in Seq(Int), NEW d \in Nat,
           NEW m \in 1 .. Len(q) + 1,
           Len(w) = d + m - 1,
           \A i \in 1 .. Len(w) : w[i] = i,
           \A i \in 1 .. Len(q) : q[i] = d + i
    PROVE  w \o SubSeq(q, m, Len(q)) = UpTo(d + Len(q))
<1>1. Len(q) \in Nat /\ Len(w) \in Nat
  BY LenProperties
<1>2. PICK part \in Seq(Int) :
         /\ part = SubSeq(q, m, Len(q))
         /\ Len(part) = Len(q) - m + 1
         /\ \A i \in 1 .. Len(q) - m + 1 : part[i] = q[m + i - 1]
  <2>1. Len(q) \in 0 .. Len(q)
    BY <1>1
  <2>2. /\ SubSeq(q, m, Len(q)) \in Seq(Int)
        /\ Len(SubSeq(q, m, Len(q))) = IF m <= Len(q) THEN Len(q) - m + 1 ELSE 0
        /\ \A i \in 1 .. Len(q) - m + 1 : SubSeq(q, m, Len(q))[i] = q[m + i - 1]
    BY <2>1, PartOf, Zenon
  <2>3. Len(SubSeq(q, m, Len(q))) = Len(q) - m + 1
    BY <1>1, <2>2
  <2> QED
    BY <2>2, <2>3, Zenon
<1>3. PICK all \in Seq(Int) :
         /\ all = w \o part
         /\ Len(all) = Len(w) + Len(part)
         /\ \A i \in 1 .. Len(w) + Len(part) :
               all[i] = IF i <= Len(w) THEN w[i] ELSE part[i - Len(w)]
  <2>1. /\ w \o part \in Seq(Int)
        /\ Len(w \o part) = Len(w) + Len(part)
        /\ \A i \in 1 .. Len(w) + Len(part) :
              (w \o part)[i] = IF i <= Len(w) THEN w[i] ELSE part[i - Len(w)]
    BY ConcatProperties, Zenon
  <2> QED
    BY <2>1, Zenon
<1>4. Len(all) = d + Len(q)
  BY <1>1, <1>2, <1>3
<1>5. ASSUME NEW i \in 1 .. d + Len(q)
      PROVE  all[i] = i
  <2>1. CASE i <= Len(w)
    BY <1>1, <1>3, <1>4, <2>1
  <2>2. CASE i > Len(w)
    <3>1. PICK j \in Int : j = i - Len(w) /\ j \in 1 .. Len(q) - m + 1
      BY <1>1, <2>2
    <3>2. all[i] = part[j]
      <4>1. i \in 1 .. Len(w) + Len(part) /\ ~(i <= Len(w))
        BY <1>1, <1>3, <1>4, <2>2
      <4>2. all[i] = part[i - Len(w)]
        BY <1>3, <4>1, Zenon
      <4> QED
        BY <3>1, <4>2
    <3>3. part[j] = q[m + j - 1] /\ m + j - 1 \in 1 .. Len(q)
      BY <1>1, <1>2, <3>1
    <3>4. q[m + j - 1] = d + (m + j - 1)
      BY <3>3
    <3> QED
      BY <1>1, <3>1, <3>2, <3>3, <3>4
  <2> QED
    BY <1>1, <2>1, <2>2
<1>6. all = UpTo(d + Len(q))
  BY <1>4, <1>5, LenProperties DEF UpTo
<1> QED
  BY <1>2, <1>3, <1>6

LEMMA ForwardKeepsFrames == ForwardOK => FramesKept
<1> SUFFICES ASSUME ForwardOK, spc # "done", ~cut
             PROVE  wire \o SubSeq(UnitsOf(frames),
                                   IF InBatch THEN written + 1 ELSE 1, 2 * Len(frames))
                       = [i \in 1 .. 2 * taken |-> i]
  BY DEF FramesKept
<1>1. /\ frames \in Seq(Nat) /\ Len(frames) \in Nat /\ taken \in Nat /\ written \in Nat
      /\ wire \in Seq(Int)
      /\ taken - Len(frames) \in Nat
      /\ \A i \in 1 .. Len(frames) : frames[i] = taken - Len(frames) + i
      /\ \A i \in 1 .. Len(wire) : wire[i] = i
  BY LenProperties, UdpAssumption DEF ForwardOK, Numbered, WireEndsAtList
<1>2. PICK q \in Seq(Int), d \in Nat :
         /\ q = UnitsOf(frames) /\ Len(q) = 2 * Len(frames)
         /\ d = 2 * (taken - Len(frames))
         /\ \A i \in 1 .. Len(q) : q[i] = d + i
  <2>1. PICK n \in Nat : n = taken - Len(frames)
    BY <1>1
  <2>2. /\ UnitsOf(frames) \in Seq(Int)
        /\ Len(UnitsOf(frames)) = 2 * Len(frames)
        /\ \A i \in 1 .. 2 * Len(frames) : UnitsOf(frames)[i] = 2 * n + i
    BY <1>1, <2>1, UnitsInOrder
  <2>3. 2 * n \in Nat
    BY SMT
  <2> QED
    BY <2>1, <2>2, <2>3
<1>3. 2 * taken = d + Len(q)
  BY <1>1, <1>2
<1>4. CASE InBatch
  <2>1. PICK m \in 1 .. Len(q) + 1 : m = written + 1
    BY <1>1, <1>2, <1>4, UdpAssumption DEF ForwardOK, Numbered
  <2>2. Len(wire) = d + m - 1
    BY <1>1, <1>2, <1>4, <2>1 DEF ForwardOK, WireEndsAtList
  <2>3. wire \o SubSeq(q, m, Len(q)) = UpTo(d + Len(q))
    BY <1>1, <1>2, <2>1, <2>2, NumbersJoined
  <2> QED
    BY <1>2, <1>3, <1>4, <2>1, <2>3 DEF UpTo
<1>5. CASE ~InBatch
  <2>1. PICK m \in 1 .. Len(q) + 1 : m = 1
    BY <1>1, <1>2
  <2>2. Len(wire) = d + m - 1
    BY <1>1, <1>2, <1>5, <2>1 DEF ForwardOK, WireEndsAtList
  <2>3. wire \o SubSeq(q, m, Len(q)) = UpTo(d + Len(q))
    BY <1>1, <1>2, <2>1, <2>2, NumbersJoined
  <2> QED
    BY <1>2, <1>3, <1>5, <2>1, <2>3 DEF UpTo
<1> QED
  BY <1>4, <1>5

-----------------------------------------------------------------------------
(* How the task moves and sleeps.                                            *)
LEMMA ControlInv == ControlOK /\ [UdpNext]_udpVars => ControlOK'
<1> SUFFICES ASSUME ControlOK, [UdpNext]_udpVars PROVE ControlOK'
  OBVIOUS
<1> USE DEF ControlOK, Stretches, TerminatedNeverSleeps, States
<1>1. CASE Connect \/ Handshake
  BY <1>1 DEF Connect, ConnectStep, Handshake, WaitIo, GoOn, MayRun, SetTimeout
<1>2. CASE Forward \/ SendGivesUp \/ ReadHead \/ BadHead \/ Deliver \/ ReadGivesUp
  BY <1>2 DEF Forward, SendGivesUp, ReadHead, BadHead, Deliver, BatchDone, SkipEmpty, HandOver,
       Refused, GiveUpReading, ReadGivesUp, GoOn
<1>3. CASE Send
  BY <1>3 DEF Send, WaitIo, GoOn
<1>4. CASE ReadRest
  BY <1>4 DEF ReadRest, WaitIo, GoOn
<1>5. CASE Turn
  BY <1>5 DEF Turn, WaitIo, GoOn
<1>6. CASE Destruct \/ TimesOut
  BY <1>6 DEF Destruct, TimesOut, GoOn
<1>7. CASE AppSends \/ TerminateSession
  BY <1>7 DEF AppSends, TerminateSession, RecvWakes, Woken, Terminated, SetTimeout, CallbacksMayRun
<1>8. CASE Upstream
  BY <1>8 DEF Upstream, UpstreamAnswers, UpstreamSends, UpstreamCloses, UpstreamResets,
       UpstreamTakes, UpstreamEvent, Woken
<1>9. CASE UNCHANGED udpVars
  BY <1>9 DEF udpVars, taskVars
<1> QED
  BY <1>1, <1>2, <1>3, <1>4, <1>5, <1>6, <1>7, <1>8, <1>9 DEF UdpNext, TaskStep, Finished

-----------------------------------------------------------------------------
(* The direction from the upstream.                                          *)
Reading == {"backward", "rest", "recvCut", "recvLost", "deliver"}

LEMMA AccountedKept ==
    ASSUME Accounted, InMessage' = InMessage,
           UNCHANGED <<resB, upRead, msgs, misread, appGot, upSent>>
    PROVE  Accounted'
<1>1. PICK h \in Nat, g \in Nat :
         /\ Delivered(h) /\ InBatchOf(h, g)
         /\ ~misread /\ resB >= 0 => upRead = 2 * g + (IF InMessage THEN 1 ELSE 0)
  BY DEF Accounted
<1>2. Delivered(h)' /\ InBatchOf(h, g)'
  BY <1>1 DEF Delivered, InBatchOf, Received
<1> QED
  BY <1>1, <1>2 DEF Accounted

LEMMA BackwardKept ==
    ASSUME BackwardOK, UNCHANGED <<bwdVars, upVars>>,
           spc' = spc \/ (spc \notin Reading /\ spc' \notin Reading \ {"backward"})
    PROVE  BackwardOK'
<1>1. /\ resB' = resB /\ upRead' = upRead /\ msgs' = msgs /\ misread' = misread
      /\ appGot' = appGot /\ upSent' = upSent /\ upFin' = upFin /\ upDead' = upDead
  BY DEF bwdVars, upVars
<1>2. InMessage' = InMessage
  BY DEF InMessage, Reading
<1>3. Batched'
  BY <1>1, <1>2 DEF BackwardOK, Batched, Reading
<1>4. Accounted'
  BY <1>1, <1>2, AccountedKept DEF BackwardOK
<1> QED
  BY <1>1, <1>3, <1>4 DEF BackwardOK

(* How far the messages have been dealt with and how far they have been      *)
(* read, with the types of what a step of this direction works on.           *)
LEMMA Opened ==
    ASSUME BackwardOK
    PROVE  /\ msgs \in Seq(Nat) /\ Len(msgs) \in Nat /\ appGot \in Seq(Nat)
           /\ Len(appGot) \in Nat /\ Num \in Nat \ {0}
           /\ upRead \in Nat /\ upSent \in Nat /\ upRead <= upSent
           /\ resB \in {-1, 0, 1} /\ misread \in BOOLEAN
           /\ (msgs = <<>> <=> Len(msgs) = 0)
           /\ \E h, g \in Nat :
                 /\ Delivered(h) /\ InBatchOf(h, g)
                 /\ ~misread /\ resB >= 0 =>
                       upRead = 2 * g + (IF InMessage THEN 1 ELSE 0)
<1>1. msgs = <<>> <=> Len(msgs) = 0
  BY EmptySeq DEF BackwardOK
<1> QED
  BY <1>1, LenProperties, UdpAssumption DEF BackwardOK, Accounted

LEMMA ReadHeadStep == BackwardOK /\ ReadHead => BackwardOK'
<1> SUFFICES ASSUME BackwardOK, ReadHead PROVE BackwardOK'
  OBVIOUS
<1>1. /\ spc = "backward" /\ msgs' = msgs /\ misread' = misread /\ appGot' = appGot
      /\ upSent' = upSent /\ upFin' = upFin /\ upDead' = upDead
  BY DEF ReadHead, upVars
<1>2. PICK h \in Nat, g \in Nat :
         /\ Delivered(h) /\ InBatchOf(h, g)
         /\ ~misread /\ resB >= 0 => upRead = 2 * g + (IF InMessage THEN 1 ELSE 0)
  BY Opened
<1>3. Delivered(h)' /\ InBatchOf(h, g)'
  BY <1>1, <1>2 DEF Delivered, InBatchOf, Received
<1>4. /\ Len(msgs) \in Nat /\ Num \in Nat /\ upRead \in Nat /\ upSent \in Nat
      /\ resB \in {-1, 0, 1} /\ (msgs = <<>> <=> Len(msgs) = 0)
  BY Opened
<1>5. CASE resB < 0
  <2>1. spc' = "turn" /\ resB' = resB /\ upRead' = upRead
    BY <1>5 DEF ReadHead, GoOn
  <2> QED
    BY <1>1, <1>3, <1>4, <1>5, <2>1 DEF BackwardOK, Batched, Accounted, InMessage
<1>6. CASE ~(resB < 0) /\ Len(msgs) < Num /\ ~upDead /\ upRead < upSent
  <2>1. spc' = "rest" /\ upRead' = upRead + 1 /\ resB' = resB
    BY <1>6 DEF ReadHead, GoOn
  <2>2. ~misread' /\ resB' >= 0 => upRead' = 2 * g + (IF InMessage' THEN 1 ELSE 0)
    BY <1>1, <1>2, <2>1 DEF InMessage
  <2>3. Accounted'
    BY <1>3, <2>2 DEF Accounted
  <2>4. Batched'
    BY <1>1, <1>4, <1>6, <2>1 DEF Batched, InMessage
  <2>5. upRead' \in 0 .. upSent'
    BY <1>1, <1>4, <1>6, <2>1
  <2> QED
    BY <1>1, <2>1, <2>3, <2>4, <2>5 DEF BackwardOK
<1>7. CASE /\ ~(resB < 0) /\ ~(Len(msgs) < Num /\ ~upDead /\ upRead < upSent)
           /\ msgs # <<>>
  <2>1. spc' = "deliver" /\ upRead' = upRead /\ resB' = resB
    BY <1>7 DEF ReadHead, GoOn
  <2>2. Accounted'
    BY <1>1, <1>2, <1>3, <2>1 DEF Accounted, InMessage
  <2> QED
    BY <1>1, <1>4, <1>7, <2>1, <2>2 DEF BackwardOK, Batched, InMessage
<1>8. CASE /\ ~(resB < 0) /\ ~(Len(msgs) < Num /\ ~upDead /\ upRead < upSent)
           /\ ~(msgs # <<>>)
  <2>1. spc' = "turn" /\ upRead' = upRead /\ resB' \in {-1, 0}
    BY <1>8 DEF ReadHead, GoOn
  <2>2. Accounted'
    BY <1>1, <1>2, <1>3, <1>4, <1>8, <2>1 DEF Accounted, InMessage
  <2> QED
    BY <1>1, <1>4, <1>8, <2>1, <2>2 DEF BackwardOK, Batched, InMessage
<1> QED
  BY <1>5, <1>6, <1>7, <1>8

LEMMA HalfOf ==
    ASSUME NEW n \in Nat
    PROVE  /\ (2 * n + 2) \div 2 = n + 1
           /\ \A m \in Nat : 2 * n <= m => n <= m \div 2 /\ m \div 2 \in Nat
  OBVIOUS

(* The message that has been read whole follows those of its batch.          *)
LEMMA ReadRestStep == BackwardOK /\ ReadRest => BackwardOK'
<1> SUFFICES ASSUME BackwardOK, ReadRest PROVE BackwardOK'
  OBVIOUS
<1>1. /\ spc = "rest" /\ resB' = resB /\ misread' = misread /\ appGot' = appGot
      /\ upSent' = upSent /\ upFin' = upFin /\ upDead' = upDead /\ InMessage
  BY DEF ReadRest, upVars, InMessage
<1>2. PICK h \in Nat, g \in Nat :
         /\ Delivered(h) /\ InBatchOf(h, g)
         /\ ~misread /\ resB >= 0 => upRead = 2 * g + (IF InMessage THEN 1 ELSE 0)
  BY Opened
<1>3. Delivered(h)'
  BY <1>1, <1>2 DEF Delivered, Received
<1>4. /\ msgs \in Seq(Nat) /\ Len(msgs) \in Nat /\ Num \in Nat /\ upRead \in Nat
      /\ upSent \in Nat /\ resB \in {-1, 0, 1} /\ misread \in BOOLEAN
  BY Opened
<1>5. resB >= 0 /\ Len(msgs) < Num
  BY <1>1 DEF BackwardOK, Batched
<1>6. CASE upRead < upSent /\ ~upDead
  <2>1. spc' = "backward" /\ upRead' = upRead + 1 /\ msgs' = Append(msgs, MessageRead)
    BY <1>6 DEF ReadRest, GoOn
  <2>2. MessageRead = (IF misread THEN 0 ELSE g + 1) /\ MessageRead \in Nat
    <3>1. CASE misread
      BY <3>1 DEF MessageRead
    <3>2. CASE ~misread
      <4>1. upRead + 1 = 2 * g + 2
        BY <1>1, <1>2, <1>5, <3>2
      <4> QED
        BY <3>2, <4>1, HalfOf DEF MessageRead
    <3> QED
      BY <3>1, <3>2
  <2>3. /\ msgs' \in Seq(Nat) /\ Len(msgs') = Len(msgs) + 1
        /\ \A i \in 1 .. Len(msgs) : msgs'[i] = msgs[i]
        /\ msgs'[Len(msgs) + 1] = MessageRead
    BY <1>4, <2>1, <2>2, AppendProperties
  <2>4. PICK n \in Nat : n = IF misread THEN g ELSE g + 1
    OBVIOUS
  <2>5. InBatchOf(h, n)'
    <3>1. h <= n /\ n <= h + Len(msgs') /\ (~misread => n = h + Len(msgs'))
      BY <1>2, <1>4, <2>3, <2>4 DEF InBatchOf
    <3>2. 2 * n <= upSent
      BY <1>1, <1>2, <1>4, <1>5, <1>6, <2>4 DEF InBatchOf
    <3>3. ASSUME NEW i \in 1 .. Len(msgs')
          PROVE  msgs'[i] = IF h + i <= n THEN h + i ELSE 0
      <4>1. CASE i = Len(msgs) + 1
        BY <1>2, <1>4, <2>2, <2>3, <2>4, <4>1 DEF InBatchOf
      <4>2. CASE i # Len(msgs) + 1
        <5>1. i \in 1 .. Len(msgs)
          BY <1>4, <2>3, <4>2
        <5>2. msgs'[i] = IF h + i <= g THEN h + i ELSE 0
          BY <1>2, <2>3, <5>1 DEF InBatchOf
        <5>3. h + i <= g <=> h + i <= n
          BY <1>2, <1>4, <2>4, <5>1 DEF InBatchOf
        <5> QED
          BY <5>2, <5>3
      <4> QED
        BY <4>1, <4>2
    <3> QED
      BY <1>1, <3>1, <3>2, <3>3 DEF InBatchOf
  <2>6. ~misread' /\ resB' >= 0 => upRead' = 2 * n + (IF InMessage' THEN 1 ELSE 0)
    BY <1>1, <1>2, <1>5, <2>1, <2>4 DEF InMessage
  <2>7. Accounted'
    BY <1>3, <2>5, <2>6 DEF Accounted
  <2>8. Batched'
    BY <1>1, <1>4, <1>5, <2>1 DEF Batched, InMessage
  <2>9. upRead' \in 0 .. upSent' /\ Len(msgs') <= Num
    BY <1>1, <1>4, <1>5, <1>6, <2>1, <2>3
  <2> QED
    BY <1>1, <2>3, <2>7, <2>8, <2>9 DEF BackwardOK
<1>7. CASE ~(upRead < upSent /\ ~upDead)
  <2>1. spc' \in {"rest", "recvCut", "recvLost"} /\ upRead' = upRead /\ msgs' = msgs
    BY <1>7 DEF ReadRest, GoOn, WaitIo
  <2>2. Accounted'
    BY <1>1, <1>2, <1>3, <2>1 DEF Accounted, InBatchOf, InMessage
  <2> QED
    BY <1>1, <1>4, <1>5, <2>1, <2>2 DEF BackwardOK, Batched, InMessage
<1> QED
  BY <1>6, <1>7

(* Where the batch is lost, so is every later message: the direction is over *)
(* or has been misread.                                                      *)
LEMMA BatchLost ==
    ASSUME BackwardOK, msgs' = <<>>, resB' \in {-1, 0}, resB' = -1 \/ misread',
           misread' \in BOOLEAN, misread => misread',
           UNCHANGED <<upRead, appGot, upVars>>, spc' \notin Reading
    PROVE  BackwardOK'
<1>1. upSent' = upSent /\ upFin' = upFin /\ upDead' = upDead
  BY DEF upVars
<1>2. PICK h \in Nat, g \in Nat : Delivered(h) /\ InBatchOf(h, g)
  BY Opened
<1>3. Delivered(h)'
  BY <1>2 DEF Delivered, Received
<1>4. msgs' \in Seq(Nat) /\ Len(msgs') = 0
  OBVIOUS
<1>5. upSent \in Nat /\ upRead \in Nat /\ upRead <= upSent /\ Num \in Nat
  BY Opened
<1>6. InBatchOf(h, h)'
  BY <1>1, <1>2, <1>4, <1>5 DEF InBatchOf
<1>7. Accounted'
  BY <1>3, <1>6 DEF Accounted
<1>8. Batched'
  BY DEF Batched, Reading, InMessage
<1> QED
  BY <1>1, <1>4, <1>5, <1>7, <1>8 DEF BackwardOK

LEMMA ReadGivesUpStep == BackwardOK /\ ReadGivesUp => BackwardOK'
<1> SUFFICES ASSUME BackwardOK, ReadGivesUp PROVE BackwardOK'
  OBVIOUS
<1>1. /\ spc \in {"recvCut", "recvLost"} /\ misread' = TRUE /\ upRead' = upRead
      /\ appGot' = appGot /\ upSent' = upSent /\ upFin' = upFin /\ upDead' = upDead
      /\ InMessage
  BY DEF ReadGivesUp, upVars, InMessage
<1>2. CASE GoOn("turn") /\ resB' \in {-1, 0} /\ msgs' = <<>>
  BY <1>1, <1>2, BatchLost DEF GoOn, Reading, upVars
<1>3. ASSUME GoOn("deliver"), resB' = resB, msgs' # <<>>,
             NEW k \in 0 .. Len(msgs), NEW behind \in {<<>>, << 0 >>},
             behind = <<>> \/ k = Len(msgs),
             msgs' = SubSeq(msgs, 1, k) \o behind
      PROVE  BackwardOK'
  <2>1. PICK h \in Nat, g \in Nat : Delivered(h) /\ InBatchOf(h, g)
    BY Opened
  <2>2. Delivered(h)'
    BY <1>1, <2>1 DEF Delivered, Received
  <2>3. /\ msgs \in Seq(Nat) /\ Len(msgs) \in Nat /\ Num \in Nat /\ upRead \in Nat
        /\ upSent \in Nat /\ resB \in {-1, 0, 1} /\ Len(msgs) < Num /\ resB >= 0
        /\ upRead <= upSent
    BY <1>1, Opened DEF BackwardOK, Batched
  <2>4. PICK part \in Seq(Nat) :
           /\ part = SubSeq(msgs, 1, k) /\ Len(part) = k
           /\ \A i \in 1 .. k : part[i] = msgs[i]
    <3>1. PICK one \in Nat : one = 1
      OBVIOUS
    <3>2. one \in 1 .. Len(msgs) + 1 /\ k \in 0 .. Len(msgs) /\ msgs \in Seq(Nat)
      BY <2>3, <3>1
    <3>3. /\ SubSeq(msgs, one, k) \in Seq(Nat)
          /\ Len(SubSeq(msgs, one, k)) = IF one <= k THEN k - one + 1 ELSE 0
          /\ \A i \in 1 .. k - one + 1 : SubSeq(msgs, one, k)[i] = msgs[one + i - 1]
      BY <3>2, PartOf, Zenon
    <3>4. \A i \in 1 .. k : i \in 1 .. k - one + 1 /\ one + i - 1 = i
      BY <2>3, <3>1
    <3>5. Len(SubSeq(msgs, one, k)) = k
      BY <2>3, <3>1, <3>3
    <3> QED
      BY <3>1, <3>3, <3>4, <3>5
  <2>5. /\ msgs' \in Seq(Nat) /\ Len(msgs') <= Len(msgs) + 1 /\ Len(msgs') >= k
        /\ \A i \in 1 .. Len(msgs') :
              msgs'[i] = IF i <= k THEN msgs[i] ELSE 0
    <3>1. CASE behind = <<>>
      <4>0. part \o <<>> = part
        BY <2>4, ConcatEmptySeq, Zenon
      <4>1. msgs' = part
        BY <1>3, <2>4, <3>1, <4>0, Zenon
      <4> QED
        BY <2>3, <2>4, <4>1
    <3>2. CASE behind = << 0 >>
      <4>1. msgs' = Append(part, 0)
        BY <1>3, <2>4, <3>2, AppendIsConcat
      <4>2. /\ msgs' \in Seq(Nat) /\ Len(msgs') = Len(part) + 1
            /\ \A i \in 1 .. Len(part) : msgs'[i] = part[i]
            /\ msgs'[Len(part) + 1] = 0
        BY <4>1, AppendProperties
      <4> QED
        BY <2>3, <2>4, <4>2
    <3> QED
      BY <3>1, <3>2
  <2>6. PICK n \in Nat : n = IF g <= h + k THEN g ELSE h + k
    BY <2>3
  <2>7. InBatchOf(h, n)'
    <3>1. Len(msgs') \in Nat
      BY <2>5, LenProperties
    <3>2. h <= n /\ n <= h + Len(msgs') /\ 2 * n <= upSent
      BY <2>1, <2>3, <2>5, <2>6, <3>1 DEF InBatchOf
    <3>3. ASSUME NEW i \in 1 .. Len(msgs')
          PROVE  msgs'[i] = IF h + i <= n THEN h + i ELSE 0
      <4>1. CASE i <= k
        <5>1. msgs'[i] = msgs[i] /\ i \in 1 .. Len(msgs)
          BY <2>3, <2>5, <4>1
        <5>2. msgs[i] = IF h + i <= g THEN h + i ELSE 0
          BY <2>1, <5>1 DEF InBatchOf
        <5>3. h + i <= g <=> h + i <= n
          BY <2>3, <2>6, <4>1
        <5> QED
          BY <5>1, <5>2, <5>3
      <4>2. CASE ~(i <= k)
        <5>1. ~(h + i <= n)
          BY <2>3, <2>6, <4>2
        <5> QED
          BY <2>5, <4>2, <5>1
      <4> QED
        BY <4>1, <4>2
    <3> QED
      BY <1>1, <3>2, <3>3 DEF InBatchOf
  <2>8. Accounted'
    BY <1>1, <2>2, <2>7 DEF Accounted
  <2>9. Batched' /\ Len(msgs') <= Num
    <3>1. spc' = "deliver"
      BY <1>3 DEF GoOn
    <3>2. Len(msgs') \in Nat
      BY <2>5, LenProperties
    <3> QED
      BY <1>3, <2>3, <2>5, <3>1, <3>2 DEF Batched, InMessage
  <2> QED
    BY <1>1, <1>3, <2>3, <2>5, <2>8, <2>9 DEF BackwardOK
<1>4. CASE GoOn("turn")
  BY <1>2, <1>4 DEF ReadGivesUp, GoOn
<1>5. CASE ~GoOn("turn")
  BY <1>3, <1>5 DEF ReadGivesUp
<1> QED
  BY <1>4, <1>5

(* Looking at the first message of a batch.                                  *)
LEMMA BatchMoves ==
    ASSUME BackwardOK, spc = "deliver", msgs # <<>>, msgs' = Tail(msgs),
           UNCHANGED <<resB, upRead, misread, upVars>>, GoOn("deliver"),
           appGot' \in Seq(Nat),
           \A h \in Nat :
              Delivered(h) => IF Head(msgs) = 0 THEN Delivered(h)'
                              ELSE Head(msgs) = h + 1 => Delivered(h + 1)'
    PROVE  BackwardOK'
<1>1. spc' = "deliver" /\ upSent' = upSent /\ upFin' = upFin /\ upDead' = upDead
  BY DEF GoOn, upVars
<1>2. PICK h \in Nat, g \in Nat :
         /\ Delivered(h) /\ InBatchOf(h, g)
         /\ ~misread /\ resB >= 0 => upRead = 2 * g + (IF InMessage THEN 1 ELSE 0)
  BY Opened
<1>3. /\ msgs \in Seq(Nat) /\ Len(msgs) \in Nat /\ Len(msgs) # 0 /\ Num \in Nat
      /\ upRead \in Nat /\ upSent \in Nat /\ upRead <= upSent
      /\ resB \in {-1, 0, 1} /\ resB >= 0 /\ misread \in BOOLEAN /\ Len(msgs) <= Num
  BY Opened DEF BackwardOK, Batched
<1>4. /\ Head(msgs) = msgs[1]
      /\ msgs' \in Seq(Nat) /\ Len(msgs') = Len(msgs) - 1
      /\ \A i \in 1 .. Len(msgs) - 1 : msgs'[i] = msgs[i + 1]
  BY <1>3, HeadTailProperties
<1>5. 1 \in 1 .. Len(msgs)
  BY <1>3
<1>6. Head(msgs) = IF h + 1 <= g THEN h + 1 ELSE 0
  BY <1>2, <1>4, <1>5 DEF InBatchOf
<1>7. PICK n \in Nat : n = IF h + 1 <= g THEN h + 1 ELSE h
  OBVIOUS
<1>8. Delivered(n)'
  BY <1>2, <1>6, <1>7
<1>9. InBatchOf(n, g)'
  <2>1. n <= g /\ g <= n + Len(msgs') /\ (~misread => g = n + Len(msgs'))
    <3>1. h <= g /\ g <= h + Len(msgs) /\ (~misread => g = h + Len(msgs))
      BY <1>2 DEF InBatchOf
    <3>2. PICK m \in Nat : m = Len(msgs') /\ Len(msgs) = m + 1
      <4>1. Len(msgs') \in Nat
        BY <1>4, LenProperties
      <4>2. Len(msgs') = Len(msgs) - 1
        BY <1>4
      <4>3. Len(msgs) = Len(msgs') + 1
        BY <1>3, <4>1, <4>2
      <4> QED
        BY <4>1, <4>3
    <3>3. n <= g /\ g <= n + m
      BY <1>7, <3>1, <3>2
    <3>4. ASSUME ~misread PROVE g = n + m
      BY <1>7, <3>1, <3>2, <3>4
    <3> QED
      BY <3>2, <3>3, <3>4
  <2>2. ASSUME NEW i \in 1 .. Len(msgs')
        PROVE  msgs'[i] = IF n + i <= g THEN n + i ELSE 0
    <3>1. i \in 1 .. Len(msgs) - 1 /\ i + 1 \in 1 .. Len(msgs)
      BY <1>3, <1>4
    <3>2. msgs'[i] = IF h + (i + 1) <= g THEN h + (i + 1) ELSE 0
      BY <1>2, <1>4, <3>1 DEF InBatchOf
    <3> QED
      BY <1>2, <1>7, <3>1, <3>2 DEF InBatchOf
  <2> QED
    BY <1>1, <1>2, <2>1, <2>2 DEF InBatchOf
<1>10. Accounted'
  BY <1>1, <1>2, <1>8, <1>9 DEF Accounted, InMessage
<1>11. Batched'
  BY <1>1, <1>3 DEF Batched, InMessage
<1>12. Len(msgs') <= Num
  BY <1>3, <1>4
<1> QED
  BY <1>1, <1>3, <1>4, <1>10, <1>11, <1>12 DEF BackwardOK

LEMMA SkipEmptyStep == BackwardOK /\ SkipEmpty => BackwardOK'
<1> SUFFICES ASSUME BackwardOK, SkipEmpty PROVE BackwardOK'
  OBVIOUS
<1>1. /\ spc = "deliver" /\ msgs # <<>> /\ msgs' = Tail(msgs) /\ GoOn("deliver")
      /\ UNCHANGED <<resB, upRead, misread, upVars>> /\ appGot' = appGot
      /\ Head(msgs) \in Empty \cup {0} /\ appGot' \in Seq(Nat)
  BY DEF SkipEmpty, BackwardOK
<1>2. ASSUME NEW h \in Nat, Delivered(h)
      PROVE  IF Head(msgs) = 0 THEN Delivered(h)'
             ELSE Head(msgs) = h + 1 => Delivered(h + 1)'
  <2>1. CASE Head(msgs) = 0
    BY <1>1, <1>2, <2>1 DEF Delivered, Received
  <2>2. CASE Head(msgs) = h + 1
    <3>1. h + 1 \in Empty
      BY <1>1, <2>2
    <3>2. WithData(h + 1) = WithData(h)
      BY <3>1 DEF WithData
    <3> QED
      BY <1>1, <1>2, <2>2, <3>2 DEF Delivered, Received
  <2> QED
    BY <2>1, <2>2
<1> QED
  BY <1>1, <1>2, BatchMoves

LEMMA HandOverStep == BackwardOK /\ HandOver => BackwardOK'
<1> SUFFICES ASSUME BackwardOK, HandOver PROVE BackwardOK'
  OBVIOUS
<1>1. /\ spc = "deliver" /\ msgs # <<>> /\ msgs' = Tail(msgs) /\ GoOn("deliver")
      /\ UNCHANGED <<resB, upRead, misread, upVars>> /\ Head(msgs) \notin Empty
      /\ appGot' = IF Head(msgs) = 0 THEN appGot ELSE Append(appGot, Head(msgs))
  BY DEF HandOver
<1>2. /\ appGot \in Seq(Nat) /\ Len(appGot) \in Nat /\ Head(msgs) \in Nat
  BY <1>1, Opened, HeadTailProperties
<1>3. Head(msgs) # 0 =>
         /\ appGot' \in Seq(Nat) /\ Len(appGot') = Len(appGot) + 1
         /\ \A i \in 1 .. Len(appGot) : appGot'[i] = appGot[i]
         /\ appGot'[Len(appGot) + 1] = Head(msgs)
  BY <1>1, <1>2, AppendProperties
<1>4. ASSUME NEW h \in Nat, Delivered(h)
      PROVE  IF Head(msgs) = 0 THEN Delivered(h)'
             ELSE Head(msgs) = h + 1 => Delivered(h + 1)'
  <2>1. CASE Head(msgs) = 0
    BY <1>1, <1>4, <2>1 DEF Delivered, Received
  <2>2. CASE Head(msgs) = h + 1
    <3>1. DOMAIN appGot = 1 .. Len(appGot) /\ DOMAIN appGot' = 1 .. Len(appGot) + 1
      BY <1>2, <1>3, <2>2, LenProperties
    <3>2. WithData(h + 1) = WithData(h) \cup {h + 1}
      BY <1>1, <2>2 DEF WithData
    <3>3. Received' = Received \cup {h + 1}
      <4>1. Received' \subseteq Received \cup {h + 1}
        <5>1. ASSUME NEW i \in DOMAIN appGot'
              PROVE  appGot'[i] \in Received \cup {h + 1}
          <6>1. CASE i \in DOMAIN appGot
            BY <1>3, <2>2, <3>1, <6>1 DEF Received
          <6>2. CASE i = Len(appGot) + 1
            BY <1>3, <2>2, <6>2
          <6> QED
            BY <1>2, <3>1, <5>1, <6>1, <6>2
        <5> QED
          BY <5>1 DEF Received
      <4>2. h + 1 \in Received'
        <5>1. Len(appGot) + 1 \in DOMAIN appGot' /\ appGot'[Len(appGot) + 1] = h + 1
          BY <1>2, <1>3, <2>2, <3>1
        <5> QED
          BY <5>1, Zenon DEF Received
      <4>3. Received \subseteq Received'
        <5>1. ASSUME NEW i \in DOMAIN appGot
              PROVE  i \in DOMAIN appGot' /\ appGot'[i] = appGot[i]
          BY <1>2, <1>3, <2>2, <3>1
        <5> QED
          BY <5>1, Zenon DEF Received
      <4> QED
        BY <4>1, <4>2, <4>3
    <3>4. \A i \in DOMAIN appGot : appGot[i] < h + 1
      BY <1>4 DEF Delivered, Received, WithData
    <3>5. ASSUME NEW i \in DOMAIN appGot', NEW j \in DOMAIN appGot', i < j
          PROVE  appGot'[i] < appGot'[j]
      <4>1. i \in 1 .. Len(appGot)
        BY <1>2, <3>1, <3>5
      <4>2. CASE j = Len(appGot) + 1
        BY <1>3, <2>2, <3>1, <3>4, <4>1, <4>2
      <4>3. CASE j # Len(appGot) + 1
        <5>1. j \in 1 .. Len(appGot)
          BY <1>2, <3>1, <4>3
        <5> QED
          BY <1>3, <1>4, <2>2, <3>1, <3>5, <4>1, <5>1 DEF Delivered
      <4> QED
        BY <4>2, <4>3
    <3> QED
      BY <1>4, <2>2, <3>2, <3>3, <3>5 DEF Delivered
  <2> QED
    BY <2>1, <2>2
<1>5. appGot' \in Seq(Nat)
  BY <1>1, <1>2, <1>3
<1> QED
  BY <1>1, <1>4, <1>5, BatchMoves

LEMMA DeliverStep == BackwardOK /\ Deliver => BackwardOK'
<1> SUFFICES ASSUME BackwardOK, Deliver PROVE BackwardOK'
  OBVIOUS
<1>1. CASE BatchDone
  <2>1. /\ spc = "deliver" /\ spc' = "turn" /\ msgs = <<>> /\ resB' = 1
        /\ upRead' = upRead /\ msgs' = msgs /\ misread' = misread /\ appGot' = appGot
        /\ upSent' = upSent /\ upFin' = upFin /\ upDead' = upDead
    BY <1>1 DEF BatchDone, GoOn, upVars
  <2>2. PICK h \in Nat, g \in Nat :
           /\ Delivered(h) /\ InBatchOf(h, g)
           /\ ~misread /\ resB >= 0 => upRead = 2 * g + (IF InMessage THEN 1 ELSE 0)
    BY Opened
  <2>3. Delivered(h)' /\ InBatchOf(h, g)'
    BY <2>1, <2>2 DEF Delivered, InBatchOf, Received
  <2>4. resB >= 0 /\ ~InMessage /\ ~InMessage'
    BY <2>1 DEF BackwardOK, Batched, InMessage
  <2>5. Accounted'
    BY <2>1, <2>2, <2>3, <2>4 DEF Accounted
  <2> QED
    BY <2>1, <2>5 DEF BackwardOK, Batched, InMessage
<1>2. CASE Refused
  BY <1>2, BatchLost DEF Refused, GiveUpReading, GoOn, Reading, BackwardOK
<1> QED
  BY <1>1, <1>2, SkipEmptyStep, HandOverStep DEF Deliver

LEMMA BadHeadStep == BackwardOK /\ BadHead => BackwardOK'
  BY BatchLost DEF BadHead, GoOn, Reading

LEMMA BackwardInv == Stretches /\ BackwardOK /\ [UdpNext]_udpVars => BackwardOK'
<1> SUFFICES ASSUME Stretches, BackwardOK, [UdpNext]_udpVars PROVE BackwardOK'
  OBVIOUS
<1>1. CASE \/ Connect \/ Handshake \/ Forward \/ Send \/ SendGivesUp \/ Turn \/ Destruct
           \/ AppSends \/ TerminateSession \/ UpstreamAnswers \/ UpstreamTakes
           \/ UNCHANGED udpVars
  <2>1. UNCHANGED <<bwdVars, upVars>>
    BY <1>1 DEF Connect, Handshake, Forward, Send, SendGivesUp, Turn, Destruct, AppSends,
         TerminateSession, UpstreamAnswers, UpstreamTakes, UpstreamEvent, udpVars
  <2>2. spc' = spc \/ (spc \notin Reading /\ spc' \notin Reading \ {"backward"})
    BY <1>1 DEF Connect, ConnectStep, Handshake, Forward, Send, SendGivesUp, Turn, Destruct,
         AppSends, TerminateSession, UpstreamAnswers, UpstreamTakes, UpstreamEvent, udpVars,
         taskVars, WaitIo, GoOn, Reading
  <2> QED
    BY <2>1, <2>2, BackwardKept
<1>2. CASE TimesOut
  <2>1. UNCHANGED <<bwdVars, upVars>> /\ spc \notin {"backward", "recvCut", "recvLost", "deliver"}
    BY <1>2 DEF TimesOut, Stretches
  <2>2. CASE spc = "rest"
    <3>1. spc' = "recvCut" /\ InMessage /\ InMessage'
      BY <1>2, <2>2 DEF TimesOut, GoOn, InMessage
    <3>2. /\ resB' = resB /\ upRead' = upRead /\ msgs' = msgs /\ misread' = misread
          /\ appGot' = appGot /\ upSent' = upSent /\ upFin' = upFin /\ upDead' = upDead
      BY <2>1 DEF bwdVars, upVars
    <3>3. Accounted'
      BY <3>1, <3>2, AccountedKept DEF BackwardOK
    <3> QED
      BY <2>2, <3>1, <3>2, <3>3 DEF BackwardOK, Batched
  <2>3. CASE spc # "rest"
    <3>1. spc' \notin Reading
      BY <1>2, <2>3 DEF TimesOut, GoOn, Reading
    <3> QED
      BY <2>1, <2>3, <3>1, BackwardKept DEF Reading
  <2> QED
    BY <2>2, <2>3
<1>3. CASE UpstreamSends \/ UpstreamCloses \/ UpstreamResets
  <2>1. /\ spc' = spc /\ resB' = resB /\ upRead' = upRead /\ msgs' = msgs
        /\ misread' = misread /\ appGot' = appGot
    BY <1>3 DEF UpstreamSends, UpstreamCloses, UpstreamResets, UpstreamEvent, bwdVars
  <2>2. /\ upSent' = upSent \/ (upSent < UpUnits /\ upSent' = upSent + 1)
        /\ upFin' \in BOOLEAN /\ upDead' \in BOOLEAN
    BY <1>3 DEF UpstreamSends, UpstreamCloses, UpstreamResets, BackwardOK
  <2>3. upSent' \in 0 .. UpUnits /\ upRead' \in 0 .. upSent' /\ upSent <= upSent'
    BY <2>1, <2>2, UdpAssumption DEF BackwardOK
  <2>4. Batched'
    BY <2>1 DEF BackwardOK, Batched, InMessage
  <2>5. PICK h \in Nat, g \in Nat :
           /\ Delivered(h) /\ InBatchOf(h, g)
           /\ ~misread /\ resB >= 0 => upRead = 2 * g + (IF InMessage THEN 1 ELSE 0)
    BY Opened
  <2>6. Delivered(h)' /\ InBatchOf(h, g)'
    <3>1. 2 * g <= upSent'
      BY <2>3, <2>5, UdpAssumption DEF InBatchOf, BackwardOK
    <3> QED
      BY <2>1, <2>5, <3>1 DEF Delivered, InBatchOf, Received
  <2>7. Accounted'
    BY <2>1, <2>5, <2>6 DEF Accounted, InMessage
  <2> QED
    BY <2>1, <2>2, <2>3, <2>4, <2>7 DEF BackwardOK
<1> QED
  BY <1>1, <1>2, <1>3, ReadHeadStep, ReadRestStep, BadHeadStep, DeliverStep, ReadGivesUpStep
     DEF UdpNext, TaskStep, Upstream, Finished

(* What has been dealt with is what has arrived up to some whole message.    *)
LEMMA BackwardKeepsOrder == BackwardOK => MessagesInOrder
<1> SUFFICES ASSUME BackwardOK PROVE MessagesInOrder
  OBVIOUS
<1>1. PICK h \in Nat, g \in Nat : Delivered(h) /\ InBatchOf(h, g)
  BY Opened
<1>2. 2 * h <= upSent /\ upSent \in Nat
  BY <1>1, Opened DEF InBatchOf
<1>3. h \in 0 .. upSent \div 2
  BY <1>2, HalfOf
<1> QED
  BY <1>1, <1>3 DEF Delivered, MessagesInOrder

-----------------------------------------------------------------------------
(* With which results the loop goes to sleep, and on what.                   *)
LEMMA HalfOfAny ==
    ASSUME NEW n \in Nat
    PROVE  (n + 1) \div 2 \in Nat
  OBVIOUS

LEMMA LoopSleeps ==
    ASSUME ControlOK, ForwardOK, BackwardOK, SleepOK, TaskStep
    PROVE  SleepOK'
<1>1. /\ resF \in {-1, 0, 1} /\ resB \in {-1, 0, 1} /\ Num \in Nat \ {0}
      /\ msgs \in Seq(Nat) /\ Len(msgs) \in Nat /\ (msgs = <<>> <=> Len(msgs) = 0)
      /\ upRead \in Nat /\ upSent \in Nat /\ upRead <= upSent
  BY Opened DEF ForwardOK
<1> USE DEF SleepOK, Results, NothingMissed
<1>2. CASE Connect \/ Handshake \/ Destruct
  <2>1. spc' \notin {"backward", "turn", "sending", "rest"}
    BY <1>2 DEF Connect, ConnectStep, Handshake, Destruct, WaitIo, GoOn
  <2>2. spc' = "forward" => state' = "running"
    BY <1>2 DEF Connect, ConnectStep, Handshake, Destruct, WaitIo, GoOn
  <2> QED
    BY <2>1, <2>2
<1>3. CASE Forward
  <2>1. state' = "running" /\ msgs' = msgs /\ frames' = frames
    BY <1>3 DEF Forward, GoOn, bwdVars, queueVars
  <2>2. spc' = "backward" => (resF' = 0 => frames' = <<>>)
    BY <1>1, <1>3, <2>1 DEF Forward, GoOn, Least
  <2>3. spc' \in {"backward", "sending"}
    BY <1>3 DEF Forward, GoOn
  <2> QED
    BY <2>1, <2>2, <2>3
<1>4. CASE Send
  <2>1. \/ spc' = "backward" /\ state' = "running" /\ resF' = 1
        \/ spc' = "sendCut" /\ state' = "running"
        \/ spc' = "sending" /\ state' = "running"
        \/ spc' = "sending" /\ upRoom = 0 /\ ~upDead /\ upRoom' = upRoom /\ upDead' = upDead
    BY <1>4 DEF Send, GoOn, WaitIo, upVars
  <2> QED
    BY <2>1
<1>5. CASE SendGivesUp
  <2>1. spc' = "backward" /\ state' = "running" /\ resF' \in {-1, 1}
    BY <1>5 DEF SendGivesUp, GoOn
  <2> QED
    BY <2>1
<1>6. CASE ReadHead
  <2>1. /\ spc = "backward" /\ state' = "running" /\ msgs' = msgs /\ misread' = misread
        /\ frames' = frames /\ resF' = resF /\ upSent' = upSent /\ upFin' = upFin
        /\ upDead' = upDead
    BY <1>6 DEF ReadHead, GoOn, fwdVars, queueVars, upVars
  <2>2. CASE spc' # "turn"
    BY <1>6, <2>1, <2>2 DEF ReadHead, GoOn
  <2>3. CASE spc' = "turn" /\ resB' = 0
    <3>1. /\ msgs = <<>> /\ ~upDead /\ ~upFin /\ upRead' = upRead
          /\ ~(Len(msgs) < Num /\ ~upDead /\ upRead < upSent)
      BY <1>1, <1>6, <2>3 DEF ReadHead, GoOn
    <3>2. upRead = upSent
      BY <1>1, <3>1
    <3> QED
      BY <2>1, <2>3, <3>1, <3>2 DEF Dry
  <2>4. CASE spc' = "turn" /\ resB' # 0
    BY <2>1, <2>4
  <2> QED
    BY <2>2, <2>3, <2>4
<1>7. CASE ReadRest
  <2>1. \/ spc' \in {"recvCut", "recvLost"} /\ state' = "running"
        \/ spc' = "backward" /\ state' = "running" /\ msgs' # <<>>
        \/ /\ spc' = "rest" /\ ~(upRead < upSent) /\ ~upFin /\ ~upDead
           /\ upRead' = upRead /\ upSent' = upSent /\ upFin' = upFin /\ upDead' = upDead
    <3>1. MessageRead \in Nat
      BY <1>1, HalfOfAny DEF MessageRead
    <3>2. Append(msgs, MessageRead) # <<>>
      BY <1>1, <3>1, AppendProperties
    <3> QED
      BY <1>7, <3>2 DEF ReadRest, GoOn, WaitIo, upVars
  <2> QED
    BY <1>1, <2>1
<1>8. CASE Deliver
  <2>1. /\ spc' \in {"deliver", "turn"} /\ state' = "running"
        /\ spc' = "turn" => resB' \in {-1, 1}
    BY <1>8 DEF Deliver, BatchDone, SkipEmpty, HandOver, Refused, GiveUpReading, GoOn
  <2> QED
    BY <2>1
<1>9. CASE ReadGivesUp \/ BadHead
  <2>1. spc' \in {"deliver", "turn"} /\ state' = "running" /\ misread' = TRUE
    BY <1>9 DEF ReadGivesUp, BadHead, GoOn
  <2> QED
    BY <2>1
<1>10. CASE Turn
  <2>1. spc = "turn" /\ UNCHANGED <<fwdVars, bwdVars, queueVars, upVars>>
    BY <1>10 DEF Turn
  <2>2. \/ spc' \in {"forward", "leaving"} /\ state' # "asleep"
        \/ spc' = "forward" /\ ~(resF > 0 \/ resB > 0)
    BY <1>10 DEF Turn, GoOn, WaitIo
  <2>3. CASE spc' \in {"forward", "leaving"} /\ state' # "asleep"
    BY <2>3
  <2>4. CASE spc' = "forward" /\ ~(resF > 0 \/ resB > 0)
    <3>1. ~misread /\ resB >= 0 => Dry /\ (resF >= 0 => frames = <<>>)
      BY <1>1, <2>1, <2>4
    <3> QED
      BY <2>1, <2>4, <3>1 DEF Dry, fwdVars, bwdVars, queueVars, upVars
  <2> QED
    BY <2>2, <2>3, <2>4
<1> QED
  BY <1>2, <1>3, <1>4, <1>5, <1>6, <1>7, <1>8, <1>9, <1>10 DEF TaskStep

LEMMA OthersWake ==
    ASSUME ControlOK, SleepOK, TimesOut \/ AppSends \/ TerminateSession \/ Upstream
    PROVE  SleepOK'
<1> USE DEF SleepOK, Results, NothingMissed
<1>1. CASE TimesOut
  <2>1. spc' \in {"sendCut", "recvCut", "leaving"} /\ state' = "running"
    BY <1>1 DEF TimesOut, GoOn
  <2> QED
    BY <2>1
<1>2. CASE AppSends \/ TerminateSession
  <2>1. state' # "asleep" /\ spc' \notin {"backward", "turn"}
    BY <1>2 DEF AppSends, TerminateSession, Terminated, RecvWakes, Woken, CallbacksMayRun,
       ControlOK, Stretches
  <2> QED
    BY <2>1
<1>3. CASE UpstreamAnswers \/ UpstreamSends \/ UpstreamCloses \/ UpstreamResets
  <2>1. state' # "asleep" /\ spc' \notin {"backward", "turn"}
    BY <1>3 DEF UpstreamAnswers, UpstreamSends, UpstreamCloses, UpstreamResets, UpstreamEvent,
       Woken, ControlOK, Stretches
  <2> QED
    BY <2>1
<1>4. CASE UpstreamTakes
  <2>1. /\ spc' = spc /\ spc' \notin {"backward", "turn"}
        /\ state' = "asleep" => state = "asleep" /\ upRoom # 0
        /\ UNCHANGED <<resF, bwdVars, queueVars, upVars>>
    BY <1>4 DEF UpstreamTakes, Woken, ControlOK, Stretches
  <2> QED
    BY <2>1 DEF bwdVars, queueVars, upVars
<1> QED
  BY <1>1, <1>2, <1>3, <1>4 DEF Upstream

-----------------------------------------------------------------------------
LEMMA UdpInitInv == UdpInit => UdpInv
<1> SUFFICES ASSUME UdpInit PROVE UdpInv
  OBVIOUS
<1> USE DEF UdpInit, TaskInit
<1>1. ControlOK
  BY DEF ControlOK, Stretches, TerminatedNeverSleeps, States
<1>2. ForwardOK
  <2>1. /\ frames \in Seq(Nat) /\ Len(frames) = 0 /\ wire \in Seq(Int) /\ Len(wire) = 0
    OBVIOUS
  <2>2. taken = 0 /\ batch = 0 /\ written = 0 /\ ~InBatch
    BY DEF InBatch
  <2>3. Numbered
    BY <2>1, <2>2 DEF Numbered
  <2>4. WireEndsAtList
    BY <2>1, <2>2 DEF WireEndsAtList
  <2>5. /\ 0 \in 0 .. AppFrames /\ 0 <= PoolSize + 1 /\ 0 \in 0 .. Num
        /\ 0 \in 0 .. 2 * 0 /\ SendRoom \in 0 .. SendRoom
    BY UdpAssumption
  <2> QED
    BY <2>1, <2>2, <2>3, <2>4, <2>5 DEF ForwardOK
<1>3. BackwardOK
  <2>1. /\ appGot \in Seq(Nat) /\ Len(appGot) = 0 /\ DOMAIN appGot = {}
        /\ msgs \in Seq(Nat) /\ Len(msgs) = 0
    OBVIOUS
  <2>2. Batched /\ Accounted
    <3>1. Received = {} /\ WithData(0) = {}
      BY <2>1 DEF Received, WithData
    <3>2. Delivered(0) /\ InBatchOf(0, 0)
      BY <2>1, <3>1 DEF Delivered, InBatchOf
    <3>3. upRead = 2 * 0 + (IF InMessage THEN 1 ELSE 0)
      BY DEF InMessage
    <3> QED
      BY <2>1, <3>2, <3>3 DEF Batched, Accounted, InMessage
  <2>3. 0 \in 0 .. UpUnits /\ 0 \in 0 .. 0 /\ 0 <= Num
    BY UdpAssumption
  <2> QED
    BY <2>1, <2>2, <2>3 DEF BackwardOK
<1>4. SleepOK
  BY DEF SleepOK, Results, NothingMissed
<1> QED
  BY <1>1, <1>2, <1>3, <1>4 DEF UdpInv

LEMMA UdpStepInv == UdpInv /\ [UdpNext]_udpVars => UdpInv'
<1> SUFFICES ASSUME UdpInv, [UdpNext]_udpVars PROVE UdpInv'
  OBVIOUS
<1>1. ControlOK /\ ForwardOK /\ BackwardOK /\ SleepOK /\ Stretches
  BY DEF UdpInv, ControlOK
<1>2. ControlOK' /\ ForwardOK' /\ BackwardOK'
  BY <1>1, ControlInv, ForwardInv, BackwardInv
<1>3. CASE TaskStep
  BY <1>1, <1>2, <1>3, LoopSleeps DEF UdpInv
<1>4. CASE TimesOut \/ AppSends \/ TerminateSession \/ Upstream
  BY <1>1, <1>2, <1>4, OthersWake DEF UdpInv
<1>5. CASE UNCHANGED udpVars
  <2>1. SleepOK'
    BY <1>1, <1>5
       DEF udpVars, taskVars, fwdVars, bwdVars, queueVars, upVars, SleepOK, Results,
           NothingMissed, Dry
  <2> QED
    BY <1>2, <2>1 DEF UdpInv
<1> QED
  BY <1>3, <1>4, <1>5 DEF UdpNext, Finished

(* Type correctness: the queue stays one frame above the pool at most, and   *)
(* the session never reads what has not arrived.                             *)
THEOREM UdpTypesHold == UdpSafety => []UdpTypeOK
<1>1. UdpInv => UdpTypeOK
  BY DEF UdpInv, ControlOK, ForwardOK, BackwardOK, UdpTypeOK
<1> QED
  BY <1>1, UdpInitInv, UdpStepInv, PTL DEF UdpSafety

(* Neither direction loses or reorders anything of its own accord, for every *)
(* number of datagrams, size of a batch and way the socket splits it.        *)
THEOREM UdpStreamsIntact == UdpSafety => []StreamsIntact
<1>1. UdpInv => StreamsIntact
  BY ForwardKeepsFrames, BackwardKeepsOrder DEF UdpInv, StreamsIntact
<1> QED
  BY <1>1, UdpInitInv, UdpStepInv, PTL DEF UdpSafety

(* No wake-up is lost by the checks that precede the sleep, but for the      *)
(* cases that NothingMissed leaves out.                                      *)
THEOREM UdpSleepsOnNothing == UdpSafety => []NothingMissed
<1>1. UdpInv => NothingMissed
  BY DEF UdpInv, SleepOK
<1> QED
  BY <1>1, UdpInitInv, UdpStepInv, PTL DEF UdpSafety

(* A terminated session does not sleep: neither the handshake's setting of   *)
(* the timeout for UDP nor anything else takes the termination back.         *)
THEOREM UdpTerminationIsSeen == UdpSafety => []TerminatedNeverSleeps
<1>1. UdpInv => TerminatedNeverSleeps
  BY DEF UdpInv, ControlOK
<1> QED
  BY <1>1, UdpInitInv, UdpStepInv, PTL DEF UdpSafety

-----------------------------------------------------------------------------
(* The two streams as ByteStream has them.                                   *)

(* What the socket has taken are units that the session has off its hands,   *)
(* each once and in their order, also behind a batch that was cut.           *)
WireRises ==
    /\ \A i \in 1 .. Len(wire) : wire[i] \in 1 .. Frontier
    /\ \A i, j \in 1 .. Len(wire) : i < j => wire[i] < wire[j]

LEMMA FrontierIsBounded == ForwardOK => Frontier \in 0 .. 2 * taken
<1> SUFFICES ASSUME ForwardOK PROVE Frontier \in 0 .. 2 * taken
  OBVIOUS
<1>1. /\ Len(frames) \in Nat /\ taken \in Nat /\ batch \in Nat /\ written \in 0 .. 2 * batch
      /\ Len(frames) <= taken /\ (InBatch => batch <= Len(frames))
  BY LenProperties, UdpAssumption DEF ForwardOK, Numbered
<1> QED
  BY <1>1 DEF Frontier

(* The frontier never moves back, and only a part that is sent moves it      *)
(* together with the wire.                                                   *)
LEMMA FrontierAdvances ==
    ASSUME Stretches, ForwardOK, ForwardOK', [UdpNext]_udpVars,
           wire' = wire
    PROVE  Frontier' >= Frontier
<1>1. /\ Len(frames) \in Nat /\ taken \in Nat /\ batch \in Nat /\ written \in 0 .. 2 * batch
      /\ Len(frames) <= taken /\ (InBatch => batch <= Len(frames))
  BY LenProperties, UdpAssumption DEF ForwardOK, Numbered
<1>2. CASE Forward
  <2>1. /\ taken' = taken /\ frames' = frames /\ ~InBatch
        /\ spc' = "backward" \/ (spc' = "sending" /\ written' = 0)
    BY <1>2 DEF Forward, GoOn, InBatch, queueVars
  <2> QED
    BY <1>1, <2>1 DEF Frontier, InBatch
<1>3. CASE Send
  <2>1. spc = "sending" /\ InBatch /\ taken' = taken /\ batch' = batch
    BY <1>3 DEF Send, InBatch
  <2>2. CASE written = 2 * batch
    <3>1. DropBatch /\ spc' = "backward"
      BY <1>3, <2>2 DEF Send, GoOn
    <3>2. Len(frames') = Len(frames) - batch
      BY <2>1, <3>1, BatchDropped
    <3> QED
      BY <1>1, <2>1, <2>2, <3>1, <3>2 DEF Frontier, InBatch
  <2>3. CASE frames' = frames /\ written' = written /\ spc' \in {"sending", "sendCut"}
    BY <1>1, <2>1, <2>3 DEF Frontier, InBatch
  <2>4. ASSUME NEW n \in 1 .. Least(upRoom, 2 * batch - written),
               wire' = wire \o SubSeq(UnitsOf(frames), written + 1, written + n)
        PROVE  FALSE
    <3>1. n \in Nat /\ n >= 1 /\ Len(wire') = Len(wire) + n
      BY <2>1, <2>4, PartSent
    <3>2. Len(wire) \in Nat
      BY LenProperties DEF ForwardOK
    <3> QED
      BY <3>1, <3>2
  <2> QED
    BY <1>3, <2>2, <2>3, <2>4 DEF Send, GoOn, WaitIo
<1>4. CASE SendGivesUp
  <2>1. /\ spc = "sendCut" /\ InBatch /\ taken' = taken /\ spc' = "backward"
    BY <1>4 DEF SendGivesUp, InBatch, GoOn
  <2>2. CASE written = 0
    <3>1. frames' = frames
      BY <1>4, <2>2 DEF SendGivesUp
    <3> QED
      BY <1>1, <2>1, <2>2, <3>1 DEF Frontier, InBatch
  <2>3. CASE written # 0
    <3>1. DropBatch
      BY <1>4, <2>3 DEF SendGivesUp
    <3>2. Len(frames') = Len(frames) - batch
      BY <2>1, <3>1, BatchDropped
    <3> QED
      BY <1>1, <2>1, <3>2 DEF Frontier, InBatch
  <2> QED
    BY <2>2, <2>3
<1>5. CASE AppSends
  <2>1. /\ taken' = taken + 1 /\ frames' = Append(frames, taken + 1)
        /\ spc' = spc /\ written' = written
    BY <1>5 DEF AppSends, fwdVars
  <2>2. Len(frames') = Len(frames) + 1
    BY <2>1, LenProperties, AppendProperties DEF ForwardOK
  <2> QED
    BY <1>1, <2>1, <2>2 DEF Frontier, InBatch
<1>6. CASE Destruct
  <2>1. taken' = taken /\ frames' = <<>> /\ spc' = "done" /\ spc = "leaving"
    BY <1>6 DEF Destruct
  <2> QED
    BY <1>1, <2>1 DEF Frontier, InBatch
<1>7. CASE \/ Connect \/ Handshake \/ ReadHead \/ ReadRest \/ BadHead \/ Deliver
           \/ ReadGivesUp \/ Turn
           \/ TimesOut \/ TerminateSession \/ Upstream \/ UNCHANGED udpVars
  <2>1. taken' = taken /\ frames' = frames /\ written' = written
    BY <1>7 DEF Connect, Handshake, ReadHead, ReadRest, BadHead, Deliver, BatchDone, SkipEmpty,
       HandOver, Refused, ReadGivesUp, Turn, TimesOut,
       TerminateSession, Upstream, UpstreamSends, UpstreamCloses, UpstreamResets,
       UpstreamAnswers, UpstreamTakes, UpstreamEvent, udpVars, fwdVars, queueVars
  <2>2. InBatch' = InBatch
    <3>1. TimesOut => spc # "sendCut"
      BY DEF TimesOut, Stretches
    <3> QED
      BY <1>7, <3>1 DEF Connect, ConnectStep, Handshake, ReadHead, ReadRest, BadHead, Deliver,
         BatchDone, SkipEmpty, HandOver, Refused, GiveUpReading,
         ReadGivesUp, Turn, TimesOut, TerminateSession, Upstream, UpstreamSends,
         UpstreamCloses, UpstreamResets, UpstreamAnswers, UpstreamTakes, UpstreamEvent,
         udpVars, taskVars, InBatch, WaitIo, GoOn, Terminated
  <2> QED
    BY <1>1, <2>1, <2>2 DEF Frontier
<1> QED
  BY <1>2, <1>3, <1>4, <1>5, <1>6, <1>7 DEF UdpNext, TaskStep, Finished

(* A step that is not a part of a sendmsg leaves the wire alone.             *)
LEMMA OnlySendWrites ==
    ASSUME ForwardOK, [UdpNext]_udpVars, wire' # wire
    PROVE  /\ spc = "sending" /\ spc' = "sending"
           /\ UNCHANGED <<taken, frames, cut, batch>>
           /\ \E n \in 1 .. Least(upRoom, 2 * batch - written) :
                 /\ wire' = wire \o SubSeq(UnitsOf(frames), written + 1, written + n)
                 /\ written' = written + n
<1>1. Send
  BY DEF UdpNext, TaskStep, Finished, Connect, Handshake, Forward, SendGivesUp, ReadHead,
     ReadRest, BadHead, Deliver, BatchDone, SkipEmpty, HandOver, Refused, ReadGivesUp, Turn,
     Destruct, TimesOut, AppSends, TerminateSession,
     Upstream, UpstreamSends, UpstreamCloses, UpstreamResets, UpstreamAnswers, UpstreamTakes,
     udpVars, fwdVars
<1> QED
  BY <1>1 DEF Send, GoOn

LEMMA WireGrows ==
    ASSUME ForwardOK, [UdpNext]_udpVars, wire' # wire
    PROVE  \E n \in Nat :
              /\ n >= 1 /\ Len(wire') = Len(wire) + n /\ Frontier' = Frontier + n
              /\ \A i \in 1 .. Len(wire) : wire'[i] = wire[i]
              /\ \A i \in 1 .. n : wire'[Len(wire) + i] = Frontier + i
<1>1. PICK n \in 1 .. Least(upRoom, 2 * batch - written) :
         /\ wire' = wire \o SubSeq(UnitsOf(frames), written + 1, written + n)
         /\ written' = written + n
  BY OnlySendWrites
<1>2. spc = "sending" /\ spc' = "sending" /\ taken' = taken /\ frames' = frames
  BY OnlySendWrites
<1>3. /\ n \in Nat /\ n >= 1
      /\ Len(wire') = Len(wire) + n
      /\ \A i \in 1 .. Len(wire) : wire'[i] = wire[i]
      /\ \A i \in 1 .. n : wire'[Len(wire) + i] = Frontier + i
  BY <1>1, <1>2, PartSent
<1>4. Frontier' = Frontier + n
  <2>1. Len(frames) \in Nat /\ taken \in Nat /\ written \in Nat
    BY LenProperties, UdpAssumption DEF ForwardOK
  <2>2. /\ Frontier = 2 * (taken - Len(frames)) + written
        /\ Frontier' = 2 * (taken - Len(frames)) + (written + n)
    BY <1>1, <1>2 DEF Frontier, InBatch
  <2> QED
    BY <1>3, <2>1, <2>2
<1> QED
  BY <1>3, <1>4

LEMMA WireRisesStep ==
    ASSUME Stretches, ForwardOK, ForwardOK', WireRises, [UdpNext]_udpVars
    PROVE  WireRises'
<1>1. Frontier \in Nat /\ Frontier' \in Nat /\ Len(wire) \in Nat
  <2>1. taken \in Nat /\ Len(wire) \in Nat
    BY LenProperties, UdpAssumption DEF ForwardOK
  <2>2. taken' \in Nat
    BY UdpAssumption DEF ForwardOK
  <2>3. (Frontier \in 0 .. 2 * taken)'
    BY FrontierIsBounded, PTL
  <2> QED
    BY <2>1, <2>2, <2>3, FrontierIsBounded
<1>2. CASE wire' = wire
  <2>1. Frontier' >= Frontier
    BY <1>2, FrontierAdvances
  <2> QED
    BY <1>1, <1>2, <2>1 DEF WireRises
<1>3. CASE wire' # wire
  <2>1. PICK n \in Nat :
           /\ n >= 1 /\ Len(wire') = Len(wire) + n /\ Frontier' = Frontier + n
           /\ \A i \in 1 .. Len(wire) : wire'[i] = wire[i]
           /\ \A i \in 1 .. n : wire'[Len(wire) + i] = Frontier + i
    BY <1>3, WireGrows
  <2>2. \A i \in 1 .. Len(wire') :
           i <= Len(wire) => wire'[i] = wire[i] /\ wire'[i] \in 1 .. Frontier
    BY <1>1, <2>1 DEF WireRises
  <2>3. ASSUME NEW i \in 1 .. Len(wire'), ~(i <= Len(wire))
        PROVE  wire'[i] = Frontier + (i - Len(wire)) /\ i - Len(wire) \in 1 .. n
    <3>1. i - Len(wire) \in 1 .. n /\ Len(wire) + (i - Len(wire)) = i
      BY <1>1, <2>1, <2>3
    <3> QED
      BY <2>1, <3>1
  <2>4. ASSUME NEW i \in 1 .. Len(wire') PROVE wire'[i] \in 1 .. Frontier'
    BY <1>1, <2>1, <2>2, <2>3
  <2>5. ASSUME NEW i \in 1 .. Len(wire'), NEW j \in 1 .. Len(wire'), i < j
        PROVE  wire'[i] < wire'[j]
    <3>1. CASE j <= Len(wire)
      BY <1>1, <2>1, <2>5, <3>1 DEF WireRises
    <3>2. CASE ~(j <= Len(wire)) /\ i <= Len(wire)
      BY <1>1, <2>1, <2>2, <2>3, <3>2
    <3>3. CASE ~(j <= Len(wire)) /\ ~(i <= Len(wire))
      BY <1>1, <2>1, <2>3, <2>5, <3>3
    <3> QED
      BY <3>1, <3>2, <3>3
  <2> QED
    BY <2>4, <2>5 DEF WireRises
<1> QED
  BY <1>2, <1>3

LEMMA DatagramsStep ==
    ASSUME Stretches, ForwardOK, ForwardOK', WireRises', [UdpNext]_udpVars
    PROVE  [Datagrams!StreamNext]_(Datagrams!streamVars)
<1>1. /\ taken \in Nat /\ cut \in BOOLEAN /\ Len(wire) \in Nat /\ wire \in Seq(Int)
      /\ wire' \in Seq(Int)
  BY LenProperties, UdpAssumption DEF ForwardOK
<1>2. CASE UNCHANGED <<taken, cut, wire>>
  BY <1>2 DEF Datagrams!streamVars
<1>3. CASE wire' # wire
  <2>1. /\ spc = "sending" /\ spc' = "sending" /\ UNCHANGED <<taken, frames, cut, batch>>
    BY <1>3, OnlySendWrites
  <2>2. PICK n \in Nat :
           /\ n >= 1 /\ Len(wire') = Len(wire) + n /\ Frontier' = Frontier + n
           /\ \A i \in 1 .. Len(wire) : wire'[i] = wire[i]
    BY <1>3, WireGrows
  <2>3. PICK m \in Nat : m = Len(wire') /\ m > Len(wire) /\ DOMAIN wire' = 1 .. m
    BY <1>1, <2>2
  <2>4. \A i \in 1 .. m : wire'[i] \in 1 .. 2 * taken
    <3>1. Frontier' <= 2 * taken /\ Frontier' \in Nat
      <4>1. (Frontier \in 0 .. 2 * taken)'
        BY FrontierIsBounded, PTL
      <4> QED
        BY <1>1, <2>1, <4>1
    <3> QED
      BY <1>1, <2>3, <3>1 DEF WireRises
  <2>5. CASE cut
    <3>1. Datagrams!SomeBytes(wire', 2 * taken)
      BY <2>3, <2>4 DEF WireRises, Datagrams!SomeBytes
    <3>2. SubSeq(wire', 1, Len(wire)) = wire
      BY <1>1, <2>2, <2>3, SMTT(30)
    <3>3. Datagrams!DeliverLate
      BY <2>1, <2>3, <2>5, <3>1, <3>2 DEF Datagrams!DeliverLate
    <3> QED
      BY <3>3 DEF Datagrams!StreamNext
  <2>6. CASE ~cut
    <3>1. \A i \in 1 .. m : wire'[i] = i
      BY <2>1, <2>3, <2>6 DEF ForwardOK, WireEndsAtList
    <3>2. wire' = Datagrams!FirstBytes(m)
      BY <1>1, <2>3, <3>1 DEF Datagrams!FirstBytes
    <3>3. m \in 1 .. 2 * taken
      <4>1. m \in 1 .. m
        BY <1>1, <2>3
      <4> QED
        BY <2>4, <3>1, <4>1
    <3>4. Datagrams!Deliver
      BY <2>1, <2>3, <2>6, <3>2, <3>3 DEF Datagrams!Deliver
    <3> QED
      BY <3>4 DEF Datagrams!StreamNext
  <2> QED
    BY <2>5, <2>6
<1>4. CASE AppSends
  <2>1. taken' = taken + 1 /\ wire' = wire /\ cut' = cut
    BY <1>4 DEF AppSends, fwdVars
  <2>2. Datagrams!Send
    BY <1>1, <2>1 DEF Datagrams!Send
  <2> QED
    BY <2>2 DEF Datagrams!StreamNext
<1>5. CASE SendGivesUp
  <2>1. taken' = taken /\ wire' = wire /\ (cut' = cut \/ cut' = TRUE)
    BY <1>5 DEF SendGivesUp
  <2>2. CASE cut' = cut
    BY <1>2, <2>1, <2>2
  <2>3. CASE cut' = TRUE
    <3>1. Datagrams!GiveUp
      BY <2>1, <2>3 DEF Datagrams!GiveUp
    <3> QED
      BY <3>1 DEF Datagrams!StreamNext
  <2> QED
    BY <2>1, <2>2, <2>3
<1>6. CASE \/ Connect \/ Handshake \/ Forward \/ Send
           \/ ReadHead \/ ReadRest \/ BadHead \/ Deliver \/ ReadGivesUp \/ Turn \/ Destruct
           \/ TimesOut \/ TerminateSession \/ Upstream \/ UNCHANGED udpVars
  <2>1. taken' = taken /\ cut' = cut
    BY <1>6 DEF Connect, Handshake, Forward, Send, ReadHead, ReadRest, BadHead,
       Deliver, BatchDone, SkipEmpty, HandOver, Refused, ReadGivesUp,
       Turn, Destruct, TimesOut, TerminateSession, Upstream, UpstreamSends, UpstreamCloses,
       UpstreamResets, UpstreamAnswers, UpstreamTakes, UpstreamEvent, udpVars, fwdVars,
       queueVars
  <2> QED
    BY <1>2, <1>3, <2>1
<1> QED
  BY <1>4, <1>5, <1>6 DEF UdpNext, TaskStep, Finished

(* The direction to the upstream is what ByteStream allows, for every number *)
(* of datagrams, size of a batch, of the queue and of the send buffer: each  *)
(* step of the session is a step of the stream, or none.                     *)
THEOREM UdpCarriesStream == UdpSafety => ImplementsStream
<1>1. UdpInit => WireRises
  <2> SUFFICES ASSUME UdpInit PROVE WireRises
    OBVIOUS
  <2>1. Len(wire) = 0
    BY DEF UdpInit
  <2> QED
    BY <2>1 DEF WireRises
<1>2. UdpInit => Datagrams!StreamInit
  BY DEF UdpInit, Datagrams!StreamInit
<1>3. UdpInv /\ UdpInv' /\ WireRises /\ [UdpNext]_udpVars => WireRises'
  BY WireRisesStep DEF UdpInv, ControlOK
<1>4. UdpInv /\ UdpInv' /\ WireRises' /\ [UdpNext]_udpVars
      => [Datagrams!StreamNext]_(Datagrams!streamVars)
  BY DatagramsStep DEF UdpInv, ControlOK
<1> QED
  BY <1>1, <1>2, <1>3, <1>4, UdpInitInv, UdpStepInv, PTL
     DEF UdpSafety, ImplementsStream, Datagrams!StreamSpec
=============================================================================
