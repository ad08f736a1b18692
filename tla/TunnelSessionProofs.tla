------------------------ MODULE TunnelSessionProofs ------------------------
(***************************************************************************)
(* What holds of a TCP session for any window, buffer and number of bytes. *)
(*                                                                         *)
(* SessionInv is the inductive invariant: the types of the counters, the   *)
(* conservation of the bytes between the application and the upstream, the *)
(* fact that a direction that has been shut down is never taken up again,  *)
(* and what termination does to the timeout.  StreamInv is that of the     *)
(* direction back: the ring buffer gives away only room in which no byte   *)
(* waits or is held for lwIP (RingInStep), the queued segments refer to    *)
(* the held bytes in order, and what the application has, lwIP has queued  *)
(* and the ring holds make up what the upstream has sent, unless a write   *)
(* has failed, and then no FIN follows (StreamInOrder).                    *)
(***************************************************************************)
EXTENDS TunnelSession, SequenceTheorems, TLAPS

(* The types the argument needs. *)
CountersOK ==
    /\ state \in States
    /\ pcb \in BOOLEAN /\ pcbEof \in BOOLEAN /\ shutWr \in BOOLEAN
    /\ queue \in Nat /\ rcvWnd \in Nat /\ upRoom \in Nat
    /\ appSent \in Nat /\ upGot \in Nat
    /\ resF \in {-1, 0, 1}

(* Until the session is destroyed, what the application has sent has been    *)
(* taken by the upstream or is queued.                                       *)
BytesConserved == spc # "done" => upGot + queue = appSent

(* Once shut down, the forward direction is over and complete. *)
ShutIsFinal == shutWr => resF = -1 /\ pcbEof /\ upGot = appSent

(* The task of a destroyed session does not sleep, and so does not time out. *)
DoneIsReady == spc = "done" => state = "ready"

SessionInv ==
    /\ CountersOK
    /\ DoneIsReady
    /\ BytesConserved
    /\ ShutIsFinal
    /\ WindowConserved
    /\ TerminatedNeverSleeps

-----------------------------------------------------------------------------
(* tcp_splice_f by itself: it keeps the counters, conserves the bytes and    *)
(* the window, and shuts the upstream down only when nothing is queued.      *)
LEMMA ForwardConserves ==
    ASSUME CountersOK, spc # "done", BytesConserved, ShutIsFinal, WindowConserved,
           Forward, UNCHANGED <<pcb, pcbEof, appSent>>
    PROVE  /\ queue' \in Nat /\ rcvWnd' \in Nat /\ upRoom' \in Nat /\ upGot' \in Nat
           /\ shutWr' \in BOOLEAN /\ resF' \in {-1, 0, 1}
           /\ upGot' + queue' = appSent'
           /\ ShutIsFinal'
           /\ WindowConserved'
<1>1. CASE UNCHANGED fwdVars
  BY <1>1, SessionAssumption
     DEF fwdVars, CountersOK, BytesConserved, ShutIsFinal, WindowConserved
<1>2. CASE resF >= 0 /\ ShutsWhenDrained
  <2>1. /\ resF' = -1 /\ shutWr' = TRUE
        /\ queue' = queue /\ rcvWnd' = rcvWnd /\ upRoom' = upRoom /\ upGot' = upGot
    BY <1>2 DEF Forward, CountersOK
  <2>2. queue = 0 /\ pcbEof
    BY <1>2 DEF ShutsWhenDrained
  <2>3. upGot = appSent
    BY <2>2 DEF BytesConserved, CountersOK
  <2>4. shutWr' \in BOOLEAN /\ resF' \in {-1, 0, 1}
    BY <2>1
  <2>5. ShutIsFinal'
    BY <2>1, <2>2, <2>3 DEF ShutIsFinal
  <2> QED
    BY <2>1, <2>2, <2>3, <2>4, <2>5 DEF CountersOK, WindowConserved
<1>3. CASE resF >= 0 /\ queue = 0 /\ ~ShutsWhenDrained
  BY <1>3, SessionAssumption
     DEF Forward, CountersOK, BytesConserved, ShutIsFinal, WindowConserved
<1>4. CASE resF >= 0 /\ queue # 0 /\ ~ShutsWhenDrained
  <2>1. PICK n \in WriteResults :
            IF n <= 0
            THEN resF' = n /\ UNCHANGED <<queue, rcvWnd, upRoom, upGot, shutWr>>
            ELSE /\ resF' = 1
                 /\ queue' = queue - n
                 /\ rcvWnd' = WindowOpened(n)
                 /\ upRoom' = upRoom - n
                 /\ upGot' = upGot + n
                 /\ UNCHANGED shutWr
    BY <1>4 DEF Forward, CountersOK
  <2>2. ~shutWr
    BY <1>4 DEF ShutIsFinal, CountersOK
  <2>3. n = -1 \/ n = 0 \/ (n \in 1 .. queue /\ n <= upRoom)
    BY DEF WriteResults
  <2>4. CASE n <= 0
    BY <2>1, <2>2, <2>3, <2>4, SessionAssumption
       DEF CountersOK, BytesConserved, ShutIsFinal, WindowConserved
  <2>5. CASE n > 0
    BY <2>1, <2>2, <2>3, <2>5, SessionAssumption
       DEF CountersOK, BytesConserved, ShutIsFinal, WindowConserved, WindowOpened
  <2> QED
    BY <2>3, <2>4, <2>5 DEF CountersOK
<1> QED
  BY <1>1, <1>2, <1>3, <1>4 DEF Forward, CountersOK
-----------------------------------------------------------------------------
LEMMA SessionInitInv == SessionInit => SessionInv
<1> SUFFICES ASSUME SessionInit PROVE SessionInv
  OBVIOUS
<1>1. CountersOK
  BY SessionAssumption DEF SessionInit, TaskInit, CountersOK, States
<1>2. BytesConserved /\ WindowConserved
  BY SessionAssumption DEF SessionInit, TaskInit, BytesConserved, WindowConserved
<1>3. ShutIsFinal /\ TerminatedNeverSleeps /\ DoneIsReady
  BY DEF SessionInit, TaskInit, ShutIsFinal, TerminatedNeverSleeps, DoneIsReady
<1> QED
  BY <1>1, <1>2, <1>3 DEF SessionInv

(* Everything but the turn of the splice loop, the arrival of a byte and the *)
(* two ways a session ends leaves the forward direction alone.               *)
LEMMA ConnectInv == SessionInv /\ Connect => SessionInv'
  BY DEF SessionInv, Connect, ConnectStep, WaitIo, GoOn, SetTimeout, MayRun, CountersOK, States,
         BytesConserved, ShutIsFinal, WindowConserved, TerminatedNeverSleeps, DoneIsReady,
         fwdVars, bwdVars, envVars, appVars

LEMMA HandshakeInv == SessionInv /\ Handshake => SessionInv'
  BY DEF SessionInv, Handshake, WaitIo, GoOn, MayRun, CountersOK, States,
         BytesConserved, ShutIsFinal, WindowConserved, TerminatedNeverSleeps, DoneIsReady,
         fwdVars, bwdVars, envVars, appVars

LEMMA DrainInv == SessionInv /\ Drain => SessionInv'
  BY DEF SessionInv, Drain, WaitIo, GoOn, MayRun, CountersOK, States,
         BytesConserved, ShutIsFinal, WindowConserved, TerminatedNeverSleeps, DoneIsReady,
         fwdVars, bwdVars, envVars, appVars

LEMMA TimesOutInv == SessionInv /\ TimesOut => SessionInv'
  BY DEF SessionInv, DoneIsReady, TimesOut, GoOn, CountersOK, States,
         BytesConserved, ShutIsFinal, WindowConserved, TerminatedNeverSleeps, DoneIsReady,
         fwdVars, bwdVars, envVars, appVars

LEMMA DestructInv == SessionInv /\ Destruct => SessionInv'
<1> SUFFICES ASSUME SessionInv, Destruct PROVE SessionInv'
  OBVIOUS
<1>1. /\ spc' = "done" /\ state' = "ready" /\ pcb' = FALSE /\ queue' = 0
      /\ resF' = resF /\ rcvWnd' = rcvWnd /\ upRoom' = upRoom /\ upGot' = upGot
      /\ shutWr' = shutWr /\ pcbEof' = pcbEof /\ appSent' = appSent
  BY DEF Destruct, envVars
<1>2. CountersOK'
  BY <1>1 DEF SessionInv, CountersOK, States
<1>3. BytesConserved' /\ WindowConserved' /\ TerminatedNeverSleeps' /\ DoneIsReady'
  BY <1>1 DEF BytesConserved, WindowConserved, TerminatedNeverSleeps, DoneIsReady
<1>4. ShutIsFinal'
  BY <1>1 DEF SessionInv, ShutIsFinal
<1> QED
  BY <1>2, <1>3, <1>4 DEF SessionInv

LEMMA SpliceInv == SessionInv /\ Splice => SessionInv'
<1> SUFFICES ASSUME SessionInv, Splice PROVE SessionInv'
  OBVIOUS
<1>1. UNCHANGED <<pcb, pcbEof, appSent>> /\ spc = "splice" /\ Forward
  BY DEF Splice, envVars
<1>2. /\ queue' \in Nat /\ rcvWnd' \in Nat /\ upRoom' \in Nat /\ upGot' \in Nat
      /\ shutWr' \in BOOLEAN /\ resF' \in {-1, 0, 1}
      /\ upGot' + queue' = appSent'
      /\ ShutIsFinal'
      /\ WindowConserved'
  BY <1>1, ForwardConserves DEF SessionInv
<1>3. /\ state' \in {"ready", "asleep", "running"}
      /\ timeout' = timeout
      /\ timeout = "zero" => state' # "asleep"
      /\ spc' # "done"
  BY <1>1 DEF Splice, WaitIo, GoOn, SessionInv
<1>4. CountersOK'
  BY <1>1, <1>2, <1>3 DEF SessionInv, CountersOK, States
<1>5. BytesConserved' /\ TerminatedNeverSleeps' /\ DoneIsReady'
  BY <1>1, <1>2, <1>3
     DEF SessionInv, BytesConserved, TerminatedNeverSleeps, DoneIsReady
<1> QED
  BY <1>2, <1>4, <1>5 DEF SessionInv

LEMMA CallbackInv == SessionInv /\ Callback => SessionInv'
<1> SUFFICES ASSUME SessionInv, Callback PROVE SessionInv'
  OBVIOUS
<1>1. CASE AppSends
  BY <1>1, SessionAssumption
     DEF AppSends, RecvWakes, Woken, CallbacksMayRun, SessionInv, CountersOK, States,
         BytesConserved, ShutIsFinal, WindowConserved, TerminatedNeverSleeps, DoneIsReady
<1>2. CASE AppCloses
  BY <1>2 DEF AppCloses, RecvWakes, Woken, CallbacksMayRun, SessionInv, CountersOK, States,
         BytesConserved, ShutIsFinal, WindowConserved, TerminatedNeverSleeps, DoneIsReady, fwdVars
<1>3. CASE \E n \in 1 .. MaxSize : AppReceives(n)
  BY <1>3 DEF AppReceives, SentWakes, Woken, SessionInv, CountersOK, States,
         BytesConserved, ShutIsFinal, WindowConserved, TerminatedNeverSleeps, DoneIsReady,
         fwdVars, envVars
<1>4. CASE AppReceivesFin
  BY <1>4 DEF AppReceivesFin, SessionInv, CountersOK, States, BytesConserved, ShutIsFinal,
         WindowConserved, TerminatedNeverSleeps, DoneIsReady, taskVars, fwdVars, envVars
<1>5. CASE PcbLost
  BY <1>5 DEF PcbLost, Terminated, SetTimeout, Woken, SessionInv, CountersOK, States,
         BytesConserved, ShutIsFinal, WindowConserved, TerminatedNeverSleeps, DoneIsReady,
         fwdVars, envVars
<1>6. CASE TerminateSession
  BY <1>6 DEF TerminateSession, Terminated, SetTimeout, Woken, SessionInv, CountersOK, States,
         BytesConserved, ShutIsFinal, WindowConserved, TerminatedNeverSleeps, DoneIsReady,
         fwdVars, envVars
<1> QED
  BY <1>1, <1>2, <1>3, <1>4, <1>5, <1>6 DEF Callback

LEMMA UpstreamInv == SessionInv /\ Upstream => SessionInv'
<1> SUFFICES ASSUME SessionInv, Upstream PROVE SessionInv'
  OBVIOUS
<1>1. CASE UpstreamTakes
  BY <1>1 DEF UpstreamTakes, Woken, SessionInv, CountersOK, States, BytesConserved,
         ShutIsFinal, WindowConserved, TerminatedNeverSleeps, DoneIsReady, envVars
<1>2. CASE UpstreamAnswers \/ UpstreamSends \/ UpstreamCloses \/ UpstreamResets
  BY <1>2 DEF UpstreamAnswers, UpstreamSends, UpstreamCloses, UpstreamResets,
         UpstreamEvent, Woken, SessionInv, CountersOK, States, BytesConserved,
         ShutIsFinal, WindowConserved, TerminatedNeverSleeps, DoneIsReady, fwdVars, envVars
<1> QED
  BY <1>1, <1>2 DEF Upstream

LEMMA SessionStepInv == SessionInv /\ [SessionNext]_sessionVars => SessionInv'
<1> SUFFICES ASSUME SessionInv, [SessionNext]_sessionVars PROVE SessionInv'
  OBVIOUS
<1>1. CASE TaskStep
  BY <1>1, ConnectInv, HandshakeInv, SpliceInv, DrainInv, DestructInv DEF TaskStep
<1>2. CASE UNCHANGED sessionVars
  BY <1>2 DEF sessionVars, taskVars, fwdVars, envVars, SessionInv, CountersOK, States,
         BytesConserved, ShutIsFinal, WindowConserved, TerminatedNeverSleeps, DoneIsReady
<1> QED
  BY <1>1, <1>2, TimesOutInv, CallbackInv, UpstreamInv DEF SessionNext, Finished

-----------------------------------------------------------------------------
(* The conservation of the window, for every size of it: what tcp_recved     *)
(* gives back is exactly what lwIP had taken from it.                        *)
THEOREM WindowIsConserved == SessionSafety => []WindowConserved
<1>1. SessionInv => WindowConserved
  BY DEF SessionInv
<1> QED
  BY <1>1, SessionInitInv, SessionStepInv, PTL DEF SessionSafety

(* The upstream's end of stream follows the application's, and all of its    *)
(* bytes, however they were split into writes.                               *)
THEOREM HalfCloseIsOrdered == SessionSafety => []HalfCloseInOrder
<1>1. SessionInv => HalfCloseInOrder
  BY DEF SessionInv, ShutIsFinal, HalfCloseInOrder
<1> QED
  BY <1>1, SessionInitInv, SessionStepInv, PTL DEF SessionSafety

(* A terminated session does not sleep: it reaches the end of its task at    *)
(* the next operation that would block.                                      *)
THEOREM TerminationIsSeen == SessionSafety => []TerminatedNeverSleeps
<1>1. SessionInv => TerminatedNeverSleeps
  BY DEF SessionInv
<1> QED
  BY <1>1, SessionInitInv, SessionStepInv, PTL DEF SessionSafety

(* No later set_timeout, of connect or of the handshake, takes a termination *)
(* back.                                                                     *)
THEOREM TerminationStays == SessionSafety => TerminationIsFinal
<1>1. [SessionNext]_sessionVars => [timeout = "zero" => timeout' = "zero"]_sessionVars
  BY DEF SessionNext, TaskStep, Connect, ConnectStep, Handshake, Splice, Drain, Destruct, TimesOut,
         Callback, AppSends, AppCloses, AppReceives, AppReceivesFin, PcbLost,
         TerminateSession, Terminated, Upstream, UpstreamAnswers, UpstreamSends,
         UpstreamCloses, UpstreamResets, UpstreamTakes, UpstreamEvent, Finished,
         WaitIo, GoOn, SetTimeout, taskVars, sessionVars
<1> QED
  BY <1>1, PTL DEF SessionSafety, TerminationIsFinal

-----------------------------------------------------------------------------
(* The ring buffer.  Offsets wrap once at most, since no more than MaxSize   *)
(* bytes are ever written or read from an offset on.                         *)
Wrap(a) == IF a < MaxSize THEN a ELSE a - MaxSize

LEMMA WrapIsModulo ==
    ASSUME NEW a \in Nat, a < 2 * MaxSize
    PROVE  a % MaxSize = Wrap(a) /\ Wrap(a) \in Offsets
<1> DEFINE M == MaxSize
<1>1. M \in Nat /\ M > 0
  BY MaxSizeAssumption
<1>2. Wrap(a) \in 0 .. M - 1
  BY <1>1 DEF Wrap
<1>3. a % M = Wrap(a)
  <2>1. CASE a < M
    BY <1>1, <2>1 DEF Wrap
  <2>2. CASE a >= M
    BY <1>1, <2>2 DEF Wrap
  <2> QED
    BY <1>1, <2>1, <2>2
<1> QED
  BY <1>2, <1>3 DEF Offsets

LEMMA WrapIsInjective ==
    ASSUME NEW a \in Nat, NEW b \in Nat, a < 2 * MaxSize, b < 2 * MaxSize,
           a < b, b - a < MaxSize
    PROVE  Wrap(a) # Wrap(b)
  BY MaxSizeAssumption DEF Wrap

(* The iovecs of the ring are empty only when there is nothing to span.      *)
LEMMA PiecesSpan ==
    ASSUME NEW from \in Offsets, NEW size \in 0 .. MaxSize
    PROVE  /\ Pieces(from, size) = <<>> <=> size = 0
           /\ SizeOf(Pieces(from, size)) = size
           /\ DOMAIN Pieces(from, size) \subseteq {1, 2}
           /\ \A j \in 1 .. size : OffsetOf(Pieces(from, size), j) = Wrap(from + j - 1)
<1> DEFINE upper == MaxSize - from
<1>1. MaxSize \in Nat /\ from \in Nat /\ from < MaxSize /\ upper \in Nat /\ size \in Nat
  BY MaxSizeAssumption DEF Offsets
<1>2. CASE size = 0
  BY <1>2 DEF Pieces, SizeOf
<1>3. CASE size # 0 /\ size <= upper
  <2>1. Pieces(from, size) = << [base |-> from, len |-> size] >>
    BY <1>1, <1>3 DEF Pieces
  <2> QED
    BY <1>1, <1>3, <2>1 DEF SizeOf, OffsetOf, Wrap
<1>4. CASE size # 0 /\ size > upper
  <2>1. Pieces(from, size) =
          << [base |-> from, len |-> upper], [base |-> 0, len |-> size - upper] >>
    BY <1>1, <1>4 DEF Pieces
  <2> QED
    BY <1>1, <1>4, <2>1 DEF SizeOf, OffsetOf, Wrap
<1> QED
  BY <1>1, <1>2, <1>3, <1>4

(* What readv stores, byte by byte, and where.                               *)
LEMMA FilledStores ==
    ASSUME upRead \in Nat, data \in [Offsets -> Nat],
           NEW w \in Offsets, NEW size \in 0 .. MaxSize,
           Writing(ring) = Pieces(w, size),
           NEW n \in 1 .. size
    PROVE  /\ \A j \in 1 .. n : Filled(n)[Wrap(w + j - 1)] = upRead + j
           /\ \A p \in Offsets :
                (\A j \in 1 .. n : p # Wrap(w + j - 1)) => Filled(n)[p] = data[p]
           /\ Filled(n) \in [Offsets -> Nat]
           /\ \A p \in Offsets :
                Filled(n)[p] = data[p] \/ Filled(n)[p] \in upRead + 1 .. upRead + n
<1> DEFINE iov == Writing(ring)
           At(p) == {j \in 1 .. n : OffsetOf(iov, j) = p}
           F == Filled(n)
<1>1. F = [p \in Offsets |->
              IF At(p) = {} THEN data[p] ELSE upRead + CHOOSE j \in At(p) : TRUE]
  BY DEF Filled
<1>2. MaxSize \in Nat /\ w \in Nat /\ w < MaxSize /\ n \in Nat /\ n <= MaxSize
  BY MaxSizeAssumption DEF Offsets
<1>3. \A j \in 1 .. n : OffsetOf(iov, j) = Wrap(w + j - 1)
  BY <1>2, PiecesSpan
<1>4. \A j \in 1 .. n : Wrap(w + j - 1) \in Offsets
  BY <1>2, MaxSizeAssumption DEF Wrap, Offsets
<1>5. ASSUME NEW j \in 1 .. n PROVE At(Wrap(w + j - 1)) = {j}
  <2>1. \A k \in 1 .. n : k # j => Wrap(w + k - 1) # Wrap(w + j - 1)
    BY <1>2 DEF Wrap
  <2> QED
    BY <1>3, <2>1
<1>6. ASSUME NEW p \in Offsets
      PROVE  /\ (\A j \in 1 .. n : p # Wrap(w + j - 1)) => F[p] = data[p]
             /\ F[p] = data[p] \/ F[p] \in upRead + 1 .. upRead + n
  <2>1. CASE At(p) = {}
    BY <1>1, <2>1
  <2>2. CASE At(p) # {}
    <3>1. PICK k : k = CHOOSE j \in At(p) : TRUE
      OBVIOUS
    <3>2. k \in At(p)
      BY <2>2, <3>1
    <3>3. F[p] = upRead + k /\ k \in 1 .. n /\ p = Wrap(w + k - 1)
      BY <1>1, <1>3, <2>2, <3>1, <3>2
    <3>4. F[p] \in upRead + 1 .. upRead + n
      BY <1>2, <3>3
    <3> QED
      BY <3>3, <3>4
  <2> QED
    BY <2>1, <2>2
<1>7. ASSUME NEW j \in 1 .. n PROVE F[Wrap(w + j - 1)] = upRead + j
  <2>1. (CHOOSE k \in {j} : TRUE) = j
    OBVIOUS
  <2>2. F[Wrap(w + j - 1)] = upRead + CHOOSE k \in {j} : TRUE
    BY <1>1, <1>4, <1>5
  <2> QED
    BY <2>1, <2>2
<1>8. F \in [Offsets -> Nat]
  <2>1. \A p \in Offsets : F[p] \in Nat
    BY <1>2, <1>6
  <2>2. F = [p \in Offsets |-> F[p]]
    BY <1>1
  <2> QED
    BY <2>1, <2>2
<1> QED
  BY <1>6, <1>7, <1>8

(* A reference into the ring, and a run of them from an offset on.           *)
Ref(bytes, p) == [pos |-> p, byte |-> bytes[p]]
Run(bytes, base, len) == [j \in 1 .. len |-> Ref(bytes, base + j - 1)]
SomeRefs == [pos : Offsets, byte : Nat]

LEMMA RunRefers ==
    ASSUME NEW bytes \in [Offsets -> Nat], NEW base \in Nat, NEW len \in Nat,
           base + len <= MaxSize
    PROVE  /\ Run(bytes, base, len) \in Seq(SomeRefs)
           /\ Len(Run(bytes, base, len)) = len
           /\ \A j \in 1 .. len : Run(bytes, base, len)[j] = Ref(bytes, base + j - 1)
<1>1. \A j \in 1 .. len : base + j - 1 \in Offsets
  BY MaxSizeAssumption DEF Offsets
<1>2. \A j \in 1 .. len : Ref(bytes, base + j - 1) \in SomeRefs
  BY <1>1 DEF Ref, SomeRefs
<1>3. Run(bytes, base, len) \in Seq(SomeRefs)
  BY <1>2 DEF Run
<1> QED
  BY <1>3 DEF Run

(* A sequence of references that goes around the ring from an offset on.     *)
RefersFrom(s, bytes, from) ==
    \A j \in 1 .. Len(s) : s[j] = Ref(bytes, Wrap(from + j - 1))

(* One that refers to a stretch of the size bytes from an offset on, the     *)
(* first skip of them left out.                                              *)
Stretch(s, bytes, from, skip) ==
    \A j \in 1 .. Len(s) : s[j] = Ref(bytes, Wrap(from + skip + j - 1))

RefersWithin(s, bytes, from, size) ==
    \E skip \in 0 .. size : skip + Len(s) <= size /\ Stretch(s, bytes, from, skip)

(* What tcp_write queues are references to a stretch of the bytes it was     *)
(* given, since there are two pieces at most, and to all of them when it has *)
(* refused none.                                                             *)
LEMMA QueuedRefers ==
    ASSUME NEW bytes \in [Offsets -> Nat], NEW from \in Offsets,
           NEW size \in 1 .. MaxSize,
           NEW failed \in SUBSET (DOMAIN Pieces(from, size)),
           NEW q, q = Queued(bytes, Pieces(from, size), failed)
    PROVE  /\ q \in Seq(SomeRefs)
           /\ Len(q) <= size
           /\ RefersWithin(q, bytes, from, size)
           /\ failed = {} => Len(q) = size /\ RefersFrom(q, bytes, from)
<1>1. PICK upper \in Nat : upper = MaxSize - from
  BY MaxSizeAssumption DEF Offsets
<1>2. MaxSize \in Nat /\ from \in Nat /\ from < MaxSize /\ size \in Nat
  BY MaxSizeAssumption DEF Offsets
<1>3. PICK iov : iov = Pieces(from, size)
  OBVIOUS
<1>4. q = (IF 1 \notin DOMAIN iov \ failed THEN <<>>
           ELSE Run(bytes, iov[1].base, iov[1].len))
          \o (IF 2 \notin DOMAIN iov \ failed THEN <<>>
              ELSE Run(bytes, iov[2].base, iov[2].len))
  BY <1>3 DEF Queued, Run, Ref
<1>5. <<>> \in Seq(SomeRefs) /\ Len(<<>>) = 0
  OBVIOUS
<1>6. CASE size <= upper
  <2>1. iov = << [base |-> from, len |-> size] >>
    BY <1>1, <1>2, <1>3, <1>6 DEF Pieces
  <2>2. DOMAIN iov = {1} /\ iov[1].len = size /\ iov[1].base = from
    BY <2>1
  <2>3. PICK a : a = IF 1 \in failed THEN <<>> ELSE Run(bytes, from, size)
    OBVIOUS
  <2>4. q = a \o <<>> /\ (a \in Seq(SomeRefs) => q = a)
    BY <1>4, <2>2, <2>3
  <2>5. /\ a \in Seq(SomeRefs) /\ Len(a) = IF 1 \in failed THEN 0 ELSE size
        /\ RefersFrom(a, bytes, from)
    <3>1. CASE 1 \in failed
      BY <1>5, <2>3, <3>1 DEF RefersFrom
    <3>2. CASE 1 \notin failed
      <4>0. from + size <= MaxSize
        BY <1>1, <1>2, <1>6
      <4>1. a = Run(bytes, from, size)
        BY <2>3, <3>2
      <4>2. /\ a \in Seq(SomeRefs) /\ Len(a) = size
            /\ \A j \in 1 .. size : a[j] = Ref(bytes, from + j - 1)
        BY <1>2, <4>0, <4>1, RunRefers
      <4>3. \A j \in 1 .. size : Wrap(from + j - 1) = from + j - 1
        BY <1>1, <1>2, <1>6 DEF Wrap
      <4> QED
        BY <3>2, <4>2, <4>3 DEF RefersFrom
    <3> QED
      BY <3>1, <3>2
  <2>6. Len(a) \in {0, size} /\ (failed = {} => Len(a) = size)
    BY <2>5
  <2>7. RefersWithin(a, bytes, from, size)
    <3>1. 0 \in 0 .. size /\ 0 + Len(a) <= size /\ \A j \in Nat : from + 0 + j - 1 = from + j - 1
      BY <1>2, <2>6
    <3>2. Stretch(a, bytes, from, 0)
      BY <2>5, <3>1 DEF RefersFrom, Stretch
    <3> QED
      BY <3>1, <3>2 DEF RefersWithin
  <2> QED
    BY <2>4, <2>5, <2>6, <2>7
<1>7. CASE size > upper
  <2>0. PICK rest \in Nat : rest = size - upper
    BY <1>1, <1>2, <1>7
  <2>1. iov = << [base |-> from, len |-> upper], [base |-> 0, len |-> rest] >>
    BY <1>1, <1>2, <1>3, <1>7, <2>0 DEF Pieces
  <2>2. /\ DOMAIN iov = {1, 2} /\ iov[1].len = upper /\ iov[1].base = from
        /\ iov[2].len = rest /\ iov[2].base = 0
    BY <2>1
  <2>3. PICK a : a = IF 1 \in failed THEN <<>> ELSE Run(bytes, from, upper)
    OBVIOUS
  <2>4. PICK b : b = IF 2 \in failed THEN <<>> ELSE Run(bytes, 0, rest)
    OBVIOUS
  <2>5. q = a \o b
    BY <1>4, <2>2, <2>3, <2>4
  <2>6. /\ a \in Seq(SomeRefs) /\ Len(a) = IF 1 \in failed THEN 0 ELSE upper
        /\ RefersFrom(a, bytes, from)
    <3>1. CASE 1 \in failed
      BY <1>5, <2>3, <3>1 DEF RefersFrom
    <3>2. CASE 1 \notin failed
      <4>0. from + upper <= MaxSize
        BY <1>1, <1>2
      <4>1. a = Run(bytes, from, upper)
        BY <2>3, <3>2
      <4>2. /\ a \in Seq(SomeRefs) /\ Len(a) = upper
            /\ \A j \in 1 .. upper : a[j] = Ref(bytes, from + j - 1)
        BY <1>1, <1>2, <4>0, <4>1, RunRefers, ZenonT(30)
      <4>3. \A j \in 1 .. upper : Wrap(from + j - 1) = from + j - 1
        BY <1>1, <1>2 DEF Wrap
      <4> QED
        BY <3>2, <4>2, <4>3 DEF RefersFrom
    <3> QED
      BY <3>1, <3>2
  <2>7. /\ b \in Seq(SomeRefs) /\ Len(b) = IF 2 \in failed THEN 0 ELSE rest
        /\ RefersFrom(b, bytes, from + upper)
    <3>1. CASE 2 \in failed
      BY <1>5, <2>4, <3>1 DEF RefersFrom
    <3>2. CASE 2 \notin failed
      <4>1. b = Run(bytes, 0, rest)
        BY <2>4, <3>2
      <4>2. 0 + rest <= MaxSize
        BY <1>1, <1>2, <2>0
      <4>3. /\ b \in Seq(SomeRefs) /\ Len(b) = rest
            /\ \A j \in 1 .. rest : b[j] = Ref(bytes, 0 + j - 1)
        BY <2>0, <4>1, <4>2, RunRefers
      <4>4. \A j \in 1 .. rest : Wrap(from + upper + j - 1) = 0 + j - 1
        BY <1>1, <1>2, <2>0 DEF Wrap
      <4> QED
        BY <3>2, <4>3, <4>4 DEF RefersFrom
    <3> QED
      BY <3>1, <3>2
  <2>8. Len(a) \in {0, upper} /\ Len(b) \in {0, rest}
        /\ (failed = {} => Len(a) = upper /\ Len(b) = rest)
    BY <2>6, <2>7
  <2>9. upper + rest = size
    BY <1>1, <1>2, <2>0
  <2>10. /\ a \o b \in Seq(SomeRefs)
         /\ Len(a \o b) <= upper + rest
         /\ RefersWithin(a \o b, bytes, from, upper + rest)
         /\ Len(a) = upper /\ Len(b) = rest =>
               Len(a \o b) = upper + rest /\ RefersFrom(a \o b, bytes, from)
    <3>1. /\ a \o b \in Seq(SomeRefs) /\ Len(a \o b) = Len(a) + Len(b)
          /\ Len(a) \in Nat /\ Len(b) \in Nat
          /\ \A i \in 1 .. Len(a) + Len(b) :
                (a \o b)[i] = IF i <= Len(a) THEN a[i] ELSE b[i - Len(a)]
      BY <2>6, <2>7, ConcatProperties, LenProperties
    <3>2. PICK skip \in Nat : skip = upper - Len(a)
      <4>1. Len(a) = 0 \/ Len(a) = upper
        BY <2>8
      <4>2. upper - Len(a) \in Nat
        BY <1>1, <4>1
      <4> QED
        BY <4>2
    <3>3. ASSUME NEW i \in 1 .. Len(a) + Len(b)
          PROVE  (a \o b)[i] = Ref(bytes, Wrap(from + skip + i - 1))
      <4>1. CASE i <= Len(a)
        <5>1. (a \o b)[i] = Ref(bytes, Wrap(from + i - 1))
          BY <2>6, <3>1, <4>1 DEF RefersFrom
        <5>2. Len(a) # 0 /\ i \in Nat
          BY <3>1, <4>1
        <5>3. skip = 0
          BY <1>1, <2>8, <3>2, <5>2
        <5>4. from + skip + i - 1 = from + i - 1
          BY <1>2, <5>2, <5>3
        <5> QED
          BY <5>1, <5>4
      <4>2. CASE i > Len(a)
        <5>1. PICK x \in 1 .. Len(b) : x = i - Len(a)
          <6>1. i - Len(a) \in 1 .. Len(b)
            BY <3>1, <4>2
          <6> QED
            BY <6>1, Zenon
        <5>2. (a \o b)[i] = Ref(bytes, Wrap(from + upper + x - 1))
          BY <2>7, <3>1, <4>2, <5>1 DEF RefersFrom
        <5>3. from + upper + x - 1 = from + skip + i - 1
          <6>1. upper + x = skip + i /\ x \in Int /\ i \in Int
            BY <1>1, <3>1, <3>2, <5>1
          <6> QED
            BY <1>1, <1>2, <3>2, <6>1
        <5> QED
          BY <5>2, <5>3
      <4>3. i <= Len(a) \/ i > Len(a)
        BY <3>1
      <4> QED
        BY <4>1, <4>2, <4>3
    <3>6. ASSUME Len(a) = upper, Len(b) = rest
          PROVE  Len(a \o b) = upper + rest /\ RefersFrom(a \o b, bytes, from)
      <4>1. skip = 0 /\ \A j \in Nat : from + skip + j - 1 = from + j - 1
        BY <1>1, <1>2, <3>2, <3>6
      <4> QED
        BY <3>1, <3>3, <3>6, <4>1 DEF RefersFrom
    <3>4. Len(a \o b) <= upper + rest
      <4>1. (Len(a) = 0 \/ Len(a) = upper) /\ (Len(b) = 0 \/ Len(b) = rest)
        BY <2>8
      <4>2. upper \in Nat /\ rest \in Nat
        BY <1>1, <2>0
      <4>3. Len(a \o b) = Len(a) + Len(b) /\ Len(a) \in Nat /\ Len(b) \in Nat
        BY <3>1
      <4> QED
        BY <4>1, <4>2, <4>3
    <3>5. RefersWithin(a \o b, bytes, from, upper + rest)
      <4>1. Stretch(a \o b, bytes, from, skip)
        BY <3>1, <3>3 DEF Stretch
      <4>2. skip \in 0 .. upper + rest /\ skip + Len(a \o b) <= upper + rest
        <5>1. Len(b) <= rest
          BY <2>0, <2>8
        <5>2. skip <= upper /\ skip + (Len(a) + Len(b)) = upper + Len(b)
          BY <1>1, <3>1, <3>2
        <5>3. upper \in Nat /\ rest \in Nat /\ skip \in Nat
          BY <1>1, <2>0, <3>2
        <5> QED
          BY <3>1, <5>1, <5>2, <5>3
      <4> QED
        BY <4>1, <4>2 DEF RefersWithin
    <3> QED
      BY <3>1, <3>4, <3>5, <3>6
  <2> QED
    BY <2>5, <2>8, <2>9, <2>10
<1>8. size <= upper \/ size > upper
  BY <1>1, <1>2
<1> QED
  BY <1>6, <1>7, <1>8, Zenon

-----------------------------------------------------------------------------
(* The stream towards the application.  While the direction is open, the     *)
(* bytes that lwIP holds are those of the ring from the oldest that is not   *)
(* released to the newest, without a hole (RingInStep), so that readv, which *)
(* stores behind the newest, spares them.  They continue what the            *)
(* application has received and reach up to what has been read (Complete);   *)
(* an error of tcp_write ends that, and the direction with it.               *)
Held == [pos : Offsets, byte : 1 .. UpBytes]

BackTypes ==
    /\ resB \in {-1, 0, 1}
    /\ finOut \in BOOLEAN /\ appEof \in BOOLEAN
    /\ upFin \in BOOLEAN /\ upDead \in BOOLEAN
    /\ upSent \in 0 .. UpBytes /\ upRead \in 0 .. upSent
    /\ ring \in Rings /\ data \in [Offsets -> 0 .. UpBytes]
    /\ segs \in Seq(Held)
    /\ appGot \in Seq(1 .. UpBytes)
    /\ Len(segs) + ring.rda <= ring.use

LostPcbForgets == ~pcb => segs = <<>>

HeldAround(s, w, u) ==
    Len(s) = u /\ \A i \in 1 .. u : s[i].pos = Wrap(w + MaxSize - u + i - 1)

RingInStep ==
    resB >= 0 => /\ ring.rda = 0 /\ ring.rp = ring.wp
                 /\ pcb => HeldAround(segs, ring.wp, ring.use)

Complete ==
    /\ Len(appGot) + Len(segs) = upRead
    /\ \A i \in 1 .. Len(appGot) : appGot[i] = i
    /\ \A i \in 1 .. Len(segs) : segs[i].byte = Len(appGot) + i

StreamInOrder ==
    /\ pcb /\ (resB >= 0 \/ finOut) => Complete
    /\ finOut => resB = -1 /\ (upDead \/ (upFin /\ upRead = upSent))
    /\ appEof => finOut /\ segs = <<>> /\ Complete

StreamInv ==
    /\ BackTypes
    /\ LostPcbForgets
    /\ RingInStep
    /\ SentBytesIntact
    /\ StreamInOrder

LEMMA StreamInit == SessionInit => StreamInv
<1> SUFFICES ASSUME SessionInit PROVE StreamInv
  OBVIOUS
<1>1. 0 \in Offsets /\ MaxSize \in Nat /\ UpBytes \in Nat
  BY MaxSizeAssumption, SessionAssumption DEF Offsets
<1>2. BackTypes
  BY <1>1 DEF SessionInit, BackTypes, EmptyRing, Rings
<1>3. LostPcbForgets /\ SentBytesIntact
  BY DEF SessionInit, LostPcbForgets, SentBytesIntact
<1>4. RingInStep
  BY DEF SessionInit, RingInStep, EmptyRing, HeldAround
<1>5. StreamInOrder
  BY DEF SessionInit, StreamInOrder, Complete
<1> QED
  BY <1>2, <1>3, <1>4, <1>5 DEF StreamInv

LEMMA StreamFrame ==
    ASSUME StreamInv, UNCHANGED <<bwdVars, pcb, upSent, upFin, upDead, appVars>>
    PROVE  StreamInv'
  BY DEF StreamInv, BackTypes, LostPcbForgets, RingInStep, SentBytesIntact, StreamInOrder,
         Complete, bwdVars, appVars

(* What comes from the upstream is not read yet. *)
LEMMA StreamUpstream ==
    ASSUME StreamInv, Upstream
    PROVE  StreamInv'
<1>1. CASE UpstreamAnswers \/ UpstreamTakes
  BY <1>1, StreamFrame DEF UpstreamAnswers, UpstreamTakes, envVars
<1>2. CASE UpstreamSends \/ UpstreamCloses \/ UpstreamResets
  <2>1. UNCHANGED <<bwdVars, pcb, appVars>>
    BY <1>2 DEF UpstreamSends, UpstreamCloses, UpstreamResets
  <2>2. /\ upSent' \in 0 .. UpBytes /\ upSent' >= upSent
        /\ upFin' \in BOOLEAN /\ upDead' \in BOOLEAN
        /\ (upFin => upFin' /\ upSent' = upSent) /\ (upDead => upDead')
    <3>1. /\ upSent \in 0 .. UpBytes /\ UpBytes \in Nat
          /\ upFin \in BOOLEAN /\ upDead \in BOOLEAN
      BY SessionAssumption DEF StreamInv, BackTypes
    <3>2. CASE UpstreamSends
      <4>1. /\ ~upFin /\ upSent < UpBytes /\ upSent' = upSent + 1
            /\ upFin' = upFin /\ upDead' = upDead
        BY <3>2 DEF UpstreamSends
      <4> QED
        BY <3>1, <4>1
    <3>3. CASE UpstreamCloses
      <4>1. upFin' = TRUE /\ ~upFin /\ upSent' = upSent /\ upDead' = upDead
        BY <3>3 DEF UpstreamCloses
      <4> QED
        BY <3>1, <4>1
    <3>4. CASE UpstreamResets
      <4>1. upDead' = TRUE /\ upSent' = upSent /\ upFin' = upFin
        BY <3>4 DEF UpstreamResets
      <4> QED
        BY <3>1, <4>1
    <3> QED
      BY <1>2, <3>2, <3>3, <3>4
  <2>3. BackTypes'
    BY <2>1, <2>2, SessionAssumption DEF StreamInv, BackTypes, bwdVars, appVars
  <2>4. LostPcbForgets' /\ RingInStep' /\ SentBytesIntact'
    BY <2>1 DEF StreamInv, LostPcbForgets, RingInStep, SentBytesIntact, bwdVars
  <2>5. Complete' = Complete
    BY <2>1 DEF Complete, bwdVars, appVars
  <2>6. StreamInOrder'
    BY <2>1, <2>2, <2>5 DEF StreamInv, StreamInOrder, bwdVars, appVars
  <2> QED
    BY <2>3, <2>4, <2>6 DEF StreamInv
<1> QED
  BY <1>1, <1>2 DEF Upstream

(* A direction that has lost its pcb holds nothing. *)
LEMMA StreamPcbLost ==
    ASSUME StreamInv, PcbLost
    PROVE  StreamInv'
<1>1. /\ pcb' = FALSE /\ segs' = <<>>
      /\ UNCHANGED <<resB, upRead, ring, data, finOut, upSent, upFin, upDead, appVars>>
  BY DEF PcbLost, envVars, appVars
<1>2. BackTypes'
  <2>1. segs' \in Seq(Held) /\ Len(segs') = 0 /\ Len(segs) \in Nat
    BY <1>1 DEF StreamInv, BackTypes
  <2>2. ring.rda \in Nat /\ ring.use \in Nat
    BY MaxSizeAssumption DEF StreamInv, BackTypes, Rings
  <2>3. Len(segs') + ring.rda <= ring.use
    BY <2>1, <2>2 DEF StreamInv, BackTypes
  <2> QED
    BY <1>1, <2>1, <2>3 DEF StreamInv, BackTypes, appVars
<1>3. LostPcbForgets' /\ RingInStep' /\ SentBytesIntact'
  BY <1>1 DEF StreamInv, LostPcbForgets, RingInStep, SentBytesIntact
<1>4. appEof => Complete'
  BY <1>1 DEF StreamInv, StreamInOrder, Complete, appVars
<1>5. StreamInOrder'
  BY <1>1, <1>4 DEF StreamInv, StreamInOrder, appVars
<1> QED
  BY <1>2, <1>3, <1>5 DEF StreamInv

LEMMA StreamDestruct ==
    ASSUME StreamInv, Destruct
    PROVE  StreamInv'
<1>1. /\ pcb' = FALSE /\ segs' = <<>> /\ ring' = EmptyRing
      /\ data' = [p \in Offsets |-> 0]
      /\ UNCHANGED <<resB, upRead, finOut, upSent, upFin, upDead, appVars>>
  BY DEF Destruct, envVars
<1>2. BackTypes'
  <2>1. segs' \in Seq(Held) /\ Len(segs') = 0
    BY <1>1
  <2>2. 0 \in Offsets /\ MaxSize \in Nat /\ UpBytes \in Nat
    BY MaxSizeAssumption, SessionAssumption DEF Offsets
  <2>3. ring' \in Rings /\ ring'.rda = 0 /\ ring'.use = 0
    BY <1>1, <2>2 DEF EmptyRing, Rings
  <2>4. data' \in [Offsets -> 0 .. UpBytes]
    BY <1>1, <2>2
  <2> QED
    BY <1>1, <2>1, <2>3, <2>4 DEF StreamInv, BackTypes, appVars
<1>3. LostPcbForgets' /\ RingInStep' /\ SentBytesIntact'
  BY <1>1 DEF LostPcbForgets, RingInStep, SentBytesIntact, EmptyRing
<1>4. appEof => Complete'
  BY <1>1 DEF StreamInv, StreamInOrder, Complete, appVars
<1>5. StreamInOrder'
  BY <1>1, <1>4 DEF StreamInv, StreamInOrder, appVars
<1> QED
  BY <1>2, <1>3, <1>5 DEF StreamInv

LEMMA StreamFin ==
    ASSUME StreamInv, AppReceivesFin
    PROVE  StreamInv'
<1>1. /\ pcb /\ finOut /\ segs = <<>> /\ appEof' = TRUE
      /\ UNCHANGED <<bwdVars, pcb, upSent, upFin, upDead, appGot>>
  BY DEF AppReceivesFin, envVars
<1>2. Complete'
  BY <1>1 DEF StreamInv, StreamInOrder, Complete, bwdVars
<1> QED
  BY <1>1, <1>2 DEF StreamInv, BackTypes, LostPcbForgets, RingInStep, SentBytesIntact,
     StreamInOrder, bwdVars

(* The application acknowledges what is oldest; the ring gives it up.        *)
LEMMA StreamReceives ==
    ASSUME StreamInv, NEW n \in 1 .. MaxSize, AppReceives(n)
    PROVE  StreamInv'
<1>1. /\ pcb /\ n <= Len(segs)
      /\ appGot' = appGot \o [i \in 1 .. n |-> data[segs[i].pos]]
      /\ segs' = SubSeq(segs, n + 1, Len(segs))
      /\ ring' = ReadRelease(ring, n)
      /\ UNCHANGED <<resB, upRead, data, finOut, pcb, upSent, upFin, upDead, appEof>>
  BY DEF AppReceives, envVars
<1>0. pcb /\ n <= Len(segs)
  BY <1>1
<1>2. MaxSize \in Nat /\ MaxSize > 0 /\ UpBytes \in Nat /\ n \in Nat /\ n >= 1
  BY MaxSizeAssumption, SessionAssumption
<1>3. PICK held \in Nat : held = Len(segs)
  BY DEF StreamInv, BackTypes
<1>3a. PICK left \in Nat : left = held - n
  <2>1. n <= held
    BY <1>0, <1>3
  <2>2. held - n \in Nat
    BY <1>2, <1>3, <2>1
  <2> QED
    BY <2>2
<1>4. PICK got \in Nat : got = Len(appGot)
  BY DEF StreamInv, BackTypes
<1>5. segs \in Seq(Held) /\ appGot \in Seq(1 .. UpBytes)
  BY DEF StreamInv, BackTypes
<1>6. PICK now : now = [i \in 1 .. n |-> data[segs[i].pos]]
  OBVIOUS
<1>7. ASSUME NEW i \in 1 .. n
      PROVE  now[i] = segs[i].byte /\ now[i] \in 1 .. UpBytes
  <2>1. i \in 1 .. Len(segs)
    BY <1>1, <1>2, <1>3
  <2>2. data[segs[i].pos] = segs[i].byte /\ segs[i] \in Held
    BY <1>5, <2>1 DEF StreamInv, SentBytesIntact
  <2> QED
    BY <1>6, <2>2 DEF Held
<1>8. now \in Seq(1 .. UpBytes) /\ Len(now) = n
  BY <1>2, <1>6, <1>7
<1>9. /\ appGot' \in Seq(1 .. UpBytes) /\ Len(appGot') = got + n
      /\ \A i \in 1 .. got + n : appGot'[i] = IF i <= got THEN appGot[i] ELSE now[i - got]
  BY <1>1, <1>4, <1>5, <1>6, <1>8, ConcatProperties
<1>10. /\ segs' \in Seq(Held) /\ Len(segs') = left
       /\ \A i \in 1 .. left : segs'[i] = segs[n + i] /\ segs'[i] \in Held
  <2>1. n + 1 \in 1 .. held + 1
    BY <1>1, <1>2, <1>3
  <2>2. \A i \in (n + 1) .. held : segs[i] \in Held
    BY <1>2, <1>3, <1>5
  <2> QED
    <3>1. /\ SubSeq(segs, n + 1, held) \in Seq(Held)
          /\ Len(SubSeq(segs, n + 1, held)) = held - (n + 1) + 1
          /\ \A i \in 1 .. held - (n + 1) + 1 :
                SubSeq(segs, n + 1, held)[i] = segs[n + 1 + i - 1]
      BY <1>2, <1>3, <1>5, <2>1, <2>2, SubSeqProperties, SMTT(30)
    <3>2. /\ held - (n + 1) + 1 = left
          /\ (IF n + 1 <= held THEN held - (n + 1) + 1 ELSE 0) = left
          /\ \A i \in 1 .. left : n + 1 + i - 1 = n + i
      BY <1>1, <1>2, <1>3, <1>3a
    <3>3. \A i \in 1 .. left : n + i \in (n + 1) .. held
      BY <1>1, <1>2, <1>3, <1>3a
    <3> QED
      BY <1>1, <1>3, <2>2, <3>1, <3>2, <3>3
<1>11. PICK w \in Offsets, d \in 0 .. MaxSize, u \in 0 .. MaxSize :
          ring.wp = w /\ ring.rda = d /\ ring.use = u
  BY DEF StreamInv, BackTypes, Rings
<1>12. w \in Nat /\ d \in Nat /\ u \in Nat /\ held + d <= u /\ held >= n /\ ring \in Rings
  BY <1>0, <1>2, <1>3, <1>11 DEF StreamInv, BackTypes, Offsets
<1>13. /\ ring' \in Rings /\ ring'.rda = d
       /\ ring'.use = u - n
       /\ u = n => ring'.rp = ring'.wp
       /\ u # n => ring'.rp = ring.rp /\ ring'.wp = w
  <2>1. u - n \in 0 .. MaxSize /\ 0 \in Offsets /\ 0 \in 0 .. MaxSize
    BY <1>2, <1>11, <1>12 DEF Offsets
  <2>2. CASE u = n
    <3>1. ring' = [ring EXCEPT !.use = 0, !.rp = 0, !.wp = 0]
      BY <1>1, <1>11, <2>2 DEF ReadRelease
    <3>2. ring' \in Rings /\ ring'.use = 0 /\ ring'.rp = 0 /\ ring'.wp = 0
      BY <1>12, <2>1, <3>1 DEF Rings
    <3>3. ring'.rda = d
      BY <1>11, <1>12, <3>1 DEF Rings
    <3> QED
      BY <1>2, <2>2, <3>2, <3>3
  <2>3. CASE u # n
    <3>1. ring' = [ring EXCEPT !.use = u - n]
      BY <1>1, <1>11, <2>3 DEF ReadRelease
    <3> QED
      BY <1>11, <1>12, <2>1, <2>3, <3>1 DEF Rings
  <2> QED
    BY <2>2, <2>3
<1>14. BackTypes'
  <2>1. Len(segs') + ring'.rda <= ring'.use
    BY <1>2, <1>3a, <1>10, <1>12, <1>13, SMTT(30)
  <2> QED
    BY <1>1, <1>9, <1>10, <1>13, <2>1 DEF StreamInv, BackTypes
<1>15. LostPcbForgets' /\ SentBytesIntact'
  <2>1. ASSUME NEW i \in DOMAIN segs' PROVE data'[segs'[i].pos] = segs'[i].byte
    <3>1. i \in 1 .. left
      BY <1>10
    <3>2. n + i \in DOMAIN segs /\ segs'[i] = segs[n + i]
      BY <1>2, <1>3, <1>3a, <1>5, <1>10, <3>1, SMTT(30)
    <3> QED
      BY <1>1, <3>2 DEF StreamInv, SentBytesIntact
  <2> QED
    BY <1>1, <2>1 DEF LostPcbForgets, SentBytesIntact
<1>16. RingInStep'
  <2> SUFFICES ASSUME resB >= 0
               PROVE  /\ ring'.rda = 0 /\ ring'.rp = ring'.wp
                      /\ HeldAround(segs', ring'.wp, ring'.use)
    BY <1>1 DEF RingInStep
  <2>1. d = 0 /\ ring.rp = w /\ held = u
        /\ \A i \in 1 .. u : segs[i].pos = Wrap(w + MaxSize - u + i - 1)
    BY <1>0, <1>3, <1>11 DEF StreamInv, RingInStep, HeldAround
  <2>2. CASE u = n
    <3>1. ring'.use = 0 /\ ring'.rda = 0 /\ ring'.rp = ring'.wp
      BY <1>2, <1>13, <2>1, <2>2
    <3>2. Len(segs') = 0
      BY <1>2, <1>3a, <1>10, <2>1, <2>2
    <3> QED
      BY <3>1, <3>2 DEF HeldAround
  <2>3. CASE u # n
    <3>1. ring'.use = u - n /\ ring'.rda = 0 /\ ring'.rp = ring'.wp /\ ring'.wp = w
      BY <1>13, <2>1, <2>3
    <3>2. ASSUME NEW i \in 1 .. u - n
          PROVE  segs'[i].pos = Wrap(w + MaxSize - (u - n) + i - 1)
      <4>1. segs'[i] = segs[n + i] /\ n + i \in 1 .. u
        BY <1>2, <1>3a, <1>10, <2>1
      <4>2. segs[n + i].pos = Wrap(w + MaxSize - u + (n + i) - 1)
        BY <2>1, <4>1
      <4>3. w + MaxSize - u + (n + i) - 1 = w + MaxSize - (u - n) + i - 1
        BY <1>2, <1>12
      <4> QED
        BY <4>1, <4>2, <4>3
    <3> QED
      BY <1>3a, <1>10, <2>1, <3>1, <3>2 DEF HeldAround
  <2> QED
    BY <2>2, <2>3
<1>17. StreamInOrder'
  <2>1. ASSUME Complete PROVE Complete'
    <3>1. /\ upRead' = got + held
          /\ \A i \in 1 .. got : appGot[i] = i
          /\ \A i \in 1 .. held : segs[i].byte = got + i
      BY <1>1, <1>3, <1>4, <2>1 DEF Complete
    <3>2. Len(appGot') + Len(segs') = upRead'
      <4>1. Len(appGot') = got + n /\ Len(segs') = left
        BY <1>9, <1>10
      <4> QED
        BY <1>2, <1>3a, <1>4, <3>1, <4>1
    <3>3. ASSUME NEW i \in 1 .. got + n PROVE appGot'[i] = i
      <4>1. CASE i <= got
        BY <1>9, <3>1, <4>1
      <4>2. CASE i > got
        <5>1. i - got \in 1 .. n /\ i - got \in 1 .. held
          BY <1>1, <1>2, <1>3, <4>2
        <5>2. appGot'[i] = now[i - got] /\ now[i - got] = segs[i - got].byte
          BY <1>7, <1>9, <4>2, <5>1
        <5> QED
          BY <3>1, <5>1, <5>2
      <4> QED
        BY <1>2, <4>1, <4>2
    <3>4. ASSUME NEW i \in 1 .. left PROVE segs'[i].byte = (got + n) + i
      <4>1. segs'[i] = segs[n + i] /\ n + i \in 1 .. held
        BY <1>1, <1>2, <1>3, <1>3a, <1>10
      <4> QED
        BY <1>2, <3>1, <4>1
    <3> QED
      BY <1>9, <1>10, <3>2, <3>3, <3>4 DEF Complete
  <2>2. ~appEof
    BY <1>1, <1>2, <1>3 DEF StreamInv, StreamInOrder
  <2> QED
    BY <1>1, <2>1, <2>2 DEF StreamInv, StreamInOrder
<1> QED
  BY <1>14, <1>15, <1>16, <1>17 DEF StreamInv

-----------------------------------------------------------------------------
(* The fields that the two ends of a write and of a read change.             *)
LEMMA WriteFinishes ==
    ASSUME NEW r \in Rings, NEW n \in Nat, r.use + n <= MaxSize, r.rda + n <= MaxSize,
           NEW f, f = WriteFinish(r, n)
    PROVE  /\ f \in Rings /\ f.rp = r.rp /\ f.wp = Wrap(r.wp + n)
           /\ f.rda = r.rda + n /\ f.use = r.use + n
<1>1. /\ MaxSize \in Nat /\ MaxSize > 0
      /\ r.wp \in Nat /\ r.wp < MaxSize /\ r.use \in Nat /\ r.rda \in Nat
  BY MaxSizeAssumption DEF Rings, Offsets
<1>2. PICK m : m = (r.wp + n) % MaxSize
  OBVIOUS
<1>3. m = Wrap(r.wp + n) /\ m \in Offsets
  <2>1. r.wp + n \in Nat /\ r.wp + n < 2 * MaxSize
    BY <1>1
  <2> QED
    BY <1>2, <2>1, WrapIsModulo
<1>4. r.use + n \in 0 .. MaxSize /\ r.rda + n \in 0 .. MaxSize
  BY <1>1
<1>5. f = [r EXCEPT !.wp = m, !.use = r.use + n, !.rda = r.rda + n]
  BY <1>2 DEF WriteFinish
<1>6. f \in Rings
  BY <1>3, <1>4, <1>5 DEF Rings
<1>7. f.rp = r.rp /\ f.wp = m /\ f.rda = r.rda + n /\ f.use = r.use + n
  BY <1>5 DEF Rings
<1> QED
  BY <1>3, <1>6, <1>7

LEMMA ReadFinishes ==
    ASSUME NEW r \in Rings, NEW f, f = ReadFinish(r, r.rda)
    PROVE  /\ f \in Rings /\ f.rp = Wrap(r.rp + r.rda) /\ f.wp = r.wp
           /\ f.rda = 0 /\ f.use = r.use
<1>1. /\ MaxSize \in Nat /\ MaxSize > 0
      /\ r.rp \in Nat /\ r.rp < MaxSize /\ r.rda \in Nat /\ r.rda <= MaxSize
  BY MaxSizeAssumption DEF Rings, Offsets
<1>2. PICK m : m = (r.rp + r.rda) % MaxSize
  OBVIOUS
<1>3. m = Wrap(r.rp + r.rda) /\ m \in Offsets
  <2>1. r.rp + r.rda \in Nat /\ r.rp + r.rda < 2 * MaxSize
    BY <1>1
  <2> QED
    BY <1>2, <2>1, WrapIsModulo
<1>4. r.rda - r.rda = 0 /\ 0 \in 0 .. MaxSize
  BY <1>1
<1>5. f = [r EXCEPT !.rp = m, !.rda = 0]
  BY <1>2, <1>4 DEF ReadFinish
<1>6. f \in Rings
  BY <1>3, <1>4, <1>5 DEF Rings
<1>7. f.rp = m /\ f.wp = r.wp /\ f.rda = 0 /\ f.use = r.use
  BY <1>5 DEF Rings
<1> QED
  BY <1>3, <1>6, <1>7

(* tcp_splice_b.  What its definitions come to when the ring is in step:     *)
(* nothing is unread, so that without a read nothing is written to lwIP.     *)
LEMMA BackwardReadsNothing ==
    ASSUME StreamInv, resB >= 0, NEW n \in ReadResults, n <= 0,
           AfterRead(n)
    PROVE  /\ upRead' = upRead /\ data' = data /\ segs' = segs
           /\ ring' \in Rings /\ ring'.rda = 0 /\ ring'.use = ring.use
           /\ ring'.wp = ring.wp /\ ring'.rp = ring.rp
           /\ ~pcb => resB' = -1 /\ finOut' = finOut
           /\ pcb => resB' = n /\ finOut' = (finOut \/ n < 0)
<1> DEFINE filled == WriteFinish(ring, 0)
<1>1. /\ ring \in Rings /\ ring.rda = 0 /\ ring.rp = ring.wp
      /\ ring.wp \in Offsets /\ ring.use \in 0 .. MaxSize /\ upRead \in Nat
      /\ MaxSize \in Nat /\ MaxSize > 0
  BY MaxSizeAssumption, SessionAssumption
     DEF StreamInv, BackTypes, RingInStep, Rings
<1>4. /\ filled \in Rings /\ filled.rda = 0 /\ filled.use = ring.use
      /\ filled.wp = ring.wp /\ filled.rp = ring.rp
  <2>1. /\ ring.use + 0 = ring.use /\ ring.rda + 0 = 0 /\ ring.use <= MaxSize
        /\ 0 \in Nat /\ 0 <= MaxSize
    BY <1>1
  <2>2. Wrap(ring.wp + 0) = ring.wp
    BY <1>1 DEF Wrap, Offsets
  <2> QED
    BY <1>1, <2>1, <2>2, WriteFinishes
<1>5. Reading(filled) = <<>>
  BY <1>4 DEF Reading, Pieces
<1>6. n \in Int
  BY DEF ReadResults, StreamInv, BackTypes
<1> HIDE DEF filled
<1>7. /\ upRead' = upRead + 0 /\ data' = data
      /\ IF ~pcb
         THEN ring' = filled /\ resB' = -1 /\ UNCHANGED <<segs, finOut>>
         ELSE /\ ring' = filled /\ resB' = n
              /\ finOut' = (finOut \/ n < 0) /\ UNCHANGED segs
  BY <1>5, <1>6 DEF filled, AfterRead
<1> QED
  BY <1>1, <1>4, <1>7

(* A read of some bytes: they are stored behind those the ring holds and,    *)
(* with a pcb, handed to lwIP.                                               *)
LEMMA BackwardReadsSome ==
    ASSUME StreamInv, resB >= 0, NEW n \in ReadResults, n > 0, AfterRead(n)
    PROVE  /\ n \in 1 .. MaxSize - ring.use /\ n <= upSent - upRead
           /\ upRead' = upRead + n /\ data' = Filled(n)
           /\ finOut' = finOut
           /\ ring' \in Rings /\ ring'.use = ring.use + n
           /\ ~pcb => resB' = -1 /\ ring'.rda = n /\ segs' = segs
           /\ pcb => /\ ring'.rda = 0 /\ ring'.rp = ring'.wp
                     /\ ring'.wp = Wrap(ring.wp + n)
                     /\ resB' \in {-1, 1}
                     /\ \E q \in Seq(SomeRefs) :
                           /\ segs' = segs \o q
                           /\ Len(q) <= n
                           /\ RefersWithin(q, data', ring.wp, n)
                           /\ resB' = 1 => Len(q) = n /\ RefersFrom(q, data', ring.wp)
<1>1. /\ ring \in Rings /\ ring.rda = 0 /\ ring.rp = ring.wp
      /\ ring.wp \in Offsets /\ ring.use \in 0 .. MaxSize
      /\ upRead \in Nat /\ upSent \in Nat
      /\ MaxSize \in Nat /\ MaxSize > 0 /\ data \in [Offsets -> Nat]
  <2>1. data \in [Offsets -> 0 .. UpBytes]
    BY DEF StreamInv, BackTypes
  <2>2. data \in [Offsets -> Nat]
    BY <2>1, SessionAssumption
  <2> QED
    BY <2>2, MaxSizeAssumption, SessionAssumption
       DEF StreamInv, BackTypes, RingInStep, Rings
<1>2. PICK u \in Nat, w \in Offsets : u = ring.use /\ w = ring.wp
  BY <1>1
<1>3. PICK size \in 0 .. MaxSize : size = MaxSize - u
  BY <1>1, <1>2
<1>4. Writing(ring) = Pieces(w, size)
  BY <1>2, <1>3 DEF Writing
<1>5. SizeOf(Writing(ring)) = size
  BY <1>4, PiecesSpan
<1>6. n \in 1 .. size /\ n \in 1 .. upSent - upRead
  <2>1. n \in {m \in 1 .. (upSent - upRead) : m <= SizeOf(Writing(ring))}
    BY DEF ReadResults
  <2> QED
    BY <1>3, <1>5, <2>1
<1>7. n \in Nat /\ n > 0 /\ u + n <= MaxSize /\ 0 + n <= MaxSize /\ size <= MaxSize
  BY <1>1, <1>2, <1>3, <1>6
<1>8. PICK filled : filled = WriteFinish(ring, n)
  OBVIOUS
<1>9. /\ filled \in Rings /\ filled.rp = w /\ filled.wp = Wrap(w + n)
      /\ filled.rda = n /\ filled.use = u + n
  <2>1. ring.use + n <= MaxSize /\ ring.rda + n <= MaxSize /\ ring.rda + n = n
    BY <1>1, <1>2, <1>7
  <2> QED
    BY <1>1, <1>2, <1>7, <1>8, <2>1, WriteFinishes
<1>10. n \in 1 .. MaxSize /\ n \in 0 .. MaxSize
  BY <1>1, <1>7
<1>11. PICK iov : iov = Pieces(w, n)
  OBVIOUS
<1>12. Reading(filled) = iov /\ iov # <<>>
  <2>1. Pieces(w, n) # <<>>
    BY <1>7, <1>10, PiecesSpan
  <2> QED
    BY <1>9, <1>11, <2>1 DEF Reading
<1>13. /\ upRead' = upRead + n
       /\ data' = Filled(n)
       /\ IF ~pcb
          THEN ring' = filled /\ resB' = -1 /\ UNCHANGED <<segs, finOut>>
          ELSE \E failed \in SUBSET (DOMAIN iov), outputFails \in BOOLEAN :
               /\ ring' = ReadFinish(filled, filled.rda)
               /\ segs' = segs \o Queued(data', iov, failed)
               /\ resB' = AfterWrite(failed # {} \/ outputFails)
               /\ UNCHANGED finOut
  BY <1>7, <1>8, <1>12 DEF AfterRead
<1>16. n \in 1 .. MaxSize - ring.use /\ n <= upSent - upRead
  BY <1>1, <1>2, <1>3, <1>6
<1>14. CASE ~pcb
  <2>1. ring' = filled /\ resB' = -1 /\ segs' = segs /\ finOut' = finOut
    BY <1>13, <1>14
  <2> QED
    BY <1>2, <1>3, <1>6, <1>9, <1>13, <1>14, <2>1
<1>15. CASE pcb
  <2>1. PICK failed \in SUBSET (DOMAIN iov), outputFails \in BOOLEAN :
          /\ ring' = ReadFinish(filled, filled.rda)
          /\ segs' = segs \o Queued(data', iov, failed)
          /\ resB' = AfterWrite(failed # {} \/ outputFails)
          /\ UNCHANGED finOut
    BY <1>13, <1>15
  <2>2. /\ ring' \in Rings /\ ring'.rp = Wrap(w + n) /\ ring'.wp = Wrap(w + n)
        /\ ring'.rda = 0 /\ ring'.use = u + n
    BY <1>9, <2>1, ReadFinishes
  <2>3. resB' \in {-1, 1} /\ (resB' = 1 => failed = {})
    BY <2>1 DEF AfterWrite
  <2>4. data' \in [Offsets -> Nat]
    BY <1>1, <1>3, <1>4, <1>6, <1>13, FilledStores
  <2>5. PICK q : q = Queued(data', Pieces(w, n), failed)
    OBVIOUS
  <2>6. failed \in SUBSET (DOMAIN Pieces(w, n))
    BY <1>11, <2>1
  <2>7. /\ q \in Seq(SomeRefs) /\ Len(q) <= n
        /\ RefersWithin(q, data', w, n)
        /\ failed = {} => Len(q) = n /\ RefersFrom(q, data', w)
    BY <1>10, <2>4, <2>5, <2>6, QueuedRefers
  <2>8. segs' = segs \o q /\ finOut' = finOut
    BY <1>11, <2>1, <2>5
  <2>9. \E qq \in Seq(SomeRefs) :
           /\ segs' = segs \o qq
           /\ Len(qq) <= n
           /\ RefersWithin(qq, data', ring.wp, n)
           /\ resB' = 1 => Len(qq) = n /\ RefersFrom(qq, data', ring.wp)
    BY <1>2, <2>3, <2>7, <2>8
  <2>10. /\ ring' \in Rings /\ ring'.use = ring.use + n /\ ring'.rda = 0
         /\ ring'.rp = ring'.wp /\ ring'.wp = Wrap(ring.wp + n)
    BY <1>2, <2>2
  <2> QED
    BY <1>13, <1>15, <1>16, <2>3, <2>8, <2>9, <2>10, Zenon
<1> QED
  BY <1>14, <1>15

LEMMA StreamBackward ==
    ASSUME StreamInv, Backward, UNCHANGED <<pcb, upSent, upFin, upDead, appVars>>
    PROVE  StreamInv'
<1>1. CASE resB < 0
  BY <1>1, StreamFrame DEF Backward
<1>2. ASSUME resB >= 0 PROVE StreamInv'
  <2>1. PICK n \in ReadResults : AfterRead(n)
    BY <1>2 DEF Backward, StreamInv, BackTypes
  <2>2. ~finOut /\ ~appEof /\ finOut \in BOOLEAN
    BY <1>2 DEF StreamInv, StreamInOrder, BackTypes
  <2>3. pcb' = pcb /\ upSent' = upSent /\ upFin' = upFin /\ upDead' = upDead
        /\ appGot' = appGot /\ appEof' = appEof
    BY DEF appVars
  <2>4. n \in Int /\ UpBytes \in Nat /\ MaxSize \in Nat /\ MaxSize > 0
    BY SessionAssumption, MaxSizeAssumption DEF ReadResults, StreamInv, BackTypes
  <2>5. CASE n <= 0
    <3>1. /\ upRead' = upRead /\ data' = data /\ segs' = segs
          /\ ring' \in Rings /\ ring'.rda = 0 /\ ring'.use = ring.use
          /\ ring'.wp = ring.wp /\ ring'.rp = ring.rp
          /\ ~pcb => resB' = -1 /\ finOut' = finOut
          /\ pcb => resB' = n /\ finOut' = (finOut \/ n < 0)
      BY <1>2, <2>1, <2>5, BackwardReadsNothing
    <3>2. n \in {-1, 0} /\ (n = -1 => upDead \/ (upFin /\ upRead = upSent))
      <4>1. upRead \in Nat /\ upSent \in Nat /\ upRead <= upSent
        BY SessionAssumption DEF StreamInv, BackTypes
      <4> QED
        BY <2>5, <4>1 DEF ReadResults
    <3>3. ring.rda = 0
      BY <1>2 DEF StreamInv, RingInStep
    <3>4. resB' \in {-1, 0, 1} /\ (finOut' => resB' = -1 /\ n = -1) /\ finOut' \in BOOLEAN
      <4>1. CASE pcb
        BY <2>2, <3>1, <3>2, <4>1
      <4>2. CASE ~pcb
        BY <2>2, <3>1, <4>2
      <4> QED
        BY <4>1, <4>2
    <3>5. BackTypes'
      BY <2>3, <3>1, <3>3, <3>4 DEF StreamInv, BackTypes
    <3>6. LostPcbForgets' /\ SentBytesIntact'
      BY <2>3, <3>1 DEF StreamInv, LostPcbForgets, SentBytesIntact
    <3>7. RingInStep'
      BY <1>2, <2>3, <3>1 DEF StreamInv, RingInStep
    <3>8. Complete' = Complete
      BY <2>3, <3>1 DEF Complete
    <3>9. pcb => Complete
      BY <1>2 DEF StreamInv, StreamInOrder
    <3>10. StreamInOrder'
      BY <2>2, <2>3, <3>1, <3>2, <3>4, <3>8, <3>9 DEF StreamInOrder
    <3> QED
      BY <3>5, <3>6, <3>7, <3>10 DEF StreamInv
  <2>6. CASE n > 0
    <3>1. /\ n \in 1 .. MaxSize - ring.use /\ n <= upSent - upRead
          /\ upRead' = upRead + n /\ data' = Filled(n)
          /\ finOut' = finOut
          /\ ring' \in Rings /\ ring'.use = ring.use + n
          /\ ~pcb => resB' = -1 /\ ring'.rda = n /\ segs' = segs
          /\ pcb => /\ ring'.rda = 0 /\ ring'.rp = ring'.wp
                    /\ ring'.wp = Wrap(ring.wp + n)
                    /\ resB' \in {-1, 1}
                    /\ \E q \in Seq(SomeRefs) :
                          /\ segs' = segs \o q
                          /\ Len(q) <= n
                          /\ RefersWithin(q, data', ring.wp, n)
                          /\ resB' = 1 => Len(q) = n /\ RefersFrom(q, data', ring.wp)
      BY <1>2, <2>1, <2>6, BackwardReadsSome
    <3>2. PICK u \in Nat, w \in Offsets : u = ring.use /\ w = ring.wp
      BY DEF StreamInv, BackTypes, Rings
    <3>3. PICK read \in Nat : read = upRead
      BY SessionAssumption DEF StreamInv, BackTypes
    <3>4. /\ n \in Nat /\ n >= 1 /\ u + n <= MaxSize /\ read + n <= upSent
          /\ upSent \in Nat /\ upSent <= UpBytes /\ w \in Nat /\ w < MaxSize
      BY <2>4, <3>1, <3>2, <3>3, SMTT(30) DEF StreamInv, BackTypes, Offsets
    <3>10. /\ MaxSize \in Nat /\ UpBytes \in Nat /\ read \in Nat
           /\ u \in Nat /\ w \in Nat /\ n \in Nat /\ n >= 1
           /\ w < MaxSize /\ u + n <= MaxSize /\ read + n <= UpBytes
      BY <2>4, <3>2, <3>3, <3>4
    <3>5. /\ \A j \in 1 .. n : data'[Wrap(w + j - 1)] = read + j
          /\ \A p \in Offsets :
                (\A j \in 1 .. n : p # Wrap(w + j - 1)) => data'[p] = data[p]
          /\ data' \in [Offsets -> 0 .. UpBytes]
      <4>1. PICK size \in 0 .. MaxSize : size = MaxSize - u
        BY <2>4, <3>4
      <4>2. Writing(ring) = Pieces(w, size)
        BY <3>2, <4>1 DEF Writing, StreamInv, RingInStep
      <4>3. data \in [Offsets -> 0 .. UpBytes] /\ data \in [Offsets -> Nat]
        <5>1. data \in [Offsets -> 0 .. UpBytes]
          BY DEF StreamInv, BackTypes
        <5> QED
          BY <5>1, <2>4
      <4>4. n \in 1 .. size /\ upRead \in Nat
        BY <2>4, <3>3, <3>4, <4>1
      <4>5. /\ \A j \in 1 .. n : Filled(n)[Wrap(w + j - 1)] = upRead + j
            /\ \A p \in Offsets :
                 (\A j \in 1 .. n : p # Wrap(w + j - 1)) => Filled(n)[p] = data[p]
            /\ Filled(n) \in [Offsets -> Nat]
            /\ \A p \in Offsets :
                 Filled(n)[p] = data[p] \/ Filled(n)[p] \in upRead + 1 .. upRead + n
        BY <4>2, <4>3, <4>4, FilledStores
      <4>6. \A p \in Offsets : data'[p] \in 0 .. UpBytes
        BY <2>4, <3>1, <3>3, <3>4, <4>3, <4>5
      <4>7. data' \in [Offsets -> 0 .. UpBytes]
        BY <3>1, <4>5, <4>6
      <4> QED
        BY <3>1, <3>3, <4>5, <4>7
    <3>6. upRead' \in 0 .. upSent' /\ upSent' \in 0 .. UpBytes
      BY <2>3, <2>4, <3>1, <3>3, <3>4
    <3>7. ring.rda = 0
      BY <1>2 DEF StreamInv, RingInStep
    <3>8. CASE ~pcb
      <4>1. segs = <<>> /\ segs' = <<>> /\ resB' = -1 /\ ring'.rda = n /\ ring'.use = u + n
        BY <3>1, <3>2, <3>8 DEF StreamInv, LostPcbForgets
      <4>2. Len(segs') + ring'.rda <= ring'.use /\ segs' \in Seq(Held)
        BY <3>2, <3>4, <4>1
      <4>3. BackTypes'
        BY <2>2, <2>3, <3>1, <3>5, <3>6, <4>1, <4>2 DEF StreamInv, BackTypes
      <4> QED
        BY <2>2, <2>3, <3>1, <3>8, <4>1, <4>3
           DEF StreamInv, LostPcbForgets, RingInStep, SentBytesIntact, StreamInOrder
    <3>9. CASE pcb
      <4>1. PICK q \in Seq(SomeRefs) :
              /\ segs' = segs \o q
              /\ Len(q) <= n
              /\ RefersWithin(q, data', w, n)
              /\ resB' = 1 => Len(q) = n /\ RefersFrom(q, data', w)
        BY <3>1, <3>2, <3>9
      <4>2. /\ segs \in Seq(Held) /\ Len(segs) = u
            /\ \A i \in 1 .. u : segs[i].pos = Wrap(w + MaxSize - u + i - 1)
        BY <1>2, <3>2, <3>9 DEF StreamInv, BackTypes, RingInStep, HeldAround
      <4>3. \A i \in 1 .. Len(q) :
               /\ q[i] \in Held
               /\ data'[q[i].pos] = q[i].byte
        <5> SUFFICES ASSUME NEW i \in 1 .. Len(q)
                     PROVE  q[i] \in Held /\ data'[q[i].pos] = q[i].byte
          OBVIOUS
        <5>1. PICK j \in 1 .. n : q[i] = Ref(data', Wrap(w + j - 1))
          <6>1. PICK skip \in 0 .. n : skip + Len(q) <= n /\ Stretch(q, data', w, skip)
            BY <4>1 DEF RefersWithin
          <6>2. q[i] = Ref(data', Wrap(w + skip + i - 1))
            BY <6>1 DEF Stretch
          <6>3. skip + i \in 1 .. n /\ w + skip + i - 1 = w + (skip + i) - 1
            BY <3>10, <6>1
          <6> QED
            BY <6>2, <6>3
        <5>2. Wrap(w + j - 1) \in Offsets
          BY <2>4, <3>4 DEF Wrap, Offsets
        <5>3. data'[Wrap(w + j - 1)] = read + j
          BY <3>5
        <5>4. read + j \in 1 .. UpBytes
          BY <3>10
        <5> QED
          BY <5>1, <5>2, <5>3, <5>4 DEF Ref, Held
      <4>4. PICK m \in Nat : m = Len(q)
        OBVIOUS
      <4>5. q \in Seq(Held)
        BY <4>1, <4>3
      <4>6. /\ segs' \in Seq(Held) /\ Len(segs') = u + m
            /\ \A i \in 1 .. u + m : segs'[i] = IF i <= u THEN segs[i] ELSE q[i - u]
        BY <4>1, <4>2, <4>4, <4>5, ConcatProperties
      <4>7. \A i \in 1 .. u : data'[segs[i].pos] = data[segs[i].pos]
        <5> SUFFICES ASSUME NEW i \in 1 .. u
                     PROVE  data'[segs[i].pos] = data[segs[i].pos]
          OBVIOUS
        <5>1. PICK a \in Nat : a = w + MaxSize - u + i - 1
          BY <2>4, <3>4
        <5>2. segs[i].pos = Wrap(a)
          BY <4>2, <5>1
        <5>4. a < 2 * MaxSize /\ Wrap(a) \in Offsets
          BY <3>10, <5>1 DEF Wrap, Offsets
        <5>3. ASSUME NEW j \in 1 .. n PROVE Wrap(a) # Wrap(w + j - 1)
          <6>1. PICK b \in Nat : b = w + j - 1
            BY <3>4
          <6>2. b < a /\ a - b < MaxSize /\ b < 2 * MaxSize
            BY <3>10, <5>1, <6>1
          <6> QED
            BY <5>1, <5>4, <6>1, <6>2, WrapIsInjective
        <5> QED
          BY <3>5, <5>2, <5>3, <5>4
      <4>8. SentBytesIntact'
        <5> SUFFICES ASSUME NEW i \in 1 .. u + m PROVE data'[segs'[i].pos] = segs'[i].byte
          BY <4>6 DEF SentBytesIntact
        <5>1. CASE i <= u
          <6>1. i \in 1 .. u /\ i \in DOMAIN segs /\ segs'[i] = segs[i]
            BY <3>2, <4>2, <4>6, <5>1
          <6> QED
            BY <4>7, <6>1 DEF StreamInv, SentBytesIntact
        <5>2. CASE i > u
          <6>1. i - u \in 1 .. Len(q) /\ segs'[i] = q[i - u]
            BY <3>2, <4>4, <4>6, <5>2
          <6> QED
            BY <4>3, <6>1
        <5>3. i <= u \/ i > u
          BY <3>2
        <5> QED
          BY <5>1, <5>2, <5>3
      <4>9. Len(segs') + ring'.rda <= ring'.use
        BY <3>1, <3>2, <3>4, <3>9, <4>1, <4>4, <4>6, SMTT(30)
      <4>10. resB' \in {-1, 0, 1}
        BY <3>1, <3>9
      <4>11. BackTypes'
        BY <2>2, <2>3, <3>1, <3>5, <3>6, <4>6, <4>9, <4>10 DEF StreamInv, BackTypes
      <4>12. ASSUME resB' >= 0
             PROVE  m = n /\ \A i \in 1 .. n :
                       q[i].pos = Wrap(w + i - 1) /\ q[i].byte = read + i
        <5>1. Len(q) = n /\ RefersFrom(q, data', w)
          BY <3>1, <3>9, <4>1, <4>12
        <5> QED
          BY <3>5, <4>4, <5>1 DEF RefersFrom, Ref
      <4>13. RingInStep'
        <5> SUFFICES ASSUME resB' >= 0
                     PROVE  HeldAround(segs', ring'.wp, ring'.use)
          BY <3>1, <3>9 DEF RingInStep
        <5>1. ring'.use = u + n /\ ring'.wp = Wrap(w + n)
          BY <3>1, <3>2, <3>9
        <5>2. Len(segs') = u + n
          BY <4>6, <4>12
        <5>3. ASSUME NEW i \in 1 .. u + n
              PROVE  segs'[i].pos = Wrap(Wrap(w + n) + MaxSize - (u + n) + i - 1)
          <6>1. CASE i <= u
            <7>1. segs'[i].pos = Wrap(w + MaxSize - u + i - 1)
              <8>1. i \in 1 .. u /\ i \in 1 .. u + m
                BY <3>10, <4>4, <6>1
              <8>2. segs'[i] = segs[i]
                BY <4>6, <6>1, <8>1
              <8> QED
                BY <4>2, <8>1, <8>2
            <7>2. Wrap(w + MaxSize - u + i - 1)
                    = Wrap(Wrap(w + n) + MaxSize - (u + n) + i - 1)
              BY <3>10, <6>1 DEF Wrap
            <7> QED
              BY <7>1, <7>2
          <6>2. CASE i > u
            <7>1. i - u \in 1 .. n /\ segs'[i] = q[i - u]
              <8>1. i - u \in 1 .. n /\ i \in 1 .. u + m /\ ~(i <= u)
                BY <3>10, <4>12, <6>2
              <8> QED
                BY <4>6, <8>1
            <7>2. segs'[i].pos = Wrap(w + (i - u) - 1)
              BY <4>12, <7>1
            <7>3. Wrap(w + (i - u) - 1)
                    = Wrap(Wrap(w + n) + MaxSize - (u + n) + i - 1)
              BY <3>10, <6>2 DEF Wrap
            <7> QED
              BY <7>2, <7>3
          <6>3. i <= u \/ i > u
            BY <3>2, <3>4
          <6> QED
            BY <6>1, <6>2, <6>3
        <5> QED
          BY <5>1, <5>2, <5>3 DEF HeldAround
      <4>14. ASSUME resB' >= 0 PROVE Complete'
        <5>1. PICK got \in Nat : got = Len(appGot)
          BY DEF StreamInv, BackTypes
        <5>2. /\ got + u = read
              /\ \A i \in 1 .. got : appGot[i] = i
              /\ \A i \in 1 .. u : segs[i].byte = got + i
          BY <1>2, <3>3, <3>9, <4>2, <5>1 DEF StreamInv, StreamInOrder, Complete
        <5>3. ASSUME NEW i \in 1 .. u + n PROVE segs'[i].byte = got + i
          <6>1. CASE i <= u
            <7>1. i \in 1 .. u /\ i \in 1 .. u + m
              BY <3>10, <4>4, <6>1
            <7>2. segs'[i] = segs[i]
              BY <4>6, <6>1, <7>1
            <7> QED
              BY <5>2, <7>1, <7>2
          <6>2. CASE i > u
            <7>1. i - u \in 1 .. n /\ segs'[i] = q[i - u]
              <8>1. i - u \in 1 .. n /\ i \in 1 .. u + m /\ ~(i <= u)
                BY <3>10, <4>12, <4>14, <6>2
              <8> QED
                BY <4>6, <8>1
            <7>2. segs'[i].byte = read + (i - u)
              BY <4>12, <4>14, <7>1
            <7>3. got + u = read /\ got \in Nat /\ u \in Nat /\ i \in Int
              BY <3>2, <3>4, <5>1, <5>2
            <7>4. read + (i - u) = got + i
              BY <7>3
            <7> QED
              BY <7>2, <7>4
          <6>3. i <= u \/ i > u
            BY <3>2, <3>4
          <6> QED
            BY <6>1, <6>2, <6>3
        <5>4. Len(segs') = u + n
          BY <4>6, <4>12, <4>14
        <5>5. got + (u + n) = upRead'
          <6>1. upRead' = read + n
            BY <3>1, <3>3
          <6>2. got + u = read
            BY <5>2
          <6> QED
            BY <3>10, <5>1, <6>1, <6>2
        <5> QED
          BY <2>3, <5>1, <5>2, <5>3, <5>4, <5>5 DEF Complete
      <4>15. LostPcbForgets' /\ StreamInOrder'
        BY <2>2, <2>3, <3>1, <3>9, <4>14 DEF LostPcbForgets, StreamInOrder
      <4> QED
        BY <4>8, <4>11, <4>13, <4>15 DEF StreamInv
    <3> QED
      BY <3>8, <3>9
  <2> QED
    BY <2>4, <2>5, <2>6
<1> QED
  BY <1>1, <1>2 DEF StreamInv, BackTypes

LEMMA StreamStep ==
    ASSUME StreamInv, [SessionNext]_sessionVars
    PROVE  StreamInv'
<1>1. CASE Connect \/ Handshake \/ Drain \/ TimesOut
  BY <1>1, StreamFrame DEF Connect, Handshake, Drain, TimesOut, envVars
<1>2. CASE Splice
  <2>1. Backward /\ UNCHANGED <<pcb, upSent, upFin, upDead, appVars>>
    BY <1>2 DEF Splice, envVars
  <2> QED
    BY <2>1, StreamBackward
<1>3. CASE Callback
  <2>1. CASE AppSends \/ AppCloses \/ TerminateSession
    BY <2>1, StreamFrame DEF AppSends, AppCloses, TerminateSession, envVars
  <2>2. CASE \E n \in 1 .. MaxSize : AppReceives(n)
    BY <2>2, StreamReceives
  <2> QED
    BY <1>3, <2>1, <2>2, StreamFin, StreamPcbLost DEF Callback
<1>4. CASE UNCHANGED sessionVars
  BY <1>4, StreamFrame DEF sessionVars, envVars
<1> QED
  BY <1>1, <1>2, <1>3, <1>4, StreamDestruct, StreamUpstream
     DEF SessionNext, TaskStep, Finished

(* The memory that lwIP sends from is not written to before it is released,  *)
(* for a buffer of any size and however lwIP splits, refuses and             *)
(* acknowledges.                                                             *)
THEOREM SentBytesStayIntact == SessionSafety => []SentBytesIntact
<1>1. StreamInv => SentBytesIntact
  BY DEF StreamInv
<1> QED
  BY <1>1, StreamInit, StreamStep, PTL DEF SessionSafety

(* Nobody takes a stream that was cut short for a complete one.              *)
THEOREM FinIsComplete == SessionSafety => []FinMeansComplete
<1>1. StreamInv => FinMeansComplete
  <2> SUFFICES ASSUME StreamInv, appEof
               PROVE  /\ appGot = [i \in 1 .. upRead |-> i]
                      /\ upDead \/ (upFin /\ upRead = upSent)
    BY DEF FinMeansComplete
  <2>1. Len(appGot) = upRead /\ \A i \in 1 .. Len(appGot) : appGot[i] = i
    <3>1. segs = <<>> /\ Complete /\ Len(appGot) \in Nat
      BY DEF StreamInv, StreamInOrder, BackTypes
    <3> QED
      BY <3>1 DEF Complete
  <2>2. appGot \in Seq(1 .. UpBytes)
    BY DEF StreamInv, BackTypes
  <2>3. appGot = [i \in 1 .. upRead |-> i]
    BY <2>1, <2>2
  <2> QED
    BY <2>3 DEF StreamInv, StreamInOrder
<1> QED
  BY <1>1, StreamInit, StreamStep, PTL DEF SessionSafety

-----------------------------------------------------------------------------
(* Order, also after a write has failed: what the application has got and    *)
(* what lwIP holds for it are bytes that have been read, each once and in    *)
(* their order.                                                              *)
Rising ==
    /\ \A i, j \in 1 .. Len(appGot) : i < j => appGot[i] < appGot[j]
    /\ \A i, j \in 1 .. Len(segs) : i < j => segs[i].byte < segs[j].byte
    /\ \A i \in 1 .. Len(appGot), j \in 1 .. Len(segs) : appGot[i] < segs[j].byte

WithinRead ==
    /\ \A i \in 1 .. Len(appGot) : appGot[i] <= upRead
    /\ \A j \in 1 .. Len(segs) : segs[j].byte <= upRead

(* The bytes that the application acknowledges move from one end to the      *)
(* other.                                                                    *)
LEMMA ReceivesOldest ==
    ASSUME StreamInv, NEW n \in 1 .. MaxSize, AppReceives(n)
    PROVE  /\ n \in 1 .. Len(segs)
           /\ Len(appGot') = Len(appGot) + n
           /\ \A i \in 1 .. Len(appGot) : appGot'[i] = appGot[i]
           /\ \A i \in 1 .. n : appGot'[Len(appGot) + i] = segs[i].byte
           /\ Len(segs') = Len(segs) - n
           /\ \A i \in 1 .. Len(segs) - n : segs'[i] = segs[n + i]
<1>1. /\ n <= Len(segs) /\ n \in Nat
      /\ appGot' = appGot \o [i \in 1 .. n |-> data[segs[i].pos]]
      /\ segs' = SubSeq(segs, n + 1, Len(segs))
  BY MaxSizeAssumption DEF AppReceives
<1>2. segs \in Seq(Held) /\ appGot \in Seq(1 .. UpBytes)
  BY DEF StreamInv, BackTypes
<1>3. PICK now : now = [i \in 1 .. n |-> data[segs[i].pos]]
  OBVIOUS
<1>4. \A i \in 1 .. n : now[i] = segs[i].byte /\ now[i] \in 1 .. UpBytes
  <2> SUFFICES ASSUME NEW i \in 1 .. n
               PROVE  now[i] = segs[i].byte /\ now[i] \in 1 .. UpBytes
    OBVIOUS
  <2>1. i \in DOMAIN segs /\ segs[i] \in Held
    BY <1>1, <1>2
  <2> QED
    BY <1>3, <2>1 DEF StreamInv, SentBytesIntact, Held
<1>5. now \in Seq(1 .. UpBytes) /\ Len(now) = n
  BY <1>1, <1>3, <1>4
<1>6. /\ Len(appGot') = Len(appGot) + n /\ Len(appGot) \in Nat
      /\ \A i \in 1 .. Len(appGot) + n :
            appGot'[i] = IF i <= Len(appGot) THEN appGot[i] ELSE now[i - Len(appGot)]
  BY <1>1, <1>2, <1>3, <1>5, ConcatProperties
<1>7. \A i \in 1 .. n : appGot'[Len(appGot) + i] = segs[i].byte
  <2> SUFFICES ASSUME NEW i \in 1 .. n PROVE appGot'[Len(appGot) + i] = segs[i].byte
    OBVIOUS
  <2>1. /\ Len(appGot) + i \in 1 .. Len(appGot) + n /\ ~(Len(appGot) + i <= Len(appGot))
        /\ (Len(appGot) + i) - Len(appGot) = i
    BY <1>1, <1>6
  <2> QED
    BY <1>4, <1>6, <2>1
<1>8. /\ Len(segs') = Len(segs) - n
      /\ \A i \in 1 .. Len(segs) - n : segs'[i] = segs[n + i]
  BY <1>1, <1>2
<1> QED
  BY <1>1, <1>6, <1>7, <1>8

(* What a turn of the loop hands to lwIP are newer bytes than all before.    *)
LEMMA QueuesNewest ==
    ASSUME StreamInv, Backward
    PROVE  \/ segs' = segs /\ upRead' \in Nat /\ upRead' >= upRead
           \/ /\ resB >= 0 /\ pcb /\ upRead' \in Nat
              /\ \E q \in Seq(Held), base \in Nat :
                    /\ segs' = segs \o q
                    /\ base >= upRead /\ base + Len(q) <= upRead'
                    /\ \A i \in 1 .. Len(q) : q[i].byte = base + i
<1>1. upRead \in Nat /\ upSent \in Nat /\ UpBytes \in Nat /\ upSent <= UpBytes
  BY SessionAssumption DEF StreamInv, BackTypes
<1>2. CASE resB < 0
  BY <1>1, <1>2 DEF Backward, bwdVars
<1>3. CASE resB >= 0
  <2>1. PICK n \in ReadResults : AfterRead(n)
    BY <1>3 DEF Backward, StreamInv, BackTypes
  <2>2. n \in Int
    BY <1>1 DEF ReadResults
  <2>3. CASE n <= 0
    <3>1. upRead' = upRead /\ segs' = segs
      BY <1>3, <2>1, <2>3, BackwardReadsNothing
    <3> QED
      BY <1>1, <3>1
  <2>4. CASE n > 0 /\ ~pcb
    <3>1. n \in 1 .. MaxSize - ring.use /\ upRead' = upRead + n /\ segs' = segs
      BY <1>3, <2>1, <2>4, BackwardReadsSome
    <3> QED
      BY <1>1, <2>2, <2>4, <3>1
  <2>5. CASE n > 0 /\ pcb
    <3>1. /\ n \in 1 .. MaxSize - ring.use /\ n <= upSent - upRead
          /\ upRead' = upRead + n /\ data' = Filled(n)
          /\ \E q \in Seq(SomeRefs) :
                /\ segs' = segs \o q
                /\ RefersWithin(q, data', ring.wp, n)
      BY <1>3, <2>1, <2>5, BackwardReadsSome
    <3>2. PICK w \in Offsets, u \in 0 .. MaxSize : u = ring.use /\ w = ring.wp
      BY DEF StreamInv, BackTypes, Rings
    <3>3. PICK size \in 0 .. MaxSize : size = MaxSize - u
      BY <3>2, MaxSizeAssumption
    <3>4. Writing(ring) = Pieces(w, size)
      BY <1>3, <3>2, <3>3 DEF Writing, StreamInv, RingInStep
    <3>5. n \in 1 .. size /\ n \in Nat
      BY <2>2, <2>5, <3>1, <3>2, <3>3
    <3>6. data \in [Offsets -> Nat]
      <4>1. data \in [Offsets -> 0 .. UpBytes]
        BY DEF StreamInv, BackTypes
      <4> QED
        BY <1>1, <4>1
    <3>7. \A j \in 1 .. n : data'[Wrap(w + j - 1)] = upRead + j
      BY <1>1, <3>1, <3>4, <3>5, <3>6, FilledStores
    <3>8. PICK q \in Seq(SomeRefs), skip \in 0 .. n :
              /\ segs' = segs \o q
              /\ skip + Len(q) <= n
              /\ Stretch(q, data', w, skip)
      BY <3>1, <3>2 DEF RefersWithin
    <3>9. ASSUME NEW i \in 1 .. Len(q)
          PROVE  q[i].byte = (upRead + skip) + i /\ q[i].pos \in Offsets
      <4>1. PICK j \in 1 .. n : j = skip + i
        <5>1. skip + i \in 1 .. n
          BY <3>5, <3>8
        <5> QED
          BY <5>1
      <4>2. w + skip + i - 1 = w + j - 1 /\ upRead + j = (upRead + skip) + i
        BY <1>1, <3>5, <4>1, MaxSizeAssumption DEF Offsets
      <4>3. q[i] = Ref(data', Wrap(w + j - 1))
        BY <3>8, <4>2 DEF Stretch
      <4>4. q[i].byte = upRead + j
        BY <3>7, <4>3 DEF Ref
      <4>5. q[i].pos \in Offsets
        <5>1. q[i] \in SomeRefs
          BY <3>8
        <5> QED
          BY <5>1 DEF SomeRefs
      <4> QED
        BY <4>2, <4>4, <4>5
    <3>10. \A i \in 1 .. Len(q) : q[i] \in Held
      <4> SUFFICES ASSUME NEW i \in 1 .. Len(q) PROVE q[i] \in Held
        OBVIOUS
      <4>1. q[i] \in SomeRefs /\ q[i].byte = (upRead + skip) + i
        BY <3>8, <3>9
      <4>2. (upRead + skip) + i \in 1 .. UpBytes
        BY <1>1, <3>1, <3>5, <3>8
      <4> QED
        BY <4>1, <4>2 DEF SomeRefs, Held
    <3>11. q \in Seq(Held)
      BY <3>8, <3>10
    <3>12. /\ upRead' \in Nat /\ upRead + skip \in Nat /\ upRead + skip >= upRead
           /\ (upRead + skip) + Len(q) <= upRead'
      BY <1>1, <3>1, <3>5, <3>8
    <3> DEFINE base == upRead + skip
    <3>13. /\ base \in Nat /\ base >= upRead /\ base + Len(q) <= upRead'
           /\ \A i \in 1 .. Len(q) : q[i].byte = base + i
      BY <3>9, <3>12
    <3> HIDE DEF base
    <3>14. \E qq \in Seq(Held), b \in Nat :
              /\ segs' = segs \o qq
              /\ b >= upRead /\ b + Len(qq) <= upRead'
              /\ \A i \in 1 .. Len(qq) : qq[i].byte = b + i
      BY <3>8, <3>11, <3>13, Zenon
    <3> QED
      BY <1>3, <2>5, <3>12, <3>14, Zenon
  <2>6. n <= 0 \/ n > 0
    BY <2>2
  <2> QED
    BY <2>3, <2>4, <2>5, <2>6, Zenon
<1>4. resB < 0 \/ resB >= 0
  BY DEF StreamInv, BackTypes
<1> QED
  BY <1>2, <1>3, <1>4, Zenon

LEMMA RisingFrame ==
    ASSUME Rising, WithinRead, UNCHANGED <<segs, appGot, upRead>>
    PROVE  Rising' /\ WithinRead'
  BY DEF Rising, WithinRead

LEMMA RisingForgets ==
    ASSUME Rising, WithinRead, segs' = <<>>, UNCHANGED <<appGot, upRead>>
    PROVE  Rising' /\ WithinRead'
<1>1. Len(segs') = 0
  OBVIOUS
<1> QED
  BY <1>1 DEF Rising, WithinRead

LEMMA RisingReceives ==
    ASSUME StreamInv, Rising, WithinRead, NEW n \in 1 .. MaxSize, AppReceives(n)
    PROVE  Rising' /\ WithinRead'
<1>1. PICK g \in Nat, h \in Nat, m \in Nat : g = Len(appGot) /\ h = Len(segs) /\ m = n
  BY MaxSizeAssumption DEF StreamInv, BackTypes
<1>2. /\ m \in 1 .. h /\ Len(appGot') = g + m /\ Len(segs') = h - m /\ h - m \in Nat
      /\ \A i \in 1 .. g : appGot'[i] = appGot[i]
      /\ \A i \in 1 .. m : appGot'[g + i] = segs[i].byte
      /\ \A i \in 1 .. h - m : segs'[i] = segs[m + i]
  BY <1>1, ReceivesOldest
<1>3. upRead' = upRead
  BY DEF AppReceives
<1>4. \A i \in 1 .. g + m : i \in 1 .. g \/ \E k \in 1 .. m : i = g + k
  <2> SUFFICES ASSUME NEW i \in 1 .. g + m, i \notin 1 .. g PROVE \E k \in 1 .. m : i = g + k
    OBVIOUS
  <2>1. i - g \in 1 .. m /\ i = g + (i - g)
    BY <1>1
  <2> QED
    BY <2>1
<1>5. \A k \in 1 .. m : k \in 1 .. h
  BY <1>1, <1>2
<1>6. \A k \in 1 .. h - m : m + k \in 1 .. h
  BY <1>1, <1>2
<1>7. ASSUME NEW i \in 1 .. g + m, NEW j \in 1 .. g + m, i < j
      PROVE  appGot'[i] < appGot'[j]
  <2>1. CASE i \in 1 .. g /\ j \in 1 .. g
    BY <1>1, <1>2, <1>7, <2>1 DEF Rising
  <2>2. CASE i \in 1 .. g /\ j \notin 1 .. g
    <3>1. PICK k \in 1 .. m : j = g + k
      BY <1>4, <2>2
    <3> QED
      BY <1>1, <1>2, <1>5, <2>2, <3>1 DEF Rising
  <2>3. CASE i \notin 1 .. g
    <3>1. PICK k \in 1 .. m : i = g + k
      BY <1>4, <2>3
    <3>2. j \notin 1 .. g
      BY <1>1, <1>7, <3>1
    <3>3. PICK l \in 1 .. m : j = g + l
      BY <1>4, <3>2
    <3>4. k < l
      BY <1>1, <1>7, <3>1, <3>3
    <3> QED
      BY <1>1, <1>2, <1>5, <3>1, <3>3, <3>4 DEF Rising
  <2> QED
    BY <2>1, <2>2, <2>3
<1>8. ASSUME NEW i \in 1 .. h - m, NEW j \in 1 .. h - m, i < j
      PROVE  segs'[i].byte < segs'[j].byte
  <2>1. m + i < m + j
    BY <1>1, <1>8
  <2> QED
    BY <1>1, <1>2, <1>6, <2>1 DEF Rising
<1>9. ASSUME NEW i \in 1 .. g + m, NEW j \in 1 .. h - m
      PROVE  appGot'[i] < segs'[j].byte
  <2>1. CASE i \in 1 .. g
    BY <1>1, <1>2, <1>6, <2>1 DEF Rising
  <2>2. CASE i \notin 1 .. g
    <3>1. PICK k \in 1 .. m : i = g + k
      BY <1>4, <2>2
    <3>2. k < m + j
      BY <1>1
    <3> QED
      BY <1>1, <1>2, <1>5, <1>6, <3>1, <3>2 DEF Rising
  <2> QED
    BY <2>1, <2>2
<1>10. Rising'
  BY <1>2, <1>7, <1>8, <1>9 DEF Rising
<1>11. ASSUME NEW i \in 1 .. g + m PROVE appGot'[i] <= upRead
  <2>1. CASE i \in 1 .. g
    BY <1>1, <1>2, <2>1 DEF WithinRead
  <2>2. CASE i \notin 1 .. g
    <3>1. PICK k \in 1 .. m : i = g + k
      BY <1>4, <2>2
    <3> QED
      BY <1>1, <1>2, <1>5, <3>1 DEF WithinRead
  <2> QED
    BY <2>1, <2>2
<1>12. ASSUME NEW j \in 1 .. h - m PROVE segs'[j].byte <= upRead
  BY <1>1, <1>2, <1>6 DEF WithinRead
<1> QED
  BY <1>2, <1>3, <1>10, <1>11, <1>12 DEF WithinRead

LEMMA RisingBackward ==
    ASSUME StreamInv, Rising, WithinRead, Backward, appGot' = appGot
    PROVE  Rising' /\ WithinRead'
<1>0. upRead \in Nat /\ UpBytes \in Nat
  BY SessionAssumption DEF StreamInv, BackTypes
<1>1. PICK g \in Nat, h \in Nat : g = Len(appGot) /\ h = Len(segs)
  BY DEF StreamInv, BackTypes
<1>2. /\ \A i \in 1 .. g : appGot[i] \in Nat
      /\ \A j \in 1 .. h : segs[j].byte \in Nat
  <2>1. appGot \in Seq(1 .. UpBytes) /\ segs \in Seq(Held)
    BY DEF StreamInv, BackTypes
  <2>2. \A j \in 1 .. Len(segs) : segs[j] \in Held
    BY <2>1
  <2>3. \A i \in 1 .. Len(appGot) : appGot[i] \in 1 .. UpBytes
    BY <2>1, ElementOfSeq
  <2>4. \A j \in 1 .. h : segs[j].byte \in 1 .. UpBytes
    BY <1>1, <2>2 DEF Held
  <2>5. \A b \in 1 .. UpBytes : b \in Nat
    BY <1>0
  <2> QED
    BY <1>1, <2>3, <2>4, <2>5
<1>3. CASE segs' = segs /\ upRead' \in Nat /\ upRead' >= upRead
  <2>1. Rising'
    BY <1>3 DEF Rising
  <2>2. \A i \in 1 .. g : appGot[i] <= upRead'
    BY <1>0, <1>1, <1>2, <1>3 DEF WithinRead
  <2>3. \A j \in 1 .. h : segs[j].byte <= upRead'
    BY <1>0, <1>1, <1>2, <1>3 DEF WithinRead
  <2> QED
    BY <1>1, <1>3, <2>1, <2>2, <2>3 DEF WithinRead
<1>4. CASE upRead' \in Nat /\ \E q \in Seq(Held), base \in Nat :
              /\ segs' = segs \o q
              /\ base >= upRead /\ base + Len(q) <= upRead'
              /\ \A i \in 1 .. Len(q) : q[i].byte = base + i
  <2>1. PICK q \in Seq(Held), base \in Nat :
              /\ segs' = segs \o q
              /\ base >= upRead /\ base + Len(q) <= upRead'
              /\ \A i \in 1 .. Len(q) : q[i].byte = base + i
    BY <1>4
  <2>2. PICK m \in Nat : m = Len(q)
    BY <2>1
  <2>3. /\ Len(segs') = h + m
        /\ \A j \in 1 .. h + m : segs'[j] = IF j <= h THEN segs[j] ELSE q[j - h]
    BY <1>1, <2>1, <2>2, ConcatProperties DEF StreamInv, BackTypes
  <2>4. ASSUME NEW j \in 1 .. h
        PROVE  segs'[j].byte = segs[j].byte /\ segs[j].byte <= upRead
    <3>1. j <= h /\ j \in 1 .. h + m
      OBVIOUS
    <3> QED
      BY <1>1, <2>3, <3>1 DEF WithinRead
  <2>5. ASSUME NEW j \in 1 .. h + m, j > h
        PROVE  /\ segs'[j].byte = base + (j - h)
               /\ base + (j - h) > upRead /\ base + (j - h) <= base + m
    <3>1. PICK k \in 1 .. m : k = j - h /\ ~(j <= h)
      <4>1. j - h \in 1 .. m /\ ~(j <= h)
        BY <2>5
      <4> QED
        BY <4>1
    <3>2. segs'[j] = q[k]
      BY <2>3, <3>1
    <3>3. q[k].byte = base + k
      BY <2>1, <2>2
    <3>4. base + k > upRead /\ base + k <= base + m
      BY <1>0, <2>1
    <3> QED
      BY <3>1, <3>2, <3>3, <3>4
  <2>6. \A j \in 1 .. h + m : j \in 1 .. h \/ j > h
    OBVIOUS
  <2>7. ASSUME NEW i \in 1 .. h + m, NEW j \in 1 .. h + m, i < j
        PROVE  segs'[i].byte < segs'[j].byte
    <3>1. CASE i > h
      <4>1. j > h
        BY <2>7, <3>1
      <4> QED
        BY <2>5, <2>7, <3>1, <4>1
    <3>2. CASE i \in 1 .. h /\ j > h
      BY <1>0, <1>2, <2>4, <2>5, <3>2
    <3>3. CASE i \in 1 .. h /\ j \in 1 .. h
      BY <1>1, <2>4, <2>7, <3>3 DEF Rising
    <3> QED
      BY <2>6, <3>1, <3>2, <3>3
  <2>8. ASSUME NEW i \in 1 .. g, NEW j \in 1 .. h + m
        PROVE  appGot[i] < segs'[j].byte
    <3>1. CASE j \in 1 .. h
      BY <1>1, <2>4, <3>1 DEF Rising
    <3>2. CASE j > h
      <4>1. appGot[i] <= upRead /\ appGot[i] \in Nat
        BY <1>1, <1>2 DEF WithinRead
      <4> QED
        BY <1>0, <2>5, <3>2, <4>1
    <3> QED
      BY <2>6, <3>1, <3>2
  <2>9. upRead <= upRead' /\ upRead' \in Nat /\ base + m <= upRead'
    BY <1>0, <1>4, <2>1, <2>2
  <2>10. ASSUME NEW j \in 1 .. h + m PROVE segs'[j].byte <= upRead'
    <3>1. CASE j \in 1 .. h
      BY <1>0, <1>2, <2>4, <2>9, <3>1
    <3>2. CASE j > h
      BY <1>0, <2>5, <2>9, <3>2
    <3> QED
      BY <2>6, <3>1, <3>2
  <2>11. ASSUME NEW i \in 1 .. g PROVE appGot[i] <= upRead'
    BY <1>0, <1>1, <1>2, <2>9 DEF WithinRead
  <2>12. Rising'
    BY <1>1, <2>3, <2>7, <2>8 DEF Rising
  <2> QED
    BY <1>1, <2>3, <2>10, <2>11, <2>12 DEF WithinRead
<1> QED
  BY <1>3, <1>4, QueuesNewest

LEMMA RisingStep ==
    ASSUME StreamInv, Rising, WithinRead, [SessionNext]_sessionVars
    PROVE  Rising' /\ WithinRead'
<1>1. CASE Connect \/ Handshake \/ Drain \/ TimesOut \/ Upstream \/ UNCHANGED sessionVars
  <2>1. UNCHANGED <<segs, appGot, upRead>>
    BY <1>1 DEF Connect, Handshake, Drain, TimesOut, Upstream, UpstreamAnswers, UpstreamSends,
       UpstreamCloses, UpstreamResets, UpstreamTakes, sessionVars, bwdVars, appVars
  <2> QED
    BY <2>1, RisingFrame
<1>2. CASE Splice
  BY <1>2, RisingBackward DEF Splice, appVars
<1>3. CASE Destruct \/ PcbLost
  BY <1>3, RisingForgets DEF Destruct, PcbLost, appVars
<1>4. CASE \E n \in 1 .. MaxSize : AppReceives(n)
  BY <1>4, RisingReceives
<1>5. CASE AppSends \/ AppCloses \/ AppReceivesFin \/ TerminateSession
  <2>1. UNCHANGED <<segs, appGot, upRead>>
    BY <1>5 DEF AppSends, AppCloses, AppReceivesFin, TerminateSession, bwdVars, appVars
  <2> QED
    BY <2>1, RisingFrame
<1> QED
  BY <1>1, <1>2, <1>3, <1>4, <1>5 DEF SessionNext, TaskStep, Callback, Finished

-----------------------------------------------------------------------------
(* Sleeping.  The turn of the loop that goes to sleep has just found nothing *)
(* to do in either direction; whoever gives it something to do wakes it.     *)
LEMMA SleepsOnlyWhenIdle ==
    ASSUME SessionInv, StreamInv, Splice
    PROVE  NothingMissed'
<1> SUFFICES ASSUME spc' = "splice", state' = "asleep"
             PROVE  /\ pcb'
                    /\ resF' >= 0 => IF queue' > 0 THEN upRoom' = 0 /\ ~upDead'
                                                   ELSE ~pcbEof'
                    /\ resB' >= 0 => /\ ring'.rda = 0
                                     /\ \/ ring'.use = MaxSize
                                        \/ upRead' = upSent' /\ ~upFin' /\ ~upDead'
  BY DEF NothingMissed
<1>1. /\ Forward /\ Backward /\ Idle
      /\ pcb' = pcb /\ pcbEof' = pcbEof /\ upDead' = upDead /\ upSent' = upSent
      /\ upFin' = upFin
      /\ timeout # "zero" /\ spc = "splice"
  BY DEF Splice, WaitIo, GoOn, envVars, SessionInv, CountersOK
<1>2. resF' <= 0 /\ resB' <= 0
  BY <1>1 DEF Idle
<1>3. resF \in {-1, 0, 1} /\ queue \in Nat /\ upRoom \in Nat
  BY DEF SessionInv, CountersOK
<1>4. pcb'
  BY <1>1 DEF SessionInv, TerminatedNeverSleeps
<1>5. ASSUME resF' >= 0
      PROVE  IF queue' > 0 THEN upRoom' = 0 /\ ~upDead' ELSE ~pcbEof'
  <2>1. resF >= 0
    BY <1>1, <1>3, <1>5 DEF Forward, fwdVars
  <2>2. ~ShutsWhenDrained
    BY <1>1, <1>3, <1>5, <2>1 DEF Forward
  <2>3. CASE queue = 0
    BY <1>1, <1>3, <2>1, <2>2, <2>3 DEF Forward, ShutsWhenDrained
  <2>4. CASE queue # 0
    <3>1. PICK n \in WriteResults :
            IF n <= 0
            THEN resF' = n /\ UNCHANGED <<queue, rcvWnd, upRoom, upGot, shutWr>>
            ELSE resF' = 1
      BY <1>1, <1>3, <2>1, <2>2, <2>4 DEF Forward
    <3>2. n = -1 \/ n = 0 \/ n \in 1 .. queue
      BY DEF WriteResults
    <3>3. n = 0 /\ queue' = queue /\ upRoom' = upRoom
      BY <1>2, <1>3, <1>5, <3>1, <3>2
    <3>4. upRoom = 0 /\ ~upDead
      BY <1>3, <3>3 DEF WriteResults
    <3> QED
      BY <1>1, <1>3, <2>4, <3>3, <3>4
  <2> QED
    BY <2>3, <2>4
<1>6. ASSUME resB' >= 0
      PROVE  /\ ring'.rda = 0
             /\ \/ ring'.use = MaxSize
                \/ upRead' = upSent' /\ ~upFin' /\ ~upDead'
  <2>0. resB \in {-1, 0, 1} /\ upRead \in Nat /\ upSent \in Nat /\ upRead <= upSent
    BY SessionAssumption DEF StreamInv, BackTypes
  <2>1. resB >= 0
    BY <1>1, <1>6, <2>0 DEF Backward, bwdVars
  <2>2. PICK n \in ReadResults : AfterRead(n)
    BY <1>1, <2>0, <2>1 DEF Backward
  <2>3. n \in Int
    BY <2>0 DEF ReadResults
  <2>4. n <= 0
    <3> SUFFICES ASSUME n > 0 PROVE FALSE
      BY <2>3
    <3>1. resB' \in {-1, 1}
      BY <1>1, <1>4, <2>1, <2>2, BackwardReadsSome
    <3> QED
      BY <1>2, <1>6, <3>1
  <2>5. /\ upRead' = upRead /\ ring'.rda = 0 /\ ring'.use = ring.use /\ resB' = n
    BY <1>1, <1>4, <2>1, <2>2, <2>4, BackwardReadsNothing
  <2>6. n = 0
    BY <1>6, <2>3, <2>4, <2>5
  <2>7. CASE Writing(ring) = <<>>
    <3>1. ring.wp \in Offsets /\ ring.use \in 0 .. MaxSize /\ MaxSize \in Nat
      BY MaxSizeAssumption DEF StreamInv, BackTypes, Rings
    <3>2. MaxSize - ring.use \in 0 .. MaxSize
      BY <3>1
    <3>3. MaxSize - ring.use = 0
      BY <2>7, <3>1, <3>2, PiecesSpan DEF Writing
    <3> QED
      BY <2>5, <3>1, <3>3
  <2>8. CASE Writing(ring) # <<>>
    <3>1. ~upDead /\ ~(upSent > upRead) /\ ~upFin
      BY <2>0, <2>6, <2>8 DEF ReadResults
    <3> QED
      BY <1>1, <2>0, <2>5, <3>1
  <2> QED
    BY <2>7, <2>8
<1> QED
  BY <1>4, <1>5, <1>6

LEMMA NothingIsMissed ==
    ASSUME SessionInv, StreamInv, NothingMissed, [SessionNext]_sessionVars
    PROVE  NothingMissed'
<1>1. CASE Connect \/ Handshake \/ Drain \/ TimesOut \/ Destruct
  <2>1. spc' # "splice" \/ state' # "asleep"
    BY <1>1 DEF Connect, ConnectStep, Handshake, Drain, TimesOut, Destruct, WaitIo, GoOn
  <2> QED
    BY <2>1 DEF NothingMissed
<1>2. CASE Callback
  <2>1. CASE AppReceivesFin
    BY <2>1 DEF AppReceivesFin, NothingMissed, taskVars, fwdVars, bwdVars, envVars
  <2>2. CASE ~AppReceivesFin
    <3>1. state' # "asleep"
      BY <1>2, <2>2 DEF Callback, AppSends, AppCloses, AppReceives, PcbLost,
         TerminateSession, Terminated, RecvWakes, SentWakes, Woken
    <3> QED
      BY <3>1 DEF NothingMissed
  <2> QED
    BY <2>1, <2>2
<1>3. CASE Upstream
  <2>1. CASE UpstreamTakes /\ upRoom # 0
    <3>1. /\ queue' = queue /\ resF' = resF /\ state' = state
          /\ UNCHANGED <<spc, bwdVars, pcb, envVars>>
      BY <2>1 DEF UpstreamTakes
    <3>2. queue \in Nat /\ resF \in {-1, 0, 1}
      BY DEF SessionInv, CountersOK
    <3> QED
      BY <2>1, <3>1, <3>2 DEF NothingMissed, bwdVars, envVars
  <2>2. CASE ~(UpstreamTakes /\ upRoom # 0)
    <3>1. state' # "asleep"
      BY <1>3, <2>2 DEF Upstream, UpstreamAnswers, UpstreamSends, UpstreamCloses,
         UpstreamResets, UpstreamTakes, UpstreamEvent, Woken
    <3> QED
      BY <3>1 DEF NothingMissed
  <2> QED
    BY <2>1, <2>2
<1>4. CASE UNCHANGED sessionVars
  BY <1>4 DEF sessionVars, taskVars, fwdVars, bwdVars, envVars, NothingMissed
<1> QED
  BY <1>1, <1>2, <1>3, <1>4, SleepsOnlyWhenIdle DEF SessionNext, TaskStep, Finished

(* Neither an edge of epoll nor a call of hev_task_wakeup is lost: a session *)
(* that sleeps in the splice loop has nothing it could do.                   *)
THEOREM SleepsOnNothing == SessionSafety => []NothingMissed
<1>1. SessionInit => NothingMissed
  BY DEF SessionInit, TaskInit, NothingMissed
<1> QED
  BY <1>1, SessionInitInv, SessionStepInv, StreamInit, StreamStep, NothingIsMissed, PTL
     DEF SessionSafety

-----------------------------------------------------------------------------
(* The places of the program and the bounds of the counters that the         *)
(* arguments above do not need.                                              *)
Bounds ==
    /\ spc \in {"new", "connecting", "handshake", "splice", "drain", "leaving", "done"}
    /\ timeout \in {"unset", "connect", "tcp", "zero"}
    /\ queue <= Window /\ rcvWnd <= Window
    /\ appSent <= AppBytes /\ upGot <= appSent
    /\ upRoom <= SendRoom

LEMMA ForwardBounds ==
    ASSUME SessionInv, spc = "splice", Bounds, Splice
    PROVE  Bounds'
<1>1. /\ Forward /\ appSent' = appSent /\ timeout' = timeout
      /\ spc' \in {"splice", "drain"}
  BY DEF Splice, WaitIo, GoOn, envVars
<1>2. SessionInv'
  BY SpliceInv
<1>3. upGot' <= appSent' /\ queue' \in Nat /\ rcvWnd' \in Nat
  <2>1. /\ queue' \in Nat /\ rcvWnd' \in Nat /\ upGot' \in Nat /\ appSent' \in Nat
    BY <1>2 DEF SessionInv, CountersOK
  <2>2. upGot' + queue' = appSent'
    BY <1>1, <1>2 DEF SessionInv, BytesConserved
  <2>3. \A a, b, c \in Nat : a + b = c => a <= c
    OBVIOUS
  <2>4. upGot' <= appSent'
    BY <2>1, <2>2, <2>3, Zenon
  <2> QED
    BY <2>1, <2>4
<1>4. queue' <= queue /\ upRoom' <= upRoom /\ rcvWnd' <= Window
  <2>1. /\ queue \in Nat /\ upRoom \in Nat /\ rcvWnd \in Nat /\ Window \in Nat
        /\ rcvWnd <= Window
    BY SessionAssumption DEF SessionInv, CountersOK, Bounds
  <2> DEFINE Moves(n) == /\ n > 0 /\ queue' = queue - n /\ upRoom' = upRoom - n
                         /\ rcvWnd' = WindowOpened(n)
             Stays == queue' = queue /\ upRoom' = upRoom /\ rcvWnd' = rcvWnd
  <2>2. Stays \/ \E n \in WriteResults : Moves(n)
    <3>1. CASE resF < 0 \/ ShutsWhenDrained \/ queue = 0
      BY <1>1, <3>1 DEF Forward, fwdVars
    <3>2. CASE ~(resF < 0 \/ ShutsWhenDrained \/ queue = 0)
      <4>1. PICK n \in WriteResults :
              IF n <= 0
              THEN resF' = n /\ UNCHANGED <<queue, rcvWnd, upRoom, upGot, shutWr>>
              ELSE /\ queue' = queue - n
                   /\ rcvWnd' = WindowOpened(n)
                   /\ upRoom' = upRoom - n
        BY <1>1, <3>2 DEF Forward
      <4>2. n \in Int
        BY <2>1 DEF WriteResults
      <4> QED
        BY <4>1, <4>2
    <3> QED
      BY <3>1, <3>2
  <2>3. CASE \E n \in WriteResults : Moves(n)
    <3>1. PICK n \in WriteResults : Moves(n)
      BY <2>3
    <3>2. n \in 1 .. queue
      BY <3>1 DEF WriteResults
    <3>3. pcb => rcvWnd + queue = Window
      BY DEF SessionInv, WindowConserved
    <3> QED
      BY <2>1, <3>1, <3>2, <3>3 DEF WindowOpened
  <2> QED
    BY <2>1, <2>2, <2>3
<1>5. queue \in Nat /\ upRoom \in Nat /\ queue' \in Nat /\ upRoom' \in Nat /\ Window \in Nat
  BY <1>2, SessionAssumption DEF SessionInv, CountersOK
<1> QED
  BY <1>1, <1>3, <1>4, <1>5, SessionAssumption DEF Bounds

LEMMA BoundsStep ==
    ASSUME SessionInv, Bounds, [SessionNext]_sessionVars
    PROVE  Bounds'
<1>1. /\ queue \in Nat /\ rcvWnd \in Nat /\ appSent \in Nat /\ upGot \in Nat /\ upRoom \in Nat
      /\ Window \in Nat /\ AppBytes \in Nat /\ SendRoom \in Nat
  BY SessionAssumption DEF SessionInv, CountersOK
<1>2. CASE Connect \/ Handshake \/ Drain \/ TimesOut
  BY <1>2 DEF Connect, ConnectStep, Handshake, Drain, TimesOut, WaitIo, GoOn, SetTimeout,
     Bounds, fwdVars, envVars
<1>3. CASE Destruct
  BY <1>1, <1>3 DEF Destruct, Bounds, envVars
<1>4. CASE Splice
  BY <1>4, ForwardBounds DEF Splice
<1>5. CASE Callback
  <2>1. CASE AppSends
    <3>1. /\ queue' = queue + 1 /\ rcvWnd' = rcvWnd - 1 /\ appSent' = appSent + 1
          /\ appSent < AppBytes /\ rcvWnd > 0 /\ pcb
          /\ spc' = spc /\ timeout' = timeout /\ upGot' = upGot /\ upRoom' = upRoom
      BY <2>1 DEF AppSends
    <3>2. rcvWnd + queue = Window
      BY <3>1 DEF SessionInv, WindowConserved
    <3> QED
      BY <1>1, <3>1, <3>2 DEF Bounds
  <2>2. CASE ~AppSends
    <3>1. UNCHANGED <<spc, fwdVars, appSent>> /\ timeout' \in {timeout, "zero"}
      BY <1>5, <2>2 DEF Callback, AppCloses, AppReceives, AppReceivesFin, PcbLost,
         TerminateSession, Terminated, SetTimeout, taskVars, envVars
    <3> QED
      BY <3>1 DEF Bounds, fwdVars
  <2> QED
    BY <2>1, <2>2
<1>6. CASE Upstream
  <2>1. /\ UNCHANGED <<spc, timeout, queue, rcvWnd, appSent, upGot>>
        /\ upRoom' = upRoom \/ (upRoom < SendRoom /\ upRoom' = upRoom + 1)
    BY <1>6 DEF Upstream, UpstreamAnswers, UpstreamSends, UpstreamCloses, UpstreamResets,
       UpstreamTakes, UpstreamEvent, fwdVars, envVars
  <2> QED
    BY <1>1, <2>1 DEF Bounds
<1>7. CASE UNCHANGED sessionVars
  BY <1>7 DEF sessionVars, taskVars, fwdVars, envVars, Bounds
<1> QED
  BY <1>2, <1>3, <1>4, <1>5, <1>6, <1>7 DEF SessionNext, TaskStep, Finished

(* The types and bounds of the whole session, for every size of the window,  *)
(* the ring and the streams.                                                 *)
THEOREM SessionTypesHold == SessionSafety => []SessionTypeOK
<1>1. SessionInit => Bounds
  BY SessionAssumption DEF SessionInit, TaskInit, Bounds
<1>2. SessionInv /\ StreamInv /\ Bounds => SessionTypeOK
  <2> SUFFICES ASSUME SessionInv, StreamInv, Bounds PROVE SessionTypeOK
    OBVIOUS
  <2>1. /\ queue \in 0 .. Window /\ rcvWnd \in 0 .. Window /\ appSent \in 0 .. AppBytes
        /\ upRoom \in 0 .. SendRoom /\ upGot \in 0 .. AppBytes
        /\ upRead \in 0 .. UpBytes
    BY SessionAssumption DEF SessionInv, CountersOK, StreamInv, BackTypes, Bounds
  <2> QED
    BY <2>1 DEF SessionInv, CountersOK, StreamInv, BackTypes, Bounds, Held, SessionTypeOK
<1> QED
  BY <1>1, <1>2, SessionInitInv, SessionStepInv, StreamInit, StreamStep, BoundsStep, PTL
     DEF SessionSafety
-----------------------------------------------------------------------------
(* The two streams as ByteStream has them.                                   *)

(* The request: the upstream gets the bytes of the queue in their order, and *)
(* its end only behind the last of them.                                     *)
LEMMA ForwardMaps ==
    ASSUME SessionInv, spc # "done", Forward, UNCHANGED <<pcbEof, appSent>>
    PROVE  [Request!StreamNext]_(Request!streamVars)
<1>1. /\ queue \in Nat /\ upGot \in Nat /\ appSent \in Nat /\ resF \in {-1, 0, 1}
      /\ upGot + queue = appSent
  BY DEF SessionInv, CountersOK, BytesConserved
<1>2. CASE upGot' = upGot /\ shutWr' = shutWr
  BY <1>2 DEF Request!streamVars
<1>3. CASE resF >= 0 /\ ShutsWhenDrained
  <2>1. shutWr' = TRUE /\ upGot' = upGot /\ pcbEof /\ upGot = appSent
    BY <1>1, <1>3 DEF Forward, ShutsWhenDrained
  <2>2. Request!End
    BY <2>1 DEF Request!End, Request!FirstBytes
  <2> QED
    BY <2>2 DEF Request!StreamNext
<1>4. CASE resF >= 0 /\ ~ShutsWhenDrained /\ ~(upGot' = upGot /\ shutWr' = shutWr)
  <2>1. PICK n \in WriteResults : n > 0 /\ upGot' = upGot + n /\ shutWr' = shutWr
    <3>1. queue # 0
      BY <1>1, <1>4 DEF Forward
    <3>2. PICK n \in WriteResults :
            IF n <= 0
            THEN resF' = n /\ UNCHANGED <<queue, rcvWnd, upRoom, upGot, shutWr>>
            ELSE upGot' = upGot + n /\ UNCHANGED shutWr
      BY <1>1, <1>4, <3>1 DEF Forward
    <3>3. n \in Int
      BY <1>1 DEF WriteResults
    <3> QED
      BY <1>4, <3>2, <3>3
  <2>2. n \in 1 .. queue
    BY <2>1 DEF WriteResults
  <2>3. PICK m \in 1 .. appSent : m = upGot + n /\ upGot < m
    <3>1. upGot + n \in 1 .. appSent /\ upGot < upGot + n
      BY <1>1, <2>2
    <3> QED
      BY <3>1
  <2>4. ~shutWr
    BY <1>1, <1>4 DEF SessionInv, ShutIsFinal
  <2>5. Len([i \in 1 .. upGot |-> i]) = upGot
    BY <1>1
  <2>6. [i \in 1 .. upGot' |-> i] = Request!FirstBytes(m)
    BY <2>1, <2>3 DEF Request!FirstBytes
  <2>7. Request!Deliver
    BY <2>1, <2>3, <2>4, <2>5, <2>6 DEF Request!Deliver
  <2> QED
    BY <2>7 DEF Request!StreamNext
<1>5. CASE resF < 0
  BY <1>2, <1>5 DEF Forward, fwdVars
<1> QED
  BY <1>1, <1>2, <1>3, <1>4, <1>5

LEMMA RequestStep ==
    ASSUME SessionInv, [SessionNext]_sessionVars
    PROVE  [Request!StreamNext]_(Request!streamVars)
<1>1. CASE UNCHANGED <<appSent, pcbEof, upGot, shutWr>>
  BY <1>1 DEF Request!streamVars
<1>2. CASE Splice
  BY <1>2, ForwardMaps DEF Splice, envVars
<1>3. CASE AppSends
  <2>1. Request!Send
    <3>1. appSent' \in Nat /\ appSent' > appSent
      BY <1>3 DEF AppSends, SessionInv, CountersOK
    <3> QED
      BY <1>3, <3>1 DEF AppSends, Request!Send
  <2> QED
    BY <2>1 DEF Request!StreamNext
<1>4. CASE AppCloses
  <2>1. Request!Close
    BY <1>4 DEF AppCloses, fwdVars, Request!Close
  <2> QED
    BY <2>1 DEF Request!StreamNext
<1>5. CASE \/ Connect \/ Handshake \/ Drain \/ TimesOut \/ Destruct \/ Upstream
           \/ \E n \in 1 .. MaxSize : AppReceives(n)
           \/ AppReceivesFin \/ PcbLost \/ TerminateSession
           \/ UNCHANGED sessionVars
  <2>1. UNCHANGED <<appSent, pcbEof, upGot, shutWr>>
    BY <1>5 DEF Connect, Handshake, Drain, TimesOut, Destruct, Upstream, UpstreamAnswers,
       UpstreamSends, UpstreamCloses, UpstreamResets, UpstreamTakes, AppReceives,
       AppReceivesFin, PcbLost, TerminateSession, sessionVars, fwdVars, envVars
  <2> QED
    BY <1>1, <2>1
<1> QED
  BY <1>2, <1>3, <1>4, <1>5 DEF SessionNext, TaskStep, Callback, Finished

(* The answer: what the application has got is the beginning of what the     *)
(* upstream has sent, or, once lwIP has refused bytes, some of it.           *)
LEMMA ReceivesMaps ==
    ASSUME StreamInv, Rising, WithinRead, StreamInv', Rising', WithinRead',
           NEW n \in 1 .. MaxSize, AppReceives(n)
    PROVE  [Response!StreamNext]_(Response!streamVars)
<1>1. UNCHANGED <<upSent, upFin, upDead, resB, finOut, appEof, upRead, pcb>> /\ pcb
  BY DEF AppReceives, envVars
<1>2. PICK g \in Nat : g = Len(appGot)
  BY DEF StreamInv, BackTypes
<1>3. PICK m \in Nat : m = Len(appGot') /\ m > g
  <2>1. n \in Nat /\ n > 0 /\ Len(appGot') = Len(appGot) + n
    BY MaxSizeAssumption, ReceivesOldest
  <2> QED
    BY <1>2, <2>1
<1>4. \A i \in 1 .. g : appGot'[i] = appGot[i]
  BY <1>2, ReceivesOldest
<1>5. appGot \in Seq(1 .. UpBytes) /\ appGot' \in Seq(1 .. UpBytes)
  BY DEF StreamInv, BackTypes
<1>6. upRead \in Nat /\ upSent \in Nat /\ upRead <= upSent /\ UpBytes \in Nat
  BY SessionAssumption DEF StreamInv, BackTypes
<1>7. \A i \in 1 .. m : appGot'[i] \in 1 .. upSent
  <2> SUFFICES ASSUME NEW i \in 1 .. m PROVE appGot'[i] \in 1 .. upSent
    OBVIOUS
  <2>1. appGot'[i] \in 1 .. UpBytes
    BY <1>3, <1>5, ElementOfSeq
  <2>2. appGot'[i] <= upRead
    BY <1>1, <1>3 DEF WithinRead
  <2> QED
    BY <1>6, <2>1, <2>2
<1>8. GivenUp' = GivenUp
  BY <1>1 DEF GivenUp
<1>9. CASE GivenUp
  <2>1. SubSeq(appGot', 1, Len(appGot)) = appGot
    BY <1>2, <1>3, <1>4, <1>5, SMTT(30)
  <2>2. DOMAIN appGot' = 1 .. m
    BY <1>3, <1>5
  <2>3. Response!SomeBytes(appGot', upSent)
    BY <1>3, <1>7, <2>2 DEF Rising, Response!SomeBytes
  <2>4. Response!DeliverLate
    BY <1>1, <1>2, <1>3, <1>8, <1>9, <2>1, <2>3 DEF Response!DeliverLate
  <2> QED
    BY <2>4 DEF Response!StreamNext
<1>10. CASE ~GivenUp
  <2>1. resB >= 0 \/ finOut
    BY <1>10 DEF GivenUp, StreamInv, BackTypes
  <2>2. Complete'
    BY <1>1, <2>1 DEF StreamInv, StreamInOrder
  <2>3. appGot' = Response!FirstBytes(m)
    <3>1. \A i \in 1 .. m : appGot'[i] = i
      BY <1>3, <2>2 DEF Complete
    <3> QED
      BY <1>3, <1>5, <3>1 DEF Response!FirstBytes
  <2>4. m \in 1 .. upSent
    <3>1. m \in 1 .. m
      BY <1>3
    <3>2. appGot'[m] = m
      BY <1>3, <2>2, <3>1 DEF Complete
    <3> QED
      BY <1>7, <3>1, <3>2
  <2>5. ~appEof
    <3>1. segs # <<>>
      <4>1. n \in 1 .. Len(segs)
        BY ReceivesOldest
      <4> QED
        BY <4>1, MaxSizeAssumption
    <3> QED
      BY <3>1 DEF StreamInv, StreamInOrder
  <2>6. Response!Deliver
    BY <1>1, <1>2, <1>3, <1>8, <1>10, <2>3, <2>4, <2>5 DEF Response!Deliver
  <2> QED
    BY <2>6 DEF Response!StreamNext
<1> QED
  BY <1>9, <1>10

LEMMA ResponseStep ==
    ASSUME StreamInv, Rising, WithinRead, StreamInv', Rising', WithinRead',
           [SessionNext]_sessionVars
    PROVE  [Response!StreamNext]_(Response!streamVars)
<1>1. CASE UNCHANGED <<upSent, upFin, upDead, resB, finOut, appGot, appEof>>
  BY <1>1 DEF Response!streamVars, GivenUp
<1>2. CASE Splice
  <2>1. UNCHANGED <<upSent, upFin, upDead, appGot, appEof>> /\ Backward
    BY <1>2 DEF Splice, envVars, appVars
  <2>2. CASE GivenUp' = GivenUp
    BY <2>1, <2>2 DEF Response!streamVars
  <2>3. CASE GivenUp' # GivenUp
    <3>1. resB >= 0
      BY <2>1, <2>3 DEF Backward, bwdVars, GivenUp, StreamInv, BackTypes
    <3>2. ~appEof /\ ~GivenUp
      BY <3>1 DEF StreamInv, StreamInOrder, BackTypes, GivenUp
    <3>3. GivenUp' = TRUE
      BY <2>3, <3>2 DEF GivenUp
    <3>4. Response!GiveUp
      BY <2>1, <3>2, <3>3 DEF Response!GiveUp
    <3> QED
      BY <3>4 DEF Response!StreamNext
  <2> QED
    BY <2>2, <2>3
<1>3. CASE \E n \in 1 .. MaxSize : AppReceives(n)
  BY <1>3, ReceivesMaps
<1>4. CASE AppReceivesFin
  <2>1. /\ UNCHANGED <<upSent, upFin, upDead, resB, finOut, appGot>> /\ appEof' = TRUE
        /\ pcb /\ finOut /\ segs = <<>>
    BY <1>4 DEF AppReceivesFin, envVars, bwdVars
  <2>2. ~GivenUp /\ GivenUp' = GivenUp
    BY <2>1 DEF GivenUp
  <2>3. Complete /\ (upDead \/ (upFin /\ upRead = upSent))
    BY <2>1 DEF StreamInv, StreamInOrder
  <2>4. appGot = Response!FirstBytes(upRead)
    <3>1. appGot \in Seq(1 .. UpBytes) /\ upRead \in Nat
      BY SessionAssumption DEF StreamInv, BackTypes
    <3>2. Len(appGot) = upRead /\ \A i \in 1 .. Len(appGot) : appGot[i] = i
      BY <2>1, <2>3, <3>1 DEF Complete
    <3> QED
      BY <3>1, <3>2 DEF Response!FirstBytes
  <2>5. Response!End
    BY <2>1, <2>2, <2>3, <2>4 DEF Response!End
  <2> QED
    BY <2>5 DEF Response!StreamNext
<1>5. CASE Upstream
  <2>1. CASE UpstreamAnswers \/ UpstreamTakes
    BY <1>1, <2>1 DEF UpstreamAnswers, UpstreamTakes, bwdVars, envVars, appVars
  <2>2. CASE UpstreamSends
    <3>1. Response!Send
      <4>1. upSent' \in Nat /\ upSent' > upSent
        BY <2>2 DEF UpstreamSends, StreamInv, BackTypes
      <4> QED
        BY <2>2, <4>1 DEF UpstreamSends, bwdVars, appVars, GivenUp, Response!Send
    <3> QED
      BY <3>1 DEF Response!StreamNext
  <2>3. CASE UpstreamCloses
    <3>1. Response!Close
      BY <2>3 DEF UpstreamCloses, bwdVars, appVars, GivenUp, Response!Close
    <3> QED
      BY <3>1 DEF Response!StreamNext
  <2>4. CASE UpstreamResets
    <3>1. Response!Break
      BY <2>4 DEF UpstreamResets, bwdVars, appVars, GivenUp, Response!Break
    <3> QED
      BY <3>1 DEF Response!StreamNext
  <2> QED
    BY <1>5, <2>1, <2>2, <2>3, <2>4 DEF Upstream
<1>6. CASE \/ Connect \/ Handshake \/ Drain \/ TimesOut \/ Destruct
           \/ AppSends \/ AppCloses \/ PcbLost \/ TerminateSession
           \/ UNCHANGED sessionVars
  <2>1. UNCHANGED <<upSent, upFin, upDead, resB, finOut, appGot, appEof>>
    BY <1>6 DEF Connect, Handshake, Drain, TimesOut, Destruct, AppSends, AppCloses,
       PcbLost, TerminateSession, sessionVars, bwdVars, envVars, appVars
  <2> QED
    BY <1>1, <2>1
<1> QED
  BY <1>2, <1>3, <1>4, <1>5, <1>6 DEF SessionNext, TaskStep, Callback, Finished

(* The session carries two byte streams and betrays neither: for any window, *)
(* ring, room and number of bytes, each step of the session is a step of the *)
(* streams that the two applications see, or none.                           *)
THEOREM SessionCarriesStreams == SessionSafety => ImplementsStreams
<1>1. SessionInit => Request!StreamInit /\ Response!StreamInit
  <2> SUFFICES ASSUME SessionInit PROVE Request!StreamInit /\ Response!StreamInit
    OBVIOUS
  <2>1. [i \in 1 .. upGot |-> i] = <<>>
    BY DEF SessionInit
  <2> QED
    BY <2>1 DEF SessionInit, GivenUp, Request!StreamInit, Response!StreamInit
<1>2. SessionInit => Rising /\ WithinRead
  BY DEF SessionInit, Rising, WithinRead
<1>3. /\ SessionInv /\ StreamInv /\ Rising /\ WithinRead
      /\ SessionInv' /\ StreamInv' /\ Rising' /\ WithinRead'
      /\ [SessionNext]_sessionVars
      => /\ [Request!StreamNext]_(Request!streamVars)
         /\ [Response!StreamNext]_(Response!streamVars)
  BY RequestStep, ResponseStep
<1>4. SessionInv /\ StreamInv /\ Rising /\ WithinRead /\ [SessionNext]_sessionVars
      => SessionInv' /\ StreamInv' /\ Rising' /\ WithinRead'
  BY SessionStepInv, StreamStep, RisingStep
<1> QED
  BY <1>1, <1>2, <1>3, <1>4, SessionInitInv, StreamInit, PTL
     DEF SessionSafety, ImplementsStreams, Request!StreamSpec, Response!StreamSpec
=============================================================================
