---------------------- MODULE NetworkOrchestratorProofs ----------------------
(***************************************************************************)
(* Proofs about NetworkOrchestrator, for any length of the main thread's   *)
(* queue, and about ClearAllData, for any number of wipes under way.       *)
(*                                                                         *)
(* A stop closes the door to what Tor reports late, because the receiver   *)
(* is unregistered with it and Android then drops what is on its way       *)
(* (DoorClosed).  What becomes of a service is decided by the last piece   *)
(* of work for it in the queue (LastOf): a service that is not wanted is   *)
(* gone or has its destruction last (TorIsGone, VpnWillGo), one that was   *)
(* only started to be told to stop has that last (StopComesLast), and work *)
(* that is taken from the head or put at the end for others changes        *)
(* nothing of this.                                                        *)
(***************************************************************************)
EXTENDS ClearAllData, SequenceTheorems, TLAPS

DoorClosed ==
    /\ stopped => ~receiver
    /\ ~receiver => mail = {}

OrchestratorInv == TypeOK /\ DoorClosed

StartsIn(q) == {i \in DOMAIN q : q[i] = "start VPN"}

-----------------------------------------------------------------------------
(* Work that is put at the end of a queue, and taken from its head.          *)
LEMMA QueueJoins ==
    ASSUME NEW p \in Seq(Work), NEW q \in Seq(Work)
    PROVE  /\ p \o q \in Seq(Work)
           /\ \A i \in DOMAIN (p \o q) :
                \/ \E j \in DOMAIN p : p[j] = (p \o q)[i]
                \/ \E j \in DOMAIN q : q[j] = (p \o q)[i]
<1>1. p \o q \in Seq(Work)
  OBVIOUS
<1>2. ASSUME NEW i \in DOMAIN (p \o q)
      PROVE  \/ \E j \in DOMAIN p : p[j] = (p \o q)[i]
             \/ \E j \in DOMAIN q : q[j] = (p \o q)[i]
  <2>1. i \in 1..(Len(p) + Len(q))
    OBVIOUS
  <2>2. CASE i <= Len(p)
    <3>1. i \in DOMAIN p /\ (p \o q)[i] = p[i]
      BY <2>1, <2>2
    <3>2. QED
      BY <3>1
  <2>3. CASE i > Len(p)
    <3>1. i - Len(p) \in DOMAIN q /\ (p \o q)[i] = q[i - Len(p)]
      BY <2>1, <2>3
    <3>2. QED
      BY <3>1
  <2>4. QED
    BY <2>1, <2>2, <2>3
<1>3. QED
  BY <1>1, <1>2

LEMMA QueueShrinks ==
    ASSUME NEW q \in Seq(Work), q # <<>>
    PROVE  /\ Tail(q) \in Seq(Work)
           /\ \A i \in DOMAIN Tail(q) : \E j \in DOMAIN q : q[j] = Tail(q)[i]
<1>1. Tail(q) \in Seq(Work)
  OBVIOUS
<1>2. ASSUME NEW i \in DOMAIN Tail(q)
      PROVE  i + 1 \in DOMAIN q /\ q[i + 1] = Tail(q)[i]
  BY <1>2
<1>3. QED
  BY <1>1, <1>2

LEMMA QueueAppends ==
    ASSUME NEW q \in Seq(Work), NEW w \in Work
    PROVE  /\ Append(q, w) \in Seq(Work)
           /\ w # "start VPN" => (StartsIn(Append(q, w)) # {} => StartsIn(q) # {})
<1>1. /\ Append(q, w) \in Seq(Work) /\ DOMAIN Append(q, w) = 1..(Len(q) + 1)
      /\ Append(q, w)[Len(q) + 1] = w
      /\ \A i \in 1..Len(q) : Append(q, w)[i] = q[i]
  BY AppendProperties, LenProperties
<1>2. DOMAIN q = 1..Len(q) /\ Len(q) \in Nat
  BY LenProperties
<1>3. ASSUME w # "start VPN", NEW i \in 1..(Len(q) + 1),
             Append(q, w)[i] = "start VPN"
      PROVE  i \in StartsIn(q)
  <2>1. i # Len(q) + 1
    BY <1>1, <1>3
  <2>2. i \in 1..Len(q)
    BY <1>2, <2>1
  <2>3. QED
    BY <1>1, <1>2, <1>3, <2>2 DEF StartsIn
<1>4. QED
  BY <1>1, <1>3 DEF StartsIn

(* What the destruction of a service, and stop, put into the queue.          *)
LEMMA SmallQueues ==
    /\ <<>> \in Seq(Work) /\ StartsIn(<<>>) = {}
    /\ \A w \in Work :
        w # "start VPN" => <<w>> \in Seq(Work) /\ StartsIn(<<w>>) = {}
<1>1. <<>> \in Seq(Work) /\ StartsIn(<<>>) = {}
  BY DEF StartsIn
<1>2. ASSUME NEW w \in Work, w # "start VPN"
      PROVE  <<w>> \in Seq(Work) /\ StartsIn(<<w>>) = {}
  <2>1. <<w>> \in Seq(Work)
    OBVIOUS
  <2>2. DOMAIN <<w>> = {1} /\ <<w>>[1] = w
    OBVIOUS
  <2>3. QED
    BY <1>2, <2>1, <2>2 DEF StartsIn
<1>3. QED
  BY <1>1, <1>2

LEMMA StartsOfJoin ==
    ASSUME NEW p \in Seq(Work), NEW q \in Seq(Work), StartsIn(q) = {}
    PROVE  p \o q \in Seq(Work) /\ (StartsIn(p \o q) # {} => StartsIn(p) # {})
<1>1. ASSUME NEW i \in StartsIn(p \o q) PROVE StartsIn(p) # {}
  <2>1. i \in DOMAIN (p \o q) /\ (p \o q)[i] = "start VPN"
    BY DEF StartsIn
  <2>2. ~ \E j \in DOMAIN q : q[j] = "start VPN"
    BY DEF StartsIn
  <2>3. \/ \E j \in DOMAIN p : p[j] = (p \o q)[i]
        \/ \E j \in DOMAIN q : q[j] = (p \o q)[i]
    BY <2>1, QueueJoins, Zenon
  <2>4. \E j \in DOMAIN p : p[j] = "start VPN"
    BY <2>1, <2>2, <2>3, Zenon
  <2>5. QED
    BY <2>4 DEF StartsIn
<1>2. QED
  BY <1>1, QueueJoins

LEMMA StartsOfTail ==
    ASSUME NEW q \in Seq(Work), q # <<>>
    PROVE  Tail(q) \in Seq(Work) /\ (StartsIn(Tail(q)) # {} => StartsIn(q) # {})
  BY QueueShrinks, ZenonT(30) DEF StartsIn

LEMMA TorIsDestroyedQuietly == DestroysTor \in Seq(Work) /\ StartsIn(DestroysTor) = {}
  BY SmallQueues DEF DestroysTor, Work

LEMMA VpnIsDestroyedQuietly ==
    \A s \in DestroysVpn : s \in Seq(Work) /\ StartsIn(s) = {}
  BY SmallQueues DEF DestroysVpn, Work

LEMMA HandlesQuietly ==
    ASSUME looper \in Seq(Work), NEW more \in Seq(Work), StartsIn(more) = {},
           NEW work \in Work, Handles(work, more)
    PROVE  looper' \in Seq(Work) /\ (StartsIn(looper') # {} => StartsIn(looper) # {})
<1>1. Tail(looper) \in Seq(Work) /\ (StartsIn(Tail(looper)) # {} => StartsIn(looper) # {})
  BY StartsOfTail DEF Handles
<1>2. QED
  BY <1>1, StartsOfJoin DEF Handles

-----------------------------------------------------------------------------
(* What every step does to the queue and to the door.                        *)
NoNewStart == StartsIn(looper') # {} => StartsIn(looper) # {}

LEMMA OrchestratorInit == Init => OrchestratorInv
  BY SmallQueues DEF Init, OrchestratorInv, TypeOK, DoorClosed

LEMMA OrchestratorStep ==
    OrchestratorInv /\ [Next]_vars => OrchestratorInv' /\ (stopped' => NoNewStart)
<1> SUFFICES ASSUME OrchestratorInv, [Next]_vars
             PROVE  OrchestratorInv' /\ (stopped' => NoNewStart)
  OBVIOUS
<1>q. looper \in Seq(Work)
  BY DEF OrchestratorInv, TypeOK
<1>w. {"start Tor", "stop Tor", "destroy Tor", "start VPN", "destroy VPN"} = Work
  BY DEF Work
<1> USE DEF OrchestratorInv, TypeOK, DoorClosed, NoNewStart, routeVars, torVars,
            Broadcasts
<1>1. CASE StartTorThenVpn
  BY <1>1, <1>q, <1>w, QueueAppends DEF StartTorThenVpn
<1>2. CASE StopRoute
  <2>1. PICK s \in DestroysVpn : looper' = looper \o s \o <<"stop Tor">>
    BY <1>2 DEF StopRoute, StopsVpn
  <2>2. looper \o s \in Seq(Work) /\ (StartsIn(looper \o s) # {} => StartsIn(looper) # {})
    BY <1>q, VpnIsDestroyedQuietly, StartsOfJoin
  <2>3. looper' \in Seq(Work) /\ NoNewStart
    BY <1>w, <2>1, <2>2, SmallQueues, StartsOfJoin
  <2>4. QED
    BY <1>2, <2>3 DEF StopRoute, Unregister
<1>3. ASSUME Deliver PROVE OrchestratorInv' /\ (stopped' => NoNewStart)
  <2>1. CASE ReceiveReady
    <3>1. ~stopped' /\ looper' \in Seq(Work)
      BY <1>q, <1>w, <2>1, QueueAppends DEF ReceiveReady
    <3>2. QED
      BY <2>1, <3>1 DEF ReceiveReady
  <2>2. CASE ReceiveError
    <3>1. PICK s \in DestroysVpn : looper' = looper \o s \o DestroysTor
      BY <2>2 DEF ReceiveError, StopWithError
    <3>2. looper \o s \in Seq(Work) /\ (StartsIn(looper \o s) # {} => StartsIn(looper) # {})
      BY <1>q, VpnIsDestroyedQuietly, StartsOfJoin
    <3>3. looper' \in Seq(Work) /\ NoNewStart
      BY <3>1, <3>2, TorIsDestroyedQuietly, StartsOfJoin
    <3>4. QED
      BY <2>2, <3>3 DEF ReceiveError, StopWithError, Unregister
  <2>3. CASE ReceiveStopped
    BY <2>3 DEF ReceiveStopped, Unregister
  <2>4. QED
    BY <1>3, <2>1, <2>2, <2>3 DEF Deliver
<1>4. CASE TorStarts
  <2>1. looper' \in Seq(Work) /\ NoNewStart
    BY <1>4, <1>q, <1>w, SmallQueues, HandlesQuietly DEF TorStarts
  <2>2. QED
    BY <1>4, <2>1 DEF TorStarts
<1>5. CASE TorConfigFails
  <2>1. looper' \in Seq(Work) /\ NoNewStart
    BY <1>5, <1>q, <1>w, TorIsDestroyedQuietly, HandlesQuietly DEF TorConfigFails
  <2>2. QED
    BY <1>5, <2>1 DEF TorConfigFails, Send
<1>6. CASE TorStops
  <2>1. looper' \in Seq(Work) /\ NoNewStart
    BY <1>6, <1>q, <1>w, TorIsDestroyedQuietly, HandlesQuietly DEF TorStops
  <2>2. QED
    BY <1>6, <2>1 DEF TorStops, StopTor, StopsTor
<1>7. CASE TorDestroyed
  <2>1. looper' \in Seq(Work) /\ NoNewStart
    BY <1>7, <1>q, <1>w, SmallQueues, HandlesQuietly DEF TorDestroyed
  <2>2. QED
    BY <1>7, <2>1 DEF TorDestroyed, StopsTor
<1>8. CASE VpnStarts \/ VpnDestroyed
  <2>1. looper' \in Seq(Work) /\ NoNewStart
    BY <1>8, <1>q, <1>w, SmallQueues, HandlesQuietly DEF VpnStarts, VpnDestroyed
  <2>2. vpnUp' \in BOOLEAN
    BY <1>8 DEF VpnStarts, VpnDestroyed
  <2>3. UNCHANGED <<routeVars, torWanted, torVars, vpnWanted>>
    BY <1>8 DEF VpnStarts, VpnDestroyed
  <2>4. QED
    BY <2>1, <2>2, <2>3
<1>9. CASE TorConnected \/ TorConnectedInVain \/ TorDisconnected
  <2>1. mail' \subseteq Broadcasts /\ (~receiver => mail' = {})
    BY <1>9 DEF TorConnected, TorConnectedInVain, TorDisconnected, Send
  <2>2. /\ connection' \in {"waiting", "connected"} /\ torBound' \in BOOLEAN
        /\ UNCHANGED <<receiver, stopped, looper, torWanted, torRuns, vpnWanted, vpnUp>>
    BY <1>9 DEF TorConnected, TorConnectedInVain, TorDisconnected
  <2>3. QED
    BY <2>1, <2>2
<1>10. CASE VpnRevoked
  <2>1. looper' \in Seq(Work) /\ NoNewStart
    BY <1>10, <1>q, <1>w, QueueAppends DEF VpnRevoked
  <2>2. QED
    BY <1>10, <2>1 DEF VpnRevoked
<1>11. CASE UNCHANGED vars
  BY <1>11 DEF vars
<1>12. QED
  BY <1>1, <1>2, <1>3, <1>4, <1>5, <1>6, <1>7, <1>8, <1>9, <1>10, <1>11
     DEF Next, MainThread

LEMMA OrchestratorInvariant == Spec => []OrchestratorInv
  BY OrchestratorInit, OrchestratorStep, PTL DEF Spec

(* The places of the orchestrator and of the Tor service; torBound is never  *)
(* raised without a binding.                                                 *)
THEOREM OrchestratorTypes == Spec => []TypeOK
  BY OrchestratorInvariant, PTL DEF OrchestratorInv

(* After stop, or stopWithError, no broadcast starts the VPN any more: the   *)
(* queue of the main thread holds a start of the VPN only if it held one.    *)
THEOREM NoLateVpn == Spec => NoVpnAfterStop
<1>1. OrchestratorInv /\ [Next]_vars =>
        [stopped' => \A i \in DOMAIN looper' :
                        looper'[i] = "start VPN" => Ahead("start VPN") # {}]_vars
  BY OrchestratorStep DEF NoNewStart, StartsIn, Ahead
<1>2. QED
  BY <1>1, OrchestratorInvariant, PTL DEF Spec, NoVpnAfterStop

-----------------------------------------------------------------------------
(* What comes last in the queue.  Of all the work for one service only the   *)
(* last piece decides what becomes of it.                                    *)
NoOf(q, kinds) == \A i \in 1 .. Len(q) : q[i] \notin kinds

LastOf(q, w, kinds) ==
    \E i \in 1 .. Len(q) : /\ q[i] = w
                           /\ \A k \in 1 .. Len(q) : k > i => q[k] \notin kinds

LEMMA LastJoins ==
    ASSUME NEW kinds, NEW p \in Seq(Work), NEW q \in Seq(Work), NoOf(q, kinds)
    PROVE  /\ p \o q \in Seq(Work)
           /\ NoOf(p, kinds) => NoOf(p \o q, kinds)
           /\ \A w : LastOf(p, w, kinds) => LastOf(p \o q, w, kinds)
<1>1. /\ p \o q \in Seq(Work) /\ Len(p \o q) = Len(p) + Len(q)
      /\ Len(p) \in Nat /\ Len(q) \in Nat
      /\ \A i \in 1 .. Len(p) + Len(q) :
            (p \o q)[i] = IF i <= Len(p) THEN p[i] ELSE q[i - Len(p)]
  BY ConcatProperties, LenProperties
<1>2. \A i \in 1 .. Len(p) + Len(q) : i > Len(p) => (p \o q)[i] \notin kinds
  <2> SUFFICES ASSUME NEW i \in 1 .. Len(p) + Len(q), i > Len(p)
               PROVE  (p \o q)[i] \notin kinds
    OBVIOUS
  <2>1. i - Len(p) \in 1 .. Len(q) /\ (p \o q)[i] = q[i - Len(p)]
    BY <1>1
  <2> QED
    BY <2>1 DEF NoOf
<1>3. \A i \in 1 .. Len(p) : i \in 1 .. Len(p) + Len(q) /\ (p \o q)[i] = p[i]
  BY <1>1
<1>4. NoOf(p, kinds) => NoOf(p \o q, kinds)
  <2> SUFFICES ASSUME NoOf(p, kinds), NEW i \in 1 .. Len(p) + Len(q)
               PROVE  (p \o q)[i] \notin kinds
    BY <1>1 DEF NoOf
  <2>1. CASE i <= Len(p)
    <3>1. i \in 1 .. Len(p)
      BY <1>1, <2>1
    <3> QED
      BY <1>3, <3>1 DEF NoOf
  <2>2. i <= Len(p) \/ i > Len(p)
    BY <1>1
  <2> QED
    BY <1>2, <2>1, <2>2
<1>5. ASSUME NEW w, LastOf(p, w, kinds) PROVE LastOf(p \o q, w, kinds)
  <2>1. PICK i \in 1 .. Len(p) :
          p[i] = w /\ \A k \in 1 .. Len(p) : k > i => p[k] \notin kinds
    BY <1>5 DEF LastOf
  <2>2. ASSUME NEW k \in 1 .. Len(p) + Len(q), k > i PROVE (p \o q)[k] \notin kinds
    <3>1. CASE k <= Len(p)
      <4>1. k \in 1 .. Len(p)
        BY <1>1, <3>1
      <4> QED
        BY <1>3, <2>1, <2>2, <4>1
    <3>2. k <= Len(p) \/ k > Len(p)
      BY <1>1
    <3> QED
      BY <1>2, <3>1, <3>2
  <2> QED
    BY <1>1, <1>3, <2>1, <2>2 DEF LastOf
<1> QED
  BY <1>1, <1>4, <1>5

LEMMA LastIsPut ==
    ASSUME NEW kinds, NEW p \in Seq(Work), NEW w \in Work
    PROVE  p \o <<w>> \in Seq(Work) /\ LastOf(p \o <<w>>, w, kinds)
<1>1. <<w>> \in Seq(Work) /\ Len(<<w>>) = 1 /\ <<w>>[1] = w
  OBVIOUS
<1>2. PICK m \in Nat : m = Len(p)
  BY LenProperties
<1>3. /\ p \o <<w>> \in Seq(Work) /\ Len(p \o <<w>>) = m + 1
      /\ (p \o <<w>>)[m + 1] = w
  <2>1. /\ p \o <<w>> \in Seq(Work) /\ Len(p \o <<w>>) = Len(p) + Len(<<w>>)
        /\ \A i \in 1 .. Len(p) + Len(<<w>>) :
              (p \o <<w>>)[i] = IF i <= Len(p) THEN p[i] ELSE <<w>>[i - Len(p)]
    BY <1>1, ConcatProperties
  <2>2. m + 1 \in 1 .. Len(p) + Len(<<w>>) /\ ~(m + 1 <= Len(p)) /\ (m + 1) - Len(p) = 1
    BY <1>1, <1>2
  <2>3. (p \o <<w>>)[m + 1] = <<w>>[(m + 1) - Len(p)]
    BY <2>1, <2>2
  <2> QED
    BY <1>1, <1>2, <2>1, <2>2, <2>3
<1>4. \A k \in 1 .. m + 1 : ~(k > m + 1)
  BY <1>2
<1> QED
  BY <1>3, <1>4 DEF LastOf

LEMMA LastOfTail ==
    ASSUME NEW kinds, NEW q \in Seq(Work), q # <<>>
    PROVE  /\ Tail(q) \in Seq(Work)
           /\ NoOf(q, kinds) => NoOf(Tail(q), kinds) /\ Head(q) \notin kinds
           /\ \A w : LastOf(q, w, kinds) =>
                 LastOf(Tail(q), w, kinds) \/ (Head(q) = w /\ NoOf(Tail(q), kinds))
<1>1. PICK m \in Nat : m = Len(q) /\ m > 0
  BY LenProperties, EmptySeq
<1>2. /\ Tail(q) \in Seq(Work) /\ Len(Tail(q)) = m - 1 /\ Head(q) = q[1]
      /\ \A i \in 1 .. m - 1 : Tail(q)[i] = q[i + 1]
  BY <1>1, HeadTailProperties
<1>3. \A i \in 1 .. m - 1 : i + 1 \in 1 .. m
  BY <1>1
<1>4. ASSUME NoOf(q, kinds) PROVE NoOf(Tail(q), kinds) /\ Head(q) \notin kinds
  BY <1>1, <1>2, <1>3, <1>4 DEF NoOf
<1>5. ASSUME NEW w, LastOf(q, w, kinds)
      PROVE  LastOf(Tail(q), w, kinds) \/ (Head(q) = w /\ NoOf(Tail(q), kinds))
  <2>1. PICK i \in 1 .. m : q[i] = w /\ \A k \in 1 .. m : k > i => q[k] \notin kinds
    BY <1>1, <1>5 DEF LastOf
  <2>2. \A k \in 1 .. m - 1 : k + 1 > i => Tail(q)[k] \notin kinds
    BY <1>2, <1>3, <2>1
  <2>3. CASE i = 1
    <3>1. \A k \in 1 .. m - 1 : k + 1 > i
      BY <1>1, <2>3
    <3> QED
      BY <1>2, <2>1, <2>2, <2>3, <3>1 DEF NoOf
  <2>4. CASE i > 1
    <3>1. PICK j \in 1 .. m - 1 : j = i - 1
      BY <1>1, <2>4
    <3>2. Tail(q)[j] = w
      <4>1. j + 1 = i
        BY <1>1, <3>1
      <4> QED
        BY <1>2, <2>1, <4>1
    <3>3. \A k \in 1 .. m - 1 : k > j => k + 1 > i
      BY <1>1, <3>1
    <3> QED
      BY <1>2, <2>2, <3>2, <3>3 DEF LastOf
  <2> QED
    BY <1>1, <2>3, <2>4
<1> QED
  BY <1>2, <1>4, <1>5

(* The main thread takes up its next piece of work.                          *)
LEMMA LastHandled ==
    ASSUME looper \in Seq(Work), NEW kinds, NEW work, NEW more \in Seq(Work),
           Handles(work, more), NoOf(more, kinds)
    PROVE  /\ looper' \in Seq(Work)
           /\ NoOf(looper, kinds) => NoOf(looper', kinds) /\ work \notin kinds
           /\ \A w : LastOf(looper, w, kinds) =>
                 LastOf(looper', w, kinds) \/ (work = w /\ NoOf(looper', kinds))
<1>1. PICK rest : rest = Tail(looper)
  OBVIOUS
<1>2. looper # <<>> /\ Head(looper) = work /\ looper' = rest \o more
  BY <1>1 DEF Handles
<1>3. /\ rest \in Seq(Work)
      /\ NoOf(looper, kinds) => NoOf(rest, kinds) /\ work \notin kinds
      /\ \A w : LastOf(looper, w, kinds) =>
            LastOf(rest, w, kinds) \/ (work = w /\ NoOf(rest, kinds))
  BY <1>1, <1>2, LastOfTail
<1>4. /\ rest \o more \in Seq(Work)
      /\ NoOf(rest, kinds) => NoOf(rest \o more, kinds)
      /\ \A w : LastOf(rest, w, kinds) => LastOf(rest \o more, w, kinds)
  BY <1>3, LastJoins
<1> QED
  BY <1>2, <1>3, <1>4

-----------------------------------------------------------------------------
(* What is left of Tor and of the VPN.  A service that is no longer wanted   *)
(* is gone, or its destruction is the last that waits for it; one that is    *)
(* wanted only to be told to stop has that told last (StopComesLast).        *)
TorWork == {"start Tor", "stop Tor", "destroy Tor"}
VpnWork == {"start VPN", "destroy VPN"}

TorIsGone ==
    \/ torWanted
    \/ LastOf(looper, "destroy Tor", TorWork)
    \/ NoOf(looper, TorWork) /\ ~torRuns /\ connection = "none"

StopComesLast == torWanted => LastOf(looper, "stop Tor", TorWork)

VpnIsGone ==
    \/ LastOf(looper, "destroy VPN", VpnWork)
    \/ NoOf(looper, VpnWork)
    \/ vpnUp /\ NoOf(looper, {"destroy VPN"})

(* Everything the orchestrator and the services do, but for a new start.     *)
RouteGoesOn ==
    \/ StopRoute \/ Deliver \/ MainThread
    \/ TorConnected \/ TorConnectedInVain \/ TorDisconnected \/ VpnRevoked

LEMMA QuietWork ==
    /\ DestroysTor \in Seq(Work) /\ NoOf(DestroysTor, VpnWork)
    /\ NoOf(DestroysTor, {"destroy VPN"})
    /\ \A s \in DestroysVpn : s \in Seq(Work) /\ NoOf(s, TorWork)
    /\ <<>> \in Seq(Work) /\ \A kinds : NoOf(<<>>, kinds)
    /\ \A w \in Work : <<w>> \in Seq(Work)
    /\ NoOf(<<"start Tor">>, VpnWork) /\ NoOf(<<"start Tor">>, {"destroy VPN"})
    /\ NoOf(<<"stop Tor">>, VpnWork) /\ NoOf(<<"stop Tor">>, {"destroy VPN"})
    /\ NoOf(<<"start VPN">>, TorWork) /\ NoOf(<<"destroy VPN">>, TorWork)
<1>1. /\ <<"start Tor">> \in Seq(Work) /\ <<"stop Tor">> \in Seq(Work)
      /\ <<"destroy Tor">> \in Seq(Work) /\ <<"start VPN">> \in Seq(Work)
      /\ <<"destroy VPN">> \in Seq(Work)
  BY DEF Work
<1>2. \A w : Len(<<w>>) = 1 /\ <<w>>[1] = w
  OBVIOUS
<1>3. \A w, kinds : w \notin kinds => NoOf(<<w>>, kinds)
  BY <1>2 DEF NoOf
<1>4. <<>> \in Seq(Work) /\ \A kinds : NoOf(<<>>, kinds)
  BY DEF NoOf
<1>5. \A w \in Work : <<w>> \in Seq(Work)
  OBVIOUS
<1>6. DestroysTor \in {<<"destroy Tor">>, <<>>}
  BY DEF DestroysTor
<1>7. \A s \in DestroysVpn : s \in {<<"destroy VPN">>, <<>>}
  BY DEF DestroysVpn
<1>8. /\ "destroy Tor" \notin VpnWork /\ "start Tor" \notin VpnWork
      /\ "stop Tor" \notin VpnWork
      /\ "start VPN" \notin TorWork /\ "destroy VPN" \notin TorWork
      /\ "destroy Tor" \notin {"destroy VPN"} /\ "start Tor" \notin {"destroy VPN"}
      /\ "stop Tor" \notin {"destroy VPN"}
  BY DEF VpnWork, TorWork
<1>9. NoOf(DestroysTor, VpnWork) /\ NoOf(DestroysTor, {"destroy VPN"})
  BY <1>3, <1>4, <1>6, <1>8
<1>10. \A s \in DestroysVpn : s \in Seq(Work) /\ NoOf(s, TorWork)
  BY <1>1, <1>3, <1>4, <1>7, <1>8
<1>11. DestroysTor \in Seq(Work)
  BY <1>1, <1>4, <1>6
<1> QED
  BY <1>3, <1>4, <1>5, <1>8, <1>9, <1>10, <1>11

LEMMA LastIsTaken ==
    ASSUME looper \in Seq(Work), NEW kinds, NEW work \in kinds, Handles(work, <<>>)
    PROVE  /\ ~NoOf(looper, kinds)
           /\ \A w : LastOf(looper, w, kinds) =>
                 LastOf(looper', w, kinds) \/ (work = w /\ NoOf(looper', kinds))
<1>1. <<>> \in Seq(Work) /\ NoOf(<<>>, kinds)
  BY QuietWork
<1>2. /\ NoOf(looper, kinds) => NoOf(looper', kinds) /\ work \notin kinds
      /\ \A w : LastOf(looper, w, kinds) =>
            LastOf(looper', w, kinds) \/ (work = w /\ NoOf(looper', kinds))
  BY <1>1, LastHandled
<1> QED
  BY <1>2

(* Tor is asked to go, with work for the VPN before it.                      *)
LEMMA TorIsSentAway ==
    ASSUME looper \in Seq(Work), TorIsGone, NEW s \in Seq(Work), NoOf(s, TorWork),
           looper' = looper \o s \o DestroysTor, torWanted' = FALSE,
           torRuns' = torRuns, connection' = connection
    PROVE  looper' \in Seq(Work) /\ TorIsGone' /\ StopComesLast'
<1>1. PICK q \in Seq(Work) : q = looper \o s
  BY LastJoins
<1>2. /\ NoOf(looper, TorWork) => NoOf(q, TorWork)
      /\ \A w : LastOf(looper, w, TorWork) => LastOf(q, w, TorWork)
  BY <1>1, LastJoins
<1>3. looper' = q \o DestroysTor
  BY <1>1
<1>4. CASE torWanted
  <2>1. "destroy Tor" \in Work /\ DestroysTor = <<"destroy Tor">>
    BY <1>4 DEF DestroysTor, Work
  <2>2. LastOf(looper', "destroy Tor", TorWork) /\ looper' \in Seq(Work)
    BY <1>3, <2>1, LastIsPut
  <2> QED
    BY <2>2 DEF TorIsGone, StopComesLast
<1>5. CASE ~torWanted
  <2>1. DestroysTor = <<>>
    BY <1>5 DEF DestroysTor
  <2>2. looper' = q
    BY <1>3, <2>1
  <2> QED
    BY <1>1, <1>2, <1>5, <2>2 DEF TorIsGone, StopComesLast
<1> QED
  BY <1>4, <1>5

(* The queue grows by, or loses from its head, what is not about Tor.        *)
LEMMA TorIsLeftAlone ==
    ASSUME looper \in Seq(Work), TorIsGone,
           UNCHANGED <<torWanted, torRuns, connection>>,
           NoOf(looper, TorWork) => NoOf(looper', TorWork),
           \A w \in TorWork : LastOf(looper, w, TorWork) => LastOf(looper', w, TorWork)
    PROVE  TorIsGone' /\ (StopComesLast => StopComesLast')
<1>1. "destroy Tor" \in TorWork /\ "stop Tor" \in TorWork
  BY DEF TorWork
<1> QED
  BY <1>1 DEF TorIsGone, StopComesLast

LEMMA TorStep ==
    ASSUME looper \in Seq(Work), RouteGoesOn, TorIsGone
    PROVE  TorIsGone' /\ (StopComesLast => StopComesLast')
<1>1. CASE StopRoute
  <2>1. PICK s \in DestroysVpn : looper' = looper \o s \o <<"stop Tor">>
    BY <1>1 DEF StopRoute, StopsVpn
  <2>2. looper \o s \in Seq(Work) /\ "stop Tor" \in Work
    BY QuietWork, LastJoins DEF Work
  <2>3. LastOf(looper', "stop Tor", TorWork)
    BY <2>1, <2>2, LastIsPut
  <2>4. torWanted'
    BY <1>1 DEF StopRoute
  <2> QED
    BY <2>3, <2>4 DEF TorIsGone, StopComesLast
<1>2. CASE Deliver
  <2>1. CASE ReceiveReady
    <3>0. "start VPN" \in Work
      BY DEF Work
    <3>1. looper' = looper \o <<"start VPN">> /\ UNCHANGED <<torWanted, torRuns, connection>>
      BY <2>1, <3>0, AppendIsConcat DEF ReceiveReady, torVars
    <3>2. /\ NoOf(looper, TorWork) => NoOf(looper', TorWork)
          /\ \A w : LastOf(looper, w, TorWork) => LastOf(looper', w, TorWork)
      BY <3>1, QuietWork, LastJoins DEF Work
    <3> QED
      BY <3>1, <3>2, TorIsLeftAlone
  <2>2. CASE ReceiveError
    <3>1. PICK s \in DestroysVpn : looper' = looper \o s \o DestroysTor
      BY <2>2 DEF ReceiveError, StopWithError
    <3>2. torWanted' = FALSE /\ torRuns' = torRuns /\ connection' = connection
      BY <2>2 DEF ReceiveError, StopWithError, torVars
    <3> QED
      BY <3>1, <3>2, QuietWork, TorIsSentAway
  <2>3. CASE ReceiveStopped
    BY <2>3 DEF ReceiveStopped, torVars, TorIsGone, StopComesLast
  <2> QED
    BY <1>2, <2>1, <2>2, <2>3 DEF Deliver
<1>3. CASE TorStarts
  <2>1. Handles("start Tor", <<>>) /\ torWanted' = torWanted
    BY <1>3 DEF TorStarts
  <2>2. /\ ~NoOf(looper, TorWork)
        /\ \A w : LastOf(looper, w, TorWork) =>
              LastOf(looper', w, TorWork) \/ w = "start Tor"
    <3>1. "start Tor" \in TorWork
      BY DEF TorWork
    <3> QED
      BY <2>1, <3>1, LastIsTaken
  <2> QED
    BY <2>1, <2>2 DEF TorIsGone, StopComesLast
<1>4. CASE TorConfigFails \/ TorStops
  <2>1. PICK work \in {"start Tor", "stop Tor"} : Handles(work, DestroysTor)
    BY <1>4 DEF TorConfigFails, TorStops
  <2>2. torWanted' = FALSE
    BY <1>4 DEF TorConfigFails, TorStops
  <2>3. CASE torWanted
    <3>1. looper' = Tail(looper) \o <<"destroy Tor">> /\ Tail(looper) \in Seq(Work)
      BY <2>1, <2>3, LastOfTail DEF Handles, DestroysTor
    <3>2. LastOf(looper', "destroy Tor", TorWork)
      BY <3>1, LastIsPut DEF Work
    <3> QED
      BY <2>2, <3>2 DEF TorIsGone, StopComesLast
  <2>4. CASE ~torWanted
    <3>1. Handles(work, <<>>)
      BY <2>1, <2>4 DEF DestroysTor
    <3>2. /\ ~NoOf(looper, TorWork)
          /\ \A w : LastOf(looper, w, TorWork) => LastOf(looper', w, TorWork) \/ w = work
      <4>1. work \in TorWork
        BY DEF TorWork
      <4> QED
        BY <3>1, <4>1, LastIsTaken
    <3>3. LastOf(looper', "destroy Tor", TorWork)
      BY <2>1, <2>4, <3>2 DEF TorIsGone
    <3> QED
      BY <2>2, <3>3 DEF TorIsGone, StopComesLast
  <2> QED
    BY <2>3, <2>4
<1>5. CASE TorDestroyed
  <2>1. /\ Handles("destroy Tor", <<>>) /\ torWanted' = torWanted
        /\ ~torRuns' /\ connection' = "none"
    BY <1>5 DEF TorDestroyed, StopsTor
  <2>2. /\ ~NoOf(looper, TorWork)
        /\ \A w : LastOf(looper, w, TorWork) =>
              \/ LastOf(looper', w, TorWork)
              \/ w = "destroy Tor" /\ NoOf(looper', TorWork)
    <3>1. "destroy Tor" \in TorWork
      BY DEF TorWork
    <3> QED
      BY <2>1, <3>1, LastIsTaken
  <2>3. "stop Tor" # "destroy Tor"
    OBVIOUS
  <2> QED
    BY <2>1, <2>2, <2>3 DEF TorIsGone, StopComesLast
<1>6. CASE VpnStarts \/ VpnDestroyed
  <2>1. PICK work \in VpnWork : Handles(work, <<>>)
    BY <1>6 DEF VpnStarts, VpnDestroyed, VpnWork
  <2>2. UNCHANGED <<torWanted, torRuns, connection>>
    BY <1>6 DEF VpnStarts, VpnDestroyed, torVars
  <2>3. work \notin TorWork
    BY DEF VpnWork, TorWork
  <2>4. /\ NoOf(looper, TorWork) => NoOf(looper', TorWork)
        /\ \A w \in TorWork : LastOf(looper, w, TorWork) => LastOf(looper', w, TorWork)
    BY <2>1, <2>3, QuietWork, LastHandled
  <2> QED
    BY <2>2, <2>4, TorIsLeftAlone
<1>7. CASE TorConnected \/ TorConnectedInVain \/ TorDisconnected
  <2>1. connection # "none" /\ looper' = looper /\ torWanted' = torWanted
    BY <1>7 DEF TorConnected, TorConnectedInVain, TorDisconnected
  <2> QED
    BY <2>1 DEF TorIsGone, StopComesLast
<1>8. CASE VpnRevoked
  <2>0. "destroy VPN" \in Work
    BY DEF Work
  <2>1. looper' = looper \o <<"destroy VPN">> /\ UNCHANGED <<torWanted, torRuns, connection>>
    BY <1>8, <2>0, AppendIsConcat DEF VpnRevoked, torVars
  <2>2. /\ NoOf(looper, TorWork) => NoOf(looper', TorWork)
        /\ \A w : LastOf(looper, w, TorWork) => LastOf(looper', w, TorWork)
    BY <2>1, QuietWork, LastJoins DEF Work
  <2> QED
    BY <2>1, <2>2, TorIsLeftAlone
<1> QED
  BY <1>1, <1>2, <1>3, <1>4, <1>5, <1>6, <1>7, <1>8 DEF RouteGoesOn, MainThread

(* The VPN, when it has been stopped or is not wanted.                       *)
VpnWillGo == stopped \/ ~vpnWanted => VpnIsGone

LEMMA VpnIsSentAway ==
    ASSUME looper \in Seq(Work), VpnWillGo, NEW s \in DestroysVpn, NEW t \in Seq(Work),
           NoOf(t, VpnWork), NoOf(t, {"destroy VPN"}),
           looper' = looper \o s \o t, vpnUp' = vpnUp
    PROVE  VpnIsGone'
<1>1. "destroy VPN" \in Work
  BY DEF Work
<1>2. CASE s = <<"destroy VPN">>
  <2>1. PICK q \in Seq(Work) : q = looper \o s /\ LastOf(q, "destroy VPN", VpnWork)
    BY <1>1, <1>2, LastIsPut
  <2>2. looper' = q \o t
    BY <2>1
  <2>3. \A w : LastOf(q, w, VpnWork) => LastOf(q \o t, w, VpnWork)
    <3>1. q \in Seq(Work) /\ t \in Seq(Work) /\ NoOf(t, VpnWork)
      BY <2>1
    <3> QED
      BY <3>1, LastJoins
  <2>4. LastOf(looper', "destroy VPN", VpnWork)
    BY <2>1, <2>2, <2>3
  <2> QED
    BY <2>4 DEF VpnIsGone
<1>3. CASE s = <<>>
  <2>0. looper \o <<>> = looper
    BY ConcatEmptySeq
  <2>1. looper' = looper \o t
    BY <1>3, <2>0
  <2>2. ~vpnWanted \/ VpnIsBound
    BY <1>3 DEF DestroysVpn
  <2>3. VpnIsBound => vpnUp /\ NoOf(looper, {"destroy VPN"})
    <3>1. DOMAIN looper = 1 .. Len(looper)
      BY LenProperties
    <3> QED
      BY <3>1 DEF VpnIsBound, Ahead, NoOf
  <2>4. VpnIsGone
    BY <2>2, <2>3 DEF VpnWillGo, VpnIsGone
  <2>5. /\ NoOf(looper, VpnWork) => NoOf(looper', VpnWork)
        /\ LastOf(looper, "destroy VPN", VpnWork) => LastOf(looper', "destroy VPN", VpnWork)
        /\ NoOf(looper, {"destroy VPN"}) => NoOf(looper', {"destroy VPN"})
    BY <2>1, LastJoins
  <2> QED
    BY <2>4, <2>5 DEF VpnIsGone
<1> QED
  BY <1>2, <1>3 DEF DestroysVpn

LEMMA VpnIsLeftAlone ==
    ASSUME VpnWillGo, UNCHANGED <<vpnWanted, vpnUp>>, stopped' => stopped,
           NoOf(looper, VpnWork) => NoOf(looper', VpnWork),
           LastOf(looper, "destroy VPN", VpnWork) => LastOf(looper', "destroy VPN", VpnWork),
           NoOf(looper, {"destroy VPN"}) => NoOf(looper', {"destroy VPN"})
    PROVE  VpnWillGo'
  BY DEF VpnWillGo, VpnIsGone

LEMMA VpnStep ==
    ASSUME looper \in Seq(Work), DoorClosed, RouteGoesOn, VpnWillGo
    PROVE  VpnWillGo'
<1>1. CASE StopRoute
  <2>1. PICK s \in DestroysVpn : looper' = looper \o s \o <<"stop Tor">>
    BY <1>1 DEF StopRoute, StopsVpn
  <2>0. "stop Tor" \in Work
    BY DEF Work
  <2>2. vpnUp' = vpnUp /\ <<"stop Tor">> \in Seq(Work)
    BY <1>1, <2>0, QuietWork DEF StopRoute
  <2>3. VpnIsGone'
    BY <2>1, <2>2, QuietWork, VpnIsSentAway
  <2> QED
    BY <2>3 DEF VpnWillGo
<1>2. CASE Deliver
  <2>1. CASE ReceiveReady
    <3>1. ~stopped /\ vpnWanted' = TRUE /\ stopped' = stopped
      BY <2>1 DEF ReceiveReady, DoorClosed
    <3> QED
      BY <3>1 DEF VpnWillGo
  <2>2. CASE ReceiveError
    <3>1. PICK s \in DestroysVpn : looper' = looper \o s \o DestroysTor
      BY <2>2 DEF ReceiveError, StopWithError
    <3>2. vpnUp' = vpnUp
      BY <2>2 DEF ReceiveError, StopWithError
    <3>3. VpnIsGone'
      BY <3>1, <3>2, QuietWork, VpnIsSentAway
    <3> QED
      BY <3>3 DEF VpnWillGo
  <2>3. CASE ReceiveStopped
    BY <2>3 DEF ReceiveStopped, VpnWillGo, VpnIsGone
  <2> QED
    BY <1>2, <2>1, <2>2, <2>3 DEF Deliver
<1>3. CASE TorStarts \/ TorConfigFails \/ TorStops \/ TorDestroyed
  <2>1. PICK work \in TorWork, more \in {<<>>, DestroysTor} : Handles(work, more)
    BY <1>3 DEF TorStarts, TorConfigFails, TorStops, TorDestroyed, TorWork
  <2>2. UNCHANGED <<stopped, vpnWanted, vpnUp>>
    BY <1>3 DEF TorStarts, TorConfigFails, TorStops, TorDestroyed, routeVars
  <2>3. /\ more \in Seq(Work) /\ NoOf(more, VpnWork) /\ NoOf(more, {"destroy VPN"})
        /\ work # "destroy VPN"
    BY QuietWork DEF TorWork
  <2>4. /\ NoOf(looper, VpnWork) => NoOf(looper', VpnWork)
        /\ LastOf(looper, "destroy VPN", VpnWork) => LastOf(looper', "destroy VPN", VpnWork)
        /\ NoOf(looper, {"destroy VPN"}) => NoOf(looper', {"destroy VPN"})
    BY <2>1, <2>3, LastHandled
  <2> QED
    BY <2>2, <2>4, VpnIsLeftAlone
<1>4. CASE VpnStarts
  <2>1. Handles("start VPN", <<>>) /\ stopped' = stopped /\ vpnWanted' = vpnWanted
    BY <1>4 DEF VpnStarts, routeVars
  <2>2. vpnUp => vpnUp'
    BY <1>4 DEF VpnStarts
  <2>3. /\ ~NoOf(looper, VpnWork)
        /\ \A w : LastOf(looper, w, VpnWork) =>
              LastOf(looper', w, VpnWork) \/ ("start VPN" = w /\ NoOf(looper', VpnWork))
    <3>1. "start VPN" \in VpnWork
      BY DEF VpnWork
    <3> QED
      BY <2>1, <3>1, LastIsTaken
  <2>4. NoOf(looper, {"destroy VPN"}) => NoOf(looper', {"destroy VPN"})
    BY <2>1, QuietWork, LastHandled
  <2> QED
    BY <2>1, <2>2, <2>3, <2>4 DEF VpnWillGo, VpnIsGone
<1>5. CASE VpnDestroyed
  <2>1. Handles("destroy VPN", <<>>) /\ stopped' = stopped /\ vpnWanted' = vpnWanted
    BY <1>5 DEF VpnDestroyed, routeVars
  <2>2. "destroy VPN" \in VpnWork /\ "destroy VPN" \in {"destroy VPN"}
    BY DEF VpnWork
  <2>3. /\ ~NoOf(looper, VpnWork)
        /\ \A w : LastOf(looper, w, VpnWork) =>
              LastOf(looper', w, VpnWork) \/ ("destroy VPN" = w /\ NoOf(looper', VpnWork))
    BY <2>1, <2>2, LastIsTaken
  <2>4. ~NoOf(looper, {"destroy VPN"})
    BY <2>1, <2>2, LastIsTaken
  <2> QED
    BY <2>1, <2>3, <2>4 DEF VpnWillGo, VpnIsGone
<1>6. CASE TorConnected \/ TorConnectedInVain \/ TorDisconnected
  BY <1>6 DEF TorConnected, TorConnectedInVain, TorDisconnected, VpnWillGo, VpnIsGone,
     routeVars
<1>7. CASE VpnRevoked
  <2>1. "destroy VPN" \in Work
    BY DEF Work
  <2>2. looper' = looper \o <<"destroy VPN">>
    BY <1>7, <2>1, AppendIsConcat DEF VpnRevoked
  <2>3. LastOf(looper', "destroy VPN", VpnWork)
    BY <2>1, <2>2, LastIsPut
  <2> QED
    BY <2>3 DEF VpnWillGo, VpnIsGone
<1> QED
  BY <1>1, <1>2, <1>3, <1>4, <1>5, <1>6, <1>7 DEF RouteGoesOn, MainThread

-----------------------------------------------------------------------------
(* The two together, with a new start.                                       *)
GoneInv == OrchestratorInv /\ TorIsGone /\ VpnWillGo

LEMMA StartStep ==
    ASSUME looper \in Seq(Work), StartTorThenVpn, TorIsGone, VpnWillGo
    PROVE  TorIsGone' /\ VpnWillGo' /\ ~stopped'
<1>1. /\ UNCHANGED <<torRuns, connection, vpnWanted, vpnUp>> /\ stopped' = FALSE
      /\ \/ looper' = looper /\ torWanted' = torWanted
         \/ looper' = Append(looper, "start Tor") /\ torWanted' = TRUE
  BY DEF StartTorThenVpn, torVars
<1>2. "start Tor" \in Work
  BY DEF Work
<1>3. CASE looper' = looper /\ torWanted' = torWanted
  BY <1>1, <1>3 DEF TorIsGone, VpnWillGo, VpnIsGone
<1>4. CASE looper' = Append(looper, "start Tor") /\ torWanted' = TRUE
  <2>1. looper' = looper \o <<"start Tor">>
    BY <1>2, <1>4, AppendIsConcat
  <2>2. /\ NoOf(looper, VpnWork) => NoOf(looper', VpnWork)
        /\ LastOf(looper, "destroy VPN", VpnWork) => LastOf(looper', "destroy VPN", VpnWork)
        /\ NoOf(looper, {"destroy VPN"}) => NoOf(looper', {"destroy VPN"})
    BY <1>2, <2>1, QuietWork, LastJoins
  <2>3. VpnWillGo'
    BY <1>1, <2>2, VpnIsLeftAlone
  <2> QED
    BY <1>1, <1>4, <2>3 DEF TorIsGone
<1> QED
  BY <1>1, <1>3, <1>4

LEMMA GoneInit == Init => GoneInv
<1> SUFFICES ASSUME Init PROVE GoneInv
  OBVIOUS
<1>1. NoOf(looper, TorWork) /\ NoOf(looper, VpnWork)
  BY QuietWork DEF Init
<1> QED
  BY <1>1, OrchestratorInit DEF Init, GoneInv, TorIsGone, VpnWillGo, VpnIsGone

LEMMA GoneStep ==
    ASSUME GoneInv, [Next]_vars
    PROVE  /\ GoneInv'
           /\ (stopped => StopComesLast) => (stopped' => StopComesLast')
<1>1. looper \in Seq(Work) /\ DoorClosed /\ TorIsGone /\ VpnWillGo
  BY DEF GoneInv, OrchestratorInv, TypeOK
<1>2. OrchestratorInv'
  BY OrchestratorStep DEF GoneInv
<1>3. CASE StartTorThenVpn
  BY <1>1, <1>2, <1>3, StartStep DEF GoneInv
<1>4. CASE RouteGoesOn
  <2>1. TorIsGone' /\ VpnWillGo' /\ (StopComesLast => StopComesLast')
    BY <1>1, <1>4, TorStep, VpnStep
  <2>2. stopped' /\ ~stopped => StopComesLast'
    <3>1. CASE StopRoute
      <4>1. PICK s \in DestroysVpn : looper' = looper \o s \o <<"stop Tor">>
        BY <3>1 DEF StopRoute, StopsVpn
      <4>2. looper \o s \in Seq(Work) /\ "stop Tor" \in Work
        BY <1>1, QuietWork, LastJoins DEF Work
      <4> QED
        BY <4>1, <4>2, LastIsPut DEF StopComesLast
    <3>2. CASE Deliver
      BY <3>2 DEF Deliver, ReceiveReady, ReceiveError, StopWithError, ReceiveStopped,
         StopComesLast
    <3>3. CASE ~StopRoute /\ ~Deliver
      BY <1>4, <3>3 DEF RouteGoesOn, MainThread, TorStarts, TorConfigFails, TorStops,
         TorDestroyed, VpnStarts, VpnDestroyed, TorConnected, TorConnectedInVain,
         TorDisconnected, VpnRevoked, routeVars
    <3> QED
      BY <3>1, <3>2, <3>3
  <2> QED
    BY <1>2, <2>1, <2>2 DEF GoneInv
<1>5. CASE UNCHANGED vars
  BY <1>1, <1>2, <1>5 DEF vars, routeVars, torVars, GoneInv, TorIsGone, StopComesLast,
     VpnWillGo, VpnIsGone
<1> QED
  BY <1>3, <1>4, <1>5 DEF Next, RouteGoesOn

LEMMA GoneWhenIdle ==
    ASSUME looper = <<>>, TorIsGone, StopComesLast
    PROVE  ~torWanted /\ ~torRuns /\ connection = "none"
<1>1. \A w : ~LastOf(looper, w, TorWork)
  BY DEF LastOf
<1> QED
  BY <1>1 DEF TorIsGone, StopComesLast

(* A stop of the route, by the user or for an error, is a stop of Tor: of    *)
(* the service, of what it has started and of what it has bound.             *)
THEOREM StopsTorForGood == Spec => []StopStopsTor
<1>1. Init => (stopped => StopComesLast)
  BY DEF Init
<1>2. GoneInv /\ (stopped => StopComesLast) => StopStopsTor
  BY GoneWhenIdle DEF GoneInv, StopStopsTor
<1> QED
  BY <1>1, <1>2, GoneInit, GoneStep, PTL DEF Spec

LEMMA PlacesAreOrdered ==
    \A n : \A i, j \in 1 .. n : ~(i > j) /\ i # j => i < j
  OBVIOUS

LEMMA StartIsOvertaken == GoneInv => StopOvertakesStart
<1> SUFFICES ASSUME GoneInv, stopped, ~vpnUp, NEW i \in Ahead("start VPN")
             PROVE  \E j \in Ahead("destroy VPN") : i < j
  BY DEF StopOvertakesStart
<1>0. looper \in Seq(Work)
  BY DEF GoneInv, OrchestratorInv, TypeOK
<1>a. DOMAIN looper = 1 .. Len(looper)
  BY <1>0, LenProperties
<1>1. i \in 1 .. Len(looper) /\ looper[i] \in VpnWork
  BY <1>a DEF Ahead, VpnWork
<1>2. LastOf(looper, "destroy VPN", VpnWork)
  BY <1>1 DEF GoneInv, VpnWillGo, VpnIsGone, NoOf
<1>3. PICK j \in 1 .. Len(looper) :
        /\ looper[j] = "destroy VPN"
        /\ \A k \in 1 .. Len(looper) : k > j => looper[k] \notin VpnWork
  BY <1>2 DEF LastOf
<1>4. ~(i > j)
  BY <1>1, <1>3
<1>5. i # j
  BY <1>3 DEF Ahead
<1>6. i < j
  BY <1>1, <1>3, <1>4, <1>5, PlacesAreOrdered, Zenon
<1> QED
  BY <1>3, <1>6, <1>a DEF Ahead

(* A start of the VPN that is under way when the route is stopped does not   *)
(* survive it: the destruction of the service comes after it.                *)
THEOREM StopComesAfterStart == Spec => []StopOvertakesStart
  BY StartIsOvertaken, GoneInit, GoneStep, PTL DEF Spec

-----------------------------------------------------------------------------
(* The same under the wipe, which stops both services behind the             *)
(* orchestrator's back.                                                      *)
Past == \E j \in Jobs \ restarted : job[j] \in {"stop VPN", "delete", "verify"}

WipeInv ==
    /\ WipeTypeOK /\ GoneInv
    /\ stopped \/ Past => StopComesLast

LEMMA WipeInitHolds == WipeInit => WipeInv
<1> SUFFICES ASSUME WipeInit PROVE WipeInv
  OBVIOUS
<1>1. GoneInv /\ ~stopped
  BY GoneInit DEF WipeInit, Init
<1>2. ~Past
  BY DEF WipeInit, Past
<1>3. WipeTypeOK
  BY <1>1 DEF WipeInit, WipeTypeOK, GoneInv, OrchestratorInv
<1> QED
  BY <1>1, <1>2, <1>3 DEF WipeInv

LEMMA WipeTypeStep == WipeTypeOK /\ TypeOK' /\ [WipeNext]_allVars => WipeTypeOK'
<1> SUFFICES ASSUME WipeTypeOK, TypeOK', [WipeNext]_allVars PROVE WipeTypeOK'
  OBVIOUS
<1> USE DEF WipeTypeOK
<1>1. CASE Asks \/ Cancels \/ Leaves
  BY <1>1 DEF Asks, Cancels, Leaves
<1>2. ASSUME NEW j \in Jobs, Confirms(j) \/ Shows(j) PROVE WipeTypeOK'
  BY <1>2 DEF Confirms, Shows
<1>3. ASSUME NEW j \in Jobs,
             \/ WipeStopsTorService(j) \/ WipeStopsVpnService(j)
             \/ WipeDeletes(j) \/ WipeVerifies(j)
      PROVE  WipeTypeOK'
  BY <1>3 DEF WipeStopsTorService, WipeStopsVpnService, WipeDeletes, WipeVerifies, Reaches
<1>4. CASE RouteStep
  BY <1>4 DEF RouteStep
<1>5. CASE UNCHANGED allVars
  BY <1>5 DEF allVars, wipeVars
<1> QED
  BY <1>1, <1>2, <1>3, <1>4, <1>5 DEF WipeNext

(* What the screen does, and a wipe between its steps on the services.       *)
LEMMA WipeStepsAside ==
    ASSUME WipeTypeOK,
           \/ Asks \/ Cancels \/ Leaves
           \/ \E j \in Jobs : Confirms(j) \/ Shows(j) \/ WipeDeletes(j) \/ WipeVerifies(j)
    PROVE  UNCHANGED vars /\ (Past' => Past)
<1> USE DEF WipeTypeOK, Past
<1>1. CASE Asks \/ Cancels \/ Leaves
  BY <1>1 DEF Asks, Cancels, Leaves
<1>2. ASSUME NEW j \in Jobs, Confirms(j) PROVE UNCHANGED vars /\ (Past' => Past)
  BY <1>2 DEF Confirms
<1>3. ASSUME NEW j \in Jobs, Shows(j) \/ WipeDeletes(j) \/ WipeVerifies(j)
      PROVE  UNCHANGED vars /\ (Past' => Past)
  BY <1>3 DEF Shows, WipeDeletes, WipeVerifies, Reaches
<1> QED
  BY <1>1, <1>2, <1>3

LEMMA WipeSendsTorAway ==
    ASSUME GoneInv, NEW j \in Jobs, WipeStopsTorService(j)
    PROVE  GoneInv' /\ StopComesLast' /\ NoNewStart
<1>1. looper \in Seq(Work) /\ TorIsGone /\ VpnWillGo /\ OrchestratorInv
  BY DEF GoneInv, OrchestratorInv, TypeOK
<1>2. /\ looper' = looper \o DestroysTor /\ torWanted' = FALSE
      /\ UNCHANGED <<receiver, mail, stopped, torBound, connection, torRuns, vpnWanted, vpnUp>>
  BY DEF WipeStopsTorService, StopsTorService, routeVars, torVars
<1>3. looper' \in Seq(Work) /\ NoNewStart
  BY <1>1, <1>2, TorIsDestroyedQuietly, StartsOfJoin DEF NoNewStart
<1>4. OrchestratorInv'
  BY <1>1, <1>2, <1>3 DEF OrchestratorInv, TypeOK, DoorClosed
<1>5. TorIsGone' /\ StopComesLast'
  <2>1. looper \o <<>> = looper
    BY <1>1, ConcatEmptySeq
  <2>2. looper' = looper \o <<>> \o DestroysTor
    BY <1>2, <2>1
  <2>3. <<>> \in Seq(Work) /\ NoOf(<<>>, TorWork)
    BY QuietWork
  <2> QED
    BY <1>1, <1>2, <2>2, <2>3, TorIsSentAway
<1>6. VpnWillGo'
  <2>1. /\ NoOf(looper, VpnWork) => NoOf(looper', VpnWork)
        /\ LastOf(looper, "destroy VPN", VpnWork) => LastOf(looper', "destroy VPN", VpnWork)
        /\ NoOf(looper, {"destroy VPN"}) => NoOf(looper', {"destroy VPN"})
    BY <1>1, <1>2, QuietWork, LastJoins
  <2> QED
    BY <1>1, <1>2, <2>1, VpnIsLeftAlone
<1> QED
  BY <1>3, <1>4, <1>5, <1>6 DEF GoneInv

LEMMA WipeSendsVpnAway ==
    ASSUME GoneInv, NEW j \in Jobs, WipeStopsVpnService(j)
    PROVE  GoneInv' /\ (StopComesLast => StopComesLast') /\ NoNewStart
<1>1. looper \in Seq(Work) /\ TorIsGone /\ VpnWillGo /\ OrchestratorInv
  BY DEF GoneInv, OrchestratorInv, TypeOK
<1>2. PICK s \in DestroysVpn : looper' = looper \o s
  BY DEF WipeStopsVpnService
<1>3. /\ vpnWanted' = FALSE
      /\ UNCHANGED <<receiver, mail, stopped, torWanted, torBound, connection, torRuns, vpnUp>>
  BY DEF WipeStopsVpnService, routeVars, torVars
<1>4. looper' \in Seq(Work) /\ NoNewStart
  BY <1>1, <1>2, VpnIsDestroyedQuietly, StartsOfJoin DEF NoNewStart
<1>5. OrchestratorInv'
  BY <1>1, <1>3, <1>4 DEF OrchestratorInv, TypeOK, DoorClosed
<1>6. TorIsGone' /\ (StopComesLast => StopComesLast')
  <2>1. /\ NoOf(looper, TorWork) => NoOf(looper', TorWork)
        /\ \A w : LastOf(looper, w, TorWork) => LastOf(looper', w, TorWork)
    BY <1>1, <1>2, QuietWork, LastJoins
  <2> QED
    BY <1>1, <1>3, <2>1, TorIsLeftAlone
<1>7. VpnWillGo'
  <2>1. looper' \o <<>> = looper'
    BY <1>4, ConcatEmptySeq
  <2>2. looper' = looper \o s \o <<>>
    BY <1>2, <2>1
  <2>3. <<>> \in Seq(Work) /\ NoOf(<<>>, VpnWork) /\ NoOf(<<>>, {"destroy VPN"})
    BY QuietWork
  <2>4. VpnIsGone'
    BY <1>1, <1>3, <2>2, <2>3, VpnIsSentAway
  <2> QED
    BY <2>4 DEF VpnWillGo
<1> QED
  BY <1>4, <1>5, <1>6, <1>7 DEF GoneInv

LEMMA WipeStep ==
    WipeInv /\ [WipeNext]_allVars => WipeInv' /\ (stopped' => NoNewStart)
<1> SUFFICES ASSUME WipeInv, [WipeNext]_allVars
             PROVE  /\ GoneInv' /\ (stopped' \/ Past' => StopComesLast')
                    /\ stopped' => NoNewStart
  BY WipeTypeStep DEF WipeInv, GoneInv, OrchestratorInv
<1>1. /\ GoneInv /\ TorIsGone /\ WipeTypeOK /\ looper \in Seq(Work)
      /\ stopped \/ Past => StopComesLast
  BY DEF WipeInv, GoneInv, OrchestratorInv, TypeOK
<1>2. ASSUME [Next]_vars
      PROVE  /\ GoneInv' /\ (stopped' => NoNewStart)
             /\ (stopped => StopComesLast) => (stopped' => StopComesLast')
  BY <1>1, <1>2, GoneStep, OrchestratorStep DEF GoneInv
<1>3. ASSUME UNCHANGED vars, Past' => Past
      PROVE  /\ GoneInv' /\ (stopped' \/ Past' => StopComesLast')
             /\ stopped' => NoNewStart
  <2>1. StopComesLast' = StopComesLast /\ stopped' = stopped
    BY <1>3 DEF StopComesLast, vars, routeVars
  <2> QED
    BY <1>1, <1>2, <1>3, <2>1
<1>4. CASE \/ Asks \/ Cancels \/ Leaves
           \/ \E j \in Jobs :
                 Confirms(j) \/ Shows(j) \/ WipeDeletes(j) \/ WipeVerifies(j)
  BY <1>1, <1>3, <1>4, WipeStepsAside
<1>5. ASSUME NEW j \in Jobs, WipeStopsTorService(j)
      PROVE  /\ GoneInv' /\ (stopped' \/ Past' => StopComesLast')
             /\ stopped' => NoNewStart
  BY <1>1, <1>5, WipeSendsTorAway
<1>6. ASSUME NEW j \in Jobs, WipeStopsVpnService(j)
      PROVE  /\ GoneInv' /\ (stopped' \/ Past' => StopComesLast')
             /\ stopped' => NoNewStart
  <2>1. stopped' = stopped /\ (Past' => Past)
    BY <1>1, <1>6 DEF WipeStopsVpnService, Reaches, Past, WipeTypeOK, routeVars
  <2> QED
    BY <1>1, <1>6, <2>1, WipeSendsVpnAway
<1>7. CASE RouteStep
  <2>1. \/ StartTorThenVpn /\ restarted' = Jobs
        \/ RouteGoesOn /\ restarted' = restarted
    BY <1>7 DEF RouteStep, Writes, MayWrite, WritesNot, RouteGoesOn, Deliver, MainThread
  <2>2. job' = job
    BY <1>7 DEF RouteStep
  <2>3. CASE StartTorThenVpn /\ restarted' = Jobs
    <3>1. ~Past' /\ ~stopped'
      BY <2>3 DEF Past, StartTorThenVpn
    <3> QED
      BY <1>2, <2>3, <3>1 DEF Next
  <2>4. CASE RouteGoesOn /\ restarted' = restarted
    <3>1. Past' = Past
      BY <2>2, <2>4 DEF Past
    <3>2. StopComesLast => StopComesLast'
      BY <1>1, <2>4, TorStep
    <3> QED
      BY <1>1, <1>2, <2>4, <3>1, <3>2 DEF Next, RouteGoesOn
  <2> QED
    BY <2>1, <2>3, <2>4
<1>8. CASE UNCHANGED allVars
  BY <1>3, <1>8 DEF allVars, wipeVars, Past
<1> QED
  BY <1>4, <1>5, <1>6, <1>7, <1>8 DEF WipeNext

LEMMA WipeInvariant == WipeSpec => []WipeInv
  BY WipeInitHolds, WipeStep, PTL DEF WipeSpec

(* The places of the screen and of the wipes.                                *)
THEOREM WipeTypes == WipeSpec => []WipeTypeOK
  BY WipeInvariant, PTL DEF WipeInv

(* A wipe that has asked for Tor to stop gets it stopped, once the main      *)
(* thread has done its work, with any number of wipes under way at a time.   *)
THEOREM WipeLeavesNoTor == WipeSpec => []WipeStopsTor
<1>1. WipeInv => WipeStopsTor
  BY GoneWhenIdle DEF WipeInv, GoneInv, Past, WipeStopsTor
<1> QED
  BY <1>1, WipeInvariant, PTL

(* What the orchestrator promises of a stop holds while wipes are under way. *)
THEOREM StopHoldsUnderWipe ==
    WipeSpec => []StopStopsTor /\ []StopOvertakesStart /\ NoVpnAfterStop
<1>1. WipeInv => StopStopsTor /\ StopOvertakesStart
  BY GoneWhenIdle, StartIsOvertaken DEF WipeInv, GoneInv, StopStopsTor
<1>2. WipeInv /\ [WipeNext]_allVars =>
        [stopped' => \A i \in DOMAIN looper' :
                        looper'[i] = "start VPN" => Ahead("start VPN") # {}]_vars
  BY WipeStep DEF NoNewStart, StartsIn, Ahead
<1> QED
  BY <1>1, <1>2, WipeInvariant, PTL DEF WipeSpec, NoVpnAfterStop
=============================================================================
