--------------------------- MODULE TunnelTraffic ----------------------------
(***************************************************************************)
(* What the packets do in the tunnel of HevTunnel: they ask the mapped DNS *)
(* (MappedDns), and they open sessions, which hev-socks5-tunnel.c keeps in *)
(* the order of their last use and, at the session limit, evicts from the  *)
(* front.  A session that is told to end leaves the list only when its     *)
(* task has come to its end.                                               *)
(***************************************************************************)
EXTENDS HevTunnel, MappedDns

CONSTANT MaxSessions   \* misc.max-session-count, 0 for no limit

ASSUME MaxSessionsAssumption == MaxSessions \in Nat

VARIABLES
    order,     \* session_set, as a list
    count,     \* session_count
    newer      \* the sessions opened or used since a session was (history)

listVars == <<order, count, newer>>
trafficVars == <<tunnelVars, listVars, dnsVars>>

TrafficInit ==
    /\ TunnelInit
    /\ DnsInit
    /\ order = <<>> /\ count = 0
    /\ newer = [s \in Sessions |-> {}]

-----------------------------------------------------------------------------
(* hev_socks5_addr_from_lwip: the address a packet goes to is looked up by   *)
(* its host part alone, so that i stands for the mapped address i and for    *)
(* every other one with its host part; 0 finds nothing.                      *)
Addressed(i) == IF i = 0 THEN UNCHANGED dnsVars ELSE LookUp(i)

(* dns_recv_handler. *)
PacketAsks(n) ==
    /\ IoHandles
    /\ Find(n)
    /\ UNCHANGED listVars

(* A datagram for an open session, or a packet for which no session can be   *)
(* made.                                                                     *)
PacketLooksUp(i) ==
    /\ IoHandles
    /\ LookUp(i)
    /\ UNCHANGED listVars

(* hev_socks5_tunnel_insert_session, with the session in its list already. *)
Evicted(list, n) ==
    IF MaxSessions = 0 \/ n < MaxSessions THEN {} ELSE {Head(list)}

PacketOpens(s, i) ==
    /\ Addressed(i)
    /\ order' = Append(order, s)
    /\ count' = count + 1
    /\ IoOpens(s, Evicted(order', count'))
    /\ newer' = [r \in Sessions |-> IF r \in sessions THEN newer[r] \cup {s} ELSE {}]

(* hev_socks5_tunnel_update_session, by the yielder of the session's task. *)
Updates(s) ==
    /\ TasksMayRun
    /\ s \in sessions
    /\ MaxSessions # 0
    /\ order' = MovedToTail(order, s)
    /\ newer' = [r \in Sessions |-> IF r \in sessions \ {s} THEN newer[r] \cup {s} ELSE {}]
    /\ UNCHANGED <<tunnelVars, count, dnsVars>>

(* hev_socks5_tunnel_delete_session. *)
DeleteKeepsCount == count                   \* mutation of DeleteCounts
DeleteCounts == count - 1

Deletes(s) ==
    /\ SessionEnds(s)
    /\ LET k == PlaceIn(order, s)
       IN  order' = SubSeq(order, 1, k - 1) \o SubSeq(order, k + 1, Len(order))
    /\ count' = DeleteCounts
    /\ newer' = [r \in Sessions |-> IF r = s THEN {} ELSE newer[r] \ {s}]
    /\ UNCHANGED dnsVars

-----------------------------------------------------------------------------
(* Everything else leaves the lists alone; mapped_dns_fini is part of fini.  *)
OtherTaskStep ==
    \/ EventRead \/ EventClear \/ EventJoinsIo \/ EventJoinsTimer
    \/ PacketArrives \/ IoHandles \/ IoWaits \/ IoBreaks \/ IoRetries \/ IoEnds
    \/ TimerStep \/ TimerExpires

OtherStep ==
    \/ MainEnter \/ (MainStep /\ wpc # "teardown") \/ OtherTaskStep
    \/ \E t \in Threads : StopCall(t) \/ StopStep(t)

TrafficNext ==
    \/ \E n \in Names : PacketAsks(n)
    \/ \E i \in 1 .. MaxNames : PacketLooksUp(i)
    \/ \E s \in Sessions, i \in 0 .. MaxNames : PacketOpens(s, i)
    \/ \E s \in Sessions : Updates(s) \/ Deletes(s)
    \/ Teardown /\ DnsReset /\ UNCHANGED listVars
    \/ OtherStep /\ UNCHANGED <<listVars, dnsVars>>

TrafficSpec == TrafficInit /\ [][TrafficNext]_trafficVars

-----------------------------------------------------------------------------
(* The list and the counter say what is open. *)
ListIsRight ==
    /\ {order[i] : i \in DOMAIN order} = sessions
    /\ Len(order) = Cardinality(sessions) /\ count = Len(order)

(* Who has to go at the session limit: only when the limit is reached is a   *)
(* session told to end, and it is the one all others have been used after,   *)
(* so that a new session never pushes out a busy one, nor itself unless it   *)
(* is the only one.  (When the tunnel stops, all are told.)                  *)
EvictsLeastRecent ==
    [][\A e \in terminated' \ terminated :
          \/ event' = "joinIo"
          \/ /\ MaxSessions # 0 /\ Cardinality(sessions') >= MaxSessions
             /\ sessions' \ {e} \subseteq newer'[e]]_trafficVars
=============================================================================
