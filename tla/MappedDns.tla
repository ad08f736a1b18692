----------------------------- MODULE MappedDns ------------------------------
(***************************************************************************)
(* The mapped DNS of the tunnel (hev-mapped-dns.c): a query for a name is  *)
(* answered with an address made up on the spot, and when the application  *)
(* then connects to the address, the session is opened to the name.  There *)
(* are fewer addresses than names: the name used longest ago gives its     *)
(* address to a new one.                                                   *)
(*                                                                         *)
(* records is self->records up to self->use, recency is self->list; the    *)
(* tree over the names is abstracted to what it finds.  Address i stands   *)
(* for net | (i - 1), 0 for no address.                                    *)
(***************************************************************************)
EXTENDS Integers, Sequences, FiniteSets

CONSTANTS Names,      \* the names that are asked for
          MaxNames    \* mapdns.cache-size, the number of addresses

ASSUME MaxNamesAssumption == MaxNames \in Nat \ {0}

VARIABLES
    records,   \* the name of each address given so far
    recency,   \* the names from the one used longest ago on
    told,      \* the address last answered for a name, while it is good (history)
    since      \* ... and the other names used since the name was (history)

dnsVars == <<records, recency, told, since>>

DnsInit ==
    /\ records = <<>> /\ recency = <<>>
    /\ told = [n \in Names |-> 0]
    /\ since = [n \in Names |-> {}]

-----------------------------------------------------------------------------
PlaceIn(list, x) == CHOOSE i \in DOMAIN list : list[i] = x

Known(n) == \E i \in DOMAIN records : records[i] = n

(* hev_list_del and hev_list_add_tail of an element that is in the list. *)
NotMoved(list, x) == list                   \* mutation of MovedToTail
MovedToTail(list, x) ==
    [i \in DOMAIN list |->
        IF i < PlaceIn(list, x) THEN list[i]
        ELSE IF i < Len(list) THEN list[i + 1] ELSE x]

(* What the applications may go by: an address is good until as many other   *)
(* names have been used, asked for or connected to, as there are addresses.  *)
(* Name n is used now, and answered with address a unless a is 0.            *)
Remember(n, a) ==
    LET seen(m) == IF told[m] = 0 THEN {} ELSE since[m] \cup {n}
        good(m) == Cardinality(seen(m)) < MaxNames
    IN  /\ told' = [m \in Names |-> IF m = n THEN IF a = 0 THEN told[n] ELSE a
                                    ELSE IF good(m) THEN told[m] ELSE 0]
        /\ since' = [m \in Names |-> IF m # n /\ good(m) THEN seen(m) ELSE {}]

(* hev_mapped_dns_handle comes to the question for n, hev_mapped_dns_find:   *)
(* a name that is known, a new one with an address of its own, or a new one  *)
(* in place of the one used longest ago; a new one for which there is no     *)
(* memory changes nothing.  A query with a question that cannot be read is   *)
(* not answered, although its earlier questions have been looked up.         *)
Find(n) ==
    /\ \/ /\ Known(n)
          /\ UNCHANGED records
          /\ recency' = MovedToTail(recency, n)
       \/ /\ ~Known(n) /\ Len(records) < MaxNames
          /\ records' = Append(records, n)
          /\ recency' = Append(recency, n)
       \/ /\ ~Known(n) /\ Len(records) >= MaxNames
          /\ records' = [records EXCEPT ![PlaceIn(records, Head(recency))] = n]
          /\ recency' = Append(Tail(recency), n)
    /\ \E answered \in BOOLEAN :
          Remember(n, IF answered THEN PlaceIn(records', n) ELSE 0)

(* hev_mapped_dns_lookup of address i: a connection or a datagram to it. *)
LookUp(i) ==
    /\ i \in DOMAIN records
    /\ UNCHANGED records
    /\ recency' = MovedToTail(recency, records[i])
    /\ Remember(records[i], 0)

(* The mapped DNS is made anew for every run of the tunnel. *)
DnsReset ==
    /\ records' = <<>> /\ recency' = <<>>
    /\ told' = [n \in Names |-> 0]
    /\ since' = [n \in Names |-> {}]

DnsNext == (\E n \in Names : Find(n)) \/ (\E i \in 1 .. MaxNames : LookUp(i)) \/ DnsReset

DnsSpec == DnsInit /\ [][DnsNext]_dnsVars
-----------------------------------------------------------------------------
(* Every address has a name, and every name its place in the list. *)
DnsTypeOK ==
    /\ records \in Seq(Names) /\ Len(records) <= MaxNames
    /\ recency \in Seq(Names) /\ Len(recency) = Len(records)
    /\ told \in [Names -> 0 .. MaxNames]
    /\ since \in [Names -> SUBSET Names]

(* An application that connects to the address it was told reaches the name  *)
(* it asked for, however many names are asked for and given the addresses of *)
(* others in between, until as many others have been used as there are       *)
(* addresses.                                                                *)
AnswerHolds ==
    \A n \in Names : told[n] # 0 => told[n] \in DOMAIN records /\ records[told[n]] = n
=============================================================================
