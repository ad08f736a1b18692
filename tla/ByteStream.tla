----------------------------- MODULE ByteStream ------------------------------
(***************************************************************************)
(* What a proxy owes to one direction of a connection: its reader gets     *)
(* the writer's bytes, in their order, without a hole and each once, and   *)
(* sees an orderly end only when the writer has ended the stream and all   *)
(* of it has been delivered, or the writer's connection has broken.  A     *)
(* proxy that gives the direction up may still deliver bytes that were in  *)
(* flight, with a hole before them, but never ends the stream in order.    *)
(* Bytes, or what the direction is made of, are known by their position.   *)
(***************************************************************************)
EXTENDS Naturals, Sequences

VARIABLES sent,    \* bytes the writer has sent
          closed,  \* the writer has ended the stream
          broken,  \* the writer's connection has been reset
          dropped, \* the proxy has given the direction up
          got,     \* the bytes the reader has got
          ended    \* the reader has seen the end of the stream

streamVars == <<sent, closed, broken, dropped, got, ended>>

FirstBytes(n) == [i \in 1 .. n |-> i]

(* Some of the first n bytes, each once and in their order. *)
SomeBytes(s, n) ==
    /\ \A i \in DOMAIN s : s[i] \in 1 .. n
    /\ \A i, j \in DOMAIN s : i < j => s[i] < s[j]

StreamInit ==
    /\ sent = 0 /\ closed = FALSE /\ broken = FALSE /\ dropped = FALSE
    /\ got = <<>> /\ ended = FALSE

Send ==
    /\ ~closed /\ ~broken
    /\ sent' \in Nat /\ sent' > sent
    /\ UNCHANGED <<closed, broken, dropped, got, ended>>

Close ==
    /\ ~broken
    /\ closed' = TRUE
    /\ UNCHANGED <<sent, broken, dropped, got, ended>>

Break ==
    /\ broken' = TRUE
    /\ UNCHANGED <<sent, closed, dropped, got, ended>>

GiveUp ==
    /\ ~ended
    /\ dropped' = TRUE
    /\ UNCHANGED <<sent, closed, broken, got, ended>>

Deliver ==
    /\ ~ended /\ ~dropped
    /\ \E n \in 1 .. sent : Len(got) < n /\ got' = FirstBytes(n)
    /\ UNCHANGED <<sent, closed, broken, dropped, ended>>

DeliverLate ==
    /\ dropped
    /\ Len(got') > Len(got) /\ SubSeq(got', 1, Len(got)) = got
    /\ SomeBytes(got', sent)
    /\ UNCHANGED <<sent, closed, broken, dropped, ended>>

End ==
    /\ ~dropped
    /\ broken \/ (closed /\ got = FirstBytes(sent))
    /\ ended' = TRUE
    /\ UNCHANGED <<sent, closed, broken, dropped, got>>

StreamNext == Send \/ Close \/ Break \/ GiveUp \/ Deliver \/ DeliverLate \/ End

StreamSpec == StreamInit /\ [][StreamNext]_streamVars
=============================================================================
