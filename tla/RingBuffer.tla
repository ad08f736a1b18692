----------------------------- MODULE RingBuffer -----------------------------
(***************************************************************************)
(* The ring buffer of a TCP session (misc/hev-ring-buffer.c), as a record  *)
(* and the operators on it.  A byte is written, read, and only later       *)
(* released: rda counts the bytes that are written and not yet read, use   *)
(* those that are written and not yet released.                            *)
(***************************************************************************)
EXTENDS Naturals, Sequences

CONSTANT MaxSize    \* max_size: the bytes of the buffer

ASSUME MaxSizeAssumption == MaxSize \in Nat \ {0}

Offsets == 0 .. MaxSize - 1
Rings == [rp : Offsets, wp : Offsets, rda : 0 .. MaxSize, use : 0 .. MaxSize]

EmptyRing == [rp |-> 0, wp |-> 0, rda |-> 0, use |-> 0]

(* The iovecs of size bytes from an offset on: two when they wrap. *)
Pieces(from, size) ==
    LET upper == MaxSize - from
    IN  IF size = 0 THEN <<>>
        ELSE IF size <= upper THEN << [base |-> from, len |-> size] >>
        ELSE << [base |-> from, len |-> upper], [base |-> 0, len |-> size - upper] >>

(* How many bytes such iovecs span. *)
SizeOf(iov) ==
    IF iov = <<>> THEN 0 ELSE iov[1].len + (IF Len(iov) = 2 THEN iov[2].len ELSE 0)

(* The offset of the j-th byte of such iovecs. *)
OffsetOf(iov, j) ==
    IF j <= iov[1].len THEN iov[1].base + j - 1
                       ELSE iov[2].base + j - 1 - iov[1].len

Reading(ring) == Pieces(ring.rp, ring.rda)

WritingUnread(ring) == Pieces(ring.wp, MaxSize - ring.rda)   \* mutation of Writing
Writing(ring) == Pieces(ring.wp, MaxSize - ring.use)

WriteFinish(ring, n) ==
    [ring EXCEPT !.wp = (@ + n) % MaxSize, !.use = @ + n, !.rda = @ + n]

ReadFinish(ring, n) ==
    [ring EXCEPT !.rp = (@ + n) % MaxSize, !.rda = @ - n]

(* The last release starts the buffer over from offset 0. *)
ReadRelease(ring, n) ==
    IF ring.use = n THEN [ring EXCEPT !.use = 0, !.rp = 0, !.wp = 0]
                    ELSE [ring EXCEPT !.use = @ - n]
=============================================================================
