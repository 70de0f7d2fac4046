-------------------------------- MODULE Fifo2 --------------------------------
(* The ring buffer of lib/audio/fifo2.c: a byte array and three indices.     *)
(* Bytes are written at wptr and read at rptr; sptr trails rptr, and the     *)
(* bytes from sptr to rptr have been read but not discarded.  One byte is    *)
(* never used, so that wptr = sptr means empty.  Every operation runs under  *)
(* the fifo's mutex (ASSERT_FIFO_LOCKED), so that each is one step.          *)
EXTENDS Integers, Sequences, FiniteSets

CONSTANTS Byte, Size, Bufs, Sizes

ASSUME SizeAssumption == Size \in Nat \ {0}
ASSUME ByteAssumption == Byte # {}
ASSUME BufsAssumption == Bufs \subseteq Seq(Byte)
ASSUME SizesAssumption == Sizes \subseteq Nat

VARIABLES base, sptr, rptr, wptr, out

fifoVars == <<base, sptr, rptr, wptr, out>>

Index == 0 .. Size - 1

Result(n, data) == [ret |-> n, data |-> data]
Nothing == Result(0, << >>)

\* The bytes in the ring from ptr on: from sptr with the stale ones, from
\* rptr without them (the "stale" flag of the code).
fifo2_bytes_used(ptr) == IF wptr >= ptr THEN wptr - ptr ELSE wptr - ptr + Size

fifo2_bytes_free ==
  IF sptr > wptr THEN sptr - wptr - 1 ELSE sptr - wptr + Size - 1

fifo2_inc_ptr(ptr, bytes) ==
  IF ptr + bytes >= Size THEN ptr + bytes - Size ELSE ptr + bytes

\* fifo2_wptr_incby wraps only when the end is hit exactly.
fifo2_wptr_incby(ptr, incby) == IF ptr + incby = Size THEN 0 ELSE ptr + incby

fifo2_copy_outMutant(ptr, n) == [i \in 1 .. n |-> base[fifo2_inc_ptr(0, (ptr + i) % Size)]]

\* Two memcpys, the second from the start of the array.
fifo2_copy_out(ptr, n) ==
  LET contb == Size - ptr
  IN  [i \in 1 .. n |-> IF i <= contb THEN base[ptr + i - 1] ELSE base[i - contb - 1]]

\* The array after the one or two memcpys of fifo2_enq.
CopyIn(buf) ==
  LET contb == Size - wptr
  IN  [k \in Index |->
         IF k >= wptr /\ k < wptr + Len(buf) THEN buf[k - wptr + 1]
         ELSE IF k < wptr /\ k < Len(buf) - contb THEN buf[contb + k + 1]
         ELSE base[k]]

\* Where wptr is left: one increment, or two when the copy wraps.
AfterWrite(n) ==
  LET contb == Size - wptr
  IN  IF contb >= n THEN fifo2_wptr_incby(wptr, n)
      ELSE fifo2_wptr_incby(fifo2_wptr_incby(wptr, contb), n - contb)

fifo2_init ==
  /\ base \in [Index -> Byte]
  /\ sptr = 0 /\ rptr = 0 /\ wptr = 0
  /\ out = Nothing

fifo2_enq(buf) ==
  /\ UNCHANGED <<sptr, rptr>>
  /\ \/ /\ fifo2_bytes_free < Len(buf)
        /\ out' = Nothing
        /\ UNCHANGED <<base, wptr>>
     \/ /\ fifo2_bytes_free >= Len(buf)
        /\ base' = CopyIn(buf)
        /\ wptr' = AfterWrite(Len(buf))
        /\ out' = Result(Len(buf), << >>)

fifo2_deq(n, autoDiscard) ==
  /\ UNCHANGED <<base, wptr>>
  /\ \/ /\ fifo2_bytes_used(rptr) < n
        /\ out' = Nothing
        /\ UNCHANGED <<sptr, rptr>>
     \/ /\ fifo2_bytes_used(rptr) >= n
        /\ out' = Result(n, fifo2_copy_out(rptr, n))
        /\ rptr' = fifo2_inc_ptr(rptr, n)
        /\ sptr' = IF autoDiscard THEN rptr' ELSE sptr

fifo2_read(offset, n, stale) ==
  LET ptr == IF stale THEN sptr ELSE rptr
  IN  /\ UNCHANGED <<base, sptr, rptr, wptr>>
      /\ \/ /\ fifo2_bytes_used(ptr) < offset + n
            /\ out' = Nothing
         \/ /\ fifo2_bytes_used(ptr) >= offset + n
            /\ out' = Result(n, fifo2_copy_out(fifo2_inc_ptr(ptr, offset), n))

\* A discard that looks at the bytes used, stale and fresh, as one.
fifo2_discardMutant(n) ==
  /\ sptr' = fifo2_inc_ptr(sptr, IF fifo2_bytes_used(sptr) < n THEN fifo2_bytes_used(sptr) ELSE n)
  /\ out' = Result(n, << >>)
  /\ UNCHANGED <<base, rptr, wptr>>

fifo2_discard(n) ==
  LET diff == fifo2_bytes_used(sptr) - fifo2_bytes_used(rptr)
  IN  /\ UNCHANGED <<base, rptr, wptr>>
      /\ \/ /\ diff <= n
            /\ sptr' = rptr
            /\ out' = Result(diff, << >>)
         \/ /\ diff > n
            /\ sptr' = fifo2_inc_ptr(sptr, n)
            /\ out' = Result(n, << >>)

fifo2_flush ==
  /\ sptr' = 0 /\ rptr' = 0 /\ wptr' = 0
  /\ UNCHANGED <<base, out>>

Next ==
  \/ \E buf \in Bufs : fifo2_enq(buf)
  \/ \E n \in Sizes, autoDiscard \in BOOLEAN : fifo2_deq(n, autoDiscard)
  \/ \E offset, n \in Sizes, stale \in BOOLEAN : fifo2_read(offset, n, stale)
  \/ \E n \in Sizes : fifo2_discard(n)
  \/ fifo2_flush

Spec == fifo2_init /\ [][Next]_fifoVars
-----------------------------------------------------------------------------
(* The three pointers of fifo2.c stay inside the ring.                       *)
TypeOK ==
  /\ base \in [Index -> Byte]
  /\ sptr \in Index
  /\ rptr \in Index
  /\ wptr \in Index
  /\ out \in [ret : Nat, data : Seq(Byte)]

(* "Used stale data should always be greater than or equal to used fresh     *)
(* data" (fifo2.c, fifo2_discard): on the ring, sptr never overtakes rptr,   *)
(* whatever mixture of reads, writes, discards and flushes has gone before.  *)
StaleTrailsFresh == fifo2_bytes_used(sptr) >= fifo2_bytes_used(rptr)

\* The n bytes of the ring that begin at ptr, in stream order.
Contents(ptr, n) == [i \in 1 .. n |-> base[fifo2_inc_ptr(ptr, i - 1)]]

B == INSTANCE ByteStream WITH
       Capacity <- Size - 1,
       fresh <- Contents(rptr, fifo2_bytes_used(rptr)),
       stale <- Contents(sptr, fifo2_bytes_used(sptr) - fifo2_bytes_used(rptr))

(* The ring implements the byte stream: every call returns the sizes and the *)
(* bytes the stream returns, in order, across every wrap of the pointers,    *)
(* and exactly Size - 1 bytes fit.                                           *)
ImplementsByteStream == B!SpecStream
=============================================================================
