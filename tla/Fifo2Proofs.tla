----------------------------- MODULE Fifo2Proofs -----------------------------
(* The ring of Fifo2 implements ByteStream, for every size of the ring, every *)
(* set of bytes, and every buffer and size a caller passes.                  *)
EXTENDS Fifo2, SequenceTheorems, TLAPS

\* The n bytes of the array b that begin at index p, around the end of b.
Ring(b, p, n) == [i \in 1 .. n |-> b[fifo2_inc_ptr(p, i - 1)]]

Arrays == [Index -> Byte]

\* The stale bytes, and how many bytes are in the ring, by their short names.
UA == fifo2_bytes_used(sptr)
UF == fifo2_bytes_used(rptr)
Lag == UA - UF

Inv == TypeOK /\ StaleTrailsFresh

(* Stepping along the ring stays on the ring, and two steps are one longer   *)
(* step: fifo2_inc_ptr wraps once, which is enough for any step up to Size.  *)
LEMMA IncProperties ==
  ASSUME NEW p \in Index, NEW m \in 0 .. Size, NEW n \in 0 .. Size, m + n <= Size
  PROVE  /\ fifo2_inc_ptr(p, m) \in Index
         /\ fifo2_inc_ptr(fifo2_inc_ptr(p, m), n) = fifo2_inc_ptr(p, m + n)
  BY SizeAssumption DEF fifo2_inc_ptr, Index

(* A stretch of the ring is a sequence of bytes, read off element by element. *)
LEMMA RingIsSeq ==
  ASSUME NEW b \in Arrays, NEW p \in Index, NEW n \in 0 .. Size
  PROVE  /\ Ring(b, p, n) \in Seq(Byte)
         /\ Len(Ring(b, p, n)) = n
         /\ \A i \in 1 .. n : Ring(b, p, n)[i] = b[fifo2_inc_ptr(p, i - 1)]
<1>1. \A i \in 1 .. n : b[fifo2_inc_ptr(p, i - 1)] \in Byte
  BY SizeAssumption DEF fifo2_inc_ptr, Index, Arrays
<1>2. n \in Nat
  BY SizeAssumption
<1>3. Ring(b, p, n) \in [1 .. n -> Byte]
  BY <1>1 DEF Ring
<1>4. Ring(b, p, n) \in Seq(Byte)
  BY <1>2, <1>3
<1>5. DOMAIN Ring(b, p, n) = 1 .. n
  BY DEF Ring
<1> QED
  BY <1>2, <1>4, <1>5, LenProperties DEF Ring

(* Two adjacent stretches of the ring, one after the other, are the stretch  *)
(* that covers both.                                                         *)
LEMMA RingConcat ==
  ASSUME NEW b \in Arrays, NEW p \in Index, NEW m \in 0 .. Size, NEW n \in 0 .. Size,
         m + n <= Size
  PROVE  Ring(b, p, m) \o Ring(b, fifo2_inc_ptr(p, m), n) = Ring(b, p, m + n)
<1> DEFINE s == Ring(b, p, m)
           q == fifo2_inc_ptr(p, m)
           t == Ring(b, q, n)
           r == Ring(b, p, m + n)
           c == s \o t
<1>1. q \in Index /\ m + n \in 0 .. Size
  BY IncProperties, SizeAssumption
<1>2. /\ s \in Seq(Byte) /\ Len(s) = m
      /\ \A i \in 1 .. m : s[i] = b[fifo2_inc_ptr(p, i - 1)]
  BY RingIsSeq
<1>3. /\ t \in Seq(Byte) /\ Len(t) = n
      /\ \A i \in 1 .. n : t[i] = b[fifo2_inc_ptr(q, i - 1)]
  BY <1>1, RingIsSeq
<1>4. /\ r \in Seq(Byte) /\ Len(r) = m + n
      /\ \A i \in 1 .. m + n : r[i] = b[fifo2_inc_ptr(p, i - 1)]
  BY <1>1, RingIsSeq
<1> HIDE DEF s, t, r, q
<1>5. /\ c \in Seq(Byte) /\ Len(c) = m + n
      /\ \A i \in 1 .. m + n : c[i] = IF i <= m THEN s[i] ELSE t[i - m]
  BY <1>2, <1>3, ConcatProperties
<1> HIDE DEF c
<1>6. ASSUME NEW i \in 1 .. m + n
      PROVE  c[i] = r[i]
  <2>1. CASE i <= m
    <3>1. i \in 1 .. m /\ c[i] = s[i]
      BY <2>1, <1>5, SizeAssumption
    <3> QED
      BY <3>1, <1>2, <1>4
  <2>2. CASE i > m
    <3>1. i - m \in 1 .. n /\ c[i] = t[i - m]
      BY <2>2, <1>5, SizeAssumption
    <3>2. fifo2_inc_ptr(q, (i - m) - 1) = fifo2_inc_ptr(p, i - 1)
      <4>1. (i - m) - 1 \in 0 .. Size /\ m + ((i - m) - 1) = i - 1 /\ i - 1 <= Size
        BY <3>1, SizeAssumption
      <4> QED
        BY <4>1, IncProperties DEF q
    <3> QED
      BY <3>1, <3>2, <1>3, <1>4
  <2> QED
    BY <2>1, <2>2, SizeAssumption
<1>7. c = r
  BY <1>4, <1>5, <1>6, SeqEqual
<1> QED
  BY <1>7 DEF c, s, t, r, q

(* A slice of a stretch of the ring is the stretch that begins that much     *)
(* further on.                                                               *)
LEMMA RingSlice ==
  ASSUME NEW b \in Arrays, NEW p \in Index, NEW m \in 0 .. Size,
         NEW from \in 0 .. Size, NEW n \in 0 .. Size, from + n <= m
  PROVE  B!Slice(Ring(b, p, m), from, n) = Ring(b, fifo2_inc_ptr(p, from), n)
<1> DEFINE s == Ring(b, p, m)
           q == fifo2_inc_ptr(p, from)
           r == Ring(b, q, n)
           t == SubSeq(s, from + 1, from + n)
<1>1. q \in Index
  BY IncProperties, SizeAssumption
<1>2. /\ s \in Seq(Byte) /\ Len(s) = m
      /\ \A i \in 1 .. m : s[i] = b[fifo2_inc_ptr(p, i - 1)]
  BY RingIsSeq
<1>3. /\ r \in Seq(Byte) /\ Len(r) = n
      /\ \A i \in 1 .. n : r[i] = b[fifo2_inc_ptr(q, i - 1)]
  BY <1>1, RingIsSeq
<1> HIDE DEF s, r, q
<1>4. \A i \in from + 1 .. from + n : s[i] \in Byte
  BY <1>2, ElementOfSeq, SizeAssumption
<1>5. /\ t \in Seq(Byte)
      /\ Len(t) = n
      /\ \A i \in 1 .. n : t[i] = s[from + i]
  <2>1. from + 1 \in Int /\ from + n \in Int
    BY SizeAssumption
  <2>2. /\ t \in Seq(Byte)
        /\ Len(t) = IF from + 1 <= from + n THEN (from + n) - (from + 1) + 1 ELSE 0
        /\ \A i \in 1 .. (from + n) - (from + 1) + 1 : t[i] = s[(from + 1) + i - 1]
    BY <1>4, <2>1, SubSeqProperties
  <2> HIDE DEF t
  <2>3. \A i \in 1 .. n : t[i] = s[from + i]
    <3> TAKE i \in 1 .. n
    <3>1. i \in 1 .. (from + n) - (from + 1) + 1 /\ (from + 1) + i - 1 = from + i
      BY SizeAssumption
    <3> QED
      BY <3>1, <2>2
  <2> QED
    BY <2>2, <2>3, SizeAssumption
<1> HIDE DEF t
<1>6. ASSUME NEW i \in 1 .. n
      PROVE  t[i] = r[i]
  <2>1. /\ from + i \in 1 .. m /\ (from + i) - 1 = from + (i - 1)
        /\ i - 1 \in 0 .. Size /\ from + (i - 1) <= Size
    BY SizeAssumption
  <2>2. fifo2_inc_ptr(q, i - 1) = fifo2_inc_ptr(p, from + (i - 1))
    BY <2>1, IncProperties DEF q
  <2> QED
    BY <2>1, <2>2, <1>2, <1>3, <1>5
<1>7. t = r
  BY <1>3, <1>5, <1>6, SeqEqual
<1> QED
  BY <1>7 DEF t, s, r, q, B!Slice

\* How far w is ahead of p on the ring.
Dist(p, w) == IF w >= p THEN w - p ELSE w - p + Size

(* The distance from p is what takes p to w, and it is less than Size.       *)
LEMMA DistProperties ==
  ASSUME NEW p \in Index, NEW w \in Index
  PROVE  /\ Dist(p, w) \in 0 .. Size - 1
         /\ fifo2_inc_ptr(p, Dist(p, w)) = w
  BY SizeAssumption DEF Dist, fifo2_inc_ptr, Index

(* The sizes the code computes from the pointers: what is read and not       *)
(* discarded takes sptr to rptr, and what is free makes up Size - 1.         *)
LEMMA Pointers ==
  ASSUME Inv
  PROVE  /\ UA \in 0 .. Size - 1 /\ UF \in 0 .. Size - 1
         /\ Lag \in 0 .. Size - 1
         /\ fifo2_inc_ptr(sptr, Lag) = rptr
         /\ fifo2_inc_ptr(rptr, UF) = wptr
         /\ fifo2_bytes_free = Size - 1 - UA
  BY SizeAssumption
  DEF Inv, TypeOK, StaleTrailsFresh, UA, UF, Lag, Index, fifo2_bytes_used,
      fifo2_bytes_free, fifo2_inc_ptr

\* The byte stream's two sequences, as stretches of the ring.
Fresh == Ring(base, rptr, UF)
Stale == Ring(base, sptr, Lag)

(* The stream's own counts are the code's.                                   *)
LEMMA Mapping ==
  ASSUME Inv
  PROVE  /\ Fresh \in Seq(Byte) /\ Len(Fresh) = UF
         /\ Stale \in Seq(Byte) /\ Len(Stale) = Lag
         /\ Contents(rptr, fifo2_bytes_used(rptr)) = Fresh
         /\ Contents(sptr, fifo2_bytes_used(sptr) - fifo2_bytes_used(rptr)) = Stale
         /\ B!Free = fifo2_bytes_free
<1>1. UF \in 0 .. Size /\ Lag \in 0 .. Size
  BY Pointers, SizeAssumption
<1>2. base \in Arrays /\ rptr \in Index /\ sptr \in Index
  BY DEF Inv, TypeOK, Arrays
<1>3. /\ Fresh \in Seq(Byte) /\ Len(Fresh) = UF
      /\ Stale \in Seq(Byte) /\ Len(Stale) = Lag
  BY <1>1, <1>2, RingIsSeq DEF Fresh, Stale
<1>4. /\ Contents(rptr, fifo2_bytes_used(rptr)) = Fresh
      /\ Contents(sptr, fifo2_bytes_used(sptr) - fifo2_bytes_used(rptr)) = Stale
  BY DEF Fresh, Stale, Ring, Contents, UA, UF, Lag
<1>5. B!Free = fifo2_bytes_free
  <2>1. Len(Stale) + Len(Fresh) = UA
    BY <1>1, <1>3, Pointers, SizeAssumption DEF Lag
  <2> QED
    BY <1>4, <2>1, Pointers DEF B!Free
<1> QED
  BY <1>3, <1>4, <1>5

(* The two memcpys of fifo2_copy_out are a stretch of the ring.              *)
LEMMA CopyOut ==
  ASSUME Inv, NEW p \in Index, NEW n \in 0 .. Size
  PROVE  fifo2_copy_out(p, n) = Ring(base, p, n)
<1>1. ASSUME NEW i \in 1 .. n
      PROVE  (IF i <= Size - p THEN base[p + i - 1] ELSE base[i - (Size - p) - 1])
               = base[fifo2_inc_ptr(p, i - 1)]
  <2>1. CASE i <= Size - p
    <3>1. p + i - 1 = fifo2_inc_ptr(p, i - 1)
      BY <2>1, SizeAssumption DEF fifo2_inc_ptr, Index
    <3> QED
      BY <2>1, <3>1
  <2>2. CASE ~(i <= Size - p)
    <3>1. i - (Size - p) - 1 = fifo2_inc_ptr(p, i - 1)
      BY <2>2, SizeAssumption DEF fifo2_inc_ptr, Index
    <3> QED
      BY <2>2, <3>1
  <2> QED
    BY <2>1, <2>2
<1> QED
  BY <1>1 DEF fifo2_copy_out, Ring

(* What fifo2_enq does to the ring: wptr moves along by the bytes written,   *)
(* they are found where it was, and no byte between any p and wptr is lost,  *)
(* as long as the new bytes do not reach around to p.                        *)
LEMMA Write ==
  ASSUME Inv, NEW buf \in Seq(Byte), Len(buf) < Size
  PROVE  /\ AfterWrite(Len(buf)) = fifo2_inc_ptr(wptr, Len(buf))
         /\ CopyIn(buf) \in Arrays
         /\ Ring(CopyIn(buf), wptr, Len(buf)) = buf
         /\ \A p \in Index, m \in 0 .. Size :
              (m <= Dist(p, wptr) /\ Dist(p, wptr) + Len(buf) < Size)
                => Ring(CopyIn(buf), p, m) = Ring(base, p, m)
<1> DEFINE n == Len(buf)
           b == CopyIn(buf)
<1>1. n \in 0 .. Size /\ wptr \in Index /\ base \in Arrays
  BY LenProperties, SizeAssumption DEF Inv, TypeOK, Arrays
<1>2. \A i \in 1 .. n : buf[i] \in Byte
  BY ElementOfSeq
<1>3. AfterWrite(n) = fifo2_inc_ptr(wptr, n)
  BY <1>1, SizeAssumption DEF AfterWrite, fifo2_wptr_incby, fifo2_inc_ptr, Index
<1>4. b = [k \in Index |-> IF k >= wptr /\ k < wptr + n THEN buf[k - wptr + 1]
                           ELSE IF k < wptr /\ k < n - (Size - wptr)
                                THEN buf[(Size - wptr) + k + 1] ELSE base[k]]
  BY DEF CopyIn
<1> HIDE DEF b
<1>5. b \in Arrays
  <2>1. ASSUME NEW k \in Index PROVE b[k] \in Byte
    <3>1. CASE k >= wptr /\ k < wptr + n
      <4>1. k - wptr + 1 \in 1 .. n /\ b[k] = buf[k - wptr + 1]
        BY <3>1, <1>1, <1>4 DEF Index
      <4> QED
        BY <4>1, <1>2
    <3>2. CASE ~(k >= wptr /\ k < wptr + n) /\ k < wptr /\ k < n - (Size - wptr)
      <4>1. (Size - wptr) + k + 1 \in 1 .. n /\ b[k] = buf[(Size - wptr) + k + 1]
        BY <3>2, <1>1, <1>4, SizeAssumption DEF Index
      <4> QED
        BY <4>1, <1>2
    <3>3. CASE ~(k >= wptr /\ k < wptr + n) /\ ~(k < wptr /\ k < n - (Size - wptr))
      <4>1. b[k] = base[k]
        BY <3>3, <1>4
      <4> QED
        BY <4>1, <1>1 DEF Arrays
    <3> QED
      BY <3>1, <3>2, <3>3
  <2> QED
    BY <2>1, <1>4 DEF Arrays
<1>6. Ring(b, wptr, n) = buf
  <2>1. /\ Ring(b, wptr, n) \in Seq(Byte) /\ Len(Ring(b, wptr, n)) = n
        /\ \A i \in 1 .. n : Ring(b, wptr, n)[i] = b[fifo2_inc_ptr(wptr, i - 1)]
    BY <1>1, <1>5, RingIsSeq
  <2>2. ASSUME NEW i \in 1 .. n
        PROVE  b[fifo2_inc_ptr(wptr, i - 1)] = buf[i]
    <3> DEFINE k == fifo2_inc_ptr(wptr, i - 1)
    <3>1. CASE wptr + i - 1 < Size
      <4>1. k \in Index /\ k >= wptr /\ k < wptr + n /\ k - wptr + 1 = i
        BY <3>1, <1>1, SizeAssumption DEF fifo2_inc_ptr, Index
      <4> QED
        BY <4>1, <1>4
    <3>2. CASE ~(wptr + i - 1 < Size)
      <4>1. /\ k \in Index /\ k < wptr /\ k < n - (Size - wptr)
            /\ (Size - wptr) + k + 1 = i /\ ~(k >= wptr)
        BY <3>2, <1>1, SizeAssumption DEF fifo2_inc_ptr, Index
      <4> QED
        BY <4>1, <1>4
    <3> QED
      BY <3>1, <3>2
  <2> QED
    BY <2>1, <2>2, SeqEqual
<1>7. ASSUME NEW p \in Index, NEW m \in 0 .. Size,
             m <= Dist(p, wptr), Dist(p, wptr) + n < Size
      PROVE  Ring(b, p, m) = Ring(base, p, m)
  <2>1. ASSUME NEW i \in 1 .. m
        PROVE  b[fifo2_inc_ptr(p, i - 1)] = base[fifo2_inc_ptr(p, i - 1)]
    <3> DEFINE k == fifo2_inc_ptr(p, i - 1)
    <3>1. /\ k \in Index
          /\ ~(k >= wptr /\ k < wptr + n) /\ ~(k < wptr /\ k < n - (Size - wptr))
      BY <1>1, <1>7, SizeAssumption DEF fifo2_inc_ptr, Index, Dist
    <3> QED
      BY <3>1, <1>4
  <2> QED
    BY <2>1 DEF Ring
<1> QED
  BY <1>3, <1>5, <1>6, <1>7 DEF b

(* The refinement mapping in the next state, by the short names.             *)
LEMMA MappingPrime ==
  /\ Contents(rptr, fifo2_bytes_used(rptr))' = Fresh'
  /\ Contents(sptr, fifo2_bytes_used(sptr) - fifo2_bytes_used(rptr))' = Stale'
  /\ Fresh' = Ring(base', rptr', UF')
  /\ Stale' = Ring(base', sptr', Lag')
  /\ UA' = Dist(sptr', wptr') /\ UF' = Dist(rptr', wptr') /\ Lag' = UA' - UF'
  BY DEF Fresh, Stale, Ring, Contents, UA, UF, Lag, fifo2_bytes_used, Dist, fifo2_inc_ptr

(* fifo2_enq appends the buffer to the stream, or leaves everything alone.   *)
LEMMA EnqStep ==
  ASSUME Inv, NEW buf \in Bufs, fifo2_enq(buf)
  PROVE  Inv' /\ B!EnqStream(buf)
<1> DEFINE n == Len(buf)
<1>1. buf \in Seq(Byte) /\ n \in Nat
  BY BufsAssumption, LenProperties
<1>2. /\ base \in Arrays /\ sptr \in Index /\ rptr \in Index /\ wptr \in Index
      /\ out \in [ret : Nat, data : Seq(Byte)]
  BY DEF Inv, TypeOK, Arrays
<1>3. << >> \in Seq(Byte) /\ 0 \in Nat
  BY EmptySeq
<1>4. CASE fifo2_bytes_free < n
  <2>1. UNCHANGED <<base, sptr, rptr, wptr>> /\ out' = Nothing
    BY <1>1, <1>4, Pointers, SizeAssumption DEF fifo2_enq
  <2>2. Inv'
    BY <1>3, <2>1 DEF Inv, TypeOK, StaleTrailsFresh, fifo2_bytes_used, Nothing, Result
  <2>3. Fresh' = Fresh /\ Stale' = Stale
    BY <2>1 DEF Fresh, Stale, Ring, UA, UF, Lag, fifo2_bytes_used
  <2>4. n > B!Free
    BY <1>1, <1>4, Mapping, Pointers, SizeAssumption
  <2> QED
    BY <2>1, <2>2, <2>3, <2>4, Mapping, MappingPrime
    DEF B!EnqStream, B!Nothing, B!Result, Nothing, Result
<1>5. CASE fifo2_bytes_free >= n
  <2>1. /\ base' = CopyIn(buf) /\ wptr' = AfterWrite(n)
        /\ UNCHANGED <<sptr, rptr>> /\ out' = Result(n, << >>)
    BY <1>1, <1>5, Pointers, SizeAssumption DEF fifo2_enq
  <2>2. n < Size /\ UA + n < Size /\ UF + n < Size /\ Lag <= UA
    BY <1>1, <1>5, Pointers, SizeAssumption DEF Lag
  <2>3. UA = Dist(sptr, wptr) /\ UF = Dist(rptr, wptr)
    BY DEF UA, UF, Dist, fifo2_bytes_used
  <2>4. /\ wptr' = fifo2_inc_ptr(wptr, n) /\ base' \in Arrays
        /\ Ring(base', wptr, n) = buf
        /\ Ring(base', rptr, UF) = Ring(base, rptr, UF)
        /\ Ring(base', sptr, Lag) = Ring(base, sptr, Lag)
    <3>1. UF \in 0 .. Size /\ Lag \in 0 .. Size
      BY Pointers, SizeAssumption
    <3>2. UF <= Dist(rptr, wptr) /\ Dist(rptr, wptr) + n < Size
      BY <2>2, <2>3, <3>1
    <3>3. Lag <= Dist(sptr, wptr) /\ Dist(sptr, wptr) + n < Size
      BY <2>2, <2>3, <3>1
    <3> QED
      BY <1>1, <1>2, <2>1, <2>2, <3>1, <3>2, <3>3, Write
  <2>5. /\ wptr' \in Index /\ UA' = UA + n /\ UF' = UF + n /\ Lag' = Lag
    <3>2. /\ wptr' \in Index
          /\ \A a \in Index : Dist(a, wptr) + n < Size => Dist(a, wptr') = Dist(a, wptr) + n
      BY <1>1, <1>2, <2>2, <2>4, SizeAssumption DEF Dist, fifo2_inc_ptr, Index
    <3>1. wptr' \in Index /\ Dist(sptr, wptr') = UA + n /\ Dist(rptr, wptr') = UF + n
      BY <1>1, <1>2, <2>2, <2>3, <3>2
    <3> QED
      BY <3>1, <2>1, <1>1, Pointers, MappingPrime DEF Lag
  <2>6. Inv'
    <3>1. TypeOK'
      BY <1>1, <1>2, <1>3, <2>1, <2>4, <2>5 DEF TypeOK, Arrays, Result
    <3>2. UA' >= UF'
      BY <2>5, <1>1, Pointers, SizeAssumption DEF Lag
    <3> QED
      BY <3>1, <3>2 DEF Inv, StaleTrailsFresh, UA, UF
  <2>7. Fresh' = Fresh \o buf /\ Stale' = Stale
    <3>1. Ring(base', rptr, UF) \o Ring(base', fifo2_inc_ptr(rptr, UF), n)
            = Ring(base', rptr, UF + n)
      <4>1. UF \in 0 .. Size /\ n \in 0 .. Size /\ UF + n <= Size
        BY <1>1, <2>2, Pointers, SizeAssumption
      <4> QED
        BY <4>1, <1>2, <2>4, RingConcat
    <3>2. fifo2_inc_ptr(rptr, UF) = wptr
      BY Pointers
    <3> QED
      BY <3>1, <3>2, <2>1, <2>4, <2>5, MappingPrime DEF Fresh, Stale
  <2>8. n <= B!Free
    BY <1>1, <1>5, Mapping, Pointers, SizeAssumption
  <2> QED
    BY <2>1, <2>6, <2>7, <2>8, Mapping, MappingPrime DEF B!EnqStream, B!Result, Result
<1> QED
  BY <1>1, <1>4, <1>5, Pointers, SizeAssumption

(* fifo2_deq hands over the oldest fresh bytes, which turn stale (or go, with *)
(* auto_discard), or nothing when there are fewer than asked for.            *)
LEMMA DeqStep ==
  ASSUME Inv, NEW n \in Sizes, NEW autoDiscard \in BOOLEAN, fifo2_deq(n, autoDiscard)
  PROVE  Inv' /\ B!DeqStream(n, autoDiscard)
<1>1. n \in Nat
  BY SizesAssumption
<1>2. /\ base \in Arrays /\ sptr \in Index /\ rptr \in Index /\ wptr \in Index
  BY DEF Inv, TypeOK, Arrays
<1>3. << >> \in Seq(Byte) /\ 0 \in Nat
  BY EmptySeq
<1>4. CASE UF < n
  <2>1. UNCHANGED <<base, sptr, rptr, wptr>> /\ out' = Nothing
    BY <1>1, <1>4, Pointers, SizeAssumption DEF fifo2_deq, UF
  <2>2. Inv'
    BY <1>3, <2>1 DEF Inv, TypeOK, StaleTrailsFresh, fifo2_bytes_used, Nothing, Result
  <2>3. Fresh' = Fresh /\ Stale' = Stale
    BY <2>1 DEF Fresh, Stale, Ring, UA, UF, Lag, fifo2_bytes_used
  <2>4. n > Len(Fresh)
    BY <1>1, <1>4, Mapping, Pointers, SizeAssumption
  <2> QED
    BY <2>1, <2>2, <2>3, <2>4, Mapping, MappingPrime
    DEF B!DeqStream, B!Nothing, B!Result, Nothing, Result
<1>5. CASE UF >= n
  <2>1. /\ UNCHANGED <<base, wptr>> /\ out' = Result(n, fifo2_copy_out(rptr, n))
        /\ rptr' = fifo2_inc_ptr(rptr, n)
        /\ sptr' = IF autoDiscard THEN rptr' ELSE sptr
    BY <1>1, <1>5, Pointers, SizeAssumption DEF fifo2_deq, UF
  <2>2. /\ n \in 0 .. Size /\ UF \in 0 .. Size /\ UF - n \in 0 .. Size
        /\ Lag \in 0 .. Size /\ Lag + n \in 0 .. Size /\ n + (UF - n) <= UF
        /\ 0 + n <= UF /\ Lag + n <= Size
    BY <1>1, <1>5, Pointers, SizeAssumption DEF Lag
  <2>3. UA = Dist(sptr, wptr) /\ UF = Dist(rptr, wptr)
    BY DEF UA, UF, Dist, fifo2_bytes_used
  <2>4. rptr' \in Index /\ UF' = UF - n
    <3>1. /\ fifo2_inc_ptr(rptr, n) \in Index
          /\ Dist(fifo2_inc_ptr(rptr, n), wptr) = UF - n
      BY <1>1, <1>2, <1>5, <2>2, <2>3, SizeAssumption DEF Dist, fifo2_inc_ptr, Index
    <3> QED
      BY <3>1, <2>1, MappingPrime
  <2>5. fifo2_copy_out(rptr, n) = B!Slice(Fresh, 0, n)
    <3>1. fifo2_copy_out(rptr, n) = Ring(base, rptr, n)
      BY <1>2, <2>2, CopyOut
    <3>2. B!Slice(Fresh, 0, n) = Ring(base, fifo2_inc_ptr(rptr, 0), n)
      <4>1. 0 \in 0 .. Size
        BY SizeAssumption
      <4> QED
        BY <4>1, <1>2, <2>2, RingSlice DEF Fresh
    <3>3. fifo2_inc_ptr(rptr, 0) = rptr
      BY <1>2, SizeAssumption DEF fifo2_inc_ptr, Index
    <3> QED
      BY <3>1, <3>2, <3>3
  <2>6. fifo2_copy_out(rptr, n) \in Seq(Byte)
    BY <1>2, <2>2, CopyOut, RingIsSeq
  <2>7. Fresh' = B!Slice(Fresh, n, Len(Fresh) - n)
    <3>1. B!Slice(Fresh, n, UF - n) = Ring(base, fifo2_inc_ptr(rptr, n), UF - n)
      BY <1>2, <2>2, RingSlice DEF Fresh
    <3> QED
      BY <3>1, <2>1, <2>4, Mapping, MappingPrime
  <2>8. CASE autoDiscard
    <3>1. sptr' = rptr' /\ UA' = UF' /\ Lag' = 0
      <4>1. sptr' = rptr' /\ UA' = UF'
        BY <2>1, <2>8, MappingPrime
      <4> QED
        BY <4>1, <2>4, <2>2, MappingPrime
    <3>2. Inv'
      <4>1. TypeOK'
        BY <3>1, <1>1, <1>2, <2>1, <2>4, <2>6 DEF TypeOK, Arrays, Result
      <4> QED
        BY <4>1, <3>1, <2>2, <2>4 DEF Inv, StaleTrailsFresh, UA, UF
    <3>3. Stale' = << >>
      <4>1. /\ Ring(base', sptr', 0) \in Seq(Byte) /\ Len(Ring(base', sptr', 0)) = 0
        <5>1. base' \in Arrays /\ sptr' \in Index /\ 0 \in 0 .. Size
          BY <1>2, <2>1, <2>4, <3>1, SizeAssumption
        <5> QED
          BY <5>1, RingIsSeq
      <4>2. Ring(base', sptr', 0) = << >>
        BY <4>1, EmptySeq, SeqEqual
      <4> QED
        BY <4>2, <3>1, MappingPrime
    <3> QED
      BY <2>1, <2>2, <2>5, <2>7, <2>8, <3>2, <3>3, Mapping, MappingPrime
      DEF B!DeqStream, B!Result, Result
  <2>9. CASE ~autoDiscard
    <3>1. sptr' = sptr /\ UA' = UA /\ Lag' = Lag + n
      <4>1. sptr' = sptr /\ UA' = UA
        BY <2>1, <2>3, <2>9, MappingPrime
      <4> QED
        BY <4>1, <2>4, <2>2, <1>1, Pointers, MappingPrime DEF Lag
    <3>2. Inv'
      <4>1. TypeOK'
        BY <3>1, <1>1, <1>2, <2>1, <2>4, <2>6 DEF TypeOK, Arrays, Result
      <4>2. UA' >= UF'
        BY <3>1, <2>4, <1>1, <2>2, Pointers, SizeAssumption DEF Lag
      <4> QED
        BY <4>1, <4>2 DEF Inv, StaleTrailsFresh, UA, UF
    <3>3. Stale' = Stale \o B!Slice(Fresh, 0, n)
      <4>1. Ring(base, sptr, Lag) \o Ring(base, fifo2_inc_ptr(sptr, Lag), n)
              = Ring(base, sptr, Lag + n)
        BY <1>2, <2>2, RingConcat
      <4>2. fifo2_inc_ptr(sptr, Lag) = rptr /\ Ring(base, rptr, n) = B!Slice(Fresh, 0, n)
        BY Pointers, <1>2, <2>2, <2>5, CopyOut
      <4> QED
        BY <4>1, <4>2, <3>1, <2>1, MappingPrime DEF Stale
    <3> QED
      BY <2>1, <2>2, <2>5, <2>7, <2>9, <3>2, <3>3, Mapping, MappingPrime
      DEF B!DeqStream, B!Result, Result
  <2> QED
    BY <2>8, <2>9
<1> QED
  BY <1>1, <1>4, <1>5, Pointers, SizeAssumption

(* fifo2_read only looks: at the stale bytes followed by the fresh ones, or  *)
(* at the fresh ones.                                                        *)
LEMMA ReadStep ==
  ASSUME Inv, NEW offset \in Sizes, NEW n \in Sizes, NEW stale \in BOOLEAN,
         fifo2_read(offset, n, stale)
  PROVE  Inv' /\ B!ReadStream(offset, n, stale)
<1> DEFINE ptr == IF stale THEN sptr ELSE rptr
           bytes == IF stale THEN Stale \o Fresh ELSE Fresh
           used == fifo2_bytes_used(ptr)
<1>1. n \in Nat /\ offset \in Nat
  BY SizesAssumption
<1>2. base \in Arrays /\ sptr \in Index /\ rptr \in Index /\ wptr \in Index
  BY DEF Inv, TypeOK, Arrays
<1>3. << >> \in Seq(Byte) /\ 0 \in Nat
  BY EmptySeq
<1>4. UNCHANGED <<base, sptr, rptr, wptr>>
  BY DEF fifo2_read
<1>5. Fresh' = Fresh /\ Stale' = Stale
  BY <1>4 DEF Fresh, Stale, Ring, UA, UF, Lag, fifo2_bytes_used
<1>6. ptr \in Index /\ used \in 0 .. Size - 1 /\ used \in 0 .. Size
  BY <1>2, Pointers, SizeAssumption DEF UA, UF
<1>7. bytes = Ring(base, ptr, used) /\ Len(bytes) = used
  <2>1. CASE stale
    <3>1. Ring(base, sptr, Lag) \o Ring(base, fifo2_inc_ptr(sptr, Lag), UF)
            = Ring(base, sptr, Lag + UF)
      <4>1. Lag \in 0 .. Size /\ UF \in 0 .. Size /\ Lag + UF <= Size
        BY Pointers, SizeAssumption DEF Lag
      <4> QED
        BY <4>1, <1>2, RingConcat
    <3>2. Lag + UF = used /\ fifo2_inc_ptr(sptr, Lag) = rptr
      BY <2>1, Pointers, SizeAssumption DEF Lag, UA
    <3>3. Stale \o Fresh = Ring(base, sptr, used)
      BY <3>1, <3>2 DEF Stale, Fresh
    <3> QED
      BY <2>1, <3>3, <1>2, <1>6, RingIsSeq
  <2>2. CASE ~stale
    BY <2>2, <1>2, <1>6, RingIsSeq DEF Fresh, UF
  <2> QED
    BY <2>1, <2>2
<1> HIDE DEF ptr, bytes, used
<1>8. CASE used < offset + n
  <2>1. out' = Nothing
    BY <1>1, <1>6, <1>8 DEF fifo2_read, ptr, used
  <2>2. Inv'
    BY <1>3, <1>4, <2>1 DEF Inv, TypeOK, StaleTrailsFresh, fifo2_bytes_used, Nothing, Result
  <2>3. offset + n > Len(bytes)
    BY <1>1, <1>6, <1>7, <1>8
  <2> QED
    BY <2>1, <2>2, <2>3, <1>5, Mapping, MappingPrime
    DEF B!ReadStream, B!Nothing, B!Result, Nothing, Result, bytes
<1>9. CASE used >= offset + n
  <2> DEFINE from == fifo2_inc_ptr(ptr, offset)
  <2>1. out' = Result(n, fifo2_copy_out(from, n))
    BY <1>1, <1>6, <1>9 DEF fifo2_read, ptr, used
  <2>2. offset \in 0 .. Size /\ n \in 0 .. Size /\ offset + n <= used /\ 0 \in 0 .. Size
    BY <1>1, <1>6, <1>9, SizeAssumption
  <2>3. from \in Index
    BY <1>6, <2>2, IncProperties
  <2> HIDE DEF from
  <2>4. /\ fifo2_copy_out(from, n) = Ring(base, from, n)
        /\ fifo2_copy_out(from, n) \in Seq(Byte)
    BY <1>2, <2>2, <2>3, CopyOut, RingIsSeq
  <2>5. B!Slice(bytes, offset, n) = Ring(base, from, n)
    BY <1>2, <1>6, <1>7, <2>2, RingSlice DEF from
  <2>6. Inv'
    BY <1>1, <1>4, <2>1, <2>4 DEF Inv, TypeOK, StaleTrailsFresh, fifo2_bytes_used, Result
  <2>7. offset + n <= Len(bytes)
    BY <1>7, <2>2
  <2> QED
    BY <2>1, <2>4, <2>5, <2>6, <2>7, <1>5, Mapping, MappingPrime
    DEF B!ReadStream, B!Result, Result, bytes
<1> QED
  BY <1>1, <1>6, <1>8, <1>9

(* fifo2_discard drops the oldest stale bytes and never a fresh one.         *)
LEMMA DiscardStep ==
  ASSUME Inv, NEW n \in Sizes, fifo2_discard(n)
  PROVE  Inv' /\ B!DiscardStream(n)
<1> DEFINE k == IF n < Lag THEN n ELSE Lag
<1>1. n \in Nat
  BY SizesAssumption
<1>2. base \in Arrays /\ sptr \in Index /\ rptr \in Index /\ wptr \in Index
  BY DEF Inv, TypeOK, Arrays
<1>3. UNCHANGED <<base, rptr, wptr>>
  BY DEF fifo2_discard
<1>4. /\ k \in 0 .. Size /\ Lag \in 0 .. Size /\ Lag - k \in 0 .. Size
      /\ k + (Lag - k) <= Lag /\ k <= Lag /\ k \in Nat
  BY <1>1, Pointers, SizeAssumption
<1>5. sptr' = fifo2_inc_ptr(sptr, k) /\ out' = Result(k, << >>)
  <2>1. CASE Lag <= n
    <3>1. sptr' = rptr /\ out' = Result(Lag, << >>)
      BY <2>1, <1>1, Pointers, SizeAssumption DEF fifo2_discard, Lag, UA, UF
    <3>2. k = Lag
      BY <2>1, <1>1, Pointers
    <3> QED
      BY <3>1, <3>2, Pointers
  <2>2. CASE ~(Lag <= n)
    <3>1. sptr' = fifo2_inc_ptr(sptr, n) /\ out' = Result(n, << >>)
      BY <2>2, <1>1, Pointers, SizeAssumption DEF fifo2_discard, Lag, UA, UF
    <3>2. k = n
      BY <2>2, <1>1, Pointers
    <3> QED
      BY <3>1, <3>2
  <2> QED
    BY <2>1, <2>2
<1> HIDE DEF k
<1>6. sptr' \in Index /\ UA' = UA - k /\ UF' = UF /\ Lag' = Lag - k
  <2>1. UA = Dist(sptr, wptr) /\ UF = Dist(rptr, wptr) /\ k <= UA
    BY <1>4, Pointers DEF UA, UF, Dist, fifo2_bytes_used, Lag
  <2>2. sptr' \in Index /\ Dist(sptr', wptr) = UA - k
    BY <1>2, <1>4, <1>5, <2>1, SizeAssumption DEF Dist, fifo2_inc_ptr, Index
  <2> QED
    BY <1>3, <1>4, <2>1, <2>2, Pointers, MappingPrime DEF Lag
<1>7. Inv'
  <2>1. << >> \in Seq(Byte)
    BY EmptySeq
  <2>2. TypeOK'
    BY <1>2, <1>3, <1>4, <1>5, <1>6, <2>1 DEF TypeOK, Arrays, Result
  <2>3. UA' >= UF'
    BY <1>4, <1>6, Pointers DEF Lag
  <2> QED
    BY <2>2, <2>3 DEF Inv, StaleTrailsFresh, UA, UF
<1>8. Fresh' = Fresh
  BY <1>3, <1>6, MappingPrime DEF Fresh
<1>9. Stale' = B!Slice(Stale, k, Len(Stale) - k)
  <2>1. B!Slice(Ring(base, sptr, Lag), k, Lag - k) = Ring(base, fifo2_inc_ptr(sptr, k), Lag - k)
    BY <1>2, <1>4, RingSlice
  <2> QED
    BY <2>1, <1>3, <1>5, <1>6, Mapping, MappingPrime DEF Stale
<1>10. k = IF n < Len(Stale) THEN n ELSE Len(Stale)
  BY Mapping DEF k
<1> QED
  BY <1>5, <1>7, <1>8, <1>9, <1>10, Mapping, MappingPrime
  DEF B!DiscardStream, B!Result, Result

(* fifo2_flush empties the stream: no byte is stale or fresh afterwards.     *)
LEMMA FlushStep ==
  ASSUME Inv, fifo2_flush
  PROVE  Inv' /\ B!FlushStream
<1>1. sptr' = 0 /\ rptr' = 0 /\ wptr' = 0 /\ base' = base /\ out' = out
  BY DEF fifo2_flush
<1>2. UA' = 0 /\ UF' = 0 /\ Lag' = 0
  BY <1>1, MappingPrime DEF Dist
<1>3. Inv'
  BY <1>1, SizeAssumption DEF Inv, TypeOK, StaleTrailsFresh, fifo2_bytes_used, Index
<1>4. /\ Ring(base', 0, 0) \in Seq(Byte) /\ Len(Ring(base', 0, 0)) = 0
  <2>1. base' \in Arrays /\ 0 \in Index /\ 0 \in 0 .. Size
    BY <1>3, SizeAssumption DEF Inv, TypeOK, Arrays, Index
  <2> QED
    BY <2>1, RingIsSeq
<1>5. Ring(base', 0, 0) = << >>
  BY <1>4, EmptySeq, SeqEqual
<1>6. Fresh' = << >> /\ Stale' = << >>
  BY <1>1, <1>2, <1>5, MappingPrime
<1> QED
  BY <1>1, <1>3, <1>6, MappingPrime DEF B!FlushStream

(* A fresh fifo is an empty stream, of the right type.                       *)
LEMMA InitStep ==
  ASSUME fifo2_init
  PROVE  Inv /\ B!InitStream
<1>1. Inv
  BY SizeAssumption, EmptySeq
  DEF fifo2_init, Inv, TypeOK, StaleTrailsFresh, fifo2_bytes_used, Index, Nothing, Result
<1>2. UF = 0 /\ Lag = 0
  BY DEF fifo2_init, UA, UF, Lag, fifo2_bytes_used
<1>3. Fresh = << >> /\ Stale = << >>
  BY <1>1, <1>2, Mapping, EmptySeq, SeqEqual
<1> QED
  BY <1>1, <1>3, Mapping DEF B!InitStream, fifo2_init, B!Nothing, B!Result, Nothing, Result

(* Every step of the ring is a step of the stream, and keeps the invariant.  *)
LEMMA NextStep ==
  ASSUME Inv, [Next]_fifoVars
  PROVE  Inv' /\ [B!NextStream]_B!streamVars
<1>1. CASE \E buf \in Bufs : fifo2_enq(buf)
  BY <1>1, EnqStep DEF B!NextStream
<1>2. CASE \E n \in Sizes, autoDiscard \in BOOLEAN : fifo2_deq(n, autoDiscard)
  BY <1>2, DeqStep DEF B!NextStream
<1>3. CASE \E offset, n \in Sizes, stale \in BOOLEAN : fifo2_read(offset, n, stale)
  BY <1>3, ReadStep DEF B!NextStream
<1>4. CASE \E n \in Sizes : fifo2_discard(n)
  BY <1>4, DiscardStep DEF B!NextStream
<1>5. CASE fifo2_flush
  BY <1>5, FlushStep DEF B!NextStream
<1>6. CASE UNCHANGED fifoVars
  <2>1. base' = base /\ sptr' = sptr /\ rptr' = rptr /\ wptr' = wptr /\ out' = out
    BY <1>6 DEF fifoVars
  <2>2. Fresh' = Fresh /\ Stale' = Stale
    BY <2>1 DEF Fresh, Stale, Ring, UA, UF, Lag, fifo2_bytes_used
  <2>3. Inv'
    BY <2>1 DEF Inv, TypeOK, StaleTrailsFresh, fifo2_bytes_used
  <2> QED
    BY <2>1, <2>2, <2>3, Mapping, MappingPrime DEF B!streamVars
<1> QED
  BY <1>1, <1>2, <1>3, <1>4, <1>5, <1>6 DEF Next

(* sptr never overtakes rptr, for every sequence of calls: the fact that     *)
(* fifo2_discard's comment relies on, with the types it needs.               *)
THEOREM FifoInvariant == Spec => [](TypeOK /\ StaleTrailsFresh)
<1>1. fifo2_init => Inv
  BY InitStep
<1>2. Inv /\ [Next]_fifoVars => Inv'
  BY NextStep
<1> QED
  BY <1>1, <1>2, PTL DEF Spec, Inv

(* The ring buffer implements the byte stream, whatever its size.            *)
THEOREM FifoImplementsByteStream == Spec => ImplementsByteStream
<1>1. fifo2_init => Inv /\ B!InitStream
  BY InitStep
<1>2. Inv /\ [Next]_fifoVars => Inv' /\ [B!NextStream]_B!streamVars
  BY NextStep
<1> QED
  BY <1>1, <1>2, PTL DEF Spec, ImplementsByteStream, B!SpecStream
=============================================================================
