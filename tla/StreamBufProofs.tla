--------------------------- MODULE StreamBufProofs ---------------------------
(* What StreamBuf proves for any buffer size and number of slots: no discard *)
(* runs away, and the counters frame the stream until they lap or are torn.   *)
EXTENDS StreamBuf, SequenceTheorems, WellFoundedInduction, TLAPS
-----------------------------------------------------------------------------
(* A set of naturals has a least element. *)
LEMMA LeastNat ==
  ASSUME NEW T \in SUBSET Nat, T # {}
  PROVE  \E x \in T : \A y \in T : x <= y
  <1>1. IsWellFoundedOn(OpToRel(<, Nat), Nat)
    BY NatLessThanWellFounded
  <1>2. PICK x \in T : \A y \in T : ~(<<y, x>> \in OpToRel(<, Nat))
    BY <1>1, WFMin
  <1>3. \A y \in T : <<y, x>> \in OpToRel(<, Nat) <=> y < x
    BY DEF OpToRel
  <1>4. \A y \in T : y \in Nat /\ x \in Nat /\ ~(y < x)
    BY <1>2, <1>3
  <1> QED BY <1>4

(* Induction, for a property given as the set of the numbers that have it.   *)
LEMMA SetInduction ==
  ASSUME NEW P, 0 \in P, \A n \in Nat : n \in P => n + 1 \in P
  PROVE  Nat \subseteq P
  <1> SUFFICES ASSUME Nat \ P # {} PROVE FALSE
    OBVIOUS
  <1>1. PICK x \in Nat \ P : \A y \in Nat \ P : x <= y
    BY LeastNat
  <1>2. x # 0 /\ x - 1 \in Nat /\ x - 1 \in P
    BY <1>1
  <1> QED BY <1>2

(* Going round the slots. *)
LEMMA SlotArithmetic ==
  ASSUME NEW a \in Slots, NEW k \in Slots
  PROVE  /\ SlotAfter(a, k) \in Slots /\ SlotsFrom(a, SlotAfter(a, k)) = k
         /\ SlotsFrom(a, k) \in Slots /\ SlotAfter(a, SlotsFrom(a, k)) = k
         /\ NextSlot(a) \in Slots /\ SlotAfter(a, 0) = a
         /\ k < MAX_STREAM_CMDS =>
              /\ SlotAfter(a, k + 1) = NextSlot(SlotAfter(a, k))
              /\ SlotAfter(NextSlot(a), k) = SlotAfter(a, k + 1)
  BY StreamBufAssumption DEF Slots, SlotAfter, SlotsFrom, NextSlot

(* Going k slots on and then j. *)
LEMMA SlotAfterAfter ==
  ASSUME NEW a \in Slots, NEW k \in Slots, NEW j \in Slots, k + j <= MAX_STREAM_CMDS
  PROVE  SlotAfter(SlotAfter(a, k), j) = SlotAfter(a, k + j)
  BY StreamBufAssumption DEF Slots, SlotAfter

(* CountFrom is the sum it is written as. *)
LEMMA CountFromStep ==
  ASSUME NEW cnt \in [Slots -> Nat], NEW a \in Slots
  PROVE  /\ CountFrom(cnt, a) \in [Slots -> Nat]
         /\ \A k \in Slots : CountFrom(cnt, a)[k] =
              cnt[SlotAfter(a, k)] + IF k = 0 THEN 0 ELSE CountFrom(cnt, a)[k - 1]
  <1> DEFINE Sums(n, f) == \A k \in 0 .. n :
                             f[k] = cnt[SlotAfter(a, k)] + IF k = 0 THEN 0 ELSE f[k - 1]
             Exists(n) == \E f \in [0 .. n -> Nat] : Sums(n, f)
             P == {n \in Nat : n \in Slots => Exists(n)}
  <1>0. \A k \in Slots : cnt[SlotAfter(a, k)] \in Nat
    BY SlotArithmetic
  <1>1. 0 \in P
    <2>1. 0 \in Slots
      BY StreamBufAssumption DEF Slots
    <2> DEFINE f == [k \in 0 .. 0 |-> cnt[SlotAfter(a, 0)]]
    <2>2. f \in [0 .. 0 -> Nat] /\ Sums(0, f)
      BY <1>0, <2>1
    <2> QED BY <2>2
  <1>2. \A n \in Nat : n \in P => n + 1 \in P
    <2> TAKE n \in Nat
    <2>0. n + 1 \in Nat
      OBVIOUS
    <2> HIDE DEF Exists
    <2> SUFFICES ASSUME n \in P, n + 1 \in Slots
                 PROVE  Exists(n + 1)
      BY <2>0
    <2> USE DEF Exists
    <2>1. n \in Slots
      BY StreamBufAssumption DEF Slots
    <2>2. PICK f \in [0 .. n -> Nat] : Sums(n, f)
      BY <2>1
    <2> DEFINE g == [k \in 0 .. n + 1 |->
                       IF k = n + 1 THEN cnt[SlotAfter(a, n + 1)] + f[n] ELSE f[k]]
    <2>3. f[n] \in Nat /\ cnt[SlotAfter(a, n + 1)] \in Nat
      BY <1>0
    <2>4. g \in [0 .. n + 1 -> Nat]
      BY <2>3
    <2>5. \A k \in 0 .. n : g[k] = f[k]
      OBVIOUS
    <2>6. g[n + 1] = cnt[SlotAfter(a, n + 1)] + f[n]
      OBVIOUS
    <2> HIDE DEF g
    <2>7. ASSUME NEW k \in 0 .. n + 1
          PROVE  g[k] = cnt[SlotAfter(a, k)] + IF k = 0 THEN 0 ELSE g[k - 1]
      <3>1. CASE k = n + 1
        BY <2>5, <2>6, <3>1
      <3>2. CASE k \in 0 .. n
        BY <2>2, <2>5, <3>2
      <3> QED BY <3>1, <3>2
    <2> QED BY <2>4, <2>7
  <1> HIDE DEF P
  <1>3. MAX_STREAM_CMDS \in P
    BY <1>1, <1>2, SetInduction, StreamBufAssumption
  <1>4. PICK f \in [Slots -> Nat] : Sums(MAX_STREAM_CMDS, f)
    <2>1. MAX_STREAM_CMDS \in Slots
      BY StreamBufAssumption DEF Slots
    <2> HIDE DEF Exists
    <2>2. Exists(MAX_STREAM_CMDS)
      BY <1>3, <2>1 DEF P
    <2> QED BY <2>2 DEF Exists, Slots
  <1> DEFINE Defines(g) ==
        g = [k \in Slots |-> cnt[SlotAfter(a, k)] + IF k = 0 THEN 0 ELSE g[k - 1]]
  <1>5. Defines(f)
    BY <1>4 DEF Slots
  <1>6. CountFrom(cnt, a) = CHOOSE g : Defines(g)
    BY DEF CountFrom
  <1>7. Defines(CountFrom(cnt, a))
    BY <1>5, <1>6
  <1> DEFINE c == CountFrom(cnt, a)
  <1> HIDE DEF c
  <1>8. \A k \in Slots : c[k] = cnt[SlotAfter(a, k)] + IF k = 0 THEN 0 ELSE c[k - 1]
    BY <1>7 DEF c
  <1> DEFINE Q == {n \in Nat : n \in Slots => c[n] \in Nat}
  <1>9. 0 \in Q
    BY <1>0, <1>8
  <1>10. ASSUME NEW n \in Nat, n \in Q PROVE n + 1 \in Q
    <2> SUFFICES ASSUME n + 1 \in Slots PROVE c[n + 1] \in Nat
      OBVIOUS
    <2>1. n \in Slots /\ n + 1 # 0 /\ n + 1 - 1 = n
      BY StreamBufAssumption DEF Slots
    <2>2. c[n + 1] = cnt[SlotAfter(a, n + 1)] + c[n]
      BY <1>8, <2>1
    <2>3. c[n] \in Nat
      BY <1>10, <2>1
    <2>4. cnt[SlotAfter(a, n + 1)] \in Nat
      BY <1>0
    <2> HIDE DEF Q
    <2> QED BY <2>2, <2>3, <2>4
  <1> HIDE DEF Q
  <1>11. Nat \subseteq Q
    BY <1>9, <1>10, SetInduction
  <1>12. \A n \in Slots : c[n] \in Nat
    BY <1>11 DEF Q, Slots
  <1>13. c \in [Slots -> Nat]
    BY <1>7, <1>12 DEF c
  <1> QED BY <1>8, <1>13 DEF c

(* The sum with one more slot. *)
LEMMA CountOneMore ==
  ASSUME NEW cnt \in [Slots -> Nat], NEW a \in Slots, NEW k \in Nat, k + 1 \in Slots
  PROVE  CountFrom(cnt, a)[k + 1] = cnt[SlotAfter(a, k + 1)] + CountFrom(cnt, a)[k]
  <1>1. k + 1 # 0 /\ k + 1 - 1 = k
    OBVIOUS
  <1>2. \A j \in Slots : CountFrom(cnt, a)[j] =
          cnt[SlotAfter(a, j)] + IF j = 0 THEN 0 ELSE CountFrom(cnt, a)[j - 1]
    BY CountFromStep
  <1> QED BY <1>1, <1>2

(* Two sums that agree at one place and whose next terms are the same agree, *)
(* up to the same difference, from there on.                                 *)
LEMMA CountFromShift ==
  ASSUME NEW cnt \in [Slots -> Nat], NEW a \in Slots,
         NEW new \in [Slots -> Nat], NEW b \in Slots,
         NEW p \in Slots, NEW n \in Slots, p + n <= MAX_STREAM_CMDS, NEW d \in Int,
         CountFrom(new, b)[0] = CountFrom(cnt, a)[p] + d,
         \A j \in 1 .. n : new[SlotAfter(b, j)] = cnt[SlotAfter(a, p + j)]
  PROVE  CountFrom(new, b)[n] = CountFrom(cnt, a)[p + n] + d
  <1> DEFINE x == CountFrom(cnt, a)
             y == CountFrom(new, b)
             P == {j \in Nat : j <= n => y[j] = x[p + j] + d}
  <1>0. /\ x \in [Slots -> Nat] /\ y \in [Slots -> Nat]
        /\ \A k \in Slots : x[k] = cnt[SlotAfter(a, k)] + IF k = 0 THEN 0 ELSE x[k - 1]
        /\ \A k \in Slots : y[k] = new[SlotAfter(b, k)] + IF k = 0 THEN 0 ELSE y[k - 1]
    BY CountFromStep
  <1> HIDE DEF x, y
  <1>1. /\ x \in [Slots -> Nat] /\ y \in [Slots -> Nat]
        /\ \A k \in Slots : k > 0 => x[k] = cnt[SlotAfter(a, k)] + x[k - 1]
        /\ \A k \in Slots : k > 0 => y[k] = new[SlotAfter(b, k)] + y[k - 1]
    BY <1>0 DEF Slots
  <1>2. 0 \in P
    BY <1>1 DEF x, y, Slots
  <1>3. ASSUME NEW j \in Nat, j \in P PROVE j + 1 \in P
    <2>0. j + 1 \in Nat /\ p + (j + 1) = p + j + 1
      BY DEF Slots
    <2> SUFFICES ASSUME j + 1 <= n PROVE y[j + 1] = x[p + j + 1] + d
      BY <2>0
    <2>1. j + 1 \in Slots /\ p + j \in Slots /\ p + j + 1 \in Slots /\ j + 1 \in 1 .. n
      BY StreamBufAssumption DEF Slots
    <2>2. y[j] = x[p + j] + d
      <3>1. j <= n
        BY DEF Slots
      <3> QED BY <1>3, <3>1
    <2>3. y[j + 1] = new[SlotAfter(b, j + 1)] + y[j]
      BY <1>1, <2>1 DEF Slots
    <2>4. x[p + j + 1] = cnt[SlotAfter(a, p + j + 1)] + x[p + j]
      BY <1>1, <2>1 DEF Slots
    <2>5. new[SlotAfter(b, j + 1)] = cnt[SlotAfter(a, p + j + 1)]
      BY <2>1 DEF Slots
    <2>6. x[p + j] \in Nat /\ cnt[SlotAfter(a, p + j + 1)] \in Nat
      BY <1>1, <2>1, SlotArithmetic
    <2> QED BY <2>2, <2>3, <2>4, <2>5, <2>6
  <1> HIDE DEF P
  <1>4. Nat \subseteq P
    BY <1>2, <1>3, SetInduction
  <1>5. n \in P
    BY <1>4 DEF Slots
  <1> QED BY <1>5 DEF P, x, y, Slots
-----------------------------------------------------------------------------
TrackBytes == {Data(0), Data(1)}

(* How a stream of bytes is made up: c[0] bytes of a track, a command, c[1]  *)
(* bytes, and so on; c[k] begins after pos[k] bytes, behind the k-th command. *)
Layout(bytes, c, n, pos, cmds) ==
  /\ pos \in [0 .. n -> Nat] /\ cmds \in [1 .. n -> Commands]
  /\ pos[0] = 0
  /\ pos[n] + c[n] = Len(bytes)
  /\ \A k \in 0 .. n : pos[k] + c[k] <= Len(bytes)
  /\ \A k \in 0 .. n : \A i \in 1 .. c[k] : bytes[pos[k] + i] \in TrackBytes
  /\ \A k \in 1 .. n : pos[k] = pos[k - 1] + c[k - 1] + CmdSize[cmds[k]]
  /\ \A k \in 1 .. n : \A i \in 1 .. CmdSize[cmds[k]] :
       bytes[pos[k - 1] + c[k - 1] + i] = Encode(cmds[k])[i]

HasLayout(bytes, c, n) == \E pos, cmds : Layout(bytes, c, n, pos, cmds)

(* The bytes of a command. *)
LEMMA EncodeProperties ==
  ASSUME NEW c \in Commands
  PROVE  /\ CmdSize[c] \in 1 .. 2
         /\ Encode(c) \in Seq(Byte) /\ Len(Encode(c)) = CmdSize[c]
         /\ \A i \in 1 .. CmdSize[c] :
              /\ Encode(c)[i] = [kind |-> c, n |-> i]
              /\ Encode(c)[i].kind = c
              /\ Encode(c)[i] \notin TrackBytes
  <1>1. CmdSize[c] \in 1 .. 2
    BY DEF CmdSize
  <1>2. \A i \in 1 .. CmdSize[c] :
          /\ Encode(c)[i] = [kind |-> c, n |-> i]
          /\ Encode(c)[i].kind = c
    BY DEF Encode
  <1>3. \A i \in 1 .. CmdSize[c] : Encode(c)[i] \notin TrackBytes
    <2>1. \A b \in TrackBytes : b.kind = "data"
      BY DEF TrackBytes, Data
    <2> QED BY <1>2, <2>1 DEF Commands
  <1>4. Encode(c) \in Seq(Byte) /\ Len(Encode(c)) = CmdSize[c]
    <2>1. \A i \in 1 .. CmdSize[c] : Encode(c)[i] \in Range(Encode(c))
      BY DEF Encode, Range
    <2>2. \A i \in 1 .. CmdSize[c] : Encode(c)[i] \in Byte
      BY <2>1 DEF Byte
    <2>3. DOMAIN Encode(c) = 1 .. CmdSize[c] /\ Encode(c) \in [1 .. CmdSize[c] -> Byte]
      BY <2>2 DEF Encode
    <2> HIDE DEF Encode
    <2>4. Encode(c) \in Seq(Byte)
      BY <1>1, <2>3, IsASeq
    <2> QED BY <1>1, <2>3, <2>4, LenProperties
  <1> QED BY <1>1, <1>2, <1>3, <1>4

(* What a layout says of the k-th piece. *)
LayoutSays(bytes, c, n, pos, cmds) ==
  /\ Len(bytes) \in Nat
  /\ \A k \in 0 .. n : pos[k] \in Nat /\ c[k] \in Nat /\ pos[k] + c[k] <= Len(bytes)
  /\ \A k \in 0 .. n : \A i \in 1 .. c[k] :
       pos[k] + i \in 1 .. Len(bytes) /\ bytes[pos[k] + i] \in TrackBytes
  /\ \A k \in 1 .. n :
       /\ k - 1 \in 0 .. n /\ k \in 0 .. n
       /\ cmds[k] \in Commands /\ CmdSize[cmds[k]] \in 1 .. 2
       /\ pos[k] = pos[k - 1] + c[k - 1] + CmdSize[cmds[k]]
  /\ \A k \in 1 .. n : \A i \in 1 .. CmdSize[cmds[k]] :
       /\ pos[k - 1] + c[k - 1] + i \in 1 .. Len(bytes)
       /\ bytes[pos[k - 1] + c[k - 1] + i] = Encode(cmds[k])[i]

(* Every position that a layout speaks of is one of the stream's. *)
LEMMA LayoutFacts ==
  ASSUME NEW bytes \in Seq(Byte), NEW n \in Nat, NEW c \in [0 .. n -> Nat],
         NEW pos, NEW cmds, Layout(bytes, c, n, pos, cmds)
  PROVE  LayoutSays(bytes, c, n, pos, cmds)
  <1>1. Len(bytes) \in Nat
    OBVIOUS
  <1>2. ASSUME NEW k \in 0 .. n
        PROVE  pos[k] \in Nat /\ c[k] \in Nat /\ pos[k] + c[k] <= Len(bytes)
    BY DEF Layout
  <1>3. ASSUME NEW k \in 0 .. n, NEW i \in 1 .. c[k]
        PROVE  pos[k] + i \in 1 .. Len(bytes) /\ bytes[pos[k] + i] \in TrackBytes
    <2>1. bytes[pos[k] + i] \in TrackBytes
      BY DEF Layout
    <2> QED BY <1>1, <1>2, <2>1
  <1>4. ASSUME NEW k \in 1 .. n
        PROVE  /\ k - 1 \in 0 .. n /\ k \in 0 .. n
               /\ cmds[k] \in Commands /\ CmdSize[cmds[k]] \in 1 .. 2
               /\ pos[k] = pos[k - 1] + c[k - 1] + CmdSize[cmds[k]]
    <2>1. cmds[k] \in Commands
      BY DEF Layout
    <2>2. pos[k] = pos[k - 1] + c[k - 1] + CmdSize[cmds[k]]
      BY DEF Layout
    <2> QED BY <2>1, <2>2, EncodeProperties
  <1>5. ASSUME NEW k \in 1 .. n, NEW i \in 1 .. CmdSize[cmds[k]]
        PROVE  /\ pos[k - 1] + c[k - 1] + i \in 1 .. Len(bytes)
               /\ bytes[pos[k - 1] + c[k - 1] + i] = Encode(cmds[k])[i]
    <2>1. bytes[pos[k - 1] + c[k - 1] + i] = Encode(cmds[k])[i]
      BY DEF Layout
    <2>2. pos[k - 1] \in Nat /\ c[k - 1] \in Nat /\ pos[k] \in Nat /\ pos[k] <= Len(bytes)
      BY <1>1, <1>2, <1>4
    <2> DEFINE x == pos[k - 1]
               y == c[k - 1]
               z == CmdSize[cmds[k]]
    <2>3. z \in 1 .. 2 /\ pos[k] = x + y + z /\ i \in 1 .. z
      BY <1>4
    <2>5. x \in Nat /\ y \in Nat
      BY <2>2
    <2> HIDE DEF x, y, z
    <2>6. x + y + z <= Len(bytes)
      BY <2>2, <2>3
    <2>4. x + y + i \in 1 .. Len(bytes)
      BY <1>1, <2>3, <2>5, <2>6
    <2> QED BY <2>1, <2>4 DEF x, y
  <1> QED BY <1>1, <1>2, <1>3, <1>4, <1>5 DEF LayoutSays

(* A byte of a track at the end. *)
LEMMA LayoutData ==
  ASSUME NEW bytes \in Seq(Byte), NEW n \in Nat, NEW c \in [0 .. n -> Nat],
         HasLayout(bytes, c, n), NEW b \in TrackBytes
  PROVE  HasLayout(bytes \o <<b>>, [c EXCEPT ![n] = @ + 1], n)
  <1>1. PICK pos, cmds : Layout(bytes, c, n, pos, cmds)
    BY DEF HasLayout
  <1>0. LayoutSays(bytes, c, n, pos, cmds)
    BY <1>1, LayoutFacts
  <1> DEFINE more == bytes \o <<b>>
             d == [c EXCEPT ![n] = @ + 1]
  <1>2. /\ Len(more) = Len(bytes) + 1 /\ more[Len(bytes) + 1] = b
        /\ \A i \in 1 .. Len(bytes) : more[i] = bytes[i]
    OBVIOUS
  <1>3. d[n] = c[n] + 1 /\ \A k \in 0 .. n - 1 : d[k] = c[k]
    OBVIOUS
  <1>4. /\ pos \in [0 .. n -> Nat] /\ cmds \in [1 .. n -> Commands] /\ pos[0] = 0
        /\ pos[n] + c[n] = Len(bytes)
    BY <1>1 DEF Layout
  <1> HIDE DEF more, d
  <1>5. pos[n] + d[n] = Len(more)
    BY <1>2, <1>3, <1>4
  <1>6. ASSUME NEW k \in 0 .. n PROVE pos[k] + d[k] <= Len(more)
    <2>1. pos[k] + c[k] <= Len(bytes) /\ pos[k] \in Nat /\ c[k] \in Nat /\ Len(bytes) \in Nat
      BY <1>0 DEF LayoutSays
    <2>2. d[k] = c[k] \/ d[k] = c[k] + 1
      BY <1>3
    <2> QED BY <1>2, <2>1, <2>2
  <1>7. ASSUME NEW k \in 0 .. n, NEW i \in 1 .. d[k] PROVE more[pos[k] + i] \in TrackBytes
    <2>1. CASE i \in 1 .. c[k]
      <3>1. pos[k] + i \in 1 .. Len(bytes) /\ bytes[pos[k] + i] \in TrackBytes
        BY <1>0, <2>1 DEF LayoutSays
      <3> QED BY <1>2, <3>1
    <2>2. CASE i \notin 1 .. c[k]
      <3>1. k = n /\ i = c[n] + 1
        BY <1>3, <2>2
      <3>2. pos[n] \in Nat /\ c[n] \in Nat
        BY <1>4
      <3> DEFINE x == pos[n]
                 y == c[n]
      <3>3. x \in Nat /\ y \in Nat /\ x + y = Len(bytes) /\ pos[k] = x /\ i = y + 1
        BY <1>4, <3>1, <3>2
      <3> HIDE DEF x, y
      <3>4. pos[k] + i = Len(bytes) + 1
        BY <3>3
      <3> QED BY <1>2, <3>4
    <2> QED BY <2>1, <2>2
  <1>8. ASSUME NEW k \in 1 .. n
        PROVE  /\ pos[k] = pos[k - 1] + d[k - 1] + CmdSize[cmds[k]]
               /\ \A i \in 1 .. CmdSize[cmds[k]] :
                    more[pos[k - 1] + d[k - 1] + i] = Encode(cmds[k])[i]
    <2>1. d[k - 1] = c[k - 1]
      BY <1>3
    <2>2. pos[k] = pos[k - 1] + c[k - 1] + CmdSize[cmds[k]]
      BY <1>0 DEF LayoutSays
    <2>3. ASSUME NEW i \in 1 .. CmdSize[cmds[k]]
          PROVE  more[pos[k - 1] + d[k - 1] + i] = Encode(cmds[k])[i]
      <3>1. /\ pos[k - 1] + c[k - 1] + i \in 1 .. Len(bytes)
            /\ bytes[pos[k - 1] + c[k - 1] + i] = Encode(cmds[k])[i]
        BY <1>0 DEF LayoutSays
      <3> QED BY <1>2, <2>1, <3>1
    <2> QED BY <2>1, <2>2, <2>3
  <1>9. Layout(more, d, n, pos, cmds)
    BY <1>4, <1>5, <1>6, <1>7, <1>8 DEF Layout
  <1> QED BY <1>9 DEF HasLayout, more, d

(* A command at the end. *)
LEMMA LayoutCommand ==
  ASSUME NEW bytes \in Seq(Byte), NEW n \in Nat, NEW c \in [0 .. n -> Nat],
         HasLayout(bytes, c, n), NEW q \in Commands
  PROVE  HasLayout(bytes \o Encode(q), [k \in 0 .. n + 1 |-> IF k = n + 1 THEN 0 ELSE c[k]],
                   n + 1)
  <1>1. PICK pos, cmds : Layout(bytes, c, n, pos, cmds)
    BY DEF HasLayout
  <1>0. LayoutSays(bytes, c, n, pos, cmds)
    BY <1>1, LayoutFacts
  <1> DEFINE more == bytes \o Encode(q)
             z == CmdSize[q]
             d == [k \in 0 .. n + 1 |-> IF k = n + 1 THEN 0 ELSE c[k]]
             at == [k \in 0 .. n + 1 |-> IF k = n + 1 THEN Len(bytes) + z ELSE pos[k]]
             qs == [k \in 1 .. n + 1 |-> IF k = n + 1 THEN q ELSE cmds[k]]
  <1>2. z \in 1 .. 2 /\ Encode(q) \in Seq(Byte) /\ Len(Encode(q)) = z /\ Len(bytes) \in Nat
    BY EncodeProperties
  <1>3. /\ Len(more) = Len(bytes) + z
        /\ \A i \in 1 .. Len(bytes) : more[i] = bytes[i]
        /\ \A i \in 1 .. z : more[Len(bytes) + i] = Encode(q)[i]
    BY <1>2, ConcatProperties
  <1>4. d[n + 1] = 0 /\ \A k \in 0 .. n : d[k] = c[k]
    OBVIOUS
  <1>5. at[n + 1] = Len(bytes) + z /\ \A k \in 0 .. n : at[k] = pos[k]
    OBVIOUS
  <1>6. qs[n + 1] = q /\ \A k \in 1 .. n : qs[k] = cmds[k]
    OBVIOUS
  <1>7. /\ pos \in [0 .. n -> Nat] /\ cmds \in [1 .. n -> Commands] /\ pos[0] = 0
        /\ pos[n] + c[n] = Len(bytes)
    BY <1>1 DEF Layout
  <1>8. at \in [0 .. n + 1 -> Nat] /\ qs \in [1 .. n + 1 -> Commands]
    BY <1>2, <1>7
  <1> HIDE DEF more, z, d, at, qs
  <1>9. at[0] = 0 /\ at[n + 1] + d[n + 1] = Len(more)
    BY <1>2, <1>3, <1>4, <1>5, <1>7
  <1>10. ASSUME NEW k \in 0 .. n + 1
         PROVE  /\ at[k] + d[k] <= Len(more)
                /\ \A i \in 1 .. d[k] : more[at[k] + i] \in TrackBytes
    <2>1. CASE k = n + 1
      BY <1>9, <1>4, <2>1, <1>2, <1>3
    <2>2. CASE k \in 0 .. n
      <3>1. /\ pos[k] + c[k] <= Len(bytes) /\ pos[k] \in Nat /\ c[k] \in Nat
            /\ \A i \in 1 .. c[k] :
                 pos[k] + i \in 1 .. Len(bytes) /\ bytes[pos[k] + i] \in TrackBytes
        BY <1>0, <2>2 DEF LayoutSays
      <3>2. at[k] = pos[k] /\ d[k] = c[k]
        BY <1>4, <1>5, <2>2
      <3>3. at[k] + d[k] <= Len(more)
        BY <1>2, <1>3, <3>1, <3>2
      <3>4. \A i \in 1 .. d[k] : more[at[k] + i] \in TrackBytes
        BY <1>3, <3>1, <3>2
      <3> QED BY <3>3, <3>4
    <2> QED BY <2>1, <2>2
  <1>11. ASSUME NEW k \in 1 .. n + 1
         PROVE  /\ at[k] = at[k - 1] + d[k - 1] + CmdSize[qs[k]]
                /\ \A i \in 1 .. CmdSize[qs[k]] :
                     more[at[k - 1] + d[k - 1] + i] = Encode(qs[k])[i]
    <2>1. CASE k = n + 1
      <3>1. at[k - 1] + d[k - 1] = Len(bytes) /\ qs[k] = q
        BY <1>4, <1>5, <1>6, <1>7, <2>1
      <3> QED BY <1>2, <1>3, <1>5, <2>1, <3>1 DEF z
    <2>2. CASE k \in 1 .. n
      <3>1. pos[k] = pos[k - 1] + c[k - 1] + CmdSize[cmds[k]]
        BY <1>0, <2>2 DEF LayoutSays
      <3>2. /\ at[k] = pos[k] /\ at[k - 1] = pos[k - 1] /\ d[k - 1] = c[k - 1]
            /\ qs[k] = cmds[k]
        BY <1>4, <1>5, <1>6, <2>2
      <3>3. ASSUME NEW i \in 1 .. CmdSize[cmds[k]]
            PROVE  more[at[k - 1] + d[k - 1] + i] = Encode(cmds[k])[i]
        <4>1. /\ pos[k - 1] + c[k - 1] + i \in 1 .. Len(bytes)
              /\ bytes[pos[k - 1] + c[k - 1] + i] = Encode(cmds[k])[i]
          BY <1>0, <2>2 DEF LayoutSays
        <4> QED BY <1>3, <3>2, <4>1
      <3> QED BY <3>1, <3>2, <3>3
    <2> QED BY <2>1, <2>2
  <1>12. Layout(more, d, n + 1, at, qs)
    BY <1>8, <1>9, <1>10, <1>11 DEF Layout
  <1> QED BY <1>12 DEF HasLayout, more, d

(* Every piece but the first is behind the first command. *)
LEMMA LayoutAhead ==
  ASSUME NEW bytes \in Seq(Byte), NEW n \in Nat, NEW c \in [0 .. n -> Nat],
         NEW pos, NEW cmds, Layout(bytes, c, n, pos, cmds), NEW k \in 1 .. n
  PROVE  pos[k] >= c[0] + CmdSize[cmds[1]]
  <1>0. LayoutSays(bytes, c, n, pos, cmds)
    BY LayoutFacts
  <1> DEFINE z == CmdSize[cmds[1]]
             P == {j \in Nat : j + 1 \in 1 .. n => pos[j + 1] >= c[0] + z}
  <1>1. z \in 1 .. 2 /\ c[0] \in Nat /\ pos[1] = c[0] + z
    <2>1. pos[0] = 0 /\ c[0] \in Nat
      BY DEF Layout
    <2>2. pos[1] = pos[0] + c[0] + z /\ z \in 1 .. 2
      BY <1>0 DEF LayoutSays
    <2> QED BY <2>1, <2>2
  <1> HIDE DEF z
  <1>2. 0 \in P
    BY <1>1
  <1>3. ASSUME NEW j \in Nat, j \in P PROVE j + 1 \in P
    <2> SUFFICES ASSUME j + 1 + 1 \in 1 .. n PROVE pos[j + 1 + 1] >= c[0] + z
      OBVIOUS
    <2>1. j + 1 \in 1 .. n /\ j + 1 + 1 - 1 = j + 1 /\ j + 1 \in 0 .. n
      OBVIOUS
    <2>2. pos[j + 1] >= c[0] + z
      BY <1>3, <2>1
    <2>3. /\ pos[j + 1 + 1] = pos[j + 1] + c[j + 1] + CmdSize[cmds[j + 1 + 1]]
          /\ CmdSize[cmds[j + 1 + 1]] \in 1 .. 2 /\ pos[j + 1] \in Nat /\ c[j + 1] \in Nat
      BY <1>0, <2>1 DEF LayoutSays
    <2> DEFINE p == pos[j + 1]
               u == c[j + 1]
               v == CmdSize[cmds[j + 1 + 1]]
    <2>4. pos[j + 1 + 1] = p + u + v /\ v \in 1 .. 2 /\ p \in Nat /\ u \in Nat /\ p >= c[0] + z
      BY <2>2, <2>3
    <2> HIDE DEF P, p, u, v
    <2>5. p + u + v >= c[0] + z
      BY <1>1, <2>4
    <2> QED BY <2>4, <2>5
  <1> HIDE DEF P
  <1>4. Nat \subseteq P
    BY <1>2, <1>3, SetInduction
  <1>5. k - 1 \in P /\ k - 1 + 1 = k
    BY <1>4
  <1> QED BY <1>5 DEF P, z

(* What is left of a sequence without its first k elements. *)
LEMMA RestProperties ==
  ASSUME NEW bytes \in Seq(Byte), NEW k \in 0 .. Len(bytes)
  PROVE  LET rest == SubSeq(bytes, k + 1, Len(bytes))
         IN  /\ rest \in Seq(Byte) /\ Len(rest) = Len(bytes) - k
             /\ \A i \in 1 .. Len(bytes) - k : rest[i] = bytes[k + i]
  <1>1. \A i \in k + 1 .. Len(bytes) : bytes[i] \in Byte
    BY ElementOfSeq
  <1>2. Len(bytes) \in Nat
    OBVIOUS
  <1> DEFINE l == Len(bytes)
  <1>3. l \in Nat /\ k \in 0 .. l
    OBVIOUS
  <1> HIDE DEF l
  <1>4. /\ SubSeq(bytes, k + 1, l) \in Seq(Byte)
        /\ Len(SubSeq(bytes, k + 1, l)) = IF k + 1 <= l THEN l - (k + 1) + 1 ELSE 0
        /\ \A i \in 1 .. l - (k + 1) + 1 : SubSeq(bytes, k + 1, l)[i] = bytes[k + 1 + i - 1]
    BY <1>1, <1>3, SubSeqProperties DEF l
  <1>5. Len(SubSeq(bytes, k + 1, l)) = l - k
    BY <1>3, <1>4
  <1>6. ASSUME NEW i \in 1 .. l - k PROVE SubSeq(bytes, k + 1, l)[i] = bytes[k + i]
    <2>1. i \in 1 .. l - (k + 1) + 1 /\ k + 1 + i - 1 = k + i
      BY <1>3
    <2> QED BY <1>4, <2>1
  <1> QED BY <1>4, <1>5, <1>6 DEF l

(* A read of no more than the bytes in front of the first command. *)
LEMMA LayoutRead ==
  ASSUME NEW bytes \in Seq(Byte), NEW n \in Nat, NEW c \in [0 .. n -> Nat],
         HasLayout(bytes, c, n), NEW size \in 0 .. c[0]
  PROVE  /\ size <= Len(bytes)
         /\ HasLayout(SubSeq(bytes, size + 1, Len(bytes)), [c EXCEPT ![0] = @ - size], n)
  <1>1. PICK pos, cmds : Layout(bytes, c, n, pos, cmds)
    BY DEF HasLayout
  <1>0. LayoutSays(bytes, c, n, pos, cmds)
    BY <1>1, LayoutFacts
  <1>2. /\ pos \in [0 .. n -> Nat] /\ cmds \in [1 .. n -> Commands] /\ pos[0] = 0
        /\ pos[n] + c[n] = Len(bytes) /\ Len(bytes) \in Nat
    BY <1>1 DEF Layout
  <1>3. size \in 0 .. Len(bytes) /\ c[0] \in Nat
    <2>1. pos[0] + c[0] <= Len(bytes) /\ c[0] \in Nat
      BY <1>0 DEF LayoutSays
    <2> QED BY <1>2, <2>1
  <1> DEFINE rest == SubSeq(bytes, size + 1, Len(bytes))
             d == [c EXCEPT ![0] = @ - size]
             at == [k \in 0 .. n |-> IF k = 0 THEN 0 ELSE pos[k] - size]
  <1>4. /\ Len(rest) = Len(bytes) - size
        /\ \A i \in 1 .. Len(bytes) - size : rest[i] = bytes[size + i]
    BY <1>3, RestProperties
  <1>5. d[0] = c[0] - size /\ \A k \in 1 .. n : d[k] = c[k]
    OBVIOUS
  <1>6. at[0] = 0 /\ \A k \in 1 .. n : at[k] = pos[k] - size
    OBVIOUS
  (* Every piece moves to the left by size, the first one loses its front. *)
  <1>7. \A k \in 0 .. n : at[k] + d[k] = pos[k] + c[k] - size
    <2> TAKE k \in 0 .. n
    <2>1. CASE k = 0
      BY <1>2, <1>3, <1>5, <1>6, <2>1
    <2>2. CASE k \in 1 .. n
      <3>1. d[k] = c[k] /\ at[k] = pos[k] - size /\ pos[k] \in Nat /\ c[k] \in Nat
        BY <1>2, <1>5, <1>6, <2>2
      <3> HIDE DEF at, d
      <3> QED BY <1>3, <3>1
    <2> QED BY <2>1, <2>2
  <1>8. ASSUME NEW k \in 1 .. n PROVE pos[k] - size \in Nat /\ pos[k] >= size
    <2>1. pos[k] >= c[0] + CmdSize[cmds[1]]
      BY <1>1, LayoutAhead
    <2>2. pos[k] \in Nat /\ 1 \in 1 .. n
      BY <1>2
    <2>3. CmdSize[cmds[1]] \in 1 .. 2
      BY <1>0, <2>2 DEF LayoutSays
    <2> QED BY <1>3, <2>1, <2>2, <2>3
  <1>9. at \in [0 .. n -> Nat]
    BY <1>8
  <1> HIDE DEF rest, d, at
  <1>10. at[n] + d[n] = Len(rest)
    <2>1. at[n] + d[n] = pos[n] + c[n] - size
      BY <1>7
    <2> QED BY <1>2, <1>4, <2>1
  <1>11. ASSUME NEW k \in 0 .. n PROVE at[k] + d[k] <= Len(rest)
    <2>1. pos[k] + c[k] <= Len(bytes) /\ pos[k] \in Nat /\ c[k] \in Nat
      BY <1>0 DEF LayoutSays
    <2> QED BY <1>2, <1>3, <1>4, <1>7, <2>1
  <1>12. ASSUME NEW k \in 0 .. n, NEW i \in 1 .. d[k] PROVE rest[at[k] + i] \in TrackBytes
    <2>1. CASE k = 0
      <3>1. /\ size + i \in 1 .. c[0] /\ i \in 1 .. Len(bytes) - size
            /\ pos[0] + (size + i) = size + i
        <4>1. pos[0] + c[0] <= Len(bytes)
          BY <1>0 DEF LayoutSays
        <4> QED BY <1>2, <1>3, <1>5, <2>1, <4>1
      <3>2. bytes[size + i] \in TrackBytes
        BY <1>0, <3>1 DEF LayoutSays
      <3> QED BY <1>4, <1>6, <2>1, <3>1, <3>2
    <2>2. CASE k \in 1 .. n
      <3>1. i \in 1 .. c[k] /\ at[k] = pos[k] - size /\ pos[k] \in Nat /\ pos[k] - size \in Nat
        BY <1>2, <1>5, <1>6, <1>8, <2>2
      <3>2. pos[k] + i \in 1 .. Len(bytes) /\ bytes[pos[k] + i] \in TrackBytes
        BY <1>0, <3>1 DEF LayoutSays
      <3>3. at[k] + i \in 1 .. Len(bytes) - size /\ size + (at[k] + i) = pos[k] + i
        BY <1>2, <1>3, <3>1, <3>2
      <3> QED BY <1>4, <3>2, <3>3
    <2> QED BY <2>1, <2>2
  <1>13. ASSUME NEW k \in 1 .. n
         PROVE  /\ at[k] = at[k - 1] + d[k - 1] + CmdSize[cmds[k]]
                /\ \A i \in 1 .. CmdSize[cmds[k]] :
                     rest[at[k - 1] + d[k - 1] + i] = Encode(cmds[k])[i]
    <2> DEFINE x == pos[k - 1]
               y == c[k - 1]
               z == CmdSize[cmds[k]]
    <2>1. pos[k] = x + y + z /\ x \in Nat /\ y \in Nat /\ z \in 1 .. 2 /\ k - 1 \in 0 .. n
      BY <1>0 DEF LayoutSays
    <2>2. at[k - 1] + d[k - 1] = x + y - size /\ at[k] = pos[k] - size
      BY <1>6, <1>7, <2>1
    <2>3. \A i \in 1 .. z : x + y + i \in 1 .. Len(bytes) /\ bytes[x + y + i] = Encode(cmds[k])[i]
      BY <1>0 DEF LayoutSays
    <2>4. x + y >= size
      <3>1. CASE k = 1
        BY <1>2, <1>3, <3>1
      <3>2. CASE k - 1 \in 1 .. n
        <4>1. x >= size
          BY <1>8, <3>2
        <4> HIDE DEF x, y
        <4> QED BY <1>3, <2>1, <4>1
      <3> QED BY <3>1, <3>2
    <2> HIDE DEF x, y, z
    <2>5. at[k] = at[k - 1] + d[k - 1] + z
      BY <1>3, <2>1, <2>2
    <2>6. ASSUME NEW i \in 1 .. z PROVE rest[at[k - 1] + d[k - 1] + i] = Encode(cmds[k])[i]
      <3>1. /\ x + y + i \in 1 .. Len(bytes) /\ bytes[x + y + i] = Encode(cmds[k])[i]
            /\ at[k - 1] + d[k - 1] + i = x + y - size + i
        BY <2>2, <2>3
      <3>2. x + y - size + i \in 1 .. Len(bytes) - size /\ size + (x + y - size + i) = x + y + i
        BY <1>2, <1>3, <2>1, <2>4, <3>1
      <3> QED BY <1>4, <3>1, <3>2
    <2> QED BY <2>5, <2>6 DEF z
  <1>14. Layout(rest, d, n, at, cmds)
    BY <1>2, <1>6, <1>9, <1>10, <1>11, <1>12, <1>13 DEF Layout
  <1> QED BY <1>3, <1>14 DEF HasLayout, rest, d

(* What is in front of the first command, and where it begins. *)
LEMMA LayoutFront ==
  ASSUME NEW bytes \in Seq(Byte), NEW n \in Nat, NEW c \in [0 .. n -> Nat],
         HasLayout(bytes, c, n)
  PROVE  /\ c[0] \in 0 .. Len(bytes)
         /\ \A i \in 1 .. c[0] : bytes[i] \in TrackBytes
         /\ n = 0 => c[0] = Len(bytes)
         /\ n > 0 => c[0] < Len(bytes) /\ bytes[c[0] + 1] \notin TrackBytes
  <1>1. PICK pos, cmds : Layout(bytes, c, n, pos, cmds)
    BY DEF HasLayout
  <1>2. LayoutSays(bytes, c, n, pos, cmds)
    BY <1>1, LayoutFacts
  <1>3. pos[0] = 0 /\ pos[n] + c[n] = Len(bytes) /\ 0 \in 0 .. n
    BY <1>1 DEF Layout
  <1>4. c[0] \in Nat /\ pos[0] + c[0] <= Len(bytes) /\ Len(bytes) \in Nat
    BY <1>2, <1>3 DEF LayoutSays
  <1>5. ASSUME NEW i \in 1 .. c[0] PROVE bytes[i] \in TrackBytes
    <2>1. bytes[pos[0] + i] \in TrackBytes
      BY <1>2, <1>3 DEF LayoutSays
    <2> QED BY <1>3, <2>1
  <1>6. ASSUME n > 0 PROVE c[0] < Len(bytes) /\ bytes[c[0] + 1] \notin TrackBytes
    <2>1. 1 \in 1 .. n
      BY <1>6
    <2>2. /\ cmds[1] \in Commands /\ CmdSize[cmds[1]] \in 1 .. 2
          /\ \A i \in 1 .. CmdSize[cmds[1]] :
               /\ pos[1 - 1] + c[1 - 1] + i \in 1 .. Len(bytes)
               /\ bytes[pos[1 - 1] + c[1 - 1] + i] = Encode(cmds[1])[i]
      BY <1>2, <2>1 DEF LayoutSays
    <2>3. 1 \in 1 .. CmdSize[cmds[1]]
      BY <2>2
    <2>4. /\ pos[1 - 1] + c[1 - 1] + 1 \in 1 .. Len(bytes)
          /\ bytes[pos[1 - 1] + c[1 - 1] + 1] = Encode(cmds[1])[1]
      BY <2>2, <2>3
    <2>5. pos[1 - 1] + c[1 - 1] + 1 = c[0] + 1
      BY <1>3, <1>4
    <2>6. Encode(cmds[1])[1] \notin TrackBytes
      BY <2>2, <2>3, EncodeProperties
    <2> QED BY <1>4, <2>4, <2>5, <2>6
  <1>7. n = 0 => c[0] = Len(bytes)
    BY <1>3, <1>4
  <1> QED BY <1>3, <1>4, <1>5, <1>6, <1>7

(* The first command, when there is nothing in front of it, and what is left *)
(* when it has been taken.                                                   *)
LEMMA LayoutTake ==
  ASSUME NEW bytes \in Seq(Byte), NEW n \in Nat, NEW c \in [0 .. n -> Nat],
         HasLayout(bytes, c, n), n > 0, c[0] = 0
  PROVE  \E q \in Commands :
           /\ CmdSize[q] <= Len(bytes)
           /\ \A i \in 1 .. CmdSize[q] : bytes[i] = Encode(q)[i]
           /\ HasLayout(SubSeq(bytes, CmdSize[q] + 1, Len(bytes)),
                        [k \in 0 .. n - 1 |-> c[k + 1]], n - 1)
  <1>1. PICK pos, cmds : Layout(bytes, c, n, pos, cmds)
    BY DEF HasLayout
  <1>0. LayoutSays(bytes, c, n, pos, cmds)
    BY <1>1, LayoutFacts
  <1> DEFINE q == cmds[1]
             z == CmdSize[q]
  <1>2. /\ pos \in [0 .. n -> Nat] /\ cmds \in [1 .. n -> Commands] /\ pos[0] = 0
        /\ pos[n] + c[n] = Len(bytes) /\ Len(bytes) \in Nat /\ 1 \in 1 .. n
    <2>1. 1 \in 1 .. n
      OBVIOUS
    <2>2. /\ pos \in [0 .. n -> Nat] /\ cmds \in [1 .. n -> Commands] /\ pos[0] = 0
          /\ pos[n] + c[n] = Len(bytes)
      BY <1>1, Zenon DEF Layout
    <2>3. Len(bytes) \in Nat
      BY LenProperties
    <2> QED BY <2>1, <2>2, <2>3
  <1>3. q \in Commands /\ z \in 1 .. 2
    BY <1>0, <1>2 DEF LayoutSays
  <1>4. pos[1] = z
    <2>1. pos[1] = pos[1 - 1] + c[1 - 1] + z
      BY <1>0, <1>2 DEF LayoutSays
    <2> HIDE DEF z
    <2> QED BY <1>2, <1>3, <2>1
  <1>5. ASSUME NEW i \in 1 .. z PROVE i <= Len(bytes) /\ bytes[i] = Encode(q)[i]
    <2>1. /\ pos[1 - 1] + c[1 - 1] + i \in 1 .. Len(bytes)
          /\ bytes[pos[1 - 1] + c[1 - 1] + i] = Encode(cmds[1])[i]
      BY <1>0, <1>2 DEF LayoutSays
    <2>2. pos[1 - 1] + c[1 - 1] + i = i
      BY <1>2, <1>3
    <2> QED BY <2>1, <2>2
  <1>6. z \in 0 .. Len(bytes)
    <2>1. z \in 1 .. z
      BY <1>3
    <2>2. z <= Len(bytes)
      BY <1>5, <2>1
    <2> QED BY <1>2, <1>3, <2>2
  <1> HIDE DEF q, z
  <1> DEFINE rest == SubSeq(bytes, z + 1, Len(bytes))
             d == [k \in 0 .. n - 1 |-> c[k + 1]]
             at == [k \in 0 .. n - 1 |-> pos[k + 1] - z]
             qs == [k \in 1 .. n - 1 |-> cmds[k + 1]]
  <1>7. /\ Len(rest) = Len(bytes) - z
        /\ \A i \in 1 .. Len(bytes) - z : rest[i] = bytes[z + i]
    BY <1>6, RestProperties
  <1>8. ASSUME NEW k \in 0 .. n - 1
        PROVE  /\ d[k] = c[k + 1] /\ at[k] = pos[k + 1] - z /\ at[k] \in Nat /\ d[k] \in Nat
               /\ pos[k + 1] = z + at[k] /\ k + 1 \in 1 .. n /\ k + 1 \in 0 .. n
    <2>1. d[k] = c[k + 1] /\ at[k] = pos[k + 1] - z /\ k + 1 \in 1 .. n /\ k + 1 \in 0 .. n
      OBVIOUS
    <2>2. pos[k + 1] >= c[0] + CmdSize[cmds[1]] /\ pos[k + 1] \in Nat /\ c[k + 1] \in Nat
      BY <1>1, <1>2, <2>1, LayoutAhead
    <2>3. pos[k + 1] >= z
      BY <1>3, <2>2 DEF z, q
    <2> HIDE DEF d, at
    <2> QED BY <1>3, <2>1, <2>2, <2>3
  <1>9. at \in [0 .. n - 1 -> Nat] /\ qs \in [1 .. n - 1 -> Commands]
    <2>1. \A k \in 1 .. n - 1 : k + 1 \in 1 .. n
      OBVIOUS
    <2>2. qs \in [1 .. n - 1 -> Commands]
      BY <1>2, <2>1
    <2> QED BY <1>8, <2>2
  <1>10. \A k \in 1 .. n - 1 : qs[k] = cmds[k + 1] /\ k - 1 \in 0 .. n - 1 /\ k \in 0 .. n - 1
    OBVIOUS
  <1> HIDE DEF rest, d, at, qs
  <1>11. at[0] = 0 /\ at[n - 1] + d[n - 1] = Len(rest)
    <2>1. at[0] = pos[1] - z
      BY <1>2, <1>8
    <2>2. d[n - 1] = c[n] /\ at[n - 1] \in Nat /\ pos[n] = z + at[n - 1] /\ c[n] \in Nat
      <3>1. n - 1 \in 0 .. n - 1 /\ n - 1 + 1 = n
        BY <1>2
      <3> QED BY <1>8, <3>1
    <2>3. at[0] = 0
      BY <1>2, <1>3, <1>4, <1>7, <2>1
    <2>4. at[n - 1] + d[n - 1] = Len(rest)
      <3> DEFINE u == at[n - 1]
                 v == c[n]
      <3>1. /\ d[n - 1] = v /\ u \in Nat /\ v \in Nat /\ z \in Nat /\ Len(bytes) \in Nat
            /\ z + u + v = Len(bytes) /\ Len(rest) = Len(bytes) - z
        BY <1>2, <1>3, <1>7, <2>2
      <3> HIDE DEF u, v
      <3>2. u + v = Len(rest)
        BY <3>1
      <3> QED BY <3>1, <3>2 DEF u
    <2> QED BY <2>3, <2>4
  <1>12. ASSUME NEW k \in 0 .. n - 1 PROVE at[k] + d[k] <= Len(rest)
    <2>1. pos[k + 1] + c[k + 1] <= Len(bytes)
      BY <1>0, <1>8 DEF LayoutSays
    <2> QED BY <1>2, <1>3, <1>7, <1>8, <2>1
  <1>13. ASSUME NEW k \in 0 .. n - 1, NEW i \in 1 .. d[k]
         PROVE  rest[at[k] + i] \in TrackBytes
    <2>1. /\ pos[k + 1] + i \in 1 .. Len(bytes) /\ bytes[pos[k + 1] + i] \in TrackBytes
          /\ at[k] \in Nat /\ pos[k + 1] = z + at[k]
      BY <1>0, <1>8 DEF LayoutSays
    <2> DEFINE x == at[k]
    <2>2. x \in Nat /\ i \in Nat /\ z + x + i \in 1 .. Len(bytes) /\ i >= 1
          /\ bytes[z + x + i] \in TrackBytes
      BY <1>8, <2>1
    <2> HIDE DEF x
    <2>3. x + i \in 1 .. Len(bytes) - z /\ z + (x + i) = z + x + i
      BY <1>2, <1>3, <2>2
    <2> QED BY <1>7, <2>2, <2>3 DEF x
  <1>14. ASSUME NEW k \in 1 .. n - 1
         PROVE  /\ at[k] = at[k - 1] + d[k - 1] + CmdSize[qs[k]]
                /\ \A i \in 1 .. CmdSize[qs[k]] :
                     rest[at[k - 1] + d[k - 1] + i] = Encode(qs[k])[i]
    <2> DEFINE x == at[k - 1]
               y == d[k - 1]
               v == at[k]
               w == CmdSize[qs[k]]
    <2>1. k - 1 \in 0 .. n - 1 /\ k \in 0 .. n - 1 /\ k - 1 + 1 = k /\ k + 1 - 1 = k
      BY <1>2
    <2>2. x \in Nat /\ y \in Nat /\ y = c[k] /\ pos[k] = z + x /\ pos[k + 1] = z + v
      BY <1>8, <2>1
    <2>3. k + 1 \in 1 .. n /\ v \in Nat
      BY <1>8, <2>1
    <2>4. /\ pos[k + 1] = pos[k] + c[k] + w /\ w \in 1 .. 2
          /\ \A i \in 1 .. w : /\ pos[k] + c[k] + i \in 1 .. Len(bytes)
                               /\ bytes[pos[k] + c[k] + i] = Encode(qs[k])[i]
      BY <1>0, <1>10, <2>1, <2>3 DEF LayoutSays
    <2> HIDE DEF x, y, v, w
    <2>5. v = x + y + w
      <3>1. z + v = z + x + y + w /\ w \in Nat /\ z \in Nat
        BY <1>3, <2>2, <2>4
      <3>2. x \in Nat /\ y \in Nat /\ v \in Nat
        BY <2>2, <2>3
      <3> QED BY <3>1, <3>2
    <2>6. ASSUME NEW i \in 1 .. w PROVE rest[x + y + i] = Encode(qs[k])[i]
      <3>1. z + x + y + i \in 1 .. Len(bytes) /\ bytes[z + x + y + i] = Encode(qs[k])[i]
        BY <2>2, <2>4
      <3>2. i \in Nat /\ i >= 1 /\ z \in Nat /\ x \in Nat /\ y \in Nat
        BY <1>3, <2>2, <2>4
      <3>3. x + y + i \in 1 .. Len(bytes) - z /\ z + (x + y + i) = z + x + y + i
        BY <1>2, <3>1, <3>2
      <3> QED BY <1>7, <3>1, <3>3
    <2> QED BY <2>5, <2>6 DEF x, y, v, w
  <1>15. Layout(rest, d, n - 1, at, qs)
    BY <1>9, <1>11, <1>12, <1>13, <1>14 DEF Layout
  <1>16. HasLayout(rest, d, n - 1)
    BY <1>15 DEF HasLayout
  <1>17. /\ CmdSize[q] <= Len(bytes)
         /\ \A i \in 1 .. CmdSize[q] : bytes[i] = Encode(q)[i]
    <2>1. z <= Len(bytes)
      BY <1>2, <1>6
    <2>2. \A i \in 1 .. z : bytes[i] = Encode(q)[i]
      BY <1>5
    <2> QED BY <2>1, <2>2 DEF z
  <1>18. HasLayout(SubSeq(bytes, CmdSize[q] + 1, Len(bytes)),
                   [k \in 0 .. n - 1 |-> c[k + 1]], n - 1)
    BY <1>16, Zenon DEF rest, d, z
  <1> QED BY <1>3, <1>17, <1>18, Zenon
-----------------------------------------------------------------------------
(* How distances change when an index moves on. *)
LEMMA SlotDistances ==
  ASSUME NEW a \in Slots, NEW b \in Slots
  PROVE  /\ SlotsFrom(a, b) < MAX_STREAM_CMDS => SlotsFrom(a, NextSlot(b)) = SlotsFrom(a, b) + 1
         /\ SlotsFrom(a, b) > 0 => SlotsFrom(NextSlot(a), b) = SlotsFrom(a, b) - 1
         /\ SlotsFrom(a, b) = 0 => a = b /\ SlotsFrom(NextSlot(a), b) = MAX_STREAM_CMDS
         /\ a = b => SlotsFrom(a, b) = 0
  BY StreamBufAssumption DEF Slots, SlotsFrom, NextSlot

(* The distance that is left after k slots. *)
LEMMA SlotDistanceAfter ==
  ASSUME NEW a \in Slots, NEW b \in Slots, NEW k \in Slots
  PROVE  SlotsFrom(SlotAfter(a, k), b) = IF SlotsFrom(a, b) >= k THEN SlotsFrom(a, b) - k
                                         ELSE SlotsFrom(a, b) - k + MAX_STREAM_CMDS + 1
  BY StreamBufAssumption DEF Slots, SlotsFrom, SlotAfter
(* The sum over slots among which s is, when s changes. *)
LEMMA CountChange ==
  ASSUME NEW cnt \in [Slots -> Nat], NEW new \in [Slots -> Nat], NEW a \in Slots,
         NEW s \in Slots, NEW n \in Slots, SlotsFrom(a, s) <= n,
         \A t \in Slots : t # s => new[t] = cnt[t]
  PROVE  CountFrom(new, a)[n] = CountFrom(cnt, a)[n] + (new[s] - cnt[s])
  <1> DEFINE x == CountFrom(cnt, a)
             y == CountFrom(new, a)
             q == SlotsFrom(a, s)
             d == new[s] - cnt[s]
             P == {j \in Nat : j \in Slots => y[j] = x[j] + IF j >= q THEN d ELSE 0}
  <1>a. q \in Slots /\ SlotAfter(a, q) = s /\ q <= n
    BY SlotArithmetic
  <1>b. d \in Int /\ new[SlotAfter(a, q)] = cnt[SlotAfter(a, q)] + d
    <2>1. new[s] \in Nat /\ cnt[s] \in Nat
      OBVIOUS
    <2> QED BY <1>a, <2>1
  <1>c. ASSUME NEW j \in Slots, j # q PROVE new[SlotAfter(a, j)] = cnt[SlotAfter(a, j)]
    <2>1. SlotAfter(a, j) \in Slots /\ SlotsFrom(a, SlotAfter(a, j)) = j
      BY SlotArithmetic
    <2>2. SlotAfter(a, j) # s
      BY <1>c, <2>1
    <2> QED BY <2>1, <2>2
  <1>0. /\ x \in [Slots -> Nat] /\ y \in [Slots -> Nat]
        /\ \A k \in Slots : x[k] = cnt[SlotAfter(a, k)] + IF k = 0 THEN 0 ELSE x[k - 1]
        /\ \A k \in Slots : y[k] = new[SlotAfter(a, k)] + IF k = 0 THEN 0 ELSE y[k - 1]
    BY CountFromStep
  <1>1. \A k \in Slots : cnt[SlotAfter(a, k)] \in Nat /\ new[SlotAfter(a, k)] \in Nat
    BY SlotArithmetic
  <1>2. q \in Nat /\ n \in Nat /\ 0 \in Slots
    BY <1>a, StreamBufAssumption DEF Slots
  <1> HIDE DEF x, y, q, d
  <1>3. 0 \in P
    <2>1. x[0] = cnt[SlotAfter(a, 0)] + 0 /\ y[0] = new[SlotAfter(a, 0)] + 0
      BY <1>0, <1>2
    <2>2. CASE q = 0
      BY <1>b, <1>1, <1>2, <2>1, <2>2
    <2>3. CASE q # 0
      BY <1>c, <1>1, <1>2, <2>1, <2>3
    <2> QED BY <2>2, <2>3
  <1>4. ASSUME NEW j \in Nat, j \in P PROVE j + 1 \in P
    <2>0. j + 1 \in Nat
      OBVIOUS
    <2> SUFFICES ASSUME j + 1 \in Slots PROVE y[j + 1] = x[j + 1] + IF j + 1 >= q THEN d ELSE 0
      BY <2>0
    <2>1. j \in Slots /\ j + 1 # 0 /\ j + 1 - 1 = j
      BY StreamBufAssumption DEF Slots
    <2>2. x[j + 1] = cnt[SlotAfter(a, j + 1)] + x[j] /\ y[j + 1] = new[SlotAfter(a, j + 1)] + y[j]
      BY <1>0, <2>1
    <2>3. y[j] = x[j] + IF j >= q THEN d ELSE 0
      BY <1>4, <2>1
    <2>4. x[j] \in Nat /\ cnt[SlotAfter(a, j + 1)] \in Nat
      BY <1>0, <1>1, <2>1
    <2> DEFINE u == x[j + 1]
               v == y[j + 1]
               w == cnt[SlotAfter(a, j + 1)]
               z == new[SlotAfter(a, j + 1)]
    <2>5. u = w + x[j] /\ v = z + y[j] /\ w \in Nat
      BY <2>2, <2>4
    <2> HIDE DEF P, u, v, w, z
    <2>6. CASE j + 1 = q
      <3>1. z = w + d
        BY <1>b, <2>6 DEF z, w
      <3>2. y[j] = x[j] + 0
        BY <1>2, <2>3, <2>6
      <3>3. v = u + d
        BY <1>b, <2>4, <2>5, <3>1, <3>2
      <3> QED BY <1>2, <2>6, <3>3 DEF u, v
    <2>7. CASE j + 1 # q
      <3>1. z = w
        BY <1>c, <2>7 DEF z, w
      <3>2. (j + 1 >= q) <=> (j >= q)
        BY <1>2, <2>7
      <3>3. v = u + IF j >= q THEN d ELSE 0
        BY <1>b, <2>3, <2>4, <2>5, <3>1
      <3> QED BY <3>2, <3>3 DEF u, v
    <2> QED BY <2>6, <2>7
  <1> HIDE DEF P
  <1>5. Nat \subseteq P
    BY <1>3, <1>4, SetInduction
  <1>6. n \in P
    BY <1>2, <1>5
  <1>7. y[n] = x[n] + d
    BY <1>a, <1>2, <1>6 DEF P
  <1> QED BY <1>7 DEF x, y, d


(* The sum over all slots, when s changes. *)
LEMMA CountAll ==
  ASSUME NEW cnt \in [Slots -> Nat], NEW new \in [Slots -> Nat], NEW s \in Slots,
         \A t \in Slots : t # s => new[t] = cnt[t]
  PROVE  CountFrom(new, 0)[MAX_STREAM_CMDS]
           = CountFrom(cnt, 0)[MAX_STREAM_CMDS] + (new[s] - cnt[s])
  <1> DEFINE zero == 0
             max == MAX_STREAM_CMDS
  <1>1. zero \in Slots /\ max \in Slots /\ SlotsFrom(zero, s) <= max
    BY StreamBufAssumption DEF Slots, SlotsFrom
  <1> HIDE DEF zero, max
  <1>2. CountFrom(new, zero)[max] = CountFrom(cnt, zero)[max] + (new[s] - cnt[s])
    BY <1>1, CountChange
  <1> QED BY <1>2 DEF zero, max
-----------------------------------------------------------------------------
(* The counters between two calls of streambuf.c, whatever is in the stream. *)
BufOK ==
  /\ stale \in Seq(Byte) /\ fresh \in Seq(Byte)
  /\ slot_cnt \in [Slots -> Nat] /\ slot_cnt_stale \in [Slots -> Nat]
  /\ cmd_cnt \in Nat /\ cmd_cnt_stale \in Slots
  /\ eslot \in Slots /\ dslot \in Slots /\ sslot \in Slots

StoreInv == BufOK /\ StaleSlots

\* The unread data bytes, slot by slot: they frame the fresh bytes.
Ahead == [k \in 0 .. cmd_cnt |-> slot_cnt[SlotAfter(dslot, k)]]
Framed == HasLayout(fresh, Ahead, cmd_cnt)

\* What is lost when eslot laps dslot or a command is torn.
FreshInv == FreshSlots /\ Framed

\* How many bytes the counters hold as read and not discarded.
Unread == CountFrom(slot_cnt, 0)[MAX_STREAM_CMDS]
Undiscarded == CountFrom(slot_cnt_stale, sslot)[cmd_cnt_stale]
Spare == Undiscarded - Unread

(* What the counters hold. *)
LEMMA StoreFacts ==
  ASSUME StoreInv
  PROVE  /\ cmd_cnt \in Nat /\ Unread \in Nat /\ Undiscarded \in Nat /\ Spare \in Int
         /\ Len(stale) \in Nat /\ Len(fresh) \in Nat
         /\ 0 \in Slots /\ MAX_STREAM_CMDS \in Slots
         /\ slot_cnt[dslot] \in Nat /\ slot_cnt[eslot] \in Nat /\ slot_cnt_stale[eslot] \in Nat
         /\ \A s \in Slots : SlotsFrom(0, s) <= MAX_STREAM_CMDS
  <1>1. 0 \in Slots /\ MAX_STREAM_CMDS \in Slots
    BY StreamBufAssumption DEF Slots
  <1>2. Unread \in Nat /\ Undiscarded \in Nat
    BY <1>1, CountFromStep DEF Unread, Undiscarded, StoreInv, BufOK
  <1>3. \A s \in Slots : SlotsFrom(0, s) <= MAX_STREAM_CMDS
    BY StreamBufAssumption DEF Slots, SlotsFrom
  <1> QED BY <1>1, <1>2, <1>3 DEF StoreInv, BufOK, Spare

(* What the slots in use are, in a stream that is framed. *)
LEMMA FreshFacts ==
  ASSUME StoreInv, FreshInv
  PROVE  /\ SlotAfter(dslot, cmd_cnt) = eslot /\ cmd_cnt \in Slots
         /\ cmd_cnt \in Nat /\ cmd_cnt <= MAX_STREAM_CMDS /\ 0 \in 0 .. cmd_cnt
         /\ Ahead \in [0 .. cmd_cnt -> Nat] /\ Ahead[0] = slot_cnt[dslot]
         /\ Len(stale) \in Nat /\ Len(fresh) \in Nat
  <1>1. SlotAfter(dslot, cmd_cnt) = eslot /\ cmd_cnt \in Slots
    <2>1. eslot \in Slots /\ dslot \in Slots /\ cmd_cnt = SlotsFrom(dslot, eslot)
      BY Zenon DEF StoreInv, FreshInv, BufOK, FreshSlots
    <2>2. SlotAfter(dslot, SlotsFrom(dslot, eslot)) = eslot /\ SlotsFrom(dslot, eslot) \in Slots
      BY <2>1, SlotArithmetic
    <2> QED BY <2>1, <2>2
  <1>2. cmd_cnt \in Nat /\ cmd_cnt <= MAX_STREAM_CMDS /\ 0 \in 0 .. cmd_cnt
    BY <1>1, StreamBufAssumption DEF Slots
  <1>3. \A k \in 0 .. cmd_cnt : SlotAfter(dslot, k) \in Slots
    <2>1. \A k \in 0 .. cmd_cnt : k \in Slots
      BY <1>2, StreamBufAssumption DEF Slots
    <2> QED BY <2>1, SlotArithmetic DEF StoreInv, BufOK
  <1>4. Ahead \in [0 .. cmd_cnt -> Nat]
    BY <1>3 DEF Ahead, StoreInv, BufOK
  <1>5. Ahead[0] = slot_cnt[dslot]
    BY <1>2, SlotArithmetic DEF Ahead, StoreInv, BufOK
  <1> QED BY <1>1, <1>2, <1>4, <1>5 DEF StoreInv, BufOK

(* A byte of a track is written. *)
LEMMA DataEnq ==
  ASSUME StoreInv, NEW b \in TrackBytes, Len(<<b>>) <= Free, streambuf_data_enq(<<b>>)
  PROVE  /\ StoreInv' /\ Spare' = Spare /\ stale' = stale /\ fresh' = fresh \o <<b>>
         /\ FreshInv => FreshInv'
  <1>0. /\ Unread \in Nat /\ Undiscarded \in Nat /\ Len(fresh) \in Nat /\ Len(stale) \in Nat
        /\ 0 \in Slots /\ MAX_STREAM_CMDS \in Slots
        /\ slot_cnt[eslot] \in Nat /\ slot_cnt_stale[eslot] \in Nat
        /\ SlotsFrom(0, eslot) <= MAX_STREAM_CMDS
    BY StoreFacts DEF StoreInv, BufOK
  <1>1. Len(<<b>>) = 1 /\ b \in Byte /\ <<b>> \in Seq(Byte)
    <2>1. b \in Byte
      BY DEF TrackBytes, Byte
    <2> QED BY <2>1
  <1>2. stale' = stale /\ fresh' = fresh \o <<b>>
    <2>1. ~(Len(<<b>>) > Free)
      BY <1>0, <1>1, StreamBufAssumption DEF Free
    <2> QED BY <2>1 DEF streambuf_data_enq, EnqStream
  <1>3. /\ slot_cnt' = [slot_cnt EXCEPT ![eslot] = @ + 1]
        /\ slot_cnt_stale' = [slot_cnt_stale EXCEPT ![eslot] = @ + 1]
        /\ UNCHANGED <<cmd_cnt, cmd_cnt_stale, eslot, dslot, sslot>>
    BY <1>1 DEF streambuf_data_enq
  <1>4. /\ slot_cnt \in [Slots -> Nat] /\ slot_cnt_stale \in [Slots -> Nat]
        /\ slot_cnt[eslot] + 1 \in Nat /\ slot_cnt_stale[eslot] + 1 \in Nat /\ 1 \in Int
        /\ eslot \in Slots /\ sslot \in Slots /\ dslot \in Slots /\ cmd_cnt_stale \in Slots
        /\ cmd_cnt_stale = SlotsFrom(sslot, eslot) /\ cmd_cnt_stale \in Nat
    <2>1. /\ slot_cnt \in [Slots -> Nat] /\ slot_cnt_stale \in [Slots -> Nat]
          /\ eslot \in Slots /\ sslot \in Slots /\ dslot \in Slots /\ cmd_cnt_stale \in Slots
          /\ cmd_cnt_stale = SlotsFrom(sslot, eslot)
      BY DEF StoreInv, BufOK, StaleSlots
    <2>2. cmd_cnt_stale \in Nat
      BY <2>1, StreamBufAssumption DEF Slots
    <2>3. slot_cnt[eslot] + 1 \in Nat /\ slot_cnt_stale[eslot] + 1 \in Nat /\ 1 \in Int
      BY <1>0
    <2> QED BY <2>1, <2>2, <2>3
  <1>5. BufOK'
    <2>1. fresh' \in Seq(Byte)
      BY <1>1, <1>2, ConcatProperties DEF StoreInv, BufOK
    <2>2. slot_cnt' \in [Slots -> Nat] /\ slot_cnt_stale' \in [Slots -> Nat]
      BY <1>3, <1>4
    <2> QED BY <1>2, <1>3, <2>1, <2>2 DEF StoreInv, BufOK
  <1>6. StaleSlots'
    <2>1. ASSUME NEW s \in Slots, SlotsFrom(sslot, s) > cmd_cnt_stale
          PROVE  slot_cnt_stale'[s] = 0
      <3>1. s # eslot
        BY <1>4, <2>1
      <3> QED BY <1>3, <1>4, <2>1, <3>1 DEF StoreInv, StaleSlots
    <2> QED BY <1>3, <1>4, <2>1 DEF StaleSlots
  <1>7. Unread' = Unread + 1
    <2>1. /\ slot_cnt' \in [Slots -> Nat] /\ slot_cnt'[eslot] = slot_cnt[eslot] + 1
          /\ \A t \in Slots : t # eslot => slot_cnt'[t] = slot_cnt[t]
      BY <1>3, <1>4
    <2>2. CountFrom(slot_cnt', 0)[MAX_STREAM_CMDS]
            = CountFrom(slot_cnt, 0)[MAX_STREAM_CMDS] + (slot_cnt'[eslot] - slot_cnt[eslot])
      BY <1>4, <2>1, CountAll
    <2>3. Unread' = Unread + (slot_cnt'[eslot] - slot_cnt[eslot])
      BY <2>2 DEF Unread
    <2>4. slot_cnt'[eslot] - slot_cnt[eslot] = 1
      BY <1>0, <2>1
    <2> QED BY <2>3, <2>4
  <1>8. Undiscarded' = Undiscarded + 1
    <2>1. /\ slot_cnt_stale' \in [Slots -> Nat]
          /\ slot_cnt_stale'[eslot] = slot_cnt_stale[eslot] + 1
          /\ \A t \in Slots : t # eslot => slot_cnt_stale'[t] = slot_cnt_stale[t]
          /\ SlotsFrom(sslot, eslot) <= cmd_cnt_stale
      BY <1>3, <1>4
    <2>2. CountFrom(slot_cnt_stale', sslot)[cmd_cnt_stale]
            = CountFrom(slot_cnt_stale, sslot)[cmd_cnt_stale]
                + (slot_cnt_stale'[eslot] - slot_cnt_stale[eslot])
      BY <1>4, <2>1, CountChange
    <2>3. Undiscarded' = Undiscarded + (slot_cnt_stale'[eslot] - slot_cnt_stale[eslot])
      BY <1>3, <2>2 DEF Undiscarded
    <2>4. slot_cnt_stale'[eslot] - slot_cnt_stale[eslot] = 1
      BY <1>0, <2>1
    <2> QED BY <2>3, <2>4
  <1>9. Spare' = Spare
    BY <1>0, <1>7, <1>8 DEF Spare
  <1>10. ASSUME FreshInv PROVE FreshInv'
    <2> USE FreshFacts, <1>10
    <2>1. FreshSlots'
      <3>1. cmd_cnt = SlotsFrom(dslot, eslot)
        BY DEF FreshInv, FreshSlots
      <3>2. ASSUME NEW s \in Slots, SlotsFrom(dslot, s) > cmd_cnt PROVE slot_cnt'[s] = 0
        <4>1. s # eslot
          BY <3>1, <3>2
        <4> QED BY <1>3, <1>4, <3>2, <4>1 DEF FreshInv, FreshSlots
      <3> QED BY <1>3, <3>1, <3>2 DEF FreshSlots
    <2>2. Ahead' = [Ahead EXCEPT ![cmd_cnt] = @ + 1]
      <3>1. ASSUME NEW k \in 0 .. cmd_cnt
            PROVE  slot_cnt'[SlotAfter(dslot, k)] =
                     IF k = cmd_cnt THEN slot_cnt[SlotAfter(dslot, k)] + 1
                     ELSE slot_cnt[SlotAfter(dslot, k)]
        <4>1. k \in Slots /\ cmd_cnt \in Slots
          BY StreamBufAssumption DEF Slots
        <4>2. /\ SlotAfter(dslot, k) \in Slots /\ SlotsFrom(dslot, SlotAfter(dslot, k)) = k
              /\ SlotsFrom(dslot, eslot) = cmd_cnt
          BY <1>4, <4>1, SlotArithmetic DEF FreshInv, FreshSlots
        <4>3. SlotAfter(dslot, k) = eslot <=> k = cmd_cnt
          BY <4>2
        <4> QED BY <1>3, <1>4, <4>2, <4>3
      <3>2. Ahead' = [k \in 0 .. cmd_cnt |-> slot_cnt'[SlotAfter(dslot, k)]]
        BY <1>3 DEF Ahead
      <3> QED BY <3>1, <3>2 DEF Ahead
    <2>3. HasLayout(fresh \o <<b>>, [Ahead EXCEPT ![cmd_cnt] = @ + 1], cmd_cnt)
      BY LayoutData DEF StoreInv, BufOK, FreshInv, Framed
    <2>4. Framed'
      BY <1>2, <1>3, <2>2, <2>3 DEF Framed
    <2> QED BY <2>1, <2>4 DEF FreshInv
  <1> QED BY <1>2, <1>5, <1>6, <1>9, <1>10 DEF StoreInv

(* A command is written, or it does not fit and nothing changes. *)
LEMMA CmdEnq ==
  ASSUME StoreInv, NEW c \in Commands, streambuf_cmd_enq(c)
  PROVE  /\ StoreInv' /\ Spare' = Spare /\ stale' = stale
         /\ FreshInv /\ ~lapped' => FreshInv'
         /\ ~lapped' => ~lapped
         /\ \/ fresh' = fresh \o Encode(c) /\ cmd_cnt' = cmd_cnt + 1 /\ dslot' = dslot
               /\ slot_cnt' = slot_cnt /\ halted' = halted
            \/ UNCHANGED <<buffer_state, lapped>> /\ halted' = "exit"
  <1>0. Undiscarded \in Nat /\ Len(stale) \in Nat /\ Len(fresh) \in Nat /\ cmd_cnt \in Nat
    BY StoreFacts
  <1>1. CASE UNCHANGED <<buffer_state, lapped>> /\ halted' = "exit"
    BY <1>1 DEF StoreInv, BufOK, StaleSlots, FreshInv, FreshSlots, Framed, Ahead, Spare, Unread,
                Undiscarded, counters, buffer_state
  <1>2. CASE /\ cmd_cnt_stale # MAX_STREAM_CMDS /\ CmdSize[c] < Free /\ EnqStream(Encode(c))
             /\ eslot' = NextSlot(eslot) /\ cmd_cnt' = cmd_cnt + 1
             /\ cmd_cnt_stale' = cmd_cnt_stale + 1
             /\ lapped' = (lapped \/ cmd_cnt >= MAX_STREAM_CMDS)
             /\ UNCHANGED <<slot_cnt, slot_cnt_stale, dslot, sslot, halted>>
    <2>1. CmdSize[c] \in 1 .. 2 /\ Encode(c) \in Seq(Byte) /\ Len(Encode(c)) = CmdSize[c]
      BY EncodeProperties
    <2>2. stale' = stale /\ fresh' = fresh \o Encode(c)
      <3>1. ~(Len(Encode(c)) > Free)
        BY <1>0, <1>2, <2>1, StreamBufAssumption DEF Free
      <3> QED BY <1>2, <3>1 DEF EnqStream
    <2>3. /\ cmd_cnt_stale \in Slots /\ cmd_cnt_stale < MAX_STREAM_CMDS /\ cmd_cnt_stale \in Nat
          /\ cmd_cnt + 1 \in Nat /\ cmd_cnt_stale + 1 \in Slots
          /\ slot_cnt_stale \in [Slots -> Nat] /\ sslot \in Slots /\ eslot \in Slots
          /\ slot_cnt \in [Slots -> Nat] /\ dslot \in Slots
      BY <1>0, <1>2, StreamBufAssumption DEF StoreInv, BufOK, Slots
    <2>4. BufOK'
      <3>1. fresh' \in Seq(Byte) /\ NextSlot(eslot) \in Slots
        BY <2>1, <2>2, <2>3, ConcatProperties, SlotArithmetic DEF StoreInv, BufOK
      <3> QED BY <1>2, <2>2, <2>3, <3>1 DEF StoreInv, BufOK
    <2>5. StaleSlots'
      <3>1. SlotsFrom(sslot, NextSlot(eslot)) = cmd_cnt_stale + 1
        BY <2>3, SlotDistances DEF StoreInv, StaleSlots
      <3>2. \A s \in Slots : SlotsFrom(sslot, s) > cmd_cnt_stale + 1 => slot_cnt_stale[s] = 0
        <4>1. \A s \in Slots : SlotsFrom(sslot, s) \in Nat
          BY <2>3, SlotArithmetic DEF Slots
        <4>2. \A s \in Slots : SlotsFrom(sslot, s) > cmd_cnt_stale => slot_cnt_stale[s] = 0
          BY DEF StoreInv, StaleSlots
        <4>3. \A s \in Slots : SlotsFrom(sslot, s) > cmd_cnt_stale + 1
                                => SlotsFrom(sslot, s) > cmd_cnt_stale
          BY <2>3, <4>1
        <4> QED BY <4>2, <4>3
      <3> QED BY <1>2, <3>1, <3>2 DEF StaleSlots
    <2>6. Unread' = Unread
      BY <1>2 DEF Unread
    <2>7. slot_cnt_stale[SlotAfter(sslot, cmd_cnt_stale + 1)] = 0
      <3>1. /\ SlotAfter(sslot, cmd_cnt_stale + 1) \in Slots
            /\ SlotsFrom(sslot, SlotAfter(sslot, cmd_cnt_stale + 1)) = cmd_cnt_stale + 1
        BY <2>3, SlotArithmetic
      <3>2. cmd_cnt_stale + 1 > cmd_cnt_stale
        BY <2>3
      <3> QED BY <3>1, <3>2 DEF StoreInv, StaleSlots
    <2>8. Undiscarded' = Undiscarded
      <3>1. CountFrom(slot_cnt_stale, sslot)[cmd_cnt_stale + 1]
              = 0 + CountFrom(slot_cnt_stale, sslot)[cmd_cnt_stale]
        <4>1. CountFrom(slot_cnt_stale, sslot)[cmd_cnt_stale + 1]
                = slot_cnt_stale[SlotAfter(sslot, cmd_cnt_stale + 1)]
                    + CountFrom(slot_cnt_stale, sslot)[cmd_cnt_stale]
          BY <2>3, CountOneMore
        <4> QED BY <2>7, <4>1
      <3>2. Undiscarded' = CountFrom(slot_cnt_stale, sslot)[cmd_cnt_stale + 1]
        BY <1>2 DEF Undiscarded
      <3> QED BY <1>0, <3>1, <3>2 DEF Undiscarded
    <2>9. Spare' = Spare
      BY <2>6, <2>8 DEF Spare
    <2>10. ASSUME FreshInv, ~lapped' PROVE FreshInv'
      <3> USE FreshFacts, <2>10
      <3>0. cmd_cnt < MAX_STREAM_CMDS /\ cmd_cnt + 1 \in Slots /\ cmd_cnt \in Slots
        <4>1. cmd_cnt \in Nat /\ cmd_cnt <= MAX_STREAM_CMDS
          BY FreshFacts
        <4>2. ~(cmd_cnt >= MAX_STREAM_CMDS)
          BY <1>2
        <4> QED BY <4>1, <4>2, StreamBufAssumption DEF Slots
      <3>1. FreshSlots'
        <4>1. SlotsFrom(dslot, NextSlot(eslot)) = cmd_cnt + 1
          BY <2>3, <3>0, SlotDistances DEF FreshInv, FreshSlots
        <4>2. \A s \in Slots : SlotsFrom(dslot, s) > cmd_cnt + 1 => slot_cnt[s] = 0
          <5>1. \A s \in Slots : SlotsFrom(dslot, s) \in Nat
            BY <2>3, SlotArithmetic DEF Slots
          <5> QED BY <5>1 DEF FreshInv, FreshSlots
        <4> QED BY <1>2, <4>1, <4>2 DEF FreshSlots
      <3>2. slot_cnt[SlotAfter(dslot, cmd_cnt + 1)] = 0
        <4>1. /\ SlotAfter(dslot, cmd_cnt + 1) \in Slots
              /\ SlotsFrom(dslot, SlotAfter(dslot, cmd_cnt + 1)) = cmd_cnt + 1
          BY <2>3, <3>0, SlotArithmetic
        <4> QED BY <4>1 DEF FreshInv, FreshSlots
      <3> DEFINE d == [k \in 0 .. cmd_cnt + 1 |-> IF k = cmd_cnt + 1 THEN 0 ELSE Ahead[k]]
      <3>3. HasLayout(fresh \o Encode(c), d, cmd_cnt + 1)
        BY LayoutCommand DEF StoreInv, BufOK, FreshInv, Framed
      <3>4. Ahead' = d
        <4>1. Ahead' = [k \in 0 .. cmd_cnt + 1 |-> slot_cnt[SlotAfter(dslot, k)]]
          BY <1>2 DEF Ahead
        <4>2. ASSUME NEW k \in 0 .. cmd_cnt + 1 PROVE slot_cnt[SlotAfter(dslot, k)] = d[k]
          <5>1. CASE k = cmd_cnt + 1
            BY <3>2, <5>1
          <5>2. CASE k \in 0 .. cmd_cnt
            BY <5>2 DEF Ahead
          <5> QED BY <5>1, <5>2
        <4> HIDE DEF d
        <4>3. d = [k \in 0 .. cmd_cnt + 1 |-> d[k]]
          BY DEF d
        <4> QED BY <4>1, <4>2, <4>3
      <3> HIDE DEF d
      <3>5. Framed'
        BY <1>2, <2>2, <3>3, <3>4 DEF Framed
      <3> QED BY <3>1, <3>5 DEF FreshInv
    <2> QED BY <1>2, <2>2, <2>4, <2>5, <2>9, <2>10 DEF StoreInv
  <1> QED BY <1>1, <1>2 DEF streambuf_cmd_enq, buffer_state, counters
(* A read of n bytes that are there. *)
LEMMA DeqFits ==
  ASSUME stale \in Seq(Byte), fresh \in Seq(Byte), NEW n \in Nat, n > 0, n <= Len(fresh),
         DeqStream(n, FALSE)
  PROVE  /\ out' = Result(n, SubSeq(fresh, 1, n))
         /\ fresh' = SubSeq(fresh, n + 1, Len(fresh)) /\ fresh' \in Seq(Byte)
         /\ stale' \in Seq(Byte) /\ Len(stale') = Len(stale) + n
  <1>1. /\ ~(n > Len(fresh)) /\ Len(fresh) \in Nat /\ 0 + 1 = 1 /\ 0 + n = n
        /\ n + (Len(fresh) - n) = Len(fresh)
    OBVIOUS
  <1>2. /\ out' = Result(n, Slice(fresh, 0, n)) /\ fresh' = Slice(fresh, n, Len(fresh) - n)
        /\ stale' = stale \o Slice(fresh, 0, n)
    BY <1>1 DEF DeqStream
  <1>3. Slice(fresh, 0, n) = SubSeq(fresh, 1, n)
    BY <1>1 DEF Slice
  <1>4. Slice(fresh, n, Len(fresh) - n) = SubSeq(fresh, n + 1, Len(fresh))
    BY <1>1 DEF Slice
  <1>5. SubSeq(fresh, 1, n) \in Seq(Byte) /\ Len(SubSeq(fresh, 1, n)) = n
    <2>1. \A i \in 1 .. n : fresh[i] \in Byte
      BY ElementOfSeq
    <2>2. /\ SubSeq(fresh, 1, n) \in Seq(Byte)
          /\ Len(SubSeq(fresh, 1, n)) = IF 1 <= n THEN n - 1 + 1 ELSE 0
      BY <2>1, SubSeqProperties
    <2> QED BY <2>2
  <1>6. stale' \in Seq(Byte) /\ Len(stale') = Len(stale) + n
    <2> DEFINE front == SubSeq(fresh, 1, n)
    <2>1. stale' = stale \o front /\ front \in Seq(Byte) /\ Len(front) = n
      BY <1>2, <1>3, <1>5
    <2> HIDE DEF front
    <2> QED BY <2>1, ConcatProperties
  <1>7. SubSeq(fresh, n + 1, Len(fresh)) \in Seq(Byte)
    BY <1>1, RestProperties
  <1> QED BY <1>2, <1>3, <1>4, <1>6, <1>7

(* A read that may find too little. *)
LEMMA DeqAny ==
  ASSUME stale \in Seq(Byte), fresh \in Seq(Byte), NEW n \in Nat, n > 0, DeqStream(n, FALSE)
  PROVE  /\ fresh' \in Seq(Byte) /\ stale' \in Seq(Byte) /\ Len(stale') <= Len(stale) + n
         /\ out'.ret > 0 => Len(stale') = Len(stale) + n
  <1>1. Len(fresh) \in Nat /\ Len(stale) \in Nat
    OBVIOUS
  <1>2. CASE n <= Len(fresh)
    <2>1. /\ fresh' \in Seq(Byte) /\ stale' \in Seq(Byte) /\ Len(stale') = Len(stale) + n
      BY <1>2, DeqFits
    <2> QED BY <1>1, <2>1
  <1>3. CASE n > Len(fresh)
    <2>1. out' = Nothing /\ UNCHANGED <<stale, fresh>>
      BY <1>1, <1>3 DEF DeqStream
    <2>2. out'.ret = 0
      BY <2>1 DEF Nothing, Result
    <2> QED BY <1>1, <2>1, <2>2
  <1> QED BY <1>1, <1>2, <1>3

(* At most max bytes are taken off the counters, and no more are read.  In a *)
(* framed stream they are all read, none of them behind the next command.    *)
LEMMA DataDeq ==
  ASSUME StoreInv, NEW max \in 1 .. 2, streambuf_data_deq(max)
  PROVE  \E size \in 0 .. slot_cnt[dslot] :
           /\ StoreInv' /\ Spare' = Spare + size /\ Len(stale') <= Len(stale) + size
           /\ cmd_cnt' = cmd_cnt
           /\ FreshInv =>
                /\ FreshInv'
                /\ \/ size = 0 /\ UNCHANGED <<fresh, got>>
                   \/ /\ size > 0
                      /\ got' = SubSeq(fresh, 1, size)
                      /\ fresh' = SubSeq(fresh, size + 1, Len(fresh))
  <1> DEFINE size == IF slot_cnt[dslot] > max THEN max ELSE slot_cnt[dslot]
  <1>0. Unread \in Nat /\ Undiscarded \in Nat /\ Len(stale) \in Nat /\ Len(fresh) \in Nat
    BY StoreFacts
  <1>1. /\ slot_cnt[dslot] \in Nat /\ slot_cnt \in [Slots -> Nat] /\ dslot \in Slots
        /\ stale \in Seq(Byte) /\ fresh \in Seq(Byte)
    BY DEF StoreInv, BufOK
  <1>2. size \in 0 .. slot_cnt[dslot] /\ size \in Nat
    BY <1>1
  <1>3. /\ \/ size = 0 /\ UNCHANGED <<stale, fresh, out, got>>
           \/ size > 0 /\ DeqStream(size, FALSE) /\ got' = out'.data
        /\ slot_cnt' = [slot_cnt EXCEPT ![dslot] = @ - size]
        /\ UNCHANGED <<slot_cnt_stale, cmd_cnt, cmd_cnt_stale, eslot, dslot, sslot>>
    BY DEF streambuf_data_deq
  <1> HIDE DEF size
  <1>4. CASE size = 0
    <2>1. slot_cnt' = slot_cnt
      BY <1>1, <1>3, <1>4
    <2>2. UNCHANGED <<stale, fresh, got, counters>>
      BY <1>2, <1>3, <1>4, <2>1 DEF counters
    <2>3. StoreInv' /\ Spare' = Spare /\ Len(stale') = Len(stale)
      BY <2>2 DEF StoreInv, BufOK, StaleSlots, Spare, Unread, Undiscarded, counters
    <2>4. FreshInv => FreshInv'
      BY <2>2 DEF FreshInv, FreshSlots, Framed, Ahead, counters
    <2>5. Spare \in Int
      BY <1>0 DEF Spare
    <2>6. /\ Spare' = Spare + size /\ Len(stale') <= Len(stale) + size
          /\ cmd_cnt' = cmd_cnt /\ UNCHANGED <<fresh, got>>
      BY <1>0, <1>3, <1>4, <2>2, <2>3, <2>5
    <2> QED BY <1>2, <1>4, <2>3, <2>4, <2>6
  <1>5. CASE size > 0
    <2>1. DeqStream(size, FALSE) /\ got' = out'.data
      <3>1. ~(size = 0)
        BY <1>2, <1>5
      <3> QED BY <1>3, <3>1
    <2>2. /\ fresh' \in Seq(Byte) /\ stale' \in Seq(Byte) /\ Len(stale') <= Len(stale) + size
      BY <1>1, <1>2, <1>5, <2>1, DeqAny
    <2>3. /\ slot_cnt' \in [Slots -> Nat] /\ slot_cnt'[dslot] = slot_cnt[dslot] - size
          /\ \A t \in Slots : t # dslot => slot_cnt'[t] = slot_cnt[t]
          /\ \A s \in Slots : slot_cnt[s] = 0 => slot_cnt'[s] = 0
      <3>1. slot_cnt[dslot] - size \in Nat /\ slot_cnt[dslot] # 0
        BY <1>1, <1>2, <1>5
      <3> QED BY <1>1, <1>3, <3>1
    <2>4. StoreInv'
      BY <1>3, <2>2, <2>3 DEF StoreInv, BufOK, StaleSlots
    <2>5. Unread' = Unread - size
      <3>1. CountFrom(slot_cnt', 0)[MAX_STREAM_CMDS]
              = CountFrom(slot_cnt, 0)[MAX_STREAM_CMDS] + (slot_cnt'[dslot] - slot_cnt[dslot])
        BY <1>1, <2>3, CountAll
      <3>2. slot_cnt'[dslot] - slot_cnt[dslot] = 0 - size
        BY <1>1, <1>2, <2>3
      <3>3. Unread' = Unread + (0 - size)
        BY <3>1, <3>2 DEF Unread
      <3> QED BY <1>0, <1>2, <3>3
    <2>6. Undiscarded' = Undiscarded
      BY <1>3 DEF Undiscarded
    <2>7. Spare' = Spare + size
      BY <1>0, <1>2, <2>5, <2>6 DEF Spare
    <2>8. ASSUME FreshInv
          PROVE  FreshInv' /\ got' = SubSeq(fresh, 1, size)
                 /\ fresh' = SubSeq(fresh, size + 1, Len(fresh))
      <3>0. /\ cmd_cnt \in Nat /\ cmd_cnt <= MAX_STREAM_CMDS /\ 0 \in 0 .. cmd_cnt
            /\ Ahead \in [0 .. cmd_cnt -> Nat] /\ Ahead[0] = slot_cnt[dslot]
        BY <2>8, FreshFacts
      <3>1. /\ size <= Len(fresh)
            /\ HasLayout(SubSeq(fresh, size + 1, Len(fresh)), [Ahead EXCEPT ![0] = @ - size], cmd_cnt)
        BY <1>1, <1>2, <2>8, <3>0, LayoutRead DEF FreshInv, Framed
      <3>2. /\ out' = Result(size, SubSeq(fresh, 1, size))
            /\ fresh' = SubSeq(fresh, size + 1, Len(fresh))
        BY <1>1, <1>2, <1>5, <2>1, <3>1, DeqFits
      <3>3. got' = SubSeq(fresh, 1, size)
        BY <2>1, <3>2 DEF Result
      <3>4. FreshSlots'
        BY <1>3, <2>3, <2>8 DEF FreshInv, FreshSlots
      <3>5. Ahead' = [Ahead EXCEPT ![0] = @ - size]
        <4>1. Ahead' = [k \in 0 .. cmd_cnt |-> slot_cnt'[SlotAfter(dslot, k)]]
          BY <1>3 DEF Ahead
        <4>2. ASSUME NEW k \in 0 .. cmd_cnt
              PROVE  slot_cnt'[SlotAfter(dslot, k)] = [Ahead EXCEPT ![0] = @ - size][k]
          <5>1. k \in Slots /\ SlotAfter(dslot, 0) = dslot
            BY <1>1, <3>0, StreamBufAssumption DEF Slots, SlotAfter
          <5>2. CASE k = 0
            BY <1>1, <2>3, <3>0, <5>1, <5>2
          <5>3. CASE k # 0
            <6>1. SlotAfter(dslot, k) \in Slots /\ SlotsFrom(dslot, SlotAfter(dslot, k)) = k
              BY <1>1, <5>1, SlotArithmetic
            <6>2. SlotsFrom(dslot, dslot) = 0
              BY <1>1, SlotDistances
            <6>3. SlotAfter(dslot, k) # dslot
              BY <5>3, <6>1, <6>2
            <6>4. slot_cnt'[SlotAfter(dslot, k)] = slot_cnt[SlotAfter(dslot, k)]
              BY <2>3, <6>1, <6>3
            <6>5. Ahead[k] = slot_cnt[SlotAfter(dslot, k)]
              BY DEF Ahead
            <6> QED BY <3>0, <5>3, <6>4, <6>5
          <5> QED BY <5>2, <5>3
        <4> QED BY <3>0, <4>1, <4>2
      <3>6. Framed'
        BY <1>3, <3>1, <3>2, <3>5 DEF Framed
      <3> QED BY <3>2, <3>3, <3>4, <3>6 DEF FreshInv
    <2> QED BY <1>2, <1>3, <1>5, <2>2, <2>4, <2>7, <2>8
  <1> QED BY <1>2, <1>4, <1>5

(* A command is read, of the size that goes with the one the caller saw, or  *)
(* nothing is.  In a framed stream it is read whole, when it is the one the  *)
(* caller saw.                                                               *)
LEMMA CmdDeq ==
  ASSUME StoreInv, NEW cmd \in Commands, streambuf_cmd_deq(CmdSize[cmd])
  PROVE  /\ StoreInv' /\ Spare' = Spare
         /\ \/ /\ CmdIsNext /\ dslot' # dslot /\ cmd_cnt' = cmd_cnt - 1
               /\ Len(stale') = Len(stale) + CmdSize[cmd]
            \/ UNCHANGED <<buffer_state, got>>
         /\ FreshInv /\ CmdIsNext /\ fresh[1].kind = cmd =>
               /\ FreshInv'
               /\ CmdSize[cmd] <= Len(fresh)
               /\ \A i \in 1 .. CmdSize[cmd] : fresh[i] = Encode(cmd)[i]
               /\ got' = SubSeq(fresh, 1, CmdSize[cmd])
               /\ fresh' = SubSeq(fresh, CmdSize[cmd] + 1, Len(fresh))
  <1> DEFINE z == CmdSize[cmd]
             Taken == /\ CmdIsNext /\ DeqStream(z, FALSE) /\ got' = out'.data /\ out'.ret > 0
                      /\ dslot' = NextSlot(dslot) /\ cmd_cnt' = cmd_cnt - 1
                      /\ UNCHANGED <<slot_cnt, slot_cnt_stale, cmd_cnt_stale, eslot, sslot>>
  <1>0. /\ cmd_cnt \in Nat /\ Len(stale) \in Nat /\ Len(fresh) \in Nat
        /\ stale \in Seq(Byte) /\ fresh \in Seq(Byte) /\ dslot \in Slots
        /\ slot_cnt \in [Slots -> Nat]
    BY StoreFacts DEF StoreInv, BufOK
  <1>1. z \in Nat /\ z > 0 /\ z \in 1 .. 2
    BY EncodeProperties
  <1>2. ASSUME FreshInv, CmdIsNext, fresh[1].kind = cmd
        PROVE  /\ z <= Len(fresh) /\ cmd_cnt > 0 /\ slot_cnt[dslot] = 0
               /\ \A i \in 1 .. z : fresh[i] = Encode(cmd)[i]
               /\ HasLayout(SubSeq(fresh, z + 1, Len(fresh)),
                            [k \in 0 .. cmd_cnt - 1 |-> Ahead[k + 1]], cmd_cnt - 1)
    <2>1. /\ cmd_cnt > 0 /\ slot_cnt[dslot] = 0 /\ Ahead[0] = 0 /\ cmd_cnt \in Nat
          /\ Ahead \in [0 .. cmd_cnt -> Nat]
      BY <1>2, FreshFacts DEF CmdIsNext
    <2>2. PICK q \in Commands :
            /\ CmdSize[q] <= Len(fresh)
            /\ \A i \in 1 .. CmdSize[q] : fresh[i] = Encode(q)[i]
            /\ HasLayout(SubSeq(fresh, CmdSize[q] + 1, Len(fresh)),
                         [k \in 0 .. cmd_cnt - 1 |-> Ahead[k + 1]], cmd_cnt - 1)
      BY <1>0, <1>2, <2>1, LayoutTake DEF FreshInv, Framed
    <2>3. q = cmd
      <3>1. 1 \in 1 .. CmdSize[q]
        BY EncodeProperties
      <3>2. fresh[1] = Encode(q)[1] /\ Encode(q)[1].kind = q
        BY <2>2, <3>1, EncodeProperties
      <3> QED BY <1>2, <3>2
    <2> QED BY <2>1, <2>2, <2>3
  <1>3. CASE Taken
    <2>1. fresh' \in Seq(Byte) /\ stale' \in Seq(Byte) /\ Len(stale') = Len(stale) + z
      <3>1. DeqStream(z, FALSE) /\ out'.ret > 0
        BY <1>3
      <3> HIDE DEF z, Taken
      <3> QED BY <1>0, <1>1, <3>1, DeqAny
    <2>2. NextSlot(dslot) \in Slots /\ NextSlot(dslot) # dslot /\ cmd_cnt - 1 \in Nat /\ cmd_cnt > 0
      BY <1>0, <1>3, StreamBufAssumption DEF NextSlot, Slots, CmdIsNext
    <2>3. StoreInv'
      BY <1>3, <2>1, <2>2 DEF StoreInv, BufOK, StaleSlots
    <2>4. Spare' = Spare
      BY <1>3 DEF Spare, Unread, Undiscarded
    <2>5. ASSUME FreshInv, CmdIsNext, fresh[1].kind = cmd
          PROVE  FreshInv' /\ got' = SubSeq(fresh, 1, z) /\ fresh' = SubSeq(fresh, z + 1, Len(fresh))
      <3>0. z <= Len(fresh) /\ slot_cnt[dslot] = 0 /\ DeqStream(z, FALSE)
        BY <1>2, <1>3, <2>5
      <3>1. /\ out' = Result(z, SubSeq(fresh, 1, z)) /\ fresh' = SubSeq(fresh, z + 1, Len(fresh))
        <4> HIDE DEF z, Taken
        <4> QED BY <1>0, <1>1, <3>0, DeqFits
      <3>2. got' = SubSeq(fresh, 1, z)
        BY <1>3, <3>1 DEF Result
      <3>3. FreshSlots'
        <4>0. eslot \in Slots /\ cmd_cnt = SlotsFrom(dslot, eslot) /\ SlotsFrom(dslot, eslot) > 0
          BY <2>2, <2>5 DEF StoreInv, BufOK, FreshInv, FreshSlots
        <4>1. cmd_cnt - 1 = SlotsFrom(NextSlot(dslot), eslot)
          BY <1>0, <4>0, SlotDistances
        <4>2. ASSUME NEW s \in Slots, SlotsFrom(NextSlot(dslot), s) > cmd_cnt - 1
              PROVE  slot_cnt[s] = 0
          <5>1. SlotsFrom(dslot, s) \in Nat
            BY <1>0, SlotArithmetic DEF Slots
          <5>2. CASE SlotsFrom(dslot, s) = 0
            BY <1>0, <3>0, <5>2, SlotDistances
          <5>3. CASE SlotsFrom(dslot, s) > 0
            <6>1. SlotsFrom(NextSlot(dslot), s) = SlotsFrom(dslot, s) - 1
              BY <1>0, <5>3, SlotDistances
            <6>2. SlotsFrom(dslot, s) > cmd_cnt
              BY <1>0, <4>2, <5>1, <6>1
            <6> QED BY <2>5, <6>2 DEF FreshInv, FreshSlots
          <5> QED BY <5>1, <5>2, <5>3
        <4> QED BY <1>3, <4>1, <4>2 DEF FreshSlots
      <3>4. Ahead' = [k \in 0 .. cmd_cnt - 1 |-> Ahead[k + 1]]
        <4>1. Ahead' = [k \in 0 .. cmd_cnt - 1 |-> slot_cnt[SlotAfter(NextSlot(dslot), k)]]
          BY <1>3 DEF Ahead
        <4>2. cmd_cnt <= MAX_STREAM_CMDS
          BY <2>5, FreshFacts
        <4>3. ASSUME NEW k \in 0 .. cmd_cnt - 1
              PROVE  slot_cnt[SlotAfter(NextSlot(dslot), k)] = Ahead[k + 1]
          <5>1. k \in Slots /\ k < MAX_STREAM_CMDS /\ k + 1 \in 0 .. cmd_cnt
            BY <1>0, <2>2, <4>2, StreamBufAssumption DEF Slots
          <5>2. SlotAfter(NextSlot(dslot), k) = SlotAfter(dslot, k + 1)
            BY <1>0, <5>1, SlotArithmetic
          <5> QED BY <5>1, <5>2 DEF Ahead
        <4> QED BY <4>1, <4>3
      <3>5. Framed'
        <4>1. HasLayout(SubSeq(fresh, z + 1, Len(fresh)),
                        [k \in 0 .. cmd_cnt - 1 |-> Ahead[k + 1]], cmd_cnt - 1)
          BY <1>2, <2>5
        <4> QED BY <1>3, <3>1, <3>4, <4>1 DEF Framed
      <3> QED BY <3>1, <3>2, <3>3, <3>5 DEF FreshInv
    <2>6. CmdIsNext /\ dslot' # dslot /\ cmd_cnt' = cmd_cnt - 1
      BY <1>3, <2>2
    <2> HIDE DEF Taken
    <2> QED BY <1>2, <2>1, <2>3, <2>4, <2>5, <2>6
  <1>4. CASE (~CmdIsNext \/ z > Len(fresh)) /\ UNCHANGED <<buffer_state, got>>
    <2>1. StoreInv' /\ Spare' = Spare
      BY <1>4 DEF StoreInv, BufOK, StaleSlots, Spare, Unread, Undiscarded, buffer_state, counters
    <2>2. ~(FreshInv /\ CmdIsNext /\ fresh[1].kind = cmd)
      <3>1. ASSUME FreshInv, CmdIsNext, fresh[1].kind = cmd PROVE FALSE
        <4>1. z <= Len(fresh)
          BY <1>2, <3>1
        <4> HIDE DEF z
        <4> QED BY <1>0, <1>1, <1>4, <3>1, <4>1
      <3> QED BY <3>1
    <2> QED BY <1>4, <2>1, <2>2
  <1> QED BY <1>3, <1>4 DEF streambuf_cmd_deq

(* The walk of streambuf_dec_cnt_stale over the slots from a to the last one *)
(* in use, when they hold at least size bytes.                               *)
WalkEnd(cnt, a, last, size) ==
  Min({k \in 0 .. last : CountFrom(cnt, a)[k] > size \/ k = last})

Walked(cnt, a, end, size) ==
  [s \in Slots |-> IF SlotsFrom(a, s) < end THEN 0
                   ELSE IF SlotsFrom(a, s) = end THEN CountFrom(cnt, a)[end] - size
                   ELSE cnt[s]]

(* The walk ends in time and takes size off the sum. *)
LEMMA Walk ==
  ASSUME NEW cnt \in [Slots -> Nat], NEW a \in Slots, NEW last \in Slots, NEW size \in Nat,
         size <= CountFrom(cnt, a)[last]
  PROVE  LET end == WalkEnd(cnt, a, last, size)
             new == Walked(cnt, a, end, size)
         IN  /\ end \in 0 .. last
             /\ new \in [Slots -> Nat]
             /\ CountFrom(new, SlotAfter(a, end))[last - end] = CountFrom(cnt, a)[last] - size
  <1> DEFINE x == CountFrom(cnt, a)
             end == WalkEnd(cnt, a, last, size)
             new == Walked(cnt, a, end, size)
             T == {k \in 0 .. last : x[k] > size \/ k = last}
             b == SlotAfter(a, end)
  <1>1. last \in Nat /\ last <= MAX_STREAM_CMDS /\ MAX_STREAM_CMDS \in Nat
    BY StreamBufAssumption DEF Slots
  <1>2. x \in [Slots -> Nat]
    BY CountFromStep
  <1>3. end \in T
    <2>1. T \in SUBSET Nat /\ last \in T
      BY <1>1
    <2>2. \E k \in T : \A j \in T : k <= j
      BY <2>1, LeastNat
    <2> HIDE DEF T
    <2>3. Min(T) \in T
      BY <2>2 DEF Min
    <2> QED BY <2>3 DEF T, WalkEnd
  <1> HIDE DEF end
  <1>4. end \in 0 .. last /\ end \in Slots /\ last - end \in Slots /\ end + (last - end) = last
    BY <1>1, <1>3 DEF Slots
  <1>5. x[end] - size \in Nat
    <2>1. x[end] >= size /\ x[end] \in Nat
      BY <1>2, <1>3, <1>4
    <2> HIDE DEF x
    <2> QED BY <2>1
  <1> HIDE DEF x
  <1>6. new \in [Slots -> Nat]
    BY <1>5 DEF x, Walked
  <1> HIDE DEF new
  <1>7. b \in Slots /\ SlotsFrom(a, b) = end /\ SlotAfter(b, 0) = b /\ 0 \in Slots
    <2>1. 0 \in Slots
      BY <1>1 DEF Slots
    <2> QED BY <1>4, <2>1, SlotArithmetic
  <1>8. CountFrom(new, b)[0] = x[end] + (0 - size)
    <2>1. new[b] = x[end] - size
      <3>1. SlotsFrom(a, b) = end /\ ~(end < end)
        BY <1>4, <1>7
      <3> QED BY <1>7, <3>1 DEF x, new, Walked
    <2>2. CountFrom(new, b)[0] = new[b] + 0
      BY <1>6, <1>7, CountFromStep
    <2>3. x[end] \in Nat
      BY <1>2, <1>4
    <2> QED BY <2>1, <2>2, <2>3
  <1>9. ASSUME NEW j \in 1 .. last - end PROVE new[SlotAfter(b, j)] = cnt[SlotAfter(a, end + j)]
    <2>1. j \in Slots /\ end + j \in Slots /\ end + j <= MAX_STREAM_CMDS /\ end + j > end
      BY <1>1, <1>4 DEF Slots
    <2>2. SlotAfter(b, j) = SlotAfter(a, end + j)
      BY <1>4, <2>1, SlotAfterAfter
    <2>3. /\ SlotAfter(a, end + j) \in Slots
          /\ SlotsFrom(a, SlotAfter(a, end + j)) = end + j
      BY <2>1, SlotArithmetic
    <2>4. ~(end + j < end) /\ end + j # end
      BY <1>4, <2>1
    <2>5. new[SlotAfter(a, end + j)] = cnt[SlotAfter(a, end + j)]
      BY <2>3, <2>4 DEF new, Walked
    <2> QED BY <2>2, <2>5
  <1>10. CountFrom(new, b)[last - end] = x[end + (last - end)] + (0 - size)
    <2> DEFINE n == last - end
               d == 0 - size
    <2>1. /\ n \in Slots /\ end \in Slots /\ end + n <= MAX_STREAM_CMDS /\ d \in Int
          /\ new \in [Slots -> Nat] /\ b \in Slots
          /\ CountFrom(new, b)[0] = CountFrom(cnt, a)[end] + d
          /\ \A j \in 1 .. n : new[SlotAfter(b, j)] = cnt[SlotAfter(a, end + j)]
      BY <1>1, <1>4, <1>6, <1>7, <1>8, <1>9 DEF x
    <2> HIDE DEF n, d, b
    <2>2. CountFrom(new, b)[n] = CountFrom(cnt, a)[end + n] + d
      BY <2>1, CountFromShift, SMTT(30)
    <2> QED BY <2>2 DEF n, d, x
  <1>11. x[last] \in Nat
    BY <1>2
  <1>12. CountFrom(new, b)[last - end] = x[last] - size
    BY <1>4, <1>10, <1>11
  <1> QED BY <1>4, <1>6, <1>12 DEF x, end, new

(* A discard, of no more data than the counters hold as read. *)
LEMMA Discard ==
  ASSUME StoreInv, NEW size \in Nat, NEW data \in BOOLEAN, streambuf_discard(size, data),
         NEW k, k = (IF size < Len(stale) THEN size ELSE Len(stale)),
         NEW dec, dec = (IF data THEN k ELSE 0), dec <= Spare
  PROVE  /\ StoreInv' /\ Spare' = Spare - dec /\ Len(stale') = Len(stale) - k
         /\ UNCHANGED <<fresh, cmd_cnt, dslot, slot_cnt, halted>>
         /\ FreshInv => FreshInv'
  <1>0. Unread \in Nat /\ Undiscarded \in Nat /\ Len(stale) \in Nat /\ Spare \in Int
    BY StoreFacts
  <1>1. k \in 0 .. Len(stale) /\ dec \in Nat /\ k \in Nat
    BY <1>0
  <1>2. /\ stale' = Slice(stale, k, Len(stale) - k) /\ out' = Result(k, << >>) /\ fresh' = fresh
        /\ UNCHANGED <<slot_cnt, cmd_cnt, eslot, dslot>>
    BY DEF streambuf_discard, DiscardStream
  <1>3. stale' \in Seq(Byte) /\ Len(stale') = Len(stale) - k
    <2>1. k + (Len(stale) - k) = Len(stale)
      BY <1>1
    <2>2. stale' = SubSeq(stale, k + 1, Len(stale))
      BY <1>2, <2>1 DEF Slice
    <2> QED BY <1>1, <2>2, RestProperties DEF StoreInv, BufOK
  <1>4. out'.ret = k
    BY <1>2 DEF Result
  <1>5. streambuf_dec_cnt_stale(dec)
    BY <1>4 DEF streambuf_discard
  <1> DEFINE last == SlotsFrom(sslot, eslot)
             x == CountFrom(slot_cnt_stale, sslot)
             end == WalkEnd(slot_cnt_stale, sslot, last, dec)
             b == SlotAfter(sslot, end)
             new == Walked(slot_cnt_stale, sslot, end, dec)
  <1>6. /\ sslot' = b /\ cmd_cnt_stale' = cmd_cnt_stale - end /\ slot_cnt_stale' = new
        /\ halted' = IF dec > x[last] THEN "spin" ELSE halted
    BY <1>5 DEF streambuf_dec_cnt_stale, WalkEnd, Walked
  <1>7. /\ last = cmd_cnt_stale /\ last \in Slots /\ sslot \in Slots /\ eslot \in Slots
        /\ slot_cnt_stale \in [Slots -> Nat] /\ last \in Nat
    BY DEF StoreInv, BufOK, StaleSlots, Slots
  <1>8. dec <= x[last] /\ x[last] \in Nat
    <2>1. Spare <= Undiscarded /\ Spare \in Int
      BY <1>0 DEF Spare
    <2>2. dec <= Undiscarded
      BY <1>0, <1>1, <2>1
    <2> QED BY <1>0, <1>7, <2>2 DEF Undiscarded
  <1>9. halted' = halted
    <2>1. ~(dec > x[last])
      <3> HIDE DEF x
      <3> QED BY <1>1, <1>8
    <2> QED BY <1>6, <2>1
  <1>10. end \in 0 .. last /\ new \in [Slots -> Nat] /\ CountFrom(new, b)[last - end] = x[last] - dec
    <2>1. /\ last \in Slots /\ sslot \in Slots /\ slot_cnt_stale \in [Slots -> Nat] /\ dec \in Nat
          /\ dec <= CountFrom(slot_cnt_stale, sslot)[last]
      BY <1>1, <1>7, <1>8
    <2> HIDE DEF last
    <2> QED BY <2>1, Walk
  <1> HIDE DEF end, new
  <1>11. b \in Slots /\ end \in Slots /\ cmd_cnt_stale - end \in Slots
    <2>1. end \in Slots /\ cmd_cnt_stale - end \in Slots
      <3> HIDE DEF last
      <3>1. last \in 0 .. MAX_STREAM_CMDS /\ end \in 0 .. last /\ last = cmd_cnt_stale
        BY <1>7, <1>10 DEF Slots
      <3> QED BY <3>1, StreamBufAssumption DEF Slots
    <2> QED BY <1>7, <2>1, SlotArithmetic
  <1>12. BufOK'
    BY <1>2, <1>3, <1>6, <1>10, <1>11 DEF StoreInv, BufOK
  <1>13. StaleSlots'
    <2>1. cmd_cnt_stale - end = SlotsFrom(b, eslot)
      <3>1. SlotsFrom(sslot, eslot) >= end
        BY <1>7, <1>10
      <3> QED BY <1>7, <1>11, <3>1, SlotDistanceAfter
    <2>2. ASSUME NEW s \in Slots, SlotsFrom(b, s) > cmd_cnt_stale - end PROVE new[s] = 0
      <3>1. SlotsFrom(sslot, s) \in Nat /\ end \in Nat /\ end <= cmd_cnt_stale /\ cmd_cnt_stale \in Nat
        BY <1>7, <1>10, SlotArithmetic DEF Slots
      <3>2. CASE SlotsFrom(sslot, s) < end
        BY <3>2 DEF new, Walked
      <3>3. CASE SlotsFrom(sslot, s) >= end
        <4>1. SlotsFrom(b, s) = SlotsFrom(sslot, s) - end
          BY <1>7, <1>11, <3>3, SlotDistanceAfter
        <4>2. SlotsFrom(sslot, s) > cmd_cnt_stale /\ SlotsFrom(sslot, s) # end
              /\ ~(SlotsFrom(sslot, s) < end)
          BY <2>2, <3>1, <3>3, <4>1
        <4>3. slot_cnt_stale[s] = 0
          BY <4>2 DEF StoreInv, StaleSlots
        <4> QED BY <4>2, <4>3 DEF new, Walked
      <3> QED BY <3>1, <3>2, <3>3
    <2> QED BY <1>2, <1>6, <2>1, <2>2 DEF StoreInv, StaleSlots
  <1>14. FreshInv => FreshInv'
    BY <1>2 DEF FreshInv, FreshSlots, Framed, Ahead
  <1>15. Unread' = Unread
    BY <1>2 DEF Unread
  <1>16. Undiscarded' = Undiscarded - dec
    BY <1>6, <1>7, <1>10 DEF Undiscarded
  <1>17. Spare' = Spare - dec
    BY <1>0, <1>1, <1>15, <1>16 DEF Spare
  <1> QED BY <1>2, <1>3, <1>9, <1>12, <1>13, <1>14, <1>17 DEF StoreInv
(* Empty slots hold nothing together. *)
LEMMA CountNone == CountFrom([s \in Slots |-> 0], 0)[MAX_STREAM_CMDS] = 0
  <1> DEFINE zero == [s \in Slots |-> 0]
             x == CountFrom(zero, 0)
             P == {j \in Nat : j \in Slots => x[j] = 0}
  <1>1. 0 \in Slots /\ MAX_STREAM_CMDS \in Slots /\ MAX_STREAM_CMDS \in Nat
    BY StreamBufAssumption DEF Slots
  <1>2. zero \in [Slots -> Nat] /\ \A s \in Slots : zero[s] = 0
    OBVIOUS
  <1>3. \A k \in Slots : SlotAfter(0, k) \in Slots
    BY <1>1, SlotArithmetic
  <1> HIDE DEF zero
  <1>4. \A k \in Slots : x[k] = zero[SlotAfter(0, k)] + IF k = 0 THEN 0 ELSE x[k - 1]
    BY <1>1, <1>2, CountFromStep
  <1> HIDE DEF x
  <1>5. \A k \in Slots : x[k] = IF k = 0 THEN 0 ELSE 0 + x[k - 1]
    BY <1>2, <1>3, <1>4
  <1>6. 0 \in P
    BY <1>1, <1>5
  <1>7. ASSUME NEW j \in Nat, j \in P PROVE j + 1 \in P
    <2> SUFFICES ASSUME j + 1 \in Slots PROVE x[j + 1] = 0
      OBVIOUS
    <2>1. j \in Slots /\ j + 1 # 0 /\ j + 1 - 1 = j
      BY StreamBufAssumption DEF Slots
    <2>2. x[j] = 0
      BY <1>7, <2>1
    <2>3. x[j + 1] = 0 + x[j]
      BY <1>5, <2>1
    <2> HIDE DEF P
    <2> QED BY <2>2, <2>3
  <1> HIDE DEF P
  <1>8. Nat \subseteq P
    BY <1>6, <1>7, SetInduction
  <1>9. x[MAX_STREAM_CMDS] = 0
    BY <1>1, <1>8 DEF P
  <1> QED BY <1>9 DEF x, zero

\* An empty buffer, as it is made and as a flush leaves it.
Empty ==
  /\ stale = << >> /\ fresh = << >>
  /\ slot_cnt = [s \in Slots |-> 0] /\ slot_cnt_stale = [s \in Slots |-> 0]
  /\ cmd_cnt = 0 /\ cmd_cnt_stale = 0 /\ eslot = 0 /\ dslot = 0 /\ sslot = 0

(* The counters of an empty buffer frame it. *)
LEMMA EmptyIsFramed == Empty => StoreInv /\ FreshInv /\ Spare = 0 /\ Len(stale) = 0
  <1> DEFINE zero == [s \in Slots |-> 0]
  <1> SUFFICES ASSUME Empty PROVE StoreInv /\ FreshInv /\ Spare = 0 /\ Len(stale) = 0
    OBVIOUS
  <1>1. /\ stale = << >> /\ fresh = << >> /\ slot_cnt = zero /\ slot_cnt_stale = zero
        /\ cmd_cnt = 0 /\ cmd_cnt_stale = 0 /\ eslot = 0 /\ dslot = 0 /\ sslot = 0
    BY DEF Empty
  <1>2. 0 \in Slots /\ zero \in [Slots -> Nat] /\ << >> \in Seq(Byte) /\ Len(<< >>) = 0
    BY StreamBufAssumption, EmptySeq DEF Slots
  <1>3. SlotAfter(0, 0) = 0 /\ SlotsFrom(0, 0) = 0 /\ zero[0] = 0
    BY <1>2, StreamBufAssumption DEF SlotAfter, SlotsFrom
  <1>4. BufOK
    BY <1>1, <1>2 DEF BufOK
  <1>5. StaleSlots /\ FreshSlots
    BY <1>1, <1>3 DEF StaleSlots, FreshSlots
  <1>6. Framed
    <2>1. Ahead = [k \in 0 .. 0 |-> 0]
      BY <1>1, <1>3 DEF Ahead
    <2> DEFINE d == [k \in 0 .. 0 |-> 0]
               none == [k \in 1 .. 0 |-> "START"]
    <2>2. d \in [0 .. 0 -> Nat] /\ none \in [1 .. 0 -> Commands] /\ \A k \in 0 .. 0 : d[k] = 0
      OBVIOUS
    <2> HIDE DEF d, none
    <2>3. Layout(<< >>, d, 0, d, none)
      BY <1>2, <2>2 DEF Layout
    <2> QED BY <1>1, <2>1, <2>3 DEF Framed, HasLayout, d
  <1>7. CountFrom(zero, 0)[0] = 0
    <2>1. CountFrom(zero, 0)[0] = zero[SlotAfter(0, 0)] + 0
      BY <1>2, CountFromStep
    <2> QED BY <1>3, <2>1
  <1>8. Spare = 0
    <2>1. Unread = 0 /\ Undiscarded = 0
      BY <1>1, <1>7, CountNone DEF Unread, Undiscarded
    <2> QED BY <2>1 DEF Spare
  <1> QED BY <1>1, <1>2, <1>4, <1>5, <1>6, <1>8 DEF StoreInv, FreshInv

(* The same of the state after a step. *)
LEMMA EmptyNext == Empty' => StoreInv' /\ FreshInv' /\ Spare' = 0 /\ Len(stale') = 0
  <1> DEFINE Says == StoreInv /\ FreshInv /\ Spare = 0 /\ Len(stale) = 0
  <1>1. Empty => Says
    BY EmptyIsFramed
  <1>2. Empty' => Says'
    BY <1>1, PTL
  <1> QED BY <1>2

(* A flush, after which there is nothing in the buffer. *)
LEMMA Flush ==
  ASSUME streambuf_flush
  PROVE  StoreInv' /\ FreshInv' /\ Spare' = 0 /\ Len(stale') = 0 /\ fresh' = << >> /\ cmd_cnt' = 0
  <1>1. Empty' /\ fresh' = << >> /\ cmd_cnt' = 0
    BY DEF streambuf_flush, FlushStream, Empty
  <1> QED BY <1>1, EmptyNext
-----------------------------------------------------------------------------
(* The callers.  A command that the decode thread has seen stays the next    *)
(* one unless the player flushes.  A flush then waits for the decode thread, *)
(* a stop leaves it with a command that is no longer there.                  *)
CallersOK ==
  /\ streaming \in BOOLEAN /\ decode_state \in DecodeStates
  /\ decode_mqueue \in Seq(Messages)
  /\ player \in {"idle", "resume", "flush", "wait", "stop"} /\ open \in BOOLEAN
  /\ decode \in [at : {"loop", "look", "deq", "discard", "relay", "consume", "underrun"},
                 cmd : Commands]
  /\ track \in {0, 1}

Flushing == player \in {"flush", "wait"}

Sound == ~lapped /\ ~torn

CmdInv ==
  /\ Flushing => cmd_cnt = 0
  /\ decode.at = "deq" /\ ~gone /\ Sound =>
       CmdIsNext /\ fresh[1].kind = decode.cmd

(* The bytes that the decoder may discard are all in the counters; those of  *)
(* a command that is about to be discarded are not.                          *)
Held(where, cmd, n) ==
  IF where # "discard" THEN n ELSE IF n > CmdSize[cmd] THEN n - CmdSize[cmd] ELSE 0

StaleInv == Held(decode.at, decode.cmd, Len(stale)) <= Spare

IndInv ==
  /\ StoreInv /\ (Sound => FreshInv)
  /\ CallersOK /\ CmdInv /\ StaleInv /\ halted # "spin"

(* The command that the counters say is next is in front of the stream. *)
LEMMA NextIsThere ==
  ASSUME StoreInv, FreshInv, CmdIsNext
  PROVE  /\ Len(fresh) >= 1 /\ fresh[1].kind \in Commands /\ fresh[1].n = 1
         /\ CodesOf(fresh[1]) = {fresh[1].kind}
  <1>1. cmd_cnt > 0 /\ Ahead[0] = 0 /\ cmd_cnt \in Nat /\ Ahead \in [0 .. cmd_cnt -> Nat]
        /\ Len(fresh) \in Nat /\ fresh \in Seq(Byte)
    BY FreshFacts DEF CmdIsNext, StoreInv, BufOK
  <1>2. PICK q \in Commands : /\ CmdSize[q] <= Len(fresh)
                              /\ \A i \in 1 .. CmdSize[q] : fresh[i] = Encode(q)[i]
    BY <1>1, LayoutTake DEF FreshInv, Framed
  <1>3. CmdSize[q] \in 1 .. 2 /\ 1 \in 1 .. CmdSize[q]
    BY EncodeProperties
  <1>4. Encode(q)[1].kind = q /\ Encode(q)[1].n = 1
    BY <1>3 DEF Encode
  <1> QED BY <1>1, <1>2, <1>3, <1>4 DEF CodesOf

(* What follows from the types of the callers. *)
LEMMA HeldFacts ==
  ASSUME NEW cmd \in Commands, NEW n \in Nat, NEW where
  PROVE  /\ Held(where, cmd, n) \in 0 .. n
         /\ where # "discard" => Held(where, cmd, n) = n
         /\ Held("discard", cmd, n + CmdSize[cmd]) = n
         /\ Held("discard", cmd, n) = n - (IF CmdSize[cmd] < n THEN CmdSize[cmd] ELSE n)
  <1>1. CmdSize[cmd] \in 1 .. 2
    BY EncodeProperties
  <1> QED BY <1>1 DEF Held

(* Nothing of the buffer changes. *)
LEMMA BufSame ==
  ASSUME StoreInv, UNCHANGED <<stale, fresh, counters>>
  PROVE  StoreInv' /\ Spare' = Spare /\ (FreshInv => FreshInv')
  <1>1. StoreInv' /\ Spare' = Spare
    BY DEF StoreInv, BufOK, StaleSlots, Spare, Unread, Undiscarded, counters
  <1>2. FreshInv => FreshInv'
    BY DEF FreshInv, FreshSlots, Framed, Ahead, counters
  <1> QED BY <1>1, <1>2

(* What the player enqueues is behind a command that the decode thread saw.  *)
LEMMA SeenStaysNext ==
  ASSUME StoreInv, FreshInv, CmdIsNext,
         NEW more \in Seq(Byte), fresh' = fresh \o more, cmd_cnt' >= cmd_cnt, cmd_cnt' \in Nat,
         slot_cnt'[dslot'] = 0
  PROVE  CmdIsNext' /\ fresh'[1] = fresh[1]
  <1>1. Len(fresh) >= 1 /\ cmd_cnt > 0 /\ fresh \in Seq(Byte) /\ cmd_cnt \in Nat
    BY NextIsThere, FreshFacts DEF CmdIsNext, StoreInv, BufOK
  <1>2. fresh'[1] = fresh[1]
    <2>1. 1 \in 1 .. Len(fresh) + Len(more) /\ 1 <= Len(fresh)
      BY <1>1
    <2> QED BY <1>1, <2>1, ConcatProperties
  <1> QED BY <1>1, <1>2 DEF CmdIsNext

\* A step of the stream of commands, as long as it is framed.
Refines == Sound' => [C!NextCommands]_<<fresh, got>>

(* A step of the callers which leaves the buffer alone. *)
LEMMA CallerStep ==
  ASSUME IndInv, UNCHANGED <<stale, fresh, counters>>, UNCHANGED history, got' = got, CallersOK',
         halted' # "spin", Flushing' => Flushing,
         \/ decode' = decode
         \/ decode.at # "discard" /\ decode'.at # "discard" /\ decode'.at # "deq"
  PROVE  IndInv' /\ Refines
  <1>1. StoreInv' /\ Spare' = Spare /\ (FreshInv => FreshInv')
    BY BufSame DEF IndInv
  <1>2. (Sound' <=> Sound) /\ (gone' <=> gone)
    BY DEF Sound, history
  <1>3. CmdInv'
    <2>1. Flushing' => cmd_cnt' = 0
      BY DEF IndInv, CmdInv, counters
    <2>2. ASSUME (decode.at = "deq")', ~gone', Sound'
          PROVE  (CmdIsNext /\ fresh[1].kind = decode.cmd)'
      <3>1. decode' = decode /\ ~gone /\ Sound
        BY <1>2, <2>2
      <3>2. CmdIsNext /\ fresh[1].kind = decode.cmd
        BY <2>2, <3>1 DEF IndInv, CmdInv
      <3> QED BY <3>1, <3>2 DEF CmdIsNext, counters
    <2> QED BY <2>1, <2>2 DEF CmdInv
  <1>4. StaleInv'
    BY <1>1 DEF IndInv, StaleInv, Held
  <1>5. Refines
    BY DEF Refines
  <1> QED BY <1>1, <1>2, <1>3, <1>4, <1>5 DEF IndInv

(* A command enqueued by the player, which moves on to another state. *)
LEMMA PlayerCommand ==
  ASSUME IndInv, NEW c \in Commands, streambuf_cmd_enq(c), ~Flushing, (~Flushing)',
         decode' = decode, got' = got, UNCHANGED <<gone, torn>>, CallersOK'
  PROVE  IndInv' /\ Refines
  <1>1. StoreInv /\ CallersOK /\ CmdInv /\ cmd_cnt \in Nat
    BY StoreFacts DEF IndInv
  <1>2. /\ StoreInv' /\ Spare' = Spare /\ stale' = stale
        /\ FreshInv /\ ~lapped' => FreshInv'
        /\ ~lapped' => ~lapped
        /\ \/ fresh' = fresh \o Encode(c) /\ cmd_cnt' = cmd_cnt + 1 /\ dslot' = dslot
              /\ slot_cnt' = slot_cnt /\ halted' = halted
           \/ UNCHANGED <<buffer_state, lapped>> /\ halted' = "exit"
    BY <1>1, CmdEnq
  <1>3. Sound' => Sound /\ FreshInv'
    BY <1>2 DEF Sound, IndInv
  <1>4. StaleInv' /\ halted' # "spin"
    BY <1>2 DEF IndInv, StaleInv
  <1>5. ASSUME decode.at = "deq", ~gone, Sound' PROVE CmdIsNext' /\ (fresh[1].kind = decode.cmd)'
    <2>1. CmdIsNext /\ fresh[1].kind = decode.cmd /\ FreshInv
      BY <1>3, <1>5 DEF IndInv, CmdInv
    <2>2. CASE fresh' = fresh \o Encode(c) /\ cmd_cnt' = cmd_cnt + 1 /\ dslot' = dslot
               /\ slot_cnt' = slot_cnt
      <3>1. slot_cnt'[dslot'] = 0
        BY <2>1, <2>2 DEF CmdIsNext
      <3>2. Encode(c) \in Seq(Byte) /\ cmd_cnt' >= cmd_cnt /\ cmd_cnt' \in Nat
        BY <1>1, <2>2, EncodeProperties
      <3>3. CmdIsNext' /\ fresh'[1] = fresh[1]
        BY <1>1, <2>1, <2>2, <3>1, <3>2, SeenStaysNext
      <3> QED BY <2>1, <3>3
    <2>3. CASE UNCHANGED buffer_state
      BY <2>1, <2>3 DEF CmdIsNext, buffer_state, counters
    <2> QED BY <1>2, <2>2, <2>3
  <1>6. CmdInv'
    BY <1>5 DEF CmdInv
  <1>7. Refines
    <2>1. CASE fresh' = fresh \o Encode(c)
      BY <2>1 DEF Refines, C!NextCommands, C!Put
    <2>2. CASE fresh' = fresh
      BY <2>2 DEF Refines
    <2> QED BY <1>2, <2>1, <2>2 DEF buffer_state
  <1> QED BY <1>2, <1>3, <1>4, <1>6, <1>7 DEF IndInv

(* A flush.  Who has seen a command by then finds it gone. *)
LEMMA FlushStep ==
  ASSUME IndInv, streambuf_flush, got' = got, CallersOK', halted' = halted, decode' = decode
  PROVE  IndInv' /\ Refines
  <1>1. decode.cmd \in Commands
    BY DEF IndInv, CallersOK
  <1>2. /\ StoreInv' /\ FreshInv' /\ Spare' = 0 /\ Len(stale') = 0 /\ fresh' = << >>
        /\ cmd_cnt' = 0
    BY Flush
  <1>3. StaleInv'
    <2>1. Held(decode.at, decode.cmd, 0) \in 0 .. 0
      BY <1>1, HeldFacts
    <2> QED BY <1>2, <2>1 DEF StaleInv
  <1>4. CmdInv'
    BY <1>2 DEF CmdInv, streambuf_flush
  <1>5. Refines
    BY <1>2 DEF Refines, C!NextCommands, C!Drop
  <1> QED BY <1>2, <1>3, <1>4, <1>5 DEF IndInv

(* The player's steps. *)
LEMMA PlayerSteps ==
  ASSUME IndInv, PlayerStep
  PROVE  IndInv' /\ Refines
  <1>1. /\ StoreInv /\ CallersOK /\ CmdInv /\ StaleInv /\ halted # "spin" /\ cmd_cnt \in Nat
        /\ Len(stale) \in Nat /\ Len(fresh) \in Nat /\ decode.cmd \in Commands
    BY StoreFacts DEF IndInv, CallersOK
  <1>2. CASE st_begin
    <2>1. /\ streambuf_cmd_enq("START") /\ ~Flushing /\ (~Flushing)' /\ decode' = decode
          /\ got' = got /\ UNCHANGED <<gone, torn>>
      BY <1>2 DEF st_begin, Flushing
    <2>2. CallersOK'
      BY <1>1, <1>2 DEF st_begin, CallersOK, DecodeStates
    <2> QED BY <2>1, <2>2, PlayerCommand DEF Commands
  <1>3. CASE st_begin_resume
    <2>1. /\ streambuf_cmd_enq("RESUME") /\ ~Flushing /\ (~Flushing)' /\ decode' = decode
          /\ got' = got /\ UNCHANGED <<gone, torn>>
      BY <1>3 DEF st_begin_resume, Flushing
    <2>2. CallersOK'
      BY <1>1, <1>3 DEF st_begin_resume, CallersOK
    <2> QED BY <2>1, <2>2, PlayerCommand DEF Commands
  <1>4. CASE st_end
    <2>1. /\ streambuf_cmd_enq("ST_END") /\ ~Flushing /\ (~Flushing)' /\ decode' = decode
          /\ got' = got /\ UNCHANGED <<gone, torn>>
      BY <1>4 DEF st_end, Flushing
    <2>2. CallersOK'
      BY <1>1, <1>4 DEF st_end, CallersOK
    <2> QED BY <2>1, <2>2, PlayerCommand DEF Commands
  <1>5. CASE buffer
    <2> DEFINE b == Data(track)
    <2>1. /\ streambuf_data_enq(<<b>>) /\ b \in TrackBytes /\ Len(<<b>>) <= Free
          /\ player = "idle" /\ player' = player /\ UNCHANGED <<decode, got, halted, history>>
      <3>1. Free > Reserve + 1 /\ Free \in Int /\ Len(<<b>>) = 1
        BY <1>1, <1>5, StreamBufAssumption DEF buffer, Free
      <3>2. b \in TrackBytes
        BY <1>1 DEF CallersOK, TrackBytes
      <3> QED BY <1>5, <3>1, <3>2, StreamBufAssumption DEF buffer
    <2>a. CallersOK'
      BY <1>1, <1>5 DEF buffer, CallersOK
    <2> HIDE DEF b
    <2>2. /\ StoreInv' /\ Spare' = Spare /\ stale' = stale /\ fresh' = fresh \o <<b>>
          /\ FreshInv => FreshInv'
      BY <1>1, <2>1, DataEnq
    <2>3. /\ slot_cnt' = [slot_cnt EXCEPT ![eslot] = @ + Len(<<b>>)]
          /\ UNCHANGED <<cmd_cnt, dslot, eslot>>
      BY <2>1 DEF streambuf_data_enq
    <2>4. StaleInv' /\ (Sound' => FreshInv')
      BY <1>1, <2>1, <2>2 DEF IndInv, StaleInv, Sound, history
    <2>5. ASSUME decode.at = "deq", ~gone, Sound'
          PROVE  CmdIsNext' /\ (fresh[1].kind = decode.cmd)'
      <3>1. CmdIsNext /\ fresh[1].kind = decode.cmd /\ FreshInv /\ cmd_cnt > 0 /\ slot_cnt[dslot] = 0
        BY <2>1, <2>5 DEF IndInv, CmdInv, CmdIsNext, Sound, Flushing, history
      <3>2. dslot # eslot /\ dslot \in Slots /\ slot_cnt \in [Slots -> Nat]
        BY <1>1, <3>1, SlotDistances DEF StoreInv, BufOK, FreshInv, FreshSlots
      <3>3. slot_cnt'[dslot'] = 0 /\ cmd_cnt' >= cmd_cnt /\ cmd_cnt' \in Nat
        BY <1>1, <2>3, <3>1, <3>2
      <3>4. b \in Byte /\ <<b>> \in Seq(Byte)
        BY <2>1 DEF TrackBytes, Byte
      <3>5. CmdIsNext' /\ fresh'[1] = fresh[1]
        BY <1>1, <2>2, <3>1, <3>3, <3>4, SeenStaysNext
      <3> QED BY <2>1, <3>1, <3>5
    <2>6. CmdInv'
      BY <2>1, <2>5 DEF CmdInv, Flushing, history
    <2>7. Refines
      BY <2>1, <2>2 DEF Refines, C!NextCommands, C!Put, TrackBytes
    <2> QED BY <1>1, <2>1, <2>a, <2>2, <2>4, <2>6, <2>7 DEF IndInv
  <1>6. CASE flush
    <2>1. /\ streambuf_flush /\ got' = got /\ halted' = halted /\ decode' = decode
      BY <1>6 DEF flush
    <2>2. CallersOK'
      BY <1>1, <1>6 DEF flush, CallersOK
    <2> QED BY <2>1, <2>2, FlushStep
  <1>7. CASE stop_done
    <2>1. /\ streambuf_flush /\ got' = got /\ halted' = halted
          /\ decode' = decode
      BY <1>7 DEF stop_done
    <2>2. CallersOK'
      BY <1>1, <1>7 DEF stop_done, CallersOK
    <2> QED BY <2>1, <2>2, FlushStep
  <1>8. CASE audio_decoder_flush
    <2>1. /\ UNCHANGED <<stale, fresh, counters>> /\ UNCHANGED <<decode, got, halted, history>>
          /\ Flushing' /\ Flushing
      BY <1>8 DEF audio_decoder_flush, Flushing, buffer_state
    <2>2. CallersOK'
      BY <1>1, <1>8 DEF audio_decoder_flush, CallersOK, Post, Messages
    <2> QED BY <1>1, <2>1, <2>2, CallerStep
  <1>9. CASE stop
    <2>1. /\ UNCHANGED <<stale, fresh, counters>> /\ UNCHANGED <<decode, got, halted, history>>
          /\ (~Flushing)' /\ ~Flushing
      BY <1>9 DEF stop, Flushing, buffer_state
    <2>2. CallersOK'
      BY <1>1, <1>9 DEF stop, CallersOK, Post, Messages
    <2> QED BY <1>1, <2>1, <2>2, CallerStep
  <1> QED BY <1>2, <1>3, <1>4, <1>5, <1>6, <1>7, <1>8, <1>9 DEF PlayerStep

(* What CommandStream takes for readable is what the counter of the next     *)
(* slot says.                                                                *)
LEMMA DataPrefixIsCounted ==
  ASSUME StoreInv, FreshInv
  PROVE  C!DataPrefix = slot_cnt[dslot]
  <1> DEFINE n == slot_cnt[dslot]
             Good(k) == /\ \A i \in 1 .. k : fresh[i] \in TrackBytes
                        /\ k < Len(fresh) => fresh[k + 1] \notin TrackBytes
  <1>1. /\ cmd_cnt \in Nat /\ Ahead \in [0 .. cmd_cnt -> Nat] /\ Ahead[0] = n
        /\ fresh \in Seq(Byte) /\ HasLayout(fresh, Ahead, cmd_cnt) /\ Len(fresh) \in Nat
    BY FreshFacts DEF StoreInv, BufOK, FreshInv, Framed
  <1>2. /\ n \in 0 .. Len(fresh) /\ \A i \in 1 .. n : fresh[i] \in TrackBytes
        /\ cmd_cnt = 0 => n = Len(fresh)
        /\ cmd_cnt > 0 => n < Len(fresh) /\ fresh[n + 1] \notin TrackBytes
    BY <1>1, LayoutFront
  <1> HIDE DEF n
  <1>3. Good(n)
    BY <1>1, <1>2
  <1>4. ASSUME NEW k \in 0 .. Len(fresh), Good(k) PROVE k = n
    <2>1. CASE k < n
      BY <1>1, <1>2, <1>4, <2>1
    <2>2. CASE n < k
      BY <1>1, <1>2, <1>3, <1>4, <2>2
    <2> QED BY <1>2, <2>1, <2>2
  <1>5. C!DataPrefix = CHOOSE k \in 0 .. Len(fresh) : Good(k)
    BY DEF C!DataPrefix, TrackBytes
  <1> HIDE DEF Good
  <1> QED BY <1>2, <1>3, <1>4, <1>5 DEF n

(* A look at the command that is next. *)
LEMMA CmdReady ==
  ASSUME IndInv, streambuf_cmd_ready
  PROVE  IndInv' /\ Refines
  <1>1. /\ StoreInv /\ CallersOK /\ CmdInv /\ StaleInv /\ halted # "spin"
        /\ Len(stale) \in Nat /\ Len(fresh) \in Nat /\ fresh \in Seq(Byte)
    BY StoreFacts DEF IndInv, StoreInv, BufOK
  <1>2. /\ UNCHANGED <<stale, fresh, counters>> /\ UNCHANGED <<got, halted, history, player>>
        /\ UNCHANGED <<streaming, decode_state, decode_mqueue, open, track>>
        /\ decode.at = "look" /\ CmdIsNext
        /\ \E c \in CodesOf(out'.data[1]) : decode' = At("deq", c)
        /\ \/ 0 + 1 <= Len(fresh) /\ out' = Result(1, Slice(fresh, 0, 1))
           \/ 0 + 1 > Len(fresh) /\ out' = Nothing
    BY DEF streambuf_cmd_ready, ReadStream
  <1>3. PICK c \in CodesOf(out'.data[1]) : decode' = [at |-> "deq", cmd |-> c]
    BY <1>2 DEF At
  <1>4. c \in Commands
    BY <1>3 DEF CodesOf
  <1>5. CallersOK'
    BY <1>1, <1>2, <1>3, <1>4 DEF CallersOK
  <1>6. StoreInv' /\ Spare' = Spare /\ (FreshInv => FreshInv')
    BY <1>1, <1>2, BufSame
  <1>7. (Sound' <=> Sound) /\ (Sound' => FreshInv')
    BY <1>2, <1>6 DEF Sound, IndInv, history
  <1>8. StaleInv'
    BY <1>1, <1>2, <1>3, <1>6 DEF StaleInv, Held
  <1>9. ASSUME Sound PROVE fresh[1].kind = c
    <2>1. Len(fresh) >= 1 /\ CodesOf(fresh[1]) = {fresh[1].kind}
      BY <1>1, <1>2, <1>9, NextIsThere DEF IndInv
    <2>2. out' = Result(1, Slice(fresh, 0, 1))
      BY <1>1, <1>2, <2>1
    <2>3. Slice(fresh, 0, 1) = SubSeq(fresh, 1, 1)
      BY DEF Slice
    <2>4. SubSeq(fresh, 1, 1)[1] = fresh[1]
      <3>1. \A i \in 1 .. 1 : fresh[i] \in Byte
        BY <1>1, <2>1, ElementOfSeq
      <3>2. \A i \in 1 .. 1 - 1 + 1 : SubSeq(fresh, 1, 1)[i] = fresh[1 + i - 1]
        BY <3>1, SubSeqProperties
      <3> QED BY <3>2
    <2>5. out'.data[1] = fresh[1]
      BY <2>2, <2>3, <2>4 DEF Result
    <2> QED BY <1>3, <2>1, <2>5
  <1>10. CmdIsNext'
    BY <1>2 DEF CmdIsNext, counters
  <1>11. CmdInv'
    <2>1. Flushing' => cmd_cnt' = 0
      BY <1>1, <1>2 DEF CmdInv, Flushing, counters
    <2>2. Sound' => (fresh[1].kind = decode.cmd)'
      BY <1>2, <1>3, <1>7, <1>9
    <2> QED BY <1>10, <2>1, <2>2 DEF CmdInv
  <1> QED BY <1>1, <1>2, <1>5, <1>6, <1>7, <1>8, <1>11 DEF IndInv, Refines

(* The command is dequeued, or nothing is. *)
LEMMA CmdTaken ==
  ASSUME IndInv, cmd_deq
  PROVE  IndInv' /\ Refines
  <1> DEFINE c == decode.cmd
             z == CmdSize[c]
  <1>1. /\ StoreInv /\ CallersOK /\ CmdInv /\ StaleInv /\ halted # "spin" /\ cmd_cnt \in Nat
        /\ Len(stale) \in Nat /\ Len(fresh) \in Nat /\ c \in Commands
    BY StoreFacts DEF IndInv, CallersOK
  <1>2. /\ decode.at = "deq" /\ streambuf_cmd_deq(z)
        /\ decode' = IF dslot' = dslot THEN Loop ELSE At("discard", c)
        /\ torn' = (torn \/ (gone /\ dslot' # dslot))
        /\ UNCHANGED <<streaming, decode_state, decode_mqueue, player, open, track, halted, lapped>>
    BY DEF cmd_deq
  <1>3. z \in 1 .. 2 /\ Len(Encode(c)) = z /\ Encode(c) \in Seq(Byte)
    BY <1>1, EncodeProperties
  <1>4. /\ StoreInv' /\ Spare' = Spare
        /\ \/ /\ CmdIsNext /\ dslot' # dslot /\ cmd_cnt' = cmd_cnt - 1
              /\ Len(stale') = Len(stale) + z
           \/ UNCHANGED <<buffer_state, got>>
        /\ FreshInv /\ CmdIsNext /\ fresh[1].kind = c =>
              /\ FreshInv'
              /\ z <= Len(fresh)
              /\ \A i \in 1 .. z : fresh[i] = Encode(c)[i]
              /\ got' = SubSeq(fresh, 1, z)
              /\ fresh' = SubSeq(fresh, z + 1, Len(fresh))
    BY <1>1, <1>2, CmdDeq
  <1> HIDE DEF c, z
  <1>5. CASE UNCHANGED <<buffer_state, got>>
    <2>1. decode' = Loop /\ UNCHANGED <<stale, fresh, counters>> /\ got' = got
      BY <1>2, <1>5 DEF buffer_state, counters
    <2>2. CallersOK'
      BY <1>1, <1>2, <2>1 DEF CallersOK, Loop, Commands
    <2>3. (Sound' => Sound) /\ (FreshInv => FreshInv')
      <3>1. FreshInv => FreshInv'
        BY <1>1, <2>1, BufSame
      <3>2. Sound' => Sound
        BY <1>2 DEF Sound
      <3> QED BY <3>1, <3>2
    <2>4. StaleInv'
      BY <1>1, <1>2, <1>4, <2>1 DEF StaleInv, Held, Loop
    <2>5. CmdInv'
      BY <1>1, <1>2, <2>1 DEF CmdInv, Flushing, Loop, counters
    <2> QED BY <1>1, <1>2, <1>4, <2>1, <2>2, <2>3, <2>4, <2>5 DEF IndInv, Refines
  <1>6. CASE /\ CmdIsNext /\ dslot' # dslot /\ cmd_cnt' = cmd_cnt - 1
             /\ Len(stale') = Len(stale) + z
    <2>1. decode' = [at |-> "discard", cmd |-> c]
      BY <1>2, <1>6 DEF At
    <2>2. CallersOK'
      BY <1>1, <1>2, <2>1 DEF CallersOK
    <2>3. StaleInv'
      <3>1. Held("discard", c, Len(stale) + z) = Len(stale)
        BY <1>1, HeldFacts DEF z
      <3>2. Len(stale) <= Spare
        BY <1>1, <1>2 DEF StaleInv, Held
      <3> QED BY <1>4, <1>6, <2>1, <3>1, <3>2 DEF StaleInv
    <2>4. CmdInv'
      BY <1>1, <1>2, <1>6, <2>1 DEF CmdInv, CmdIsNext, Flushing
    <2>5. ASSUME Sound' PROVE FreshInv' /\ C!NextCommands
      <3>1. Sound /\ ~gone
        BY <1>2, <1>6, <2>5 DEF Sound
      <3>2. FreshInv /\ CmdIsNext /\ fresh[1].kind = c
        BY <1>1, <1>2, <3>1 DEF IndInv, CmdInv, c
      <3>3. /\ FreshInv' /\ z <= Len(fresh)
            /\ \A i \in 1 .. z : fresh[i] = Encode(c)[i]
            /\ got' = SubSeq(fresh, 1, z) /\ fresh' = SubSeq(fresh, z + 1, Len(fresh))
        BY <1>4, <3>2
      <3>4. C!IsPrefix(Encode(c), fresh)
        <4>1. SubSeq(Encode(c), 1, z) = SubSeq(fresh, 1, z)
          BY <1>3, <3>3
        <4> QED BY <1>3, <3>3, <4>1 DEF C!IsPrefix
      <3>5. C!Take(Len(Encode(c)))
        BY <1>3, <3>3 DEF C!Take
      <3>6. Encode(c) \in {Encode(q) : q \in Commands}
        BY <1>1
      <3>7. C!TakeCommand
        BY <3>4, <3>5, <3>6 DEF C!TakeCommand
      <3> QED BY <3>3, <3>7 DEF C!NextCommands
    <2> QED BY <1>1, <1>2, <1>4, <2>2, <2>3, <2>4, <2>5 DEF IndInv, Refines
  <1> QED BY <1>4, <1>5, <1>6

(* The bytes of the command are discarded. *)
LEMMA CmdDiscarded ==
  ASSUME IndInv, cmd_discard
  PROVE  IndInv' /\ Refines
  <1> DEFINE z == CmdSize[decode.cmd]
             k == IF z < Len(stale) THEN z ELSE Len(stale)
  <1>1. /\ StoreInv /\ CallersOK /\ CmdInv /\ StaleInv /\ halted # "spin" /\ Spare \in Int
        /\ Len(stale) \in Nat /\ decode.cmd \in Commands
    BY StoreFacts DEF IndInv, CallersOK
  <1>2. /\ decode.at = "discard" /\ streambuf_discard(z, FALSE)
        /\ decode' = [at |-> "relay", cmd |-> decode.cmd]
        /\ UNCHANGED <<streaming, decode_state, decode_mqueue, player, open, got, track, history>>
    BY DEF cmd_discard, At
  <1>3. z \in 1 .. 2 /\ z \in Nat
    BY <1>1, EncodeProperties
  <1>4. Held("discard", decode.cmd, Len(stale)) = Len(stale) - k
    BY <1>1, HeldFacts
  <1>5. Len(stale) - k <= Spare /\ Len(stale) - k \in Nat
    <2>1. Len(stale) - k \in Nat
      <3> HIDE DEF z
      <3> QED BY <1>1, <1>3
    <2> QED BY <1>1, <1>2, <1>4, <2>1 DEF StaleInv
  <1>6. 0 <= Spare
    <2> HIDE DEF k
    <2> QED BY <1>1, <1>5
  <1> HIDE DEF z
  <1>7. /\ StoreInv' /\ Spare' = Spare - 0 /\ Len(stale') = Len(stale) - k
        /\ UNCHANGED <<fresh, cmd_cnt, dslot, slot_cnt, halted>>
        /\ FreshInv => FreshInv'
    BY <1>1, <1>2, <1>3, <1>6, Discard
  <1>8. CallersOK'
    BY <1>1, <1>2 DEF CallersOK
  <1>9. StaleInv'
    <2>1. Held("relay", decode.cmd, Len(stale')) = Len(stale')
      BY DEF Held
    <2> QED BY <1>1, <1>2, <1>5, <1>7, <2>1 DEF StaleInv
  <1>10. CmdInv' /\ (Sound' => Sound)
    BY <1>1, <1>2, <1>7 DEF CmdInv, Flushing, Sound, history
  <1> QED BY <1>1, <1>2, <1>7, <1>8, <1>9, <1>10 DEF IndInv, Refines

(* The decoder reads. *)
LEMMA DecoderReads ==
  ASSUME IndInv, NEW max \in 1 .. 2, decoder_read(max)
  PROVE  IndInv' /\ Refines
  <1>1. /\ StoreInv /\ CallersOK /\ CmdInv /\ StaleInv /\ halted # "spin" /\ Spare \in Int
        /\ Len(stale) \in Nat /\ Len(fresh) \in Nat /\ slot_cnt[dslot] \in Nat
        /\ decode.cmd \in Commands
    BY StoreFacts DEF IndInv, CallersOK
  <1>2. /\ decode.at = "look" /\ streambuf_data_deq(max)
        /\ decode' = At(IF slot_cnt[dslot] = 0 THEN "underrun" ELSE "consume", "START")
        /\ UNCHANGED <<streaming, decode_state, decode_mqueue, player, open, track, halted, history>>
    BY DEF decoder_read
  <1>3. PICK size \in 0 .. slot_cnt[dslot] :
          /\ StoreInv' /\ Spare' = Spare + size /\ Len(stale') <= Len(stale) + size
          /\ cmd_cnt' = cmd_cnt
          /\ FreshInv =>
               /\ FreshInv'
               /\ \/ size = 0 /\ UNCHANGED <<fresh, got>>
                  \/ /\ size > 0
                     /\ got' = SubSeq(fresh, 1, size)
                     /\ fresh' = SubSeq(fresh, size + 1, Len(fresh))
    BY <1>1, <1>2, DataDeq
  <1>4. /\ decode' \in [at : {"underrun", "consume"}, cmd : Commands]
        /\ decode'.at \in {"underrun", "consume"}
    BY <1>2 DEF At, Commands
  <1>5. CallersOK'
    BY <1>1, <1>2, <1>4 DEF CallersOK
  <1>6. StaleInv'
    <2>1. Len(stale) <= Spare
      BY <1>1, <1>2 DEF StaleInv, Held
    <2>2. Len(stale') \in Nat
      BY <1>3 DEF StoreInv, BufOK
    <2>3. Len(stale') <= Spare'
      BY <1>1, <1>3, <2>1, <2>2
    <2> QED BY <1>4, <2>3 DEF StaleInv, Held
  <1>7. CmdInv' /\ (Sound' => Sound)
    BY <1>1, <1>2, <1>3, <1>4 DEF CmdInv, Flushing, Sound, history
  <1>8. ASSUME Sound PROVE FreshInv' /\ [C!NextCommands]_<<fresh, got>>
    <2>1. FreshInv
      BY <1>8 DEF IndInv
    <2>2. CASE size > 0
      <3>1. C!Take(size)
        BY <1>3, <2>1, <2>2 DEF C!Take
      <3>2. size \in 1 .. C!DataPrefix
        BY <1>1, <2>1, <2>2, DataPrefixIsCounted
      <3> QED BY <1>3, <2>1, <3>1, <3>2 DEF C!NextCommands, C!TakeData
    <2>3. CASE ~(size > 0)
      BY <1>3, <2>1, <2>3
    <2> QED BY <2>2, <2>3
  <1> QED BY <1>1, <1>2, <1>3, <1>5, <1>6, <1>7, <1>8 DEF IndInv, Refines

(* The decoder discards. *)
LEMMA DecoderDiscards ==
  ASSUME IndInv, NEW size \in 0 .. Capacity, decoder_discard(size)
  PROVE  IndInv' /\ Refines
  <1> DEFINE k == IF size < Len(stale) THEN size ELSE Len(stale)
  <1>1. /\ StoreInv /\ CallersOK /\ CmdInv /\ StaleInv /\ halted # "spin" /\ Spare \in Int
        /\ Len(stale) \in Nat
    BY StoreFacts DEF IndInv
  <1>2. /\ decode.at = "consume" /\ streambuf_discard(size, TRUE) /\ decode' = Loop
        /\ UNCHANGED <<streaming, decode_mqueue, player, open, got, track, history>>
        /\ decode_state' \in DecodeStates
    BY DEF decoder_discard, DecodeStates
  <1>3. size \in Nat /\ k \in Nat /\ k <= Len(stale)
    BY <1>1, StreamBufAssumption
  <1>4. Len(stale) <= Spare
    BY <1>1, <1>2 DEF StaleInv, Held
  <1>5. k <= Spare
    <2> HIDE DEF k
    <2> QED BY <1>1, <1>3, <1>4
  <1>6. /\ StoreInv' /\ Spare' = Spare - k /\ Len(stale') = Len(stale) - k
        /\ UNCHANGED <<fresh, cmd_cnt, dslot, slot_cnt, halted>>
        /\ FreshInv => FreshInv'
    BY <1>1, <1>2, <1>3, <1>5, Discard
  <1> HIDE DEF k
  <1>7. CallersOK'
    BY <1>1, <1>2 DEF CallersOK, Loop, Commands
  <1>8. StaleInv'
    <2>1. Held("loop", Loop.cmd, Len(stale')) = Len(stale')
      BY DEF Held
    <2>2. Len(stale') <= Spare'
      BY <1>1, <1>3, <1>4, <1>6
    <2> QED BY <1>2, <2>1, <2>2 DEF StaleInv, Loop
  <1>9. CmdInv' /\ (Sound' => Sound)
    BY <1>1, <1>2, <1>6 DEF CmdInv, Flushing, Sound, Loop, history
  <1> QED BY <1>1, <1>2, <1>6, <1>7, <1>8, <1>9 DEF IndInv, Refines

(* A message is handled. *)
LEMMA MessageHandled ==
  ASSUME IndInv, NEW m \in Messages, Takes(m), streaming' \in BOOLEAN, decode_state' \in DecodeStates,
         player' = player \/ player' = "idle"
  PROVE  IndInv' /\ Refines
  <1>1. /\ UNCHANGED <<stale, fresh, counters>> /\ UNCHANGED history /\ got' = got
        /\ decode' = decode /\ halted' = halted /\ UNCHANGED <<open, track>>
        /\ decode_mqueue # << >> /\ decode_mqueue' = Tail(decode_mqueue)
    BY DEF Takes, buffer_state
  <1>2. decode_mqueue' \in Seq(Messages)
    BY <1>1 DEF IndInv, CallersOK
  <1>3. CallersOK'
    BY <1>1, <1>2 DEF IndInv, CallersOK
  <1>4. Flushing' => Flushing
    BY DEF Flushing
  <1>5. halted' # "spin"
    BY <1>1 DEF IndInv
  <1> QED BY <1>1, <1>3, <1>4, <1>5, CallerStep

(* The decode thread's steps. *)
LEMMA DecodeSteps ==
  ASSUME IndInv, DecodeStep
  PROVE  IndInv' /\ Refines
  <1>1. CallersOK /\ halted # "spin"
    BY DEF IndInv
  <1>2. CASE \/ decode_start_handler \/ decode_resume_decoder_handler \/ decode_st_end_handler
             \/ decode_stop_handler \/ decode_flush_handler
    <2>1. PICK m \in Messages :
            /\ Takes(m) /\ streaming' \in BOOLEAN /\ decode_state' \in DecodeStates
            /\ player' = player \/ player' = "idle"
      BY <1>1, <1>2 DEF decode_start_handler, decode_resume_decoder_handler, decode_st_end_handler,
           decode_stop_handler, decode_flush_handler, Messages, Commands, DecodeStates, CallersOK
    <2> QED BY <2>1, MessageHandled
  <1>3. CASE mqueue_read_timeout \/ decode_nothing \/ decoder_underrun
    <2>1. /\ UNCHANGED <<stale, fresh, counters>> /\ UNCHANGED history /\ got' = got
          /\ halted' = halted /\ player' = player
          /\ UNCHANGED <<streaming, decode_mqueue, open, track>>
          /\ decode' \in {At("look", "START"), Loop} /\ decode.at \in {"loop", "look", "underrun"}
          /\ decode_state' \in DecodeStates
      BY <1>1, <1>3 DEF mqueue_read_timeout, decode_nothing, decoder_underrun, buffer_state,
           DecodeStates, CallersOK
    <2>2. CallersOK' /\ decode'.at # "discard" /\ decode'.at # "deq"
      BY <1>1, <2>1 DEF CallersOK, At, Loop, Commands
    <2>3. Flushing' => Flushing
      BY <2>1 DEF Flushing
    <2> QED BY <1>1, <2>1, <2>2, <2>3, CallerStep
  <1>4. CASE mqueue_write_request
    <2>1. /\ UNCHANGED <<stale, fresh, counters>> /\ UNCHANGED history /\ got' = got
          /\ halted' \in {halted, "assert"} /\ player' = player
          /\ UNCHANGED <<streaming, decode_state, open, track>>
          /\ decode' = Loop /\ decode.at = "relay"
          /\ decode_mqueue' \in {decode_mqueue, Append(decode_mqueue, decode.cmd)}
      BY <1>4 DEF mqueue_write_request, buffer_state, Post
    <2>2. decode_mqueue' \in Seq(Messages)
      BY <1>1, <2>1 DEF CallersOK, Messages
    <2>3. CallersOK' /\ decode'.at # "discard" /\ decode'.at # "deq"
      BY <1>1, <2>1, <2>2 DEF CallersOK, Loop, Commands
    <2>4. (Flushing' => Flushing) /\ halted' # "spin"
      BY <1>1, <2>1 DEF Flushing
    <2> QED BY <2>1, <2>3, <2>4, CallerStep
  <1> QED BY <1>2, <1>3, <1>4, CmdReady, CmdTaken, CmdDiscarded, DecoderReads, DecoderDiscards
          DEF DecodeStep
-----------------------------------------------------------------------------
(* The invariant holds initially, when nothing is in the stream. *)
LEMMA InitInv ==
  ASSUME Init
  PROVE  IndInv /\ C!InitCommands
  <1>1. /\ Empty /\ streaming = FALSE /\ decode_state = "zero" /\ player = "idle"
        /\ decode_mqueue = << >> /\ open = FALSE
        /\ decode = Loop /\ got = << >> /\ track = 0 /\ halted = "no"
    BY DEF Init, InitStream, Empty
  <1>2. StoreInv /\ FreshInv /\ Spare = 0 /\ Len(stale) = 0
    BY <1>1, EmptyIsFramed
  <1>3. CallersOK
    <2>1. << >> \in Seq(Messages)
      BY EmptySeq
    <2>2. Loop \in [at : {"loop", "look", "deq", "discard", "relay", "consume", "underrun"},
                    cmd : Commands]
      BY DEF Loop, Commands
    <2> QED BY <1>1, <2>1, <2>2 DEF CallersOK, DecodeStates
  <1>4. CmdInv
    BY <1>1 DEF CmdInv, Empty, Loop
  <1>5. StaleInv
    BY <1>1, <1>2 DEF StaleInv, Held, Loop
  <1>6. C!InitCommands
    BY <1>1 DEF C!InitCommands, Empty
  <1> QED BY <1>1, <1>2, <1>3, <1>4, <1>5, <1>6 DEF IndInv

(* Every step keeps the invariant, and in a framed stream it is a step of    *)
(* CommandStream or leaves its variables alone.                              *)
LEMMA NextInv ==
  ASSUME IndInv, [Next]_vars
  PROVE  IndInv' /\ Refines
  <1>1. CASE Next
    BY <1>1, PlayerSteps, DecodeSteps DEF Next
  <1>2. CASE UNCHANGED vars
    <2>1. /\ UNCHANGED <<stale, fresh, counters>> /\ UNCHANGED history /\ got' = got
          /\ UNCHANGED callers /\ halted' = halted /\ decode' = decode
      BY <1>2 DEF vars, buffer_state, callers
    <2>2. CallersOK' /\ (Flushing' => Flushing) /\ halted' # "spin"
      BY <2>1 DEF IndInv, CallersOK, Flushing, callers
    <2> QED BY <2>1, <2>2, CallerStep
  <1> QED BY <1>1, <1>2
-----------------------------------------------------------------------------
(* The invariant holds in every reachable state of the stream buffer. *)
THEOREM Inductive == Spec => []IndInv
  <1>1. Init => IndInv
    BY InitInv
  <1>2. IndInv /\ [Next]_vars => IndInv'
    BY NextInv
  <1> QED BY <1>1, <1>2, PTL DEF Spec

(* The slot indices and the stale counter of streambuf.c stay within their   *)
(* arrays and no counter goes below zero, whatever the player and the decode *)
(* thread do, lapped or torn, for every number of slots and every size of    *)
(* the ring.                                                                 *)
THEOREM TypeCorrect == Spec => []TypeOK
  <1>1. IndInv => TypeOK
    BY DEF IndInv, StoreInv, BufOK, CallersOK, TypeOK, Slots
  <1> QED BY <1>1, Inductive, PTL

(* The loop of streambuf_dec_cnt_stale ends in every call: no discard asks   *)
(* for more bytes than the stale counters hold, even when the counters no    *)
(* longer frame the stream.                                                  *)
THEOREM DiscardEndsAlways == Spec => []DiscardEnds
  <1>1. IndInv => DiscardEnds
    BY DEF IndInv, DiscardEnds
  <1> QED BY <1>1, Inductive, PTL

(* The slots of the undiscarded data never lap each other; those of the      *)
(* unread data do not while the stream is neither lapped nor torn.           *)
THEOREM SlotsDoNotLapAlways == Spec => []SlotsDoNotLap
  <1>1. IndInv => SlotsDoNotLap
    BY DEF IndInv, StoreInv, FreshInv, Sound, SlotsDoNotLap
  <1> QED BY <1>1, Inductive, PTL

(* The stream buffer implements the stream of commands: the decode thread is *)
(* given whole commands in order and never reads past one, although which    *)
(* bytes are commands is only in the counters.  Between a lap or a torn      *)
(* command and the next flush nothing is said, and nothing can be.           *)
THEOREM CommandStreamImplemented == Spec => ImplementsCommandStream
  <1>1. Init => C!InitCommands
    BY InitInv
  <1>2. IndInv /\ [Next]_vars => [~lapped' /\ ~torn' => C!NextCommands]_(C!commandVars)
    BY NextInv DEF Refines, Sound, C!commandVars
  <1> QED BY <1>1, <1>2, Inductive, PTL DEF Spec, ImplementsCommandStream
=============================================================================
