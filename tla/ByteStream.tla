----------------------------- MODULE ByteStream -----------------------------
(* What lib/audio/fifo2.c promises its caller: a bounded stream of bytes     *)
(* with two ends to its read side.  "fresh" are the bytes not yet read;      *)
(* "stale" are bytes already read which the reader has not discarded, and    *)
(* which still take up space.  There are no pointers and no wrap around.     *)
(* "out" is what the last call handed back: the size it returned and the     *)
(* bytes it copied to the caller's buffer.                                   *)
EXTENDS Integers, Sequences, FiniteSets

CONSTANTS Capacity,   \* how many bytes the stream holds, read or not
          Bufs,       \* the buffers a caller may enqueue
          Sizes       \* the sizes and offsets a caller may ask for

VARIABLES stale, fresh, out

streamVars == <<stale, fresh, out>>

Result(n, data) == [ret |-> n, data |-> data]
Nothing == Result(0, << >>)

Free == Capacity - (Len(stale) + Len(fresh))

Slice(s, from, n) == SubSeq(s, from + 1, from + n)

InitStream ==
  /\ stale = << >>
  /\ fresh = << >>
  /\ out = Nothing

\* All of buf or, when it does not fit, none of it.
EnqStream(buf) ==
  /\ UNCHANGED stale
  /\ \/ /\ Len(buf) <= Free
        /\ fresh' = fresh \o buf
        /\ out' = Result(Len(buf), << >>)
     \/ /\ Len(buf) > Free
        /\ out' = Nothing
        /\ UNCHANGED fresh

\* Exactly n fresh bytes, which become stale, or nothing.
DeqStream(n, autoDiscard) ==
  \/ /\ n <= Len(fresh)
     /\ out' = Result(n, Slice(fresh, 0, n))
     /\ fresh' = Slice(fresh, n, Len(fresh) - n)
     /\ stale' = IF autoDiscard THEN << >> ELSE stale \o Slice(fresh, 0, n)
  \/ /\ n > Len(fresh)
     /\ out' = Nothing
     /\ UNCHANGED <<stale, fresh>>

\* A look at n bytes, offset bytes after the first stale or fresh one.
ReadStream(offset, n, fromStale) ==
  LET bytes == IF fromStale THEN stale \o fresh ELSE fresh
  IN  /\ UNCHANGED <<stale, fresh>>
      /\ \/ /\ offset + n <= Len(bytes)
            /\ out' = Result(n, Slice(bytes, offset, n))
         \/ /\ offset + n > Len(bytes)
            /\ out' = Nothing

\* The oldest n stale bytes go, or all of them when there are fewer.
DiscardStream(n) ==
  LET k == IF n < Len(stale) THEN n ELSE Len(stale)
  IN  /\ stale' = Slice(stale, k, Len(stale) - k)
      /\ out' = Result(k, << >>)
      /\ UNCHANGED fresh

FlushStream ==
  /\ stale' = << >>
  /\ fresh' = << >>
  /\ UNCHANGED out

NextStream ==
  \/ \E buf \in Bufs : EnqStream(buf)
  \/ \E n \in Sizes, autoDiscard \in BOOLEAN : DeqStream(n, autoDiscard)
  \/ \E offset, n \in Sizes, fromStale \in BOOLEAN : ReadStream(offset, n, fromStale)
  \/ \E n \in Sizes : DiscardStream(n)
  \/ FlushStream

SpecStream == InitStream /\ [][NextStream]_streamVars
=============================================================================
