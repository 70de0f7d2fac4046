---------------------------- MODULE CommandStream ----------------------------
(* What lib/audio/streambuf.c promises the decode thread: one stream in      *)
(* which commands for the decoder travel between the bytes they apply to.    *)
(* A read never crosses a command, a command is taken whole, once, and only  *)
(* when every byte in front of it has been read.  "got" is what the reader   *)
(* received last.                                                            *)
EXTENDS Integers, Sequences, SequencesExt

CONSTANTS Encodings,     \* the commands, each as the bytes that make it up
          DataBytes      \* the bytes of a track

VARIABLES bytes, got

commandVars == <<bytes, got>>

\* How many bytes can be read before the next command, or the end.
DataPrefix == CHOOSE n \in 0 .. Len(bytes) :
                /\ \A i \in 1 .. n : bytes[i] \in DataBytes
                /\ n < Len(bytes) => bytes[n + 1] \notin DataBytes

InitCommands == bytes = << >> /\ got = << >>

Put(buf) == bytes' = bytes \o buf /\ UNCHANGED got

Take(n) ==
  /\ got' = SubSeq(bytes, 1, n)
  /\ bytes' = SubSeq(bytes, n + 1, Len(bytes))

TakeData == \E n \in 1 .. DataPrefix : Take(n)

TakeCommand == \E c \in Encodings : IsPrefix(c, bytes) /\ Take(Len(c))

Drop == bytes' = << >> /\ UNCHANGED got

NextCommands ==
  \/ \E b \in DataBytes : Put(<<b>>)
  \/ \E c \in Encodings : Put(c)
  \/ TakeData
  \/ TakeCommand
  \/ Drop

SpecCommands == InitCommands /\ [][NextCommands]_commandVars
=============================================================================
